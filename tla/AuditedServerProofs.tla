-------------------------- MODULE AuditedServerProofs --------------------------
(***************************************************************************)
(* What the audit log says of the keys, for any number of keys, workers    *)
(* and requests and every capacity of the channel: it is never ahead of    *)
(* the table, and it explains the state of every key about which no entry  *)
(* was lost.                                                               *)
(*                                                                         *)
(* KeyServerProofs gives IInv and what a step can do to a row.  Here a     *)
(* step is looked at from its worker (Outcome): which reply it leads to    *)
(* and which state change that reply accounts for.  Then entries are       *)
(* followed from the reply through the channel into the table.             *)
(***************************************************************************)
EXTENDS AuditedServer, KeyServerProofs

(* The requests that change the state of a key. *)
Changers == Activations \cup Revocations \cup Destructions

(* A worker with a success in hand has seen to the state it reports; one    *)
(* that is about to insert a derived key has seen its source, one that is   *)
(* to rekey has seen an active key, and one that is about to write an       *)
(* attribute reports no change of state and no rekey.                       *)
Sees(p) ==
  /\ p.pc \in {"setAttribute", "deleteAttribute"} => p.op \notin Changers \cup Rekeys
  /\ p.pc \in {"rekeyGet", "rekeyUpdate"} => keys[p.uid].state \in After("ReKey")
  /\ p.pc = "insertDerived" => p.uid \in Uids /\ keys[p.uid].state # Absent
  /\ p.pc = "done" /\ p.out = "success" /\ p.uid \in Uids => Shows(p.uid, p.op)

(* The reply in hand of worker p accounts for state s of key u. *)
Accounts(p, u, s) ==
  p.pc = "done" /\ p.out = "success" /\ p.uid = u /\ p.op \in LeadsTo(s)

(* What a step of worker w before its response does. *)
Outcome(w) ==
  /\ proc[w].pc # "done"
  /\ \A x \in Workers : x # w => proc'[x] = proc[x]
  /\ Sees(proc[w])'
  /\ \A u \in Uids : \/ keys'[u].state \in {keys[u].state, PreActive}
                     \/ Accounts(proc'[w], u, keys'[u].state)

-----------------------------------------------------------------------------
(* The states are different, and the sets of operations are disjoint. *)
LEMMA StateNumbers ==
  /\ PreActive \notin {Active, Compromised, Destroyed, Absent}
  /\ Active \notin {Compromised, Destroyed, Absent}
  /\ Compromised \notin {Destroyed, Absent}
  /\ Destroyed # Absent
  /\ {PreActive, Active, Compromised, Destroyed} \subseteq KeyState
  /\ Absent \notin KeyState
  BY DEF PreActive, Active, Compromised, Destroyed, Absent, KeyState, Deactivated,
         DestroyedCompromised, Archived

(* After, case by case. *)
LEMMA AfterFacts ==
  /\ \A op \in Destructions : After(op) = {Destroyed}
  /\ \A op \in Activations \cup Revocations \cup Rekeys :
       After(op) = {Active, Compromised, Destroyed}
  /\ \A op : op \notin Changers \cup Rekeys => After(op) = KeyState
  /\ Changers \cap Rekeys = {}
  <1>1. Destructions \cap (Activations \cup Revocations \cup Rekeys) = {}
    BY DEF Destructions, Activations, Revocations, Rekeys
  <1>2. Changers \cap Rekeys = {}
    BY DEF Changers, Destructions, Activations, Revocations, Rekeys
  <1>. QED  BY <1>1, <1>2 DEF After, Changers

(* LeadsTo, case by case. *)
LEMMA LeadsToFacts ==
  /\ LeadsTo(Active) = Activations
  /\ LeadsTo(Compromised) = Revocations
  /\ LeadsTo(Destroyed) = Destructions
  BY StateNumbers DEF LeadsTo

(* What is true of a key after an operation stays true. *)
LEMMA ShownIsStable ==
  ASSUME IInv, TableStep, NEW u \in Uids, NEW op, keys[u].state \in After(op)
  PROVE  /\ keys'[u].state \in After(op)
         /\ keys[u].ver > 1 \/ keys[u].state = Destroyed =>
              keys'[u].ver > 1 \/ keys'[u].state = Destroyed
  <1>1. CASE keys'[u] = keys[u]
    BY <1>1
  <1>2. ASSUME RowChange(u)
        PROVE  /\ keys'[u].state \in After(op)
               /\ keys[u].ver > 1 \/ keys[u].state = Destroyed =>
                    keys'[u].ver > 1 \/ keys'[u].state = Destroyed
    <2>1. /\ keys[u].state # Absent
          /\ keys[u].state \in Live => op \notin Destructions
          /\ keys[u].state = PreActive => op \notin Changers \cup Rekeys
      BY AfterFacts, StateNumbers DEF Live, Changers
    <2>2. /\ keys[u].state \in Live
          /\ keys'[u].state \in {keys[u].state, Active, Compromised, Destroyed}
          /\ keys'[u].ver = keys[u].ver \/ keys'[u].ver > 1
      BY <1>2, <2>1 DEF RowChange
    <2>3. keys[u].state # Destroyed
      BY <2>2, StateNumbers DEF Live
    <2>4. CASE op \in Activations \cup Revocations \cup Rekeys
      BY <2>2, <2>3, <2>4, AfterFacts
    <2>5. CASE op \notin Changers \cup Rekeys
      BY <2>2, <2>3, <2>5, AfterFacts, StateNumbers
    <2>. QED  BY <2>1, <2>2, <2>4, <2>5 DEF Changers
  <1>3. ASSUME NEW v \in Uids, v # u, RowChange(v)
        PROVE  keys'[u] = keys[u]
    BY <1>3 DEF RowChange, IInv, TypeOK
  <1>. QED  BY <1>1, <1>2, <1>3 DEF TableStep

-----------------------------------------------------------------------------
(* Where the row of a reply is, its state is one of the four that occur. *)
LEMMA RowState ==
  ASSUME IInv, NEW u \in Uids, keys[u].state # Absent
  PROVE  keys[u].state \in KeyState
  BY DEF IInv, TypeOK, Row

(* A refusal or a failed statement. *)
LEMMA FailureOutcome ==
  ASSUME IInv, NEW w \in Workers, proc[w].pc # "done", NEW op, NEW u, NEW wrote,
         Return(w, op, u, wrote, "failure"), UNCHANGED keys
  PROVE  Outcome(w)
  <1>1. /\ proc'[w].pc = "done" /\ proc'[w].out = "failure"
        /\ \A x \in Workers : x # w => proc'[x] = proc[x]
    BY DEF IInv, TypeOK, Return
  <1>. QED  BY <1>1 DEF Outcome, Sees

(* A statement after which the handler goes on. *)
LEMMA GotoOutcome ==
  ASSUME IInv, NEW w \in Workers, proc[w].pc # "done", NEW pc, NEW op, NEW u, NEW len,
         NEW ver, NEW wrote, Goto(w, pc, op, u, len, ver, wrote),
         pc # "done", pc \in {"setAttribute", "deleteAttribute"} => op \notin Changers \cup Rekeys,
         pc \in {"rekeyGet", "rekeyUpdate"} => keys'[u].state \in After("ReKey"),
         pc = "insertDerived" => u \in Uids /\ keys'[u].state # Absent,
         \A v \in Uids : keys'[v].state \in {keys[v].state, PreActive}
  PROVE  Outcome(w)
  <1>1. /\ proc'[w].pc = pc /\ proc'[w].uid = u /\ proc'[w].op = op
        /\ \A x \in Workers : x # w => proc'[x] = proc[x]
    BY DEF IInv, TypeOK, Goto
  <1>. QED  BY <1>1 DEF Outcome, Sees

(* A success that changed the state of no key that was there before, and    *)
(* whose row shows it.                                                      *)
LEMMA ReplyOutcome ==
  ASSUME IInv, NEW w \in Workers, proc[w].pc # "done", NEW op, NEW u,
         NEW wrote, Return(w, op, u, wrote, "success"),
         u \in Uids => /\ keys'[u].state \in After(op)
                       /\ op \in Rekeys => keys'[u].ver > 1 \/ keys'[u].state = Destroyed,
         \A v \in Uids : keys'[v].state \in {keys[v].state, PreActive}
  PROVE  Outcome(w)
  <1>1. /\ proc'[w].pc = "done" /\ proc'[w].uid = u /\ proc'[w].op = op
        /\ \A x \in Workers : x # w => proc'[x] = proc[x]
    BY DEF IInv, TypeOK, Return
  <1>. QED  BY <1>1 DEF Outcome, Sees, Shows

(* In particular a success of a request that neither changes nor rekeys.    *)
LEMMA SuccessOutcome ==
  ASSUME IInv, IInv', NEW w \in Workers, proc[w].pc # "done",
         NEW op, op \notin Changers \cup Rekeys, NEW u,
         NEW wrote, Return(w, op, u, wrote, "success"),
         u \in Uids => keys'[u].state # Absent,
         \A v \in Uids : keys'[v].state \in {keys[v].state, PreActive}
  PROVE  Outcome(w)
  <1>1. u \in Uids => keys'[u].state \in After(op)
    BY AfterFacts DEF IInv, TypeOK, Row
  <1>. QED  BY <1>1, ReplyOutcome

(* What an insert leaves. *)
LEMMA InsertedRows ==
  ASSUME IInv, NEW u \in Uids, NEW type, NEW len, NEW bytes, NEW pair,
         Insert(u, type, len, bytes, pair)
  PROVE  /\ keys'[u].state # Absent
         /\ \A v \in Uids : keys'[v].state \in {keys[v].state, PreActive}
         /\ \A v \in Uids : keys[v].state # Absent => keys'[v].state # Absent
  <1>1. keys'[u].state = PreActive /\ \A v \in Uids : v # u => keys'[v] = keys[v]
    BY DEF Insert, IInv, TypeOK
  <1>. QED  BY <1>1, StateNumbers

(* A lifecycle UPDATE, by a request whose success accounts for the state it *)
(* stores.                                                                  *)
LEMMA UpdateOutcome ==
  ASSUME IInv, NEW w \in Workers, proc[w].pc # "done", NEW op, NEW u \in Uids,
         NEW stmt \in {"Activate", "Revoke", "Destroy"}, ExecUpdate(w, op, stmt, u),
         stmt = "Activate" => op \in Activations,
         stmt = "Revoke" => op \in Revocations,
         stmt = "Destroy" => op \in Destructions
  PROVE  Outcome(w)
  <1>1. CASE Refuse(w, op, u)
    BY <1>1, FailureOutcome DEF Refuse
  <1>2. CASE /\ keys' = [keys EXCEPT ![u] = Update(stmt, @)]
             /\ Return(w, op, u, TRUE, "success")
    <2>1. /\ proc'[w].pc = "done" /\ proc'[w].uid = u /\ proc'[w].op = op
          /\ proc'[w].out = "success"
          /\ \A x \in Workers : x # w => proc'[x] = proc[x]
      BY <1>2 DEF IInv, TypeOK, Return
    <2>2. keys'[u] = Update(stmt, keys[u]) /\ keys[u] \in Row
          /\ \A v \in Uids : v # u => keys'[v] = keys[v]
      BY <1>2 DEF IInv, TypeOK
    <2>3. /\ stmt = "Activate" => keys'[u].state = Active
          /\ stmt = "Revoke" => keys'[u].state = Compromised
          /\ stmt = "Destroy" => keys'[u].state = Destroyed
      BY <2>2 DEF Update, Activate, Revoke, Destroy, Row
    <2>4. op \in LeadsTo(keys'[u].state) /\ keys'[u].state \in After(op) /\ op \notin Rekeys
      BY <2>3, LeadsToFacts, AfterFacts DEF Changers
    <2>. QED  BY <2>1, <2>2, <2>4 DEF Outcome, Sees, Shows, Accounts
  <1>. QED  BY <1>1, <1>2 DEF ExecUpdate

(* The first statement of a request. *)
LEMMA ReceiveOutcome ==
  ASSUME IInv, NEW w \in Workers, Receive(w)
  PROVE  Outcome(w)
  <1>0. IInv' /\ proc[w].pc # "done"
    <2>1. proc[w].pc = "idle"
      BY DEF Receive, Begin, CheckThenAct, CheckActive, CheckExists, handleActivate, handleRevoke,
             handleDestroy, handleArchive, handleRecover, handleReKey, handleRekeyKey,
             handleAddAttribute, handleDeleteAttribute, handleActivateKey, handleRevokeKey,
             handleDestroyKey, handleCreate, handleCreateKey, handleDeriveKey, handleUnwrapKey,
             handleUploadCertificate, handleCreateKeyPair, RestCreateKeyPair, handleRegister
    <2>. QED  BY <2>1, ReceiveStep
  <1>1. ASSUME NEW op, NEW u, Refuse(w, op, u)
        PROVE  Outcome(w)
    BY <1>0, <1>1, FailureOutcome DEF Refuse
  <1>2. ASSUME NEW pc, NEW op, NEW u \in Uids, NEW len, Get(u), pc # "done",
               pc \in {"setAttribute", "deleteAttribute"} => op \notin Changers \cup Rekeys,
               pc \in {"rekeyGet", "rekeyUpdate"} => keys[u].state = Active,
               Goto(w, pc, op, u, len, 0, FALSE), UNCHANGED <<keys, attrs>>
        PROVE  Outcome(w)
    <2>1. pc \in {"rekeyGet", "rekeyUpdate"} => keys[u].state \in After("ReKey")
      BY <1>2, AfterFacts DEF Rekeys
    <2>. QED  BY <1>0, <1>2, <2>1, GotoOutcome DEF Get
  <1>3. ASSUME NEW op, op \notin Changers \cup Rekeys, NEW u \in Uids, NEW type, NEW len, NEW bytes,
               Insert(u, type, len, bytes, NoUid), Return(w, op, u, TRUE, "success")
        PROVE  Outcome(w)
    BY <1>0, <1>3, InsertedRows, SuccessOutcome
  <1>4. ASSUME NEW u \in Uids,
               \/ handleActivate(w, u) \/ handleRevoke(w, u) \/ handleDestroy(w, u)
               \/ handleArchive(w, u) \/ handleRecover(w, u)
               \/ handleReKey(w, u) \/ handleRekeyKey(w, u)
               \/ handleAddAttribute(w, u) \/ handleDeleteAttribute(w, u)
        PROVE  Outcome(w)
    <2>1. ASSUME NEW op, CheckThenAct(w, op, u)
          PROVE  Outcome(w)
      BY <1>1, <1>2, <2>1 DEF CheckThenAct
    <2>2. ASSUME NEW op, CheckActive(w, op, u)
          PROVE  Outcome(w)
      <3>1. validateStateTransition(keys[u].state, "ReKey") => keys[u].state = Active
        BY DEF validateStateTransition, AllowedStates
      <3>. QED  BY <1>1, <1>2, <2>2, <3>1 DEF CheckActive
    <2>3. ASSUME NEW op, op \notin Changers \cup Rekeys, NEW pc, pc # "done",
                 pc \notin {"rekeyGet", "rekeyUpdate"}, CheckExists(w, pc, op, u)
          PROVE  Outcome(w)
      BY <1>1, <1>2, <2>3 DEF CheckExists
    <2>. QED  BY <1>4, <2>1, <2>2, <2>3 DEF handleActivate, handleRevoke, handleDestroy,
                  handleArchive, handleRecover, handleReKey, handleRekeyKey, handleAddAttribute,
                  handleDeleteAttribute, Changers, Activations, Revocations, Destructions, Rekeys
  <1>5. ASSUME NEW u \in Uids,
               handleActivateKey(w, u) \/ handleRevokeKey(w, u) \/ handleDestroyKey(w, u)
        PROVE  Outcome(w)
    BY <1>0, <1>5, UpdateOutcome DEF handleActivateKey, handleRevokeKey, handleDestroyKey,
        Activations, Revocations, Destructions
  <1>6. ASSUME NEW u \in Uids, NEW len, handleDeriveKey(w, u, len) \/ handleUnwrapKey(w, u, len)
        PROVE  Outcome(w)
    BY <1>1, <1>2, <1>6 DEF handleDeriveKey, handleUnwrapKey
  <1>7. ASSUME NEW len, handleCreate(w, len) \/ handleCreateKey(w, len)
        PROVE  Outcome(w)
    BY <1>1, <1>3, <1>7 DEF handleCreate, handleCreateKey, Create, Changers, Activations,
        Revocations, Destructions, Rekeys
  <1>8. ASSUME NEW n, NEW o, handleUploadCertificate(w, n) \/ handleRegister(w, o)
        PROVE  Outcome(w)
    BY <1>1, <1>3, <1>8 DEF handleUploadCertificate, handleRegister, Register, Changers,
        Activations, Revocations, Destructions, Rekeys
  <1>9. ASSUME NEW len, NEW n, handleCreateKeyPair(w, len, n) \/ RestCreateKeyPair(w, len, n)
        PROVE  Outcome(w)
    <2>1. ASSUME NEW op, NEW k, RegisterPrivate(w, op, k, n)
          PROVE  Outcome(w)
      <3>1. CASE Refuse(w, op, NoUid)
        BY <1>1, <3>1
      <3>2. ASSUME NEW u \in Uids, NEW m, Insert(u, "PrivateKey", m, n, NoUid),
                   Goto(w, "insertPublic", op, u, m, 0, TRUE)
            PROVE  Outcome(w)
        BY <1>0, <3>2, InsertedRows, GotoOutcome
      <3>. QED  BY <2>1, <3>1, <3>2 DEF RegisterPrivate, Register
    <2>. QED  BY <1>9, <2>1 DEF handleCreateKeyPair, RestCreateKeyPair
  <1>. QED  BY <1>4, <1>5, <1>6, <1>7, <1>8, <1>9 DEF Receive

(* A later statement of a request. *)
LEMMA StatementOutcome ==
  ASSUME IInv, NEW w \in Workers, Sees(proc[w]), Statement(w)
  PROVE  Outcome(w)
  <1>0. IInv' /\ proc[w] \in Worker /\ Knows(proc[w])
    BY ProceedStep DEF IInv, TypeOK, Proceed
  <1>1. proc[w].pc # "done"
    BY DEF Statement, StoreUpdate, RekeyGet, RekeyUpdate, InsertDerived, SetCustomAttribute,
           DeleteCustomAttribute, RegisterPublic, RegisterUnwrapped
  <1>2. CASE Fail(w)
    BY <1>1, <1>2, FailureOutcome DEF Fail
  <1>. USE DEF Changers, Activations, Revocations, Destructions, Rekeys
  <1>3. CASE StoreUpdate(w)
    <2>1. proc[w].op \in {"Activate", "Revoke", "Destroy"} /\ proc[w].uid \in Uids
      BY <1>0, <1>3 DEF StoreUpdate, Knows
    <2>. QED  BY <1>1, <1>3, <2>1, UpdateOutcome DEF StoreUpdate
  <1>4. CASE RekeyGet(w)
    BY <1>1, <1>2, <1>4, GotoOutcome DEF RekeyGet, Sees
  <1>5. CASE RekeyUpdate(w)
    <2>. PICK q : q = proc[w]
      OBVIOUS
    <2>1. /\ q.uid \in Uids /\ q.op \in Rekeys /\ q.ver \in Nat /\ q.ver >= 1
          /\ keys[q.uid].state \in {Active, Compromised, Destroyed}
      BY <1>0, <1>5, AfterFacts DEF RekeyUpdate, Knows, Sees, Worker
    <2>2. CASE ~Fail(w)
      <3>1. PICK wrote : Return(w, q.op, q.uid, wrote, "success")
        BY <1>5, <2>2 DEF RekeyUpdate
      <3>2. \/ keys' = keys /\ ~Get(q.uid)
            \/ keys' = [keys EXCEPT ![q.uid].bytes = KeyBytes(q.len), ![q.uid].ver = q.ver + 1]
        BY <1>5, <2>2 DEF RekeyUpdate
      <3>3. \A v \in Uids : keys'[v].state = keys[v].state
        BY <2>1, <3>2 DEF IInv, TypeOK, Row
      <3>4. keys'[q.uid].ver > 1 \/ keys'[q.uid].state = Destroyed
        BY <2>1, <3>2, StateNumbers DEF IInv, TypeOK, Row, Get
      <3>5. keys'[q.uid].state \in After(q.op)
        BY <2>1, <3>3, AfterFacts
      <3>. QED  BY <1>1, <3>1, <3>3, <3>4, <3>5, ReplyOutcome
    <2>. QED  BY <1>2, <2>2
  <1>6. CASE InsertDerived(w)
    <2>1. proc[w].uid \in Uids /\ keys[proc[w].uid].state # Absent
      BY <1>6 DEF InsertDerived, Sees
    <2>2. ASSUME NEW u \in Uids,
                 Insert(u, "SymmetricKey", proc[w].len, DerivedBytes(proc[w].len), NoUid),
                 Return(w, "DeriveKey", proc[w].uid, TRUE, "success")
          PROVE  Outcome(w)
      BY <1>0, <1>1, <2>1, <2>2, InsertedRows, SuccessOutcome
    <2>. QED  BY <1>2, <1>6, <2>2 DEF InsertDerived
  <1>7. ASSUME NEW name \in AttrNames,
               SetCustomAttribute(w, name) \/ DeleteCustomAttribute(w, name)
        PROVE  Outcome(w)
    <2>1. proc[w].uid \in Uids /\ keys[proc[w].uid].state # Absent
      BY <1>0, <1>7 DEF SetCustomAttribute, DeleteCustomAttribute, Knows
    <2>2. proc[w].op \notin Changers \cup Rekeys
      BY <1>7 DEF SetCustomAttribute, DeleteCustomAttribute, Sees
    <2>. QED  BY <1>0, <1>1, <1>2, <1>7, <2>1, <2>2, SuccessOutcome
              DEF SetCustomAttribute, DeleteCustomAttribute, ExecAttributes
  <1>8. ASSUME NEW n, RegisterPublic(w, n)
        PROVE  Outcome(w)
    <2>1. /\ proc[w].uid \in Uids /\ keys[proc[w].uid].state # Absent
          /\ proc[w].op \notin Changers \cup Rekeys
      BY <1>0, <1>8 DEF RegisterPublic, Knows
    <2>2. ASSUME NEW u \in Uids, Insert(u, "PublicKey", proc[w].len, n, proc[w].uid),
                 Return(w, proc[w].op, proc[w].uid, TRUE, "success")
          PROVE  Outcome(w)
      BY <1>0, <1>1, <2>1, <2>2, InsertedRows, SuccessOutcome
    <2>. QED  BY <1>2, <1>8, <2>2 DEF RegisterPublic, Register
  <1>9. ASSUME NEW n, RegisterUnwrapped(w, n)
        PROVE  Outcome(w)
    <2>1. ASSUME NEW u \in Uids, NEW len, Insert(u, "SymmetricKey", len, n, NoUid),
                 Return(w, "RestUnwrap", u, TRUE, "success")
          PROVE  Outcome(w)
      BY <1>0, <1>1, <2>1, InsertedRows, SuccessOutcome
    <2>. QED  BY <1>2, <1>9, <2>1 DEF RegisterUnwrapped, Register
  <1>. QED  BY <1>3, <1>4, <1>5, <1>6, <1>7, <1>8, <1>9 DEF Statement

-----------------------------------------------------------------------------
(* The channel and the table hold entries. *)
LogOK ==
  /\ ch \in Seq(Entry)
  /\ writing \in Entry \cup {NoEntry}
  /\ auditLog \subseteq Entry

(* No entry is added, and one that goes leaves its trace in lost. *)
Passed ==
  /\ LogOK'
  /\ lost \subseteq lost'
  /\ Recorded' \subseteq Recorded
  /\ \A e \in Successes(Recorded) : e \in Recorded' \/ e.uid \in lost'

(* Every outcome of a worker has an entry. *)
LEMMA EntryFacts ==
  ASSUME NEW p \in Worker
  PROVE  /\ EntryOf(p) \in Entry
         /\ EntryOf(p).status = "success" => p.out = "success" /\ EntryOf(p).op = p.op
         /\ EntryOf(p).uid \in Uids => p.out = "success" /\ EntryOf(p).uid = p.uid
  <1>1. NoUid \notin Uids /\ "none" \in Op
    BY ConstantsAssumption DEF Op
  <1>. QED  BY <1>1 DEF EntryOf, Entry, ObjectUID, Worker

(* The entry of a reply that accounts for a state says so. *)
LEMMA AccountEntry ==
  ASSUME NEW p \in Worker, NEW u \in Uids, NEW s \in {Active, Compromised, Destroyed},
         Accounts(p, u, s)
  PROVE  EntryOf(p).status = "success" /\ EntryOf(p).uid = u /\ EntryOf(p).op \in LeadsTo(s)
  <1>1. p.op # "CreateKeyPair"
    BY LeadsToFacts DEF Accounts, Activations, Revocations, Destructions
  <1>. QED  BY <1>1 DEF Accounts, EntryOf, ObjectUID

(* The entries of a channel to which one was added, or the first taken. *)
LEMMA QueueFacts ==
  ASSUME NEW s \in Seq(Entry)
  PROVE  /\ \A e \in Entry : /\ Append(s, e) \in Seq(Entry)
                             /\ {Append(s, e)[i] : i \in DOMAIN Append(s, e)}
                                  = {s[i] : i \in DOMAIN s} \cup {e}
         /\ s # <<>> => /\ Head(s) \in Entry /\ Tail(s) \in Seq(Entry)
                        /\ {s[i] : i \in DOMAIN s}
                             = {Tail(s)[i] : i \in DOMAIN Tail(s)} \cup {Head(s)}
  <1>1. ASSUME NEW e \in Entry
        PROVE  /\ Append(s, e) \in Seq(Entry)
               /\ {Append(s, e)[i] : i \in DOMAIN Append(s, e)} = {s[i] : i \in DOMAIN s} \cup {e}
    <2>1. /\ Append(s, e) \in Seq(Entry) /\ DOMAIN Append(s, e) = 1..(Len(s) + 1)
          /\ DOMAIN s = 1..Len(s) /\ Len(s) \in Nat
          /\ Append(s, e)[Len(s) + 1] = e
          /\ \A i \in 1..Len(s) : Append(s, e)[i] = s[i]
      OBVIOUS
    <2>. QED  BY <2>1
  <1>2. ASSUME s # <<>>
        PROVE  /\ Head(s) \in Entry /\ Tail(s) \in Seq(Entry)
               /\ {s[i] : i \in DOMAIN s} = {Tail(s)[i] : i \in DOMAIN Tail(s)} \cup {Head(s)}
    <2>1. /\ Tail(s) \in Seq(Entry) /\ DOMAIN Tail(s) = 1..(Len(s) - 1)
          /\ DOMAIN s = 1..Len(s) /\ Len(s) \in Nat /\ Len(s) >= 1
          /\ Head(s) = s[1] /\ s[1] \in Entry
          /\ \A i \in 1..(Len(s) - 1) : Tail(s)[i] = s[i + 1]
      BY <1>2
    <2>2. ASSUME NEW i \in 2..Len(s)
          PROVE  i - 1 \in 1..(Len(s) - 1) /\ Tail(s)[i - 1] = s[i]
      BY <2>1
    <2>3. ASSUME NEW x, x \in {s[i] : i \in DOMAIN s}
          PROVE  x \in {Tail(s)[i] : i \in DOMAIN Tail(s)} \cup {Head(s)}
      <3>1. PICK i \in 1..Len(s) : x = s[i]
        BY <2>1, <2>3
      <3>2. CASE i = 1
        BY <2>1, <3>1, <3>2
      <3>3. CASE i # 1
        <4>1. i \in 2..Len(s)
          BY <2>1, <3>3
        <4>. QED  BY <2>1, <2>2, <3>1, <4>1
      <3>. QED  BY <3>2, <3>3
    <2>4. ASSUME NEW x, x \in {Tail(s)[i] : i \in DOMAIN Tail(s)} \cup {Head(s)}
          PROVE  x \in {s[i] : i \in DOMAIN s}
      <3>1. CASE x = Head(s)
        BY <2>1, <3>1
      <3>2. ASSUME NEW i \in 1..(Len(s) - 1), x = s[i + 1]
            PROVE  x \in {s[j] : j \in DOMAIN s}
        <4>1. i + 1 \in DOMAIN s
          BY <2>1
        <4>. QED  BY <3>2, <4>1
      <3>. QED  BY <2>1, <2>4, <3>1, <3>2
    <2>. QED  BY <2>1, <2>3, <2>4
  <1>. QED  BY <1>1, <1>2

(* A logged entry is on its way, or its object is marked as lost. *)
LEMMA LogStep ==
  ASSUME LogOK, NEW e \in Entry, Log(e)
  PROVE  /\ LogOK'
         /\ lost \subseteq lost'
         /\ Recorded \subseteq Recorded'
         /\ Recorded' \subseteq Recorded \cup {e}
         /\ e.status = "success" => e \in Recorded' \/ e.uid \in lost'
  <1>1. CASE ch' = Append(ch, e) /\ UNCHANGED <<lost, writing, auditLog>>
    <2>1. ch' \in Seq(Entry) /\ InChannel' = InChannel \cup {e}
      BY <1>1, QueueFacts DEF LogOK, InChannel
    <2>. QED  BY <1>1, <2>1 DEF LogOK, Recorded
  <1>2. CASE lost' = lost \cup Objects({e}) /\ UNCHANGED <<ch, writing, auditLog>>
    BY <1>2 DEF LogOK, Recorded, InChannel, Objects, Successes
  <1>. QED  BY <1>1, <1>2 DEF Log

(* The writer moves entries on; one that is refused is marked as lost. *)
LEMMA WriterStep ==
  ASSUME LogOK, writer
  PROVE  Passed
  <1>1. CASE WriterReceives
    <2>0. ch \in Seq(Entry) /\ ch # <<>> /\ ch' = Tail(ch) /\ writing' = Head(ch)
      BY <1>1 DEF LogOK, WriterReceives
    <2>1. /\ ch' \in Seq(Entry) /\ writing' \in Entry
          /\ InChannel = InChannel' \cup {writing'}
          /\ writing = NoEntry
      <3>1. /\ Head(ch) \in Entry /\ Tail(ch) \in Seq(Entry)
            /\ {ch[i] : i \in DOMAIN ch} = {Tail(ch)[i] : i \in DOMAIN Tail(ch)} \cup {Head(ch)}
        BY <2>0, QueueFacts, Zenon
      <3>2. InChannel' = {Tail(ch)[i] : i \in DOMAIN Tail(ch)}
        BY <2>0 DEF InChannel
      <3>3. InChannel = InChannel' \cup {writing'}
        BY <2>0, <3>1, <3>2 DEF InChannel
      <3>. QED  BY <1>1, <2>0, <3>1, <3>3 DEF WriterReceives
    <2>2. writing' # NoEntry
      BY <2>1, NoEntryAssumption
    <2>. QED  BY <1>1, <2>1, <2>2 DEF WriterReceives, Passed, LogOK, Recorded, Successes
  <1>2. CASE WriterInserts
    BY <1>2 DEF WriterInserts, Passed, LogOK, Recorded, InChannel, Objects,
        Successes
  <1>. QED  BY <1>1, <1>2 DEF writer

(* A kill loses what is not in the table, and says so in lost. *)
LEMMA KillStep ==
  ASSUME LogOK, AuditedCrash
  PROVE  Passed
  <1>1. /\ ch' = <<>> /\ writing' = NoEntry /\ auditLog' = auditLog
        /\ \A e \in Successes(Recorded \ auditLog) : e.uid \in lost'
        /\ lost \subseteq lost'
    BY DEF AuditedCrash, NewLogger, Objects
  <1>2. InChannel' = {} /\ ch' \in Seq(Entry)
    BY <1>1 DEF InChannel
  <1>. QED  BY <1>1, <1>2 DEF Passed, LogOK, Recorded, Successes

-----------------------------------------------------------------------------
(* Entry e explains the state of key u. *)
Explains(e, u) == e.status = "success" /\ e.uid = u /\ e.op \in LeadsTo(keys[u].state)

(* The state of key u is explained by an entry, or by a reply in hand. *)
Explained(u) ==
  \/ \E e \in Recorded : Explains(e, u)
  \/ \E w \in Workers : proc[w].pc = "done" /\ Explains(EntryOf(proc[w]), u)

Changed(u) == keys[u].state \in {Active, Compromised, Destroyed}

(* The inductive invariant: the two properties of the log, with what the    *)
(* workers have seen and IInv.                                              *)
AuditInv ==
  /\ IInv
  /\ LogOK
  /\ \A w \in Workers : Sees(proc[w])
  /\ AuditNeverAhead
  /\ \A u \in Uids \ lost : Changed(u) => Explained(u)

LEMMA AuditInvImplies == AuditInv => AuditNeverAhead /\ StateIsAudited
  BY DEF AuditInv, StateIsAudited, Changed, Explained, Explains

(* Workers that a step does not move still see what they saw. *)
LEMMA SeesIsStable ==
  ASSUME IInv, TableStep, NEW w \in Workers, proc'[w] = proc[w], Sees(proc[w])
  PROVE  Sees(proc[w])'
  <1>1. ASSUME NEW u \in Uids, keys[u].state # Absent
        PROVE  keys'[u].state # Absent
    <2>1. After("none") = KeyState
      BY AfterFacts DEF Changers, Activations, Revocations, Destructions, Rekeys
    <2>2. keys'[u].state \in After("none")
      BY <1>1, <2>1, RowState, ShownIsStable
    <2>. QED  BY <2>1, <2>2, StateNumbers
  <1>2. ASSUME NEW u \in Uids, NEW op, Shows(u, op)
        PROVE  /\ keys'[u].state \in After(op)
               /\ op \in Rekeys => keys'[u].ver > 1 \/ keys'[u].state = Destroyed
    BY <1>2, ShownIsStable DEF Shows
  <1>3. ASSUME NEW u \in Uids, keys[u].state \in After("ReKey")
        PROVE  keys'[u].state \in After("ReKey")
    BY <1>3, ShownIsStable
  <1>4. proc[w].pc \in {"rekeyGet", "rekeyUpdate"} => proc[w].uid \in Uids
    BY DEF IInv, Knows
  <1>. QED  BY <1>1, <1>2, <1>3, <1>4 DEF Sees, Shows

(* A statement of worker w: entries stay, and a new state is accounted for  *)
(* by its reply.                                                            *)
LEMMA OutcomeKeepsAuditInv ==
  ASSUME AuditInv, NEW w \in Workers, Outcome(w), IInv', TableStep, UNCHANGED logVars
  PROVE  AuditInv'
  <1>1. LogOK' /\ Recorded' = Recorded /\ lost' = lost
    BY DEF AuditInv, logVars, LogOK, Recorded, InChannel
  <1>2. ASSUME NEW x \in Workers PROVE Sees(proc[x])'
    BY SeesIsStable DEF AuditInv, Outcome
  <1>3. AuditNeverAhead'
    BY <1>1, ShownIsStable DEF AuditInv, AuditNeverAhead, Shows
  <1>4. ASSUME NEW u \in Uids, u \notin lost', Changed(u)'
        PROVE  Explained(u)'
    <2>1. CASE Accounts(proc'[w], u, keys'[u].state)
      <3>1. proc'[w] \in Worker
        BY DEF IInv, TypeOK
      <3>2. Explains(EntryOf(proc[w]), u)'
        BY <1>4, <2>1, <3>1, AccountEntry DEF Changed, Explains
      <3>. QED  BY <2>1, <3>2 DEF Accounts, Explained
    <2>2. CASE keys'[u].state \in {keys[u].state, PreActive}
      <3>1. keys'[u].state = keys[u].state
        BY <1>4, <2>2, StateNumbers DEF Changed
      <3>2. Explained(u)
        BY <1>1, <1>4, <3>1 DEF AuditInv, Changed
      <3>3. ASSUME NEW e, Explains(e, u) PROVE Explains(e, u)'
        BY <3>1, <3>3 DEF Explains
      <3>4. ASSUME NEW x \in Workers, proc[x].pc = "done" PROVE proc'[x] = proc[x]
        BY <3>4 DEF Outcome
      <3>5. CASE \E e \in Recorded : Explains(e, u)
        BY <1>1, <3>3, <3>5 DEF Explained
      <3>6. ASSUME NEW x \in Workers, proc[x].pc = "done", Explains(EntryOf(proc[x]), u)
            PROVE  Explained(u)'
        <4>1. proc'[x] = proc[x]
          BY <3>4, <3>6
        <4>2. Explains(EntryOf(proc[x]), u)'
          BY <3>1, <3>6, <4>1 DEF Explains, EntryOf, ObjectUID
        <4>. QED  BY <3>6, <4>1, <4>2 DEF Explained
      <3>. QED  BY <3>2, <3>5, <3>6 DEF Explained
    <2>. QED  BY <2>1, <2>2 DEF Outcome
  <1>. QED  BY <1>1, <1>2, <1>3, <1>4 DEF AuditInv

(* A step that moves or loses entries and touches no key. *)
LEMMA PassedKeepsAuditInv ==
  ASSUME AuditInv, Passed, IInv', UNCHANGED keys, \A w \in Workers : Sees(proc[w])',
         \A w \in Workers : \/ proc'[w] = proc[w]
                            \/ proc[w].wrote => proc[w].uid \in lost'
  PROVE  AuditInv'
  <1>1. LogOK' /\ AuditNeverAhead'
    BY DEF AuditInv, Passed, AuditNeverAhead, Shows
  <1>2. ASSUME NEW u \in Uids, u \notin lost', Changed(u)'
        PROVE  Explained(u)'
    <2>1. Explained(u)
      BY <1>2 DEF AuditInv, Passed, Changed
    <2>2. CASE \E e \in Recorded : Explains(e, u)
      BY <1>2, <2>2 DEF Passed, Explained, Explains, Successes
    <2>3. ASSUME NEW x \in Workers, proc[x].pc = "done", Explains(EntryOf(proc[x]), u)
          PROVE  Explained(u)'
      <3>1. proc[x] \in Worker /\ Truthful(proc[x])
        BY DEF AuditInv, IInv, TypeOK, RepliesAreTruthful
      <3>2. proc[x].out = "success" /\ proc[x].uid = u /\ proc[x].op \in LeadsTo(keys[u].state)
        BY <2>3, <3>1, EntryFacts DEF Explains
      <3>3. proc[x].op \in Changers
        BY <1>2, <3>2, LeadsToFacts DEF Changed, Changers
      <3>4. proc[x].wrote
        BY <3>1, <3>2, <3>3 DEF Truthful, Changers, Activations, Revocations, Destructions
      <3>5. proc'[x] = proc[x]
        BY <1>2, <3>2, <3>4
      <3>6. Explains(EntryOf(proc[x]), u)'
        BY <2>3, <3>5 DEF Explains, EntryOf, ObjectUID
      <3>. QED  BY <2>3, <3>5, <3>6 DEF Explained
    <2>. QED  BY <2>1, <2>2, <2>3 DEF Explained
  <1>. QED  BY <1>1, <1>2 DEF AuditInv

(* The response: the entry of the reply takes over from the reply. *)
LEMMA RespondKeepsAuditInv ==
  ASSUME AuditInv, NEW w \in Workers, AuditedRespond(w), IInv'
  PROVE  AuditInv'
  <1>1. /\ proc[w].pc = "done" /\ proc'[w] = Idle /\ keys' = keys
        /\ \A x \in Workers : x # w => proc'[x] = proc[x]
        /\ proc[w] \in Worker
    BY DEF AuditedRespond, Respond, AuditInv, IInv, TypeOK
  <1>. DEFINE e0 == EntryOf(proc[w])
  <1>2. e0 \in Entry
    BY <1>1, EntryFacts
  <1>3. /\ LogOK' /\ lost \subseteq lost' /\ Recorded \subseteq Recorded'
        /\ Recorded' \subseteq Recorded \cup {e0}
        /\ proc[w].out = "success" => e0 \in Recorded' \/ e0.uid \in lost'
    <2>1. CASE Log(e0)
      <3>1. proc[w].out = "success" => e0.status = "success"
        BY DEF EntryOf
      <3>. QED  BY <1>2, <2>1, <3>1, LogStep DEF AuditInv
    <2>2. CASE ~MustLog(proc[w]) /\ UNCHANGED logVars
      <3>1. proc[w].out # "success"
        BY <2>2 DEF MustLog
      <3>. QED  BY <2>2, <3>1 DEF logVars, LogOK, Recorded, InChannel, AuditInv
    <2>. QED  BY <2>1, <2>2 DEF AuditedRespond
  <1>4. ASSUME NEW x \in Workers PROVE Sees(proc[x])'
    <2>1. CASE x = w
      BY <1>1, <2>1 DEF Sees, Idle
    <2>2. CASE x # w
      <3>1. Sees(proc[x]) /\ proc'[x] = proc[x] /\ keys' = keys
        BY <1>1, <2>2 DEF AuditInv
      <3>. QED  BY ONLY <3>1 DEF Sees, Shows
    <2>. QED  BY <2>1, <2>2
  <1>5. AuditNeverAhead'
    <2>1. e0.status = "success" /\ e0.uid \in Uids => Shows(e0.uid, e0.op)
      BY <1>1, EntryFacts DEF AuditInv, Sees
    <2>. QED  BY <1>1, <1>3, <2>1 DEF AuditInv, AuditNeverAhead, Shows
  <1>6. ASSUME NEW u \in Uids, u \notin lost', Changed(u)'
        PROVE  Explained(u)'
    <2>1. Explained(u)
      BY <1>1, <1>3, <1>6 DEF AuditInv, Changed
    <2>2. CASE \E e \in Recorded : Explains(e, u)
      BY <1>1, <1>3, <2>2 DEF Explained, Explains
    <2>3. CASE Explains(e0, u)
      <3>1. proc[w].out = "success" /\ e0.uid = u
        BY <1>1, <2>3, EntryFacts DEF Explains
      <3>2. e0 \in Recorded'
        BY <1>3, <1>6, <3>1
      <3>. QED  BY <1>1, <2>3, <3>2 DEF Explained, Explains
    <2>4. ASSUME NEW x \in Workers, x # w, proc[x].pc = "done", Explains(EntryOf(proc[x]), u)
          PROVE  Explained(u)'
      <3>1. proc'[x] = proc[x]
        BY <1>1, <2>4
      <3>2. Explains(EntryOf(proc[x]), u)'
        BY <1>1, <2>4, <3>1 DEF Explains, EntryOf, ObjectUID
      <3>. QED  BY <2>4, <3>1, <3>2 DEF Explained
    <2>. QED  BY <2>1, <2>2, <2>3, <2>4 DEF Explained
  <1>. QED  BY <1>3, <1>4, <1>5, <1>6 DEF AuditInv

(* A step of the audited server is a step of the server, or changes only    *)
(* the log.                                                                 *)
LEMMA AuditedStepIsStep == [AuditedNext]_auditedVars => [Next]_vars
  BY DEF AuditedNext, AuditedCrash, AuditedProceed, AuditedRespond, auditedVars, Next, Proceed

(* AuditInv holds when the server starts on an empty database. *)
LEMMA AuditInitInv == AuditedInit => AuditInv
  <1>. SUFFICES ASSUME AuditedInit PROVE AuditInv
    OBVIOUS
  <1>1. IInv /\ ch = <<>> /\ writing = NoEntry /\ auditLog = {}
    BY InitInv DEF AuditedInit, LogInit
  <1>2. LogOK /\ Recorded = {}
    BY <1>1 DEF LogOK, Recorded, InChannel
  <1>3. \A w \in Workers : Sees(proc[w])
    BY DEF AuditedInit, Init, Sees, Idle
  <1>4. \A u \in Uids : ~Changed(u)
    BY StateNumbers DEF AuditedInit, Init, NoRow, Changed
  <1>. QED  BY <1>1, <1>2, <1>3, <1>4 DEF AuditInv, AuditNeverAhead

(* Every step of handlers and writer, and every kill, keeps AuditInv. *)
LEMMA AuditNextInv == AuditInv /\ [AuditedNext]_auditedVars => AuditInv'
  <1>. SUFFICES ASSUME AuditInv, [AuditedNext]_auditedVars PROVE AuditInv'
    OBVIOUS
  <1>1. [Next]_vars
    BY AuditedStepIsStep
  <1>2. IInv /\ IInv' /\ TableStep
    BY <1>1, NextInv, TableSteps DEF AuditInv
  <1>3. ASSUME NEW w \in Workers, Receive(w), UNCHANGED logVars
        PROVE  AuditInv'
    BY <1>2, <1>3, ReceiveOutcome, OutcomeKeepsAuditInv
  <1>4. ASSUME NEW w \in Workers, Statement(w), UNCHANGED logVars
        PROVE  AuditInv'
    <2>1. Sees(proc[w])
      BY DEF AuditInv
    <2>. QED  BY <1>2, <1>4, <2>1, StatementOutcome, OutcomeKeepsAuditInv
  <1>5. ASSUME NEW w \in Workers, AuditedRespond(w)
        PROVE  AuditInv'
    BY <1>2, <1>5, RespondKeepsAuditInv
  <1>6. ASSUME writer \/ UNCHANGED logVars, UNCHANGED vars
        PROVE  AuditInv'
    <2>1. Passed
      <3>1. CASE UNCHANGED logVars
        BY <3>1 DEF Passed, logVars, LogOK, Recorded, InChannel, Successes, AuditInv
      <3>. QED  BY <1>6, <3>1, WriterStep DEF AuditInv
    <2>2. keys' = keys /\ proc' = proc /\ \A w \in Workers : Sees(proc[w])'
      BY <1>6 DEF vars, AuditInv, Sees, Shows
    <2>. QED  BY <1>2, <2>1, <2>2, PassedKeepsAuditInv
  <1>7. CASE AuditedCrash
    <2>1. Passed
      BY <1>7, KillStep DEF AuditInv
    <2>2. keys' = keys /\ \A w \in Workers : Sees(proc[w])'
      BY <1>7 DEF AuditedCrash, Crash, Sees, Idle
    <2>3. \A w \in Workers : proc[w].wrote => proc[w].uid \in lost'
      BY <1>7 DEF AuditedCrash
    <2>. QED  BY <1>2, <2>1, <2>2, <2>3, PassedKeepsAuditInv
  <1>. QED  BY <1>3, <1>4, <1>5, <1>6, <1>7 DEF AuditedNext, AuditedProceed, auditedVars

(* The log never claims what the table does not show, for any number of     *)
(* requests of both front ends, lost entries and kills.                     *)
THEOREM AuditIsTruthful == AuditedSpec => []AuditNeverAhead
  BY AuditInitInv, AuditNextInv, AuditInvImplies, PTL DEF AuditedSpec

(* An activated, revoked or destroyed key has an entry that says so, unless *)
(* one about this key was dropped, refused or lost in a kill.               *)
THEOREM AuditIsComplete == AuditedSpec => []StateIsAudited
  BY AuditInitInv, AuditNextInv, AuditInvImplies, PTL DEF AuditedSpec

(* Auditing disturbs nothing: the server with its audit log is a server of  *)
(* KeyServer, so that what is proved there holds of it.                     *)
THEOREM AuditingIsTransparent == AuditedSpec => Spec
  <1>1. AuditedInit => Init
    BY DEF AuditedInit
  <1>. QED  BY <1>1, AuditedStepIsStep, PTL DEF AuditedSpec, Spec

(* In particular the keys of the audited server live the life KeyLifecycle  *)
(* describes.                                                               *)
THEOREM AuditedRefinement == AuditedSpec => ImplementsKeyLifecycle
  BY AuditingIsTransparent, Refinement, PTL
=============================================================================
