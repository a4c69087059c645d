-------------------------- MODULE MemoryServerProofs --------------------------
(***************************************************************************)
(* The in-memory store wipes what it destroys and keeps to KeyLifecycle,   *)
(* for any number of keys, versions and goroutines, although handlers read *)
(* its records without the lock.                                           *)
(***************************************************************************)
EXTENDS MemoryServer, TLAPS

(* The worker is in the middle of Destroy, with the lock. *)
Destroying == {"wiping", "wiped", "cleared"}

(* The holder of the lock has cleared Material and not yet set the state. *)
Cleared(u) == mu # None /\ proc[mu].pc = "cleared" /\ proc[mu].uid = u

(* The record of u: a living one points to the array of its version. *)
RecordOK(u) ==
  /\ recs[u].state \in {Absent, PreActive, Active, Compromised, Destroyed}
  /\ Found(u) => recs[u].ver \in Versions /\ (recs[u].mat = recs[u].ver \/ Cleared(u))
  /\ recs[u].state = Destroyed => recs[u].mat = 0 /\ slices[u][recs[u].ver] = "zero"

(* How far Destroy has come with the key of worker w. *)
DestroyOK(w) ==
  LET u == proc[w].uid IN
  /\ Found(u)
  /\ proc[w].pc \in {"wiping", "wiped"} => recs[u].mat = recs[u].ver
  /\ proc[w].pc \in {"wiped", "cleared"} => slices[u][recs[u].ver] = "zero"
  /\ proc[w].pc = "cleared" => recs[u].mat = 0

MInv ==
  /\ TypeOK
  /\ \A w \in Workers : proc[w].pc \notin {"idle", "done"} => proc[w].uid \in Uids
  /\ \A w \in Workers : proc[w].pc \in Destroying <=> mu = w
  /\ \A w \in Workers : proc[w].pc \in Destroying => DestroyOK(w)
  /\ \A u \in Uids : RecordOK(u)

(* The states are different numbers. *)
LEMMA StateFacts ==
  /\ {Absent, PreActive, Active, Compromised, Destroyed} \subseteq KeyState \cup {Absent}
  /\ PreActive \notin {Absent, Destroyed} /\ Active \notin {Absent, Destroyed}
  /\ Compromised \notin {Absent, Destroyed} /\ Absent # Destroyed
  BY DEF KeyState, Absent, PreActive, Active, Deactivated, Compromised, Destroyed,
         DestroyedCompromised, Archived

(* A worker that does not hold the lock moves on without touching the       *)
(* store.                                                                   *)
LEMMA WorkerMoves ==
  ASSUME MInv, NEW w \in Workers, NEW q \in Worker,
         proc' = [proc EXCEPT ![w] = q], UNCHANGED <<recs, slices, mu>>,
         proc[w].pc \notin Destroying, q.pc \notin Destroying,
         q.pc \notin {"idle", "done"} => q.uid \in Uids
  PROVE  MInv'
  <1>1. mu # w /\ proc'[w] = q /\ \A v \in Workers : v # w => proc'[v] = proc[v]
    BY DEF MInv, TypeOK
  <1>2. TypeOK'
    BY DEF MInv, TypeOK
  <1>3. \A v \in Workers : proc'[v].pc \notin {"idle", "done"} => proc'[v].uid \in Uids
    BY <1>1 DEF MInv
  <1>4. \A v \in Workers : proc'[v].pc \in Destroying <=> mu' = v
    BY <1>1 DEF MInv
  <1>5. \A v \in Workers : proc'[v].pc \in Destroying => DestroyOK(v)'
    BY <1>1 DEF MInv, DestroyOK, Found
  <1>6. \A u \in Uids : RecordOK(u)'
    <2>1. \A u \in Uids : Cleared(u) => Cleared(u)'
      BY <1>1 DEF Cleared, MInv, TypeOK
    <2> QED BY <2>1 DEF MInv, RecordOK, Found
  <1> QED BY <1>2, <1>3, <1>4, <1>5, <1>6 DEF MInv

(* A method that gives one record new contents under the lock. *)
LEMMA RecordChanges ==
  ASSUME MInv, mu = None, mu' = mu, NEW w \in Workers, NEW q \in Worker,
         proc' = [proc EXCEPT ![w] = q], q.pc \in {"idle", "done"},
         NEW u \in Uids, NEW r \in Record, NEW s \in [Versions -> Bytes],
         recs' = [recs EXCEPT ![u] = r], slices' = [slices EXCEPT ![u] = s],
         r.state \in {PreActive, Active, Compromised}, r.ver \in Versions, r.mat = r.ver
  PROVE  MInv'
  <1>1. proc'[w] = q /\ \A v \in Workers : v # w => proc'[v] = proc[v]
    BY DEF MInv, TypeOK
  <1>2. recs'[u] = r /\ \A v \in Uids : v # u => recs'[v] = recs[v] /\ slices'[v] = slices[v]
    BY DEF MInv, TypeOK
  <1>3. TypeOK'
    BY DEF MInv, TypeOK
  <1>4. \A v \in Workers : proc'[v].pc \notin {"idle", "done"} => proc'[v].uid \in Uids
    BY <1>1 DEF MInv
  <1>5. \A v \in Workers : proc[v].pc \notin Destroying /\ mu # v
    BY MemoryAssumption DEF MInv
  <1>6. \A v \in Workers : proc'[v].pc \notin Destroying /\ mu' # v
    BY <1>1, <1>5 DEF Destroying
  <1>7. \A v \in Uids : RecordOK(v)'
    <2>1. RecordOK(u)'
      BY <1>2, StateFacts DEF RecordOK, Found
    <2>2. ASSUME NEW v \in Uids, v # u
          PROVE  RecordOK(v)'
      BY <1>2, <2>2 DEF MInv, RecordOK, Found, Cleared
    <2> QED BY <2>1, <2>2
  <1> QED BY <1>3, <1>4, <1>6, <1>7 DEF MInv

(* The worker that holds the lock is in Destroy: it changes its own record  *)
(* and array while all others wait or only read.                            *)
LEMMA DestroyMoves ==
  ASSUME MInv, NEW w \in Workers, NEW q \in Worker,
         proc' = [proc EXCEPT ![w] = q],
         NEW u \in Uids, q.uid = u, Found(u), mu = None \/ (mu = w /\ proc[w].uid = u),
         NEW r \in Record, NEW s \in [Versions -> Bytes],
         recs' = [recs EXCEPT ![u] = r], slices' = [slices EXCEPT ![u] = s],
         r.ver = recs[u].ver, r.state \in {recs[u].state, Destroyed},
         \/ /\ mu' = w /\ q.pc \in Destroying /\ r.state = recs[u].state
            /\ q.pc \in {"wiping", "wiped"} => r.mat = r.ver
            /\ q.pc \in {"wiped", "cleared"} => s[r.ver] = "zero"
            /\ q.pc = "cleared" => r.mat = 0
         \/ mu' = None /\ q.pc = "done" /\ r.state = Destroyed /\ r.mat = 0 /\ s[r.ver] = "zero"
  PROVE  MInv'
  <1>1. proc'[w] = q /\ \A v \in Workers : v # w => proc'[v] = proc[v]
    BY DEF MInv, TypeOK
  <1>2. /\ recs'[u] = r /\ slices'[u] = s
        /\ \A v \in Uids : v # u => recs'[v] = recs[v] /\ slices'[v] = slices[v]
    BY DEF MInv, TypeOK
  <1>3. TypeOK'
    BY DEF MInv, TypeOK
  <1>4. \A v \in Workers : proc'[v].pc \notin {"idle", "done"} => proc'[v].uid \in Uids
    BY <1>1 DEF MInv
  <1>5. \A v \in Workers : v # w => proc[v].pc \notin Destroying
    BY MemoryAssumption DEF MInv
  <1>6. \A v \in Workers : proc'[v].pc \in Destroying <=> mu' = v
    BY <1>1, <1>5, MemoryAssumption DEF Destroying
  <1>7. Found(u)' <=> r.state # Destroyed
    BY <1>2, StateFacts DEF Found
  <1>8. \A v \in Workers : proc'[v].pc \in Destroying => DestroyOK(v)'
    <2>1. proc'[w].pc \in Destroying => DestroyOK(w)'
      <3> SUFFICES ASSUME q.pc \in Destroying
                   PROVE  DestroyOK(w)'
        BY <1>1
      <3>1. Found(u)' /\ proc'[w].uid = u
        BY <1>1, <1>7 DEF Destroying, Found
      <3> QED BY <1>1, <1>2, <3>1 DEF DestroyOK, Destroying
    <2> QED BY <1>1, <1>5, <2>1
  <1>9. ASSUME NEW v \in Uids
        PROVE  RecordOK(v)'
    <2>1. CASE v = u
      <3>1. RecordOK(u) /\ recs[u].state # Destroyed
        BY DEF MInv, Found
      <3>2. CASE r.state = Destroyed
        BY <1>2, <1>7, <2>1, <3>1, <3>2 DEF RecordOK
      <3>3. CASE r.state # Destroyed
        <4>1. q.pc = "cleared" => Cleared(u)'
          BY <1>1, <3>3, MemoryAssumption DEF Cleared
        <4> QED BY <1>2, <1>7, <2>1, <3>1, <3>3, <4>1 DEF RecordOK, Destroying
      <3> QED BY <3>2, <3>3
    <2>2. CASE v # u
      <3>1. RecordOK(v)
        BY DEF MInv
      <3>2. ~Cleared(v)
        BY <2>2 DEF Cleared
      <3> QED BY <1>2, <2>2, <3>1, <3>2 DEF RecordOK, Found
    <2> QED BY <2>1, <2>2
  <1> QED BY <1>3, <1>4, <1>6, <1>8, <1>9 DEF MInv

(* An error ends a request of a worker that does not hold the lock. *)
LEMMA RefuseMoves ==
  ASSUME MInv, NEW w \in Workers, proc[w].pc \notin Destroying,
         NEW op \in Op, NEW u \in Uids \cup {None}, Refuse(w, op, u)
  PROVE  MInv'
  BY WorkerMoves DEF Refuse, Return, Worker, Pc, Read, Destroying

(* A worker that has changed a living record under the lock returns. *)
LEMMA ReturnChanges ==
  ASSUME MInv, mu = None, mu' = mu, NEW w \in Workers, NEW op \in Op, NEW u \in Uids,
         NEW used \in {"nothing", "empty"} \cup Bytes, Return(w, op, u, "success", used),
         NEW r \in Record, NEW s \in [Versions -> Bytes],
         recs' = [recs EXCEPT ![u] = r], slices' = [slices EXCEPT ![u] = s],
         r.state \in {PreActive, Active, Compromised}, r.ver \in Versions, r.mat = r.ver
  PROVE  MInv'
  <1> DEFINE q == [pc |-> "done", op |-> op, uid |-> u, mat |-> Unread,
                   out |-> "success", used |-> used]
  <1>1. proc' = [proc EXCEPT ![w] = q] /\ q \in Worker /\ q.pc = "done"
    BY DEF Return, Worker, Pc, Read
  <1> HIDE DEF q
  <1> QED BY <1>1, RecordChanges

(* A fresh record is added and its worker returns. *)
LEMMA AddChanges ==
  ASSUME MInv, NEW w \in Workers, NEW op \in Op, NEW u \in Uids, AddRecord(u),
         NEW used \in {"nothing", "empty"} \cup Bytes, Return(w, op, u, "success", used)
  PROVE  MInv'
  <1> DEFINE r == [state |-> PreActive, mat |-> 1, ver |-> 1]
             s == [slices[u] EXCEPT ![1] = "key"]
  <1>1. 1 \in Versions /\ r \in Record /\ s \in [Versions -> Bytes]
    BY MemoryAssumption, StateFacts DEF Versions, Record, Bytes, MInv, TypeOK
  <1>2. recs' = [recs EXCEPT ![u] = r] /\ slices' = [slices EXCEPT ![u] = s] /\ mu = None /\ mu' = mu
    BY DEF AddRecord
  <1>3. r.state = PreActive /\ r.ver = 1 /\ r.mat = 1
    OBVIOUS
  <1> HIDE DEF r, s
  <1> QED BY <1>1, <1>2, <1>3, ReturnChanges

(* The requests that a worker can take up, and where each goes. *)
LEMMA MemoryReceive ==
  ASSUME MInv, NEW w \in Workers, Receive(w)
  PROVE  MInv'
  <1>1. proc[w].pc = "idle" /\ proc[w] \in Worker
    BY DEF Receive, MInv, TypeOK, Begin, Create, Register, handleActivate, handleRevoke,
           handleDestroy, handleReKey, handleActivateKey, handleRevokeKey, handleDestroyKey,
           handleRekeyKey, handleGet, handleDeriveKey, handleEncrypt, handleDecrypt, handleSign,
           handleSignatureVerify, handleMAC, handleEncryptKey, handleDecryptKey, handleSignKey,
           handleVerifyKey, handleMACKey, Get, Straight
  <1>2. ASSUME NEW op \in Op, NEW u \in Uids \cup {None}, Refuse(w, op, u)
        PROVE  MInv'
    BY <1>1, <1>2, RefuseMoves DEF Destroying
  <1>3. ASSUME NEW op \in Op, NEW u \in Uids, NEW to \in {"check", "lock", "read"},
               Goto(w, to, op, u, Unread), UNCHANGED <<recs, slices, mu>>
        PROVE  MInv'
    BY <1>1, <1>3, WorkerMoves DEF Goto, Worker, Pc, Read, Destroying
  <1>4. ASSUME NEW op \in Op, NEW u \in Uids, AddRecord(u), Return(w, op, u, "success", "nothing")
        PROVE  MInv'
    BY <1>4, AddChanges
  <1>5. ASSUME NEW op \in Op, NEW u \in Uids, NEW to \in {"check", "read"}, Get(w, op, u, to)
        PROVE  MInv'
    BY <1>2, <1>3, <1>5 DEF Get
  <1>6. ASSUME NEW op \in Op, NEW u \in Uids, Straight(w, op, u)
        PROVE  MInv'
    BY <1>3, <1>6 DEF Straight
  <1>7. ASSUME NEW u \in Uids, Create(w, u) \/ Register(w, u)
        PROVE  MInv'
    BY <1>2, <1>4, <1>7 DEF Create, Register, Op
  <1>8. PICK u \in Uids :
          \/ Create(w, u) \/ Register(w, u)
          \/ \E op \in Op : Straight(w, op, u) \/ Get(w, op, u, "check") \/ Get(w, op, u, "read")
    BY DEF Receive, handleActivate, handleRevoke,
           handleDestroy, handleReKey, handleActivateKey, handleRevokeKey, handleDestroyKey,
           handleRekeyKey, handleGet, handleDeriveKey, handleEncrypt, handleDecrypt, handleSign,
           handleSignatureVerify, handleMAC, handleEncryptKey, handleDecryptKey, handleSignKey,
           handleVerifyKey, handleMACKey, Op, KmipCrypto, RestCrypto
  <1> QED BY <1>5, <1>6, <1>7, <1>8

(* The lifecycle methods, which take the lock. *)
LEMMA MemoryLocked ==
  ASSUME MInv, NEW w \in Workers, mu = None, proc[w].pc = "lock", Found(proc[w].uid),
         Activate(w) \/ Revoke(w) \/ Rekey(w) \/ DestroyWipes(w)
  PROVE  MInv'
  <1>1. PICK u \in Uids, op \in Op : u = proc[w].uid /\ op = proc[w].op
    BY DEF MInv, TypeOK, Worker
  <1>2. /\ recs[u] \in Record /\ recs[u].ver \in Versions /\ recs[u].mat = recs[u].ver
        /\ recs[u].state \in {PreActive, Active, Compromised} /\ Found(u)
        /\ slices[u] \in [Versions -> Bytes] /\ slices = [slices EXCEPT ![u] = slices[u]]
        /\ "nothing" \in {"nothing", "empty"} \cup Bytes
    BY <1>1 DEF MInv, TypeOK, RecordOK, Cleared, Found
  <1>3. CASE Activate(w)
    <2> DEFINE r == [recs[u] EXCEPT !.state = Active]
    <2>1. r \in Record /\ r.state = Active /\ r.ver = recs[u].ver /\ r.mat = recs[u].mat
      BY <1>2, StateFacts DEF Record
    <2>2. /\ recs' = [recs EXCEPT ![u] = r] /\ slices' = [slices EXCEPT ![u] = slices[u]] /\ mu' = mu
          /\ Return(w, op, u, "success", "nothing")
      BY <1>1, <1>2, <1>3 DEF Activate, MInv, TypeOK
    <2> HIDE DEF r
    <2> QED BY <1>2, <2>1, <2>2, ReturnChanges
  <1>4. CASE Revoke(w)
    <2> DEFINE r == [recs[u] EXCEPT !.state = Compromised]
    <2>1. r \in Record /\ r.state = Compromised /\ r.ver = recs[u].ver /\ r.mat = recs[u].mat
      BY <1>2, StateFacts DEF Record
    <2>2. /\ recs' = [recs EXCEPT ![u] = r] /\ slices' = [slices EXCEPT ![u] = slices[u]] /\ mu' = mu
          /\ Return(w, op, u, "success", "nothing")
      BY <1>1, <1>2, <1>4 DEF Revoke, MInv, TypeOK
    <2> HIDE DEF r
    <2> QED BY <1>2, <2>1, <2>2, ReturnChanges
  <1>5. CASE Rekey(w)
    <2>1. CASE Refuse(w, op, u)
      BY <1>1, <2>1, RefuseMoves DEF Destroying
    <2>2. CASE ~Refuse(w, op, u)
      <3>1. PICK v \in Versions : v = recs[u].ver + 1
        BY <1>1, <1>5, <2>2 DEF Rekey
      <3> DEFINE r == [recs[u] EXCEPT !.mat = v, !.ver = v]
                 s == [slices[u] EXCEPT ![v] = "key"]
      <3>2. /\ recs' = [recs EXCEPT ![u] = r] /\ slices' = [slices EXCEPT ![u] = s] /\ mu' = mu
            /\ Return(w, op, u, "success", "nothing")
        BY <1>1, <1>5, <2>2, <3>1 DEF Rekey, MInv, TypeOK
      <3>3. r \in Record /\ r.state = recs[u].state /\ r.ver = v /\ r.mat = v
        <4>1. v \in 0..MaxVersion
          BY MemoryAssumption DEF Versions
        <4> QED BY <1>2, <4>1 DEF Record
      <3>4. s \in [Versions -> Bytes]
        BY <1>2 DEF Bytes
      <3> HIDE DEF r, s
      <3>5. /\ r.state \in {PreActive, Active, Compromised} /\ r.ver \in Versions /\ r.mat = r.ver
            /\ "nothing" \in {"nothing", "empty"} \cup Bytes
        BY <1>2, <3>3
      <3> QED BY <3>2, <3>3, <3>4, <3>5, ReturnChanges, Zenon
    <2> QED BY <2>1, <2>2
  <1>6. CASE DestroyWipes(w)
    <2> DEFINE q == [pc |-> "wiping", op |-> op, uid |-> u, mat |-> Unread,
                     out |-> "none", used |-> "nothing"]
               s == [slices[u] EXCEPT ![recs[u].mat] = "mixed"]
    <2>1. proc' = [proc EXCEPT ![w] = q] /\ q \in Worker /\ q.pc = "wiping" /\ q.uid = u
      BY <1>1, <1>6 DEF DestroyWipes, Goto, Worker, Pc, Read
    <2>2. s \in [Versions -> Bytes] /\ slices' = [slices EXCEPT ![u] = s]
      BY <1>1, <1>2, <1>6 DEF DestroyWipes, Bytes
    <2>3. recs' = [recs EXCEPT ![u] = recs[u]] /\ mu' = w
      BY <1>6 DEF DestroyWipes, MInv, TypeOK
    <2> HIDE DEF q, s
    <2> QED BY <1>2, <2>1, <2>2, <2>3, DestroyMoves DEF Destroying
  <1> QED BY <1>3, <1>4, <1>5, <1>6

(* Steps that wait for the lock. *)
LEMMA MemoryAcquire ==
  ASSUME MInv, NEW w \in Workers, Acquire(w)
  PROVE  MInv'
  <1>1. /\ proc[w].op \in Op /\ proc[w].pc \in {"lock", "insert"} /\ proc[w].uid \in Uids
        /\ proc[w].used \in {"nothing", "empty"} \cup Bytes
    BY DEF Acquire, NotFound, Activate, Revoke, Rekey, DestroyWipes, InsertDerived, Locked, At,
           MInv, TypeOK, Worker
  <1>2. CASE NotFound(w)
    BY <1>1, <1>2, RefuseMoves DEF NotFound, Destroying
  <1>3. CASE InsertDerived(w)
    <2>1. "DeriveKey" \in Op
      BY DEF Op
    <2>2. CASE Refuse(w, "DeriveKey", proc[w].uid)
      BY <1>1, <2>1, <2>2, RefuseMoves DEF Destroying
    <2>3. CASE ~Refuse(w, "DeriveKey", proc[w].uid)
      <3>1. PICK u \in Uids : AddRecord(u) /\ Return(w, "DeriveKey", u, "success", proc[w].used)
        BY <1>3, <2>3 DEF InsertDerived
      <3>2. PICK used \in {"nothing", "empty"} \cup Bytes : used = proc[w].used
        BY <1>1
      <3> QED BY <2>1, <3>1, <3>2, AddChanges
    <2> QED BY <2>2, <2>3
  <1>4. CASE Activate(w) \/ Revoke(w) \/ Rekey(w) \/ DestroyWipes(w)
    BY <1>4, MemoryLocked DEF Activate, Revoke, Rekey, DestroyWipes, Locked, At
  <1> QED BY <1>2, <1>3, <1>4 DEF Acquire

(* The rest of Destroy, under the lock. *)
LEMMA MemoryDestroys ==
  ASSUME MInv, NEW w \in Workers, DestroyWiped(w) \/ DestroyClears(w) \/ DestroyEnds(w)
  PROVE  MInv'
  <1>1. PICK u \in Uids, op \in Op : u = proc[w].uid /\ op = proc[w].op
    BY DEF MInv, TypeOK, Worker, DestroyWiped, DestroyClears, DestroyEnds, At
  <1>2. /\ recs[u] \in Record /\ recs[u].ver \in Versions /\ Found(u)
        /\ slices[u] \in [Versions -> Bytes] /\ slices = [slices EXCEPT ![u] = slices[u]]
        /\ recs = [recs EXCEPT ![u] = recs[u]]
        /\ mu = w /\ proc[w].uid = u /\ DestroyOK(w)
    BY <1>1 DEF MInv, TypeOK, RecordOK, DestroyWiped, DestroyClears, DestroyEnds, At, Destroying,
                DestroyOK
  <1>3. CASE DestroyWiped(w)
    <2> DEFINE q == [pc |-> "wiped", op |-> op, uid |-> u, mat |-> Unread,
                     out |-> "none", used |-> "nothing"]
               s == [slices[u] EXCEPT ![recs[u].mat] = "zero"]
    <2>1. recs[u].mat = recs[u].ver
      BY <1>1, <1>2, <1>3 DEF DestroyWiped, At, DestroyOK
    <2>2. s \in [Versions -> Bytes] /\ s[recs[u].ver] = "zero" /\ slices' = [slices EXCEPT ![u] = s]
      BY <1>1, <1>2, <1>3, <2>1 DEF DestroyWiped, Bytes
    <2>3. proc' = [proc EXCEPT ![w] = q] /\ mu' = w /\ recs' = [recs EXCEPT ![u] = recs[u]]
      BY <1>1, <1>2, <1>3 DEF DestroyWiped, Goto
    <2>4. q \in Worker /\ q.pc = "wiped" /\ q.uid = u
      BY DEF Worker, Pc, Read
    <2> HIDE DEF q, s
    <2> QED BY <1>2, <2>1, <2>2, <2>3, <2>4, DestroyMoves DEF Destroying
  <1>4. CASE DestroyClears(w)
    <2> DEFINE q == [pc |-> "cleared", op |-> op, uid |-> u, mat |-> Unread,
                     out |-> "none", used |-> "nothing"]
               r == [recs[u] EXCEPT !.mat = 0]
    <2>1. r \in Record /\ r.mat = 0 /\ r.ver = recs[u].ver /\ r.state = recs[u].state
      BY <1>2, MemoryAssumption DEF Record
    <2>2. slices[u][r.ver] = "zero"
      BY <1>1, <1>2, <1>4, <2>1 DEF DestroyClears, At, DestroyOK
    <2>3. /\ proc' = [proc EXCEPT ![w] = q] /\ mu' = w
          /\ recs' = [recs EXCEPT ![u] = r] /\ slices' = [slices EXCEPT ![u] = slices[u]]
      BY <1>1, <1>2, <1>4 DEF DestroyClears, Goto
    <2>4. q \in Worker /\ q.pc = "cleared" /\ q.uid = u
      BY DEF Worker, Pc, Read
    <2> HIDE DEF q, r
    <2> QED BY <1>2, <2>1, <2>2, <2>3, <2>4, DestroyMoves DEF Destroying
  <1>5. CASE DestroyEnds(w)
    <2> DEFINE q == [pc |-> "done", op |-> op, uid |-> u, mat |-> Unread,
                     out |-> "success", used |-> "nothing"]
               r == [recs[u] EXCEPT !.state = Destroyed]
    <2>1. r \in Record /\ r.mat = recs[u].mat /\ r.ver = recs[u].ver /\ r.state = Destroyed
      BY <1>2, StateFacts DEF Record
    <2>2. slices[u][r.ver] = "zero" /\ r.mat = 0
      BY <1>1, <1>2, <1>5, <2>1 DEF DestroyEnds, At, DestroyOK
    <2>3. /\ proc' = [proc EXCEPT ![w] = q] /\ mu' = None
          /\ recs' = [recs EXCEPT ![u] = r] /\ slices' = [slices EXCEPT ![u] = slices[u]]
      BY <1>1, <1>2, <1>5 DEF DestroyEnds, Return
    <2>4. q \in Worker /\ q.pc = "done" /\ q.uid = u
      BY DEF Worker, Pc, Read
    <2> HIDE DEF q, r
    <2> QED BY <1>2, <2>1, <2>2, <2>3, <2>4, DestroyMoves DEF Destroying
  <1> QED BY <1>3, <1>4, <1>5

(* Reading and answering, without the lock. *)
LEMMA MemoryProceed ==
  ASSUME MInv, NEW w \in Workers, Proceed(w)
  PROVE  MInv'
  <1>1. /\ proc[w] \in Worker /\ proc[w].op \in Op
        /\ proc[w].pc \notin {"idle", "done"} => proc[w].uid \in Uids
    BY DEF MInv, TypeOK, Worker
  <1>2. ASSUME proc[w].pc \in {"check", "read", "use"}, Refuse(w, proc[w].op, proc[w].uid)
        PROVE  MInv'
    BY <1>1, <1>2, RefuseMoves DEF Destroying
  <1>3. CASE CheckState(w)
    <2>1. ASSUME NEW to \in {"lock", "read"}, Goto(w, to, proc[w].op, proc[w].uid, Unread),
                 UNCHANGED <<recs, slices, mu>>
          PROVE  MInv'
      BY <1>1, <1>3, <2>1, WorkerMoves DEF CheckState, At, Goto, Worker, Pc, Read, Destroying
    <2> QED BY <1>2, <1>3, <2>1 DEF CheckState, At
  <1>4. CASE ReadMaterial(w)
    <2> DEFINE q == [pc |-> "use", op |-> proc[w].op, uid |-> proc[w].uid,
                     mat |-> recs[proc[w].uid].mat, out |-> "none", used |-> "nothing"]
    <2>1. recs[proc[w].uid].mat \in Read
      BY <1>1, <1>4, MemoryAssumption DEF ReadMaterial, At, MInv, TypeOK, Record, Read, Versions
    <2>2. q \in Worker /\ q.pc = "use" /\ q.uid \in Uids
      BY <1>1, <1>4, <2>1 DEF ReadMaterial, At, Worker, Pc
    <2>3. ASSUME proc' = [proc EXCEPT ![w] = q], UNCHANGED <<recs, slices, mu>>
          PROVE  MInv'
      <3> HIDE DEF q
      <3> QED BY <1>4, <2>2, <2>3, WorkerMoves DEF ReadMaterial, At, Destroying
    <2> QED BY <1>2, <1>4, <2>3 DEF ReadMaterial, At, Goto
  <1>5. CASE UseMaterial(w)
    <2>1. PICK used \in {"nothing", "empty"} \cup Bytes :
            \/ Refuse(w, proc[w].op, proc[w].uid)
            \/ /\ \/ proc' = [proc EXCEPT ![w].pc = "insert", ![w].used = used]
                  \/ Return(w, proc[w].op, proc[w].uid, "success", used)
               /\ UNCHANGED <<recs, slices, mu>>
      BY <1>5 DEF UseMaterial, Tolerates, Bytes
    <2>2. CASE Return(w, proc[w].op, proc[w].uid, "success", used) /\ UNCHANGED <<recs, slices, mu>>
      BY <1>1, <1>5, <2>2, WorkerMoves DEF UseMaterial, At, Return, Worker, Pc, Read, Destroying
    <2>3. CASE /\ proc' = [proc EXCEPT ![w].pc = "insert", ![w].used = used]
               /\ UNCHANGED <<recs, slices, mu>>
      <3> DEFINE q == [proc[w] EXCEPT !.pc = "insert", !.used = used]
      <3>1. q \in Worker /\ q.pc = "insert" /\ q.uid \in Uids /\ proc' = [proc EXCEPT ![w] = q]
        BY <1>1, <1>5, <2>3 DEF UseMaterial, At, Worker, Pc, MInv, TypeOK
      <3> HIDE DEF q
      <3> QED BY <1>5, <2>3, <3>1, WorkerMoves DEF UseMaterial, At, Destroying
    <2> QED BY <1>2, <1>5, <2>1, <2>2, <2>3 DEF UseMaterial, At
  <1>6. CASE Respond(w)
    BY <1>6, WorkerMoves DEF Respond, At, Idle, Worker, Pc, Op, Read, Destroying
  <1> QED BY <1>3, <1>4, <1>5, <1>6, MemoryDestroys DEF Proceed

(* MInv is inductive. *)
LEMMA MemoryInvariance == Spec => []MInv
  <1>1. Init => MInv
    BY MemoryAssumption, StateFacts
       DEF Init, MInv, TypeOK, RecordOK, Found, NoRecord, Record, Bytes, Idle, Worker, Pc, Op, Read,
           Destroying, Versions
  <1>2. MInv /\ [Next]_vars => MInv'
    <2>1. ASSUME MInv, UNCHANGED vars
          PROVE  MInv'
      BY <2>1 DEF vars, MInv, TypeOK, DestroyOK, RecordOK, Found, Cleared
    <2> QED BY <2>1, MemoryReceive, MemoryAcquire, MemoryProceed DEF Next
  <1> QED BY <1>1, <1>2, PTL DEF Spec

(* The records, arrays, lock and workers keep their types: no handler moves *)
(* a key outside the states or reads an array that was never allocated.     *)
THEOREM MemoryTyping == Spec => []TypeOK
  <1>1. MInv => TypeOK
    BY DEF MInv
  <1> QED BY <1>1, MemoryInvariance, PTL

(* MemoryStore.Destroy leaves a record without material, and the array it   *)
(* held last all zeros, for any number of goroutines reading, rekeying and  *)
(* revoking beside it.                                                      *)
THEOREM MemoryDestructionWipes == Spec => []DestroyedIsWiped
  <1>1. MInv => DestroyedIsWiped
    BY DEF MInv, RecordOK, DestroyedIsWiped
  <1> QED BY <1>1, MemoryInvariance, PTL
-----------------------------------------------------------------------------
(* Record u, and no other, is born, moves, gets other material or dies. *)
RecordChange(u) ==
  /\ recs' = [recs EXCEPT ![u] = recs'[u]]
  /\ \/ recs[u].state = Absent /\ recs'[u].state = PreActive
     \/ /\ recs[u].state \in {PreActive, Active, Compromised}
        /\ \/ recs'[u].state \in {Active, Compromised} /\ recs'[u].mat = recs[u].mat
           \/ recs'[u].state = recs[u].state
           \/ recs'[u].state = Destroyed /\ recs'[u].mat = 0

RecordStep == UNCHANGED recs \/ \E u \in Uids : RecordChange(u)

(* The unlocked steps leave the records alone; each locked one changes the  *)
(* record it was called for, and only as KeyLifecycle allows.               *)
LEMMA RecordSteps == MInv /\ [Next]_vars => RecordStep
  <1> SUFFICES ASSUME MInv, [Next]_vars
               PROVE  RecordStep
    OBVIOUS
  <1>1. ASSUME NEW u \in Uids, AddRecord(u)
        PROVE  RecordStep
    BY <1>1 DEF AddRecord, RecordStep, RecordChange, MInv, TypeOK
  <1>2. ASSUME NEW w \in Workers, proc[w].pc \notin {"idle", "done"},
               recs[proc[w].uid].state \notin {Absent, Destroyed}
        PROVE  proc[w].uid \in Uids /\ recs[proc[w].uid] \in Record
               /\ recs[proc[w].uid].state \in {PreActive, Active, Compromised}
    BY <1>2 DEF MInv, TypeOK, RecordOK
  <1>3. CASE UNCHANGED vars
    BY <1>3 DEF vars, RecordStep
  <1>4. ASSUME NEW w \in Workers, Receive(w)
        PROVE  RecordStep
    BY <1>1, <1>4
       DEF RecordStep, Receive, Refuse, Create, Register, handleActivate, handleRevoke,
           handleDestroy, handleReKey, handleActivateKey, handleRevokeKey, handleDestroyKey,
           handleRekeyKey, handleGet, handleDeriveKey, handleEncrypt, handleDecrypt, handleSign,
           handleSignatureVerify, handleMAC, handleEncryptKey, handleDecryptKey, handleSignKey,
           handleVerifyKey, handleMACKey, Get, Straight
  <1>5. ASSUME NEW w \in Workers, Acquire(w)
        PROVE  RecordStep
    <2>1. CASE NotFound(w) \/ DestroyWipes(w)
      BY <2>1 DEF NotFound, Refuse, DestroyWipes, RecordStep
    <2>2. CASE InsertDerived(w)
      BY <1>1, <2>2 DEF InsertDerived, Refuse, RecordStep
    <2>3. CASE Activate(w) \/ Revoke(w)
      BY <1>2, <2>3
         DEF Activate, Revoke, Locked, At, Found, RecordStep, RecordChange, MInv, TypeOK, Record
    <2>4. CASE Rekey(w)
      <3> DEFINE u == proc[w].uid
                 v == recs[u].ver + 1
      <3>1. /\ u \in Uids /\ recs[u] \in Record /\ recs \in [Uids -> Record]
            /\ recs[u].state \in {PreActive, Active, Compromised}
        BY <1>2, <2>4 DEF Rekey, Locked, At, Found, MInv, TypeOK
      <3>2. UNCHANGED recs \/ recs' = [recs EXCEPT ![u] = [recs[u] EXCEPT !.mat = v, !.ver = v]]
        BY <2>4 DEF Rekey, Refuse
      <3> HIDE DEF u, v
      <3>3. ASSUME recs' = [recs EXCEPT ![u] = [recs[u] EXCEPT !.mat = v, !.ver = v]]
            PROVE  RecordChange(u)
        BY ONLY <3>1, <3>3 DEF RecordChange, Record
      <3> QED BY ONLY <3>1, <3>2, <3>3 DEF RecordStep
    <2> QED BY <1>5, <2>1, <2>2, <2>3, <2>4 DEF Acquire
  <1>6. ASSUME NEW w \in Workers, Proceed(w)
        PROVE  RecordStep
    <2>1. CASE CheckState(w) \/ ReadMaterial(w) \/ UseMaterial(w) \/ Respond(w) \/ DestroyWiped(w)
      BY <2>1 DEF CheckState, ReadMaterial, UseMaterial, Respond, DestroyWiped, Refuse, RecordStep
    <2>2. CASE DestroyClears(w) \/ DestroyEnds(w)
      <3>1. Found(proc[w].uid) /\ (DestroyEnds(w) => recs[proc[w].uid].mat = 0)
        BY <2>2 DEF MInv, DestroyOK, DestroyClears, DestroyEnds, At, Destroying
      <3> QED BY <1>2, <2>2, <3>1
              DEF DestroyClears, DestroyEnds, At, Found, RecordStep, RecordChange, MInv, TypeOK, Record
    <2> QED BY <1>6, <2>1, <2>2 DEF Proceed
  <1> QED BY <1>3, <1>4, <1>5, <1>6 DEF Next

(* The memory store implements the same KeyLifecycle as the SQLite store:   *)
(* also between the steps of a Destroy, and whatever handlers read without  *)
(* the lock, the records live the life that it describes.                   *)
THEOREM MemoryRefinement == Spec => ImplementsKeyLifecycle
  <1>1. Init => KL!LifeInit
    BY DEF Init, NoRecord, KL!LifeInit, Absent, KL!Absent
  <1>2. MInv /\ [Next]_vars => [KL!LifeNext]_(KL!lifeVars)
    <2> SUFFICES ASSUME MInv, [Next]_vars
                 PROVE  [KL!LifeNext]_(KL!lifeVars)
      OBVIOUS
    <2>1. RecordStep
      BY RecordSteps
    <2>2. CASE UNCHANGED recs
      BY <2>2 DEF KL!lifeVars
    <2>3. ASSUME NEW u \in Uids, RecordChange(u)
          PROVE  KL!LifeNext
      <3> DEFINE len(m) == IF m = 0 THEN 0 ELSE 1
                 life    == [v \in Uids |-> recs[v].state]
                 secret  == [v \in Uids |-> len(recs[v].mat)]
                 life2   == [v \in Uids |-> recs'[v].state]
                 secret2 == [v \in Uids |-> len(recs'[v].mat)]
      <3> USE DEF Absent, PreActive, Active, Compromised, Destroyed, KL!Living, KL!Absent,
                  KL!PreActive, KL!Active, KL!Compromised, KL!Destroyed
      <3>1. \A v \in Uids : v # u => recs'[v] = recs[v]
        BY <2>3 DEF RecordChange, MInv, TypeOK
      <3>2. life2 = [life EXCEPT ![u] = recs'[u].state]
        BY <3>1
      <3>3. secret2 = [secret EXCEPT ![u] = len(recs'[u].mat)]
        BY <3>1
      <3>4. KL!FreshSecret(u)
        BY <3>3 DEF KL!FreshSecret
      <3>5. CASE recs[u].state = Absent /\ recs'[u].state = PreActive
        <4>1. KL!Born(u)
          BY <3>2, <3>4, <3>5 DEF KL!Born
        <4> QED BY <4>1 DEF KL!LifeNext
      <3>6. CASE /\ recs[u].state \in {PreActive, Active, Compromised}
                 /\ recs'[u].state \in {Active, Compromised}
                 /\ recs'[u].mat = recs[u].mat
        <4>1. secret2 = secret
          BY <3>3, <3>6
        <4>2. KL!Move(u, Active) \/ KL!Move(u, Compromised)
          BY <3>2, <3>6, <4>1 DEF KL!Move
        <4> QED BY <4>2 DEF KL!LifeNext
      <3>7. CASE /\ recs[u].state \in {PreActive, Active, Compromised}
                 /\ recs'[u].state = recs[u].state
        <4>1. life2 = life
          BY <3>2, <3>7
        <4>2. KL!Replace(u)
          BY <3>4, <3>7, <4>1 DEF KL!Replace
        <4> QED BY <4>2 DEF KL!LifeNext
      <3>8. CASE /\ recs[u].state \in {PreActive, Active, Compromised}
                 /\ recs'[u].state = Destroyed /\ recs'[u].mat = 0
        <4>1. KL!Die(u)
          BY <3>2, <3>3, <3>8 DEF KL!Die
        <4> QED BY <4>1 DEF KL!LifeNext
      <3> QED BY <2>3, <3>5, <3>6, <3>7, <3>8 DEF RecordChange
    <2> QED BY <2>1, <2>2, <2>3 DEF RecordStep
  <1> QED BY <1>1, <1>2, MemoryInvariance, PTL DEF Spec, ImplementsKeyLifecycle, KL!LifeSpec
-----------------------------------------------------------------------------
(* Until a key is being destroyed, the arrays of every version keep the     *)
(* bytes of the key, and what a handler has read stays the key while it     *)
(* computes.                                                                *)

(* The record of u is in the map, destroyed or not. *)
Known(u) == recs[u].state # Absent

IntactBytes(u) == Known(u) => Ended(u) \/ \A v \in 1..recs[u].ver : slices[u][v] = "key"

ReadsKey(q) ==
  /\ q.pc \in Destroying => q.op \notin Users
  /\ q.op \in Users /\ q.pc \in {"check", "read", "use"} => Known(q.uid)
  /\ q.op \in Users /\ q.pc = "use" => Ended(q.uid) \/ q.mat \in 1..recs[q.uid].ver
  /\ q.op \in Users /\ q.out = "success" =>
       q.uid \in Uids /\ Known(q.uid) /\ (Ended(q.uid) \/ q.used = "key")

UInv ==
  /\ MInv
  /\ \A u \in Uids : IntactBytes(u)
  /\ \A w \in Workers : ReadsKey(proc[w])

(* The store only grows and keys only end: what the other workers have read *)
(* stays readable.                                                          *)
Grows(u) ==
  Known(u) => Known(u)' /\ recs[u].ver <= recs'[u].ver /\ (Ended(u) => Ended(u)')

LEMMA GrowingKeepsReaders ==
  ASSUME UInv, MInv', NEW w \in Workers,
         \A x \in Workers : x # w => proc'[x] = proc[x],
         ReadsKey(proc[w])',
         \A u \in Uids : IntactBytes(u)' /\ Grows(u)
  PROVE  UInv'
  <1>1. ASSUME NEW x \in Workers, x # w
        PROVE  ReadsKey(proc[x])'
    <2>1. proc'[x] = proc[x] /\ ReadsKey(proc[x])
      BY <1>1 DEF UInv
    <2>2. CASE proc[x].uid \in Uids
      <3>1. PICK u \in Uids : u = proc[x].uid
        BY <2>2
      <3>2. Grows(u) /\ recs[u].ver \in Nat /\ recs'[u].ver \in Nat
        BY DEF UInv, MInv, TypeOK, Record
      <3>3. ASSUME Known(u), proc[x].mat \in 1..recs[u].ver
            PROVE  proc[x].mat \in 1..recs'[u].ver
        BY ONLY <3>2, <3>3 DEF Grows
      <3>. QED  BY ONLY <2>1, <3>1, <3>2, <3>3 DEF ReadsKey, Grows
    <2>3. CASE proc[x].uid \notin Uids
      <3>1. proc[x].pc \notin {"check", "read", "use"}
        BY <2>3 DEF UInv, MInv
      <3>. QED  BY ONLY <2>1, <2>3, <3>1 DEF ReadsKey
    <2>. QED  BY <2>2, <2>3
  <1>. QED  BY <1>1 DEF UInv

(* A worker moves on and the store stays as it is. *)
LEMMA ReaderMoves ==
  ASSUME UInv, MInv', NEW w \in Workers, proc[w].pc \notin Destroying,
         NEW q, ReadsKey(q), proc' = [proc EXCEPT ![w] = q], UNCHANGED <<recs, slices, mu>>
  PROVE  UInv'
  <1>1. proc'[w] = q /\ \A x \in Workers : x # w => proc'[x] = proc[x]
    BY DEF UInv, MInv, TypeOK
  <1>2. mu \in Workers \cup {None} /\ mu # w
    BY DEF UInv, MInv, TypeOK
  <1>3. \A u : Ended(u)' <=> Ended(u)
    BY <1>1, <1>2 DEF Ended
  <1>4. \A u \in Uids : IntactBytes(u)' /\ Grows(u)
    BY <1>3 DEF UInv, MInv, TypeOK, Record, IntactBytes, Grows, Known
  <1>5. ReadsKey(proc[w])'
    BY <1>1, <1>3 DEF ReadsKey, Known
  <1>. QED  BY <1>1, <1>4, <1>5, GrowingKeepsReaders

(* A locked method gives a record a new version, or none, and returns. *)
LEMMA WriterReturns ==
  ASSUME UInv, MInv', mu = None, mu' = mu,
         NEW w \in Workers, NEW op \in Op, NEW u \in Uids, NEW used,
         op \notin Users, Return(w, op, u, "success", used),
         NEW r \in Record, NEW s,
         recs' = [recs EXCEPT ![u] = r], slices' = [slices EXCEPT ![u] = s],
         r.state \notin {Absent, Destroyed}, recs[u].state # Destroyed,
         Found(u) => recs[u].ver <= r.ver, \A v \in 1..r.ver : s[v] = "key"
  PROVE  UInv'
  <1>1. \A x \in Workers : x # w => proc'[x] = proc[x]
    BY DEF UInv, MInv, TypeOK, Return
  <1>2. ReadsKey(proc[w])'
    BY DEF UInv, MInv, TypeOK, Return, ReadsKey, Destroying
  <1>3. recs'[u] = r /\ slices'[u] = s
    BY DEF UInv, MInv, TypeOK
  <1>4. ASSUME NEW x \in Uids
        PROVE  IntactBytes(x)' /\ Grows(x)
    <2>1. CASE x = u
      BY <1>3, <2>1 DEF IntactBytes, Grows, Known, Ended, Found
    <2>2. CASE x # u
      <3>1. recs'[x] = recs[x] /\ slices'[x] = slices[x] /\ IntactBytes(x) /\ recs[x].ver \in Nat
        BY <2>2 DEF UInv, MInv, TypeOK, Record
      <3>. QED  BY <3>1 DEF IntactBytes, Grows, Known, Ended
    <2>. QED  BY <2>1, <2>2
  <1>. QED  BY <1>1, <1>2, <1>4, GrowingKeepsReaders

(* The steps of Destroy touch a key that has ended. *)
LEMMA DestroyerMoves ==
  ASSUME UInv, MInv', NEW w \in Workers, NEW q, q.op \notin Users,
         proc' = [proc EXCEPT ![w] = q],
         NEW u \in Uids, mu = None \/ (mu = w /\ proc[w].uid = u),
         NEW r \in Record, NEW s, r.ver = recs[u].ver,
         recs' = [recs EXCEPT ![u] = r], slices' = [slices EXCEPT ![u] = s],
         \/ mu' = w /\ q.uid = u /\ r.state = recs[u].state
         \/ mu = w /\ mu' = None /\ r.state = Destroyed
  PROVE  UInv'
  <1>1. proc'[w] = q /\ \A x \in Workers : x # w => proc'[x] = proc[x]
    BY DEF UInv, MInv, TypeOK
  <1>2. recs'[u] = r /\ \A x \in Uids : x # u => recs'[x] = recs[x] /\ slices'[x] = slices[x]
    BY DEF UInv, MInv, TypeOK
  <1>3. w # None /\ Ended(u)'
    BY <1>1, <1>2, MemoryAssumption DEF Ended
  <1>4. ReadsKey(proc[w])'
    BY <1>1 DEF ReadsKey
  <1>5. ASSUME NEW x \in Uids
        PROVE  IntactBytes(x)' /\ Grows(x)
    <2>1. recs[x].ver \in Nat /\ IntactBytes(x)
      BY DEF UInv, MInv, TypeOK, Record
    <2>2. CASE x = u
      BY <1>2, <1>3, <2>1, <2>2, StateFacts DEF IntactBytes, Grows, Known
    <2>3. CASE x # u
      <3>1. Ended(x)' <=> Ended(x)
        BY <1>1, <1>2, <1>3, <2>3 DEF Ended
      <3>. QED  BY <1>2, <2>1, <2>3, <3>1 DEF IntactBytes, Grows, Known
    <2>. QED  BY <2>2, <2>3
  <1>. QED  BY <1>1, <1>4, <1>5, GrowingKeepsReaders

(* A refused request has read nothing. *)
LEMMA RefusalReadsNothing ==
  ASSUME UInv, MInv', NEW w \in Workers, proc[w].pc \notin Destroying,
         NEW op, NEW u, Refuse(w, op, u)
  PROVE  UInv'
  <1> DEFINE q == [pc |-> "done", op |-> op, uid |-> u, mat |-> Unread,
                   out |-> "failure", used |-> "nothing"]
  <1>1. ReadsKey(q) /\ proc' = [proc EXCEPT ![w] = q] /\ UNCHANGED <<recs, slices, mu>>
    BY DEF ReadsKey, Refuse, Return, Destroying
  <1> HIDE DEF q
  <1> QED BY <1>1, ReaderMoves

(* A new record holds version 1, the key. *)
LEMMA AddedIsKey ==
  ASSUME UInv, MInv', NEW w \in Workers, NEW op \in Op, NEW u \in Uids,
         NEW used, op \notin Users, AddRecord(u), Return(w, op, u, "success", used)
  PROVE  UInv'
  <1> DEFINE r == [state |-> PreActive, mat |-> 1, ver |-> 1]
             s == [slices[u] EXCEPT ![1] = "key"]
  <1>1. 1 \in Versions /\ r \in Record /\ s[1] = "key"
    <2>1. 1 \in Versions
      BY ONLY MemoryAssumption DEF Versions
    <2>2. slices[u] \in [Versions -> Bytes]
      BY DEF UInv, MInv, TypeOK
    <2>3. r \in Record
      BY ONLY MemoryAssumption, StateFacts DEF Record
    <2> QED BY ONLY <2>1, <2>2, <2>3
  <1>2. /\ recs' = [recs EXCEPT ![u] = r] /\ slices' = [slices EXCEPT ![u] = s]
        /\ mu = None /\ mu' = mu /\ ~Found(u) /\ recs[u].state # Destroyed
    BY StateFacts DEF AddRecord, Found
  <1>3. /\ r.state \notin {Absent, Destroyed} /\ r.ver = 1
        /\ \A v \in 1..r.ver : s[v] = "key"
    BY <1>1, StateFacts
  <1> HIDE DEF r, s
  <1> QED BY <1>1, <1>2, <1>3, WriterReturns

(* A request about a key goes on, having found it if it means to use it. *)
LEMMA UserGoesOn ==
  ASSUME UInv, MInv', NEW w \in Workers, proc[w].pc \notin Destroying,
         NEW to \in {"check", "lock", "read"}, NEW op, NEW u,
         op \in Users /\ to # "lock" => Known(u),
         Goto(w, to, op, u, Unread), UNCHANGED <<recs, slices, mu>>
  PROVE  UInv'
  <1> DEFINE q == [pc |-> to, op |-> op, uid |-> u, mat |-> Unread,
                   out |-> "none", used |-> "nothing"]
  <1>1. ReadsKey(q) /\ proc' = [proc EXCEPT ![w] = q]
    BY DEF ReadsKey, Goto, Destroying
  <1> HIDE DEF q
  <1> QED BY <1>1, ReaderMoves

(* Where every request begins. *)
LEMMA MemoryRequests ==
  ASSUME NEW w \in Workers, Receive(w)
  PROVE  \E u \in Uids :
           \/ Create(w, u) \/ Register(w, u)
           \/ \E op \in Op : Straight(w, op, u) \/ Get(w, op, u, "check") \/ Get(w, op, u, "read")
  BY DEF Receive, handleActivate, handleRevoke,
         handleDestroy, handleReKey, handleActivateKey, handleRevokeKey, handleDestroyKey,
         handleRekeyKey, handleGet, handleDeriveKey, handleEncrypt, handleDecrypt, handleSign,
         handleSignatureVerify, handleMAC, handleEncryptKey, handleDecryptKey, handleSignKey,
         handleVerifyKey, handleMACKey, Op, KmipCrypto, RestCrypto

(* A request that begins keeps the bytes readable. *)
LEMMA ReceiveSpares ==
  ASSUME UInv, MInv', NEW w \in Workers, Receive(w)
  PROVE  UInv'
  <1>1. PICK u \in Uids :
          \/ Create(w, u) \/ Register(w, u)
          \/ \E op \in Op : Straight(w, op, u) \/ Get(w, op, u, "check") \/ Get(w, op, u, "read")
    BY MemoryRequests
  <1>2. proc[w].pc \notin Destroying
    BY <1>1 DEF Create, Register, Straight, Get, Begin, Destroying
  <1>3. ASSUME NEW op \in Op, NEW to \in {"check", "read"}, Get(w, op, u, to)
        PROVE  UInv'
    BY <1>2, <1>3, UserGoesOn, RefusalReadsNothing DEF Get, Found, Known
  <1>4. ASSUME NEW op \in Op, Straight(w, op, u)
        PROVE  UInv'
    BY <1>2, <1>4, UserGoesOn DEF Straight
  <1>5. CASE Create(w, u) \/ Register(w, u)
    BY <1>2, <1>5, AddedIsKey, RefusalReadsNothing
       DEF Create, Register, Op, Users, KmipCrypto, RestCrypto
  <1> QED BY <1>1, <1>3, <1>4, <1>5

(* So does a step that waits for no lock. *)
LEMMA ProceedSpares ==
  ASSUME UInv, MInv', NEW w \in Workers, Proceed(w)
  PROVE  UInv'
  <1>1. /\ proc[w] \in Worker /\ ReadsKey(proc[w])
        /\ proc[w].pc \notin {"idle", "done"} => proc[w].uid \in Uids
        /\ proc[w].pc \in Destroying <=> mu = w
    BY MemoryAssumption DEF UInv, MInv, TypeOK
  <1>2. CASE CheckState(w)
    <2>1. proc[w].pc = "check" /\ proc[w].pc \notin Destroying
      BY <1>2 DEF CheckState, At, Destroying
    <2>2. proc[w].op \in Users => Known(proc[w].uid)
      BY <1>1, <2>1 DEF ReadsKey
    <2> QED BY <1>2, <2>1, <2>2, UserGoesOn, RefusalReadsNothing DEF CheckState
  <1>3. CASE ReadMaterial(w)
    <2> DEFINE q == [pc |-> "use", op |-> proc[w].op, uid |-> proc[w].uid,
                     mat |-> recs[proc[w].uid].mat, out |-> "none", used |-> "nothing"]
    <2>0. proc[w].pc = "read" /\ proc[w].pc \notin Destroying
      BY <1>3 DEF ReadMaterial, At, Destroying
    <2>1. ASSUME proc[w].op \in Users
          PROVE  /\ Known(proc[w].uid)
                 /\ Ended(proc[w].uid) \/ recs[proc[w].uid].mat \in 1..recs[proc[w].uid].ver
      <3>1. Known(proc[w].uid) /\ proc[w].uid \in Uids
        BY <1>1, <2>0, <2>1 DEF ReadsKey
      <3>2. ASSUME ~Ended(proc[w].uid)
            PROVE  Found(proc[w].uid) /\ ~Cleared(proc[w].uid)
        BY <3>1, <3>2 DEF Ended, Found, Known, Cleared
      <3>3. ASSUME ~Ended(proc[w].uid)
            PROVE  /\ recs[proc[w].uid].mat = recs[proc[w].uid].ver
                   /\ recs[proc[w].uid].ver \in 1..MaxVersion
        BY <3>1, <3>2, <3>3 DEF UInv, MInv, RecordOK, Versions
      <3>. QED  BY <3>1, <3>3, MemoryAssumption
    <2>2. ReadsKey(q)
      BY <2>1 DEF ReadsKey, Destroying
    <2>3. \/ Refuse(w, proc[w].op, proc[w].uid)
          \/ proc' = [proc EXCEPT ![w] = q] /\ UNCHANGED <<recs, slices, mu>>
      BY <1>3 DEF ReadMaterial, Goto
    <2> HIDE DEF q
    <2> QED BY <2>0, <2>2, <2>3, ReaderMoves, RefusalReadsNothing
  <1>4. CASE UseMaterial(w)
    <2>0. proc[w].pc = "use" /\ proc[w].pc \notin Destroying
      BY <1>4 DEF UseMaterial, At, Destroying
    <2> DEFINE used == IF proc[w].mat = 0 THEN "empty" ELSE slices[proc[w].uid][proc[w].mat]
               q1 == [proc[w] EXCEPT !.pc = "insert", !.used = used]
               q2 == [pc |-> "done", op |-> proc[w].op, uid |-> proc[w].uid, mat |-> Unread,
                      out |-> "success", used |-> used]
    <2>1. ASSUME proc[w].op \in Users
          PROVE  proc[w].uid \in Uids /\ Known(proc[w].uid) /\ (Ended(proc[w].uid) \/ used = "key")
      <3>1. /\ proc[w].uid \in Uids /\ Known(proc[w].uid) /\ recs[proc[w].uid].ver \in Nat
            /\ Ended(proc[w].uid) \/ proc[w].mat \in 1..recs[proc[w].uid].ver
            /\ IntactBytes(proc[w].uid)
        BY <1>1, <2>0, <2>1 DEF ReadsKey, UInv, MInv, TypeOK, Record
      <3>2. ASSUME ~Ended(proc[w].uid)
            PROVE  proc[w].mat # 0 /\ slices[proc[w].uid][proc[w].mat] = "key"
        <4>1. \A v \in 1..recs[proc[w].uid].ver : slices[proc[w].uid][v] = "key"
          BY ONLY <3>1, <3>2 DEF IntactBytes
        <4>2. proc[w].mat \in 1..recs[proc[w].uid].ver
          BY ONLY <3>1, <3>2
        <4>3. proc[w].mat # 0
          BY ONLY <3>1, <4>2
        <4>. QED  BY ONLY <4>1, <4>2, <4>3
      <3>. QED  BY <3>1, <3>2
    <2>2. \/ Refuse(w, proc[w].op, proc[w].uid)
          \/ /\ proc' = [proc EXCEPT ![w] = q1] \/ proc' = [proc EXCEPT ![w] = q2]
             /\ UNCHANGED <<recs, slices, mu>>
      BY <1>1, <1>4 DEF UseMaterial, Return, UInv, MInv, TypeOK
    <2> HIDE DEF used
    <2>3. ReadsKey(q1) /\ ReadsKey(q2)
      BY <1>1, <2>0, <2>1 DEF ReadsKey, Worker, Destroying
    <2> HIDE DEF q1, q2
    <2> QED BY <2>0, <2>2, <2>3, ReaderMoves, RefusalReadsNothing
  <1>5. CASE Respond(w)
    <2>1. ReadsKey(Idle) /\ proc[w].pc \notin Destroying
      BY <1>5 DEF ReadsKey, Idle, Respond, At, Destroying
    <2> QED BY <1>5, <2>1, ReaderMoves DEF Respond
  <1>6. CASE DestroyWiped(w) \/ DestroyClears(w) \/ DestroyEnds(w)
    <2>0. proc[w].pc \in Destroying
      BY <1>6 DEF DestroyWiped, DestroyClears, DestroyEnds, At, Destroying
    <2>1. mu = w /\ proc[w].op \notin Users
      BY <1>1, <2>0 DEF ReadsKey
    <2>2. PICK u \in Uids : u = proc[w].uid
      BY <1>1, <2>0 DEF Destroying
    <2>3. recs[u] \in Record /\ recs = [recs EXCEPT ![u] = recs[u]] /\ slices = [slices EXCEPT ![u] = slices[u]]
      BY DEF UInv, MInv, TypeOK
    <2>4. CASE DestroyWiped(w)
      <3> DEFINE q == [pc |-> "wiped", op |-> proc[w].op, uid |-> u, mat |-> Unread,
                       out |-> "none", used |-> "nothing"]
                 s == [slices[u] EXCEPT ![recs[u].mat] = "zero"]
      <3>1. /\ proc' = [proc EXCEPT ![w] = q] /\ mu' = w /\ q.op \notin Users /\ q.uid = u
            /\ recs' = [recs EXCEPT ![u] = recs[u]]
        BY <2>1, <2>2, <2>3, <2>4 DEF DestroyWiped, Goto
      <3>2. slices' = [slices EXCEPT ![u] = s]
        BY <2>2, <2>4 DEF DestroyWiped, UInv, MInv, TypeOK
      <3> HIDE DEF q, s
      <3> QED BY <2>1, <2>2, <2>3, <3>1, <3>2, DestroyerMoves
    <2>5. CASE DestroyClears(w)
      <3> DEFINE q == [pc |-> "cleared", op |-> proc[w].op, uid |-> u, mat |-> Unread,
                       out |-> "none", used |-> "nothing"]
                 r == [recs[u] EXCEPT !.mat = 0]
      <3>1. /\ proc' = [proc EXCEPT ![w] = q] /\ mu' = w /\ q.op \notin Users /\ q.uid = u
            /\ slices' = [slices EXCEPT ![u] = slices[u]]
        BY <2>1, <2>2, <2>3, <2>5 DEF DestroyClears, Goto
      <3>2. recs' = [recs EXCEPT ![u] = r]
        BY <2>2, <2>5 DEF DestroyClears, UInv, MInv, TypeOK
      <3>3. r \in Record /\ r.ver = recs[u].ver /\ r.state = recs[u].state
        BY <2>3, MemoryAssumption DEF Record
      <3> HIDE DEF q, r
      <3> QED BY <2>1, <2>2, <3>1, <3>2, <3>3, DestroyerMoves
    <2>6. CASE DestroyEnds(w)
      <3> DEFINE q == [pc |-> "done", op |-> proc[w].op, uid |-> u, mat |-> Unread,
                       out |-> "success", used |-> "nothing"]
                 r == [recs[u] EXCEPT !.state = Destroyed]
      <3>1. /\ proc' = [proc EXCEPT ![w] = q] /\ mu' = None /\ q.op \notin Users
            /\ slices' = [slices EXCEPT ![u] = slices[u]]
        BY <2>1, <2>2, <2>3, <2>6 DEF DestroyEnds, Return
      <3>2. recs' = [recs EXCEPT ![u] = r]
        BY <2>2, <2>6 DEF DestroyEnds, UInv, MInv, TypeOK
      <3>3. r \in Record /\ r.ver = recs[u].ver /\ r.state = Destroyed
        BY <2>3, StateFacts DEF Record
      <3> HIDE DEF q, r
      <3> QED BY <2>1, <2>2, <3>1, <3>2, <3>3, DestroyerMoves
    <2> QED BY <1>6, <2>4, <2>5, <2>6
  <1> QED BY <1>2, <1>3, <1>4, <1>5, <1>6 DEF Proceed

(* So does a method that takes the lock. *)
LEMMA AcquireSpares ==
  ASSUME UInv, MInv', NEW w \in Workers, Acquire(w)
  PROVE  UInv'
  <1>1. /\ mu = None \/ Refuse(w, "DeriveKey", proc[w].uid)
        /\ proc[w].pc \in {"lock", "insert"}
    BY DEF Acquire, NotFound, Activate, Revoke, Rekey, DestroyWipes, InsertDerived,
           AddRecord, Locked, At
  <1>2. proc[w].pc \notin Destroying /\ proc[w].uid \in Uids /\ proc[w].op \in Op
    BY <1>1 DEF UInv, MInv, TypeOK, Worker, Destroying
  <1>3. PICK u \in Uids, op \in Op : u = proc[w].uid /\ op = proc[w].op
    BY <1>2
  <1>4. CASE NotFound(w)
    BY <1>2, <1>4, RefusalReadsNothing DEF NotFound
  <1>5. CASE InsertDerived(w)
    <2>1. "DeriveKey" \in Op /\ "DeriveKey" \notin Users
      BY DEF Op, Users, KmipCrypto, RestCrypto
    <2>2. CASE Refuse(w, "DeriveKey", proc[w].uid)
      BY <1>2, <2>2, RefusalReadsNothing
    <2>3. CASE ~Refuse(w, "DeriveKey", proc[w].uid)
      BY <1>5, <2>1, <2>3, AddedIsKey DEF InsertDerived
    <2> QED BY <2>2, <2>3
  <1>6. ASSUME Found(u), mu = None
        PROVE  /\ recs[u] \in Record /\ recs[u].ver \in Nat /\ recs[u].state \notin {Absent, Destroyed}
               /\ slices = [slices EXCEPT ![u] = slices[u]] /\ recs = [recs EXCEPT ![u] = recs[u]]
               /\ \A v \in 1..recs[u].ver : slices[u][v] = "key"
    BY <1>6 DEF UInv, MInv, TypeOK, Record, IntactBytes, Found, Known, Ended
  <1>7. CASE Activate(w) \/ Revoke(w)
    <2>1. PICK st \in {Active, Compromised} : recs' = [recs EXCEPT ![u].state = st]
      BY <1>3, <1>7 DEF Activate, Revoke
    <2> DEFINE r == [recs[u] EXCEPT !.state = st]
    <2>2. /\ Found(u) /\ slices' = slices /\ mu = None /\ mu' = mu
          /\ Return(w, op, u, "success", "nothing")
          /\ op \notin Users
      BY <1>3, <1>7 DEF Activate, Revoke, Locked, Users, KmipCrypto, RestCrypto
    <2>3. /\ r \in Record /\ r.ver = recs[u].ver /\ r.state = st
          /\ recs' = [recs EXCEPT ![u] = r]
      BY <1>6, <2>1, <2>2, StateFacts DEF Record, UInv, MInv, TypeOK
    <2>4. r.state \notin {Absent, Destroyed} /\ recs[u].ver <= r.ver /\ recs[u].state # Destroyed
      BY <1>6, <2>2, <2>3, StateFacts
    <2>5. slices' = [slices EXCEPT ![u] = slices[u]] /\ \A v \in 1..r.ver : slices[u][v] = "key"
      BY <1>6, <2>2, <2>3 DEF UInv, MInv, TypeOK
    <2>6. /\ mu = None /\ mu' = mu /\ Return(w, op, u, "success", "nothing") /\ op \notin Users
          /\ r \in Record /\ recs' = [recs EXCEPT ![u] = r]
      BY <2>2, <2>3
    <2> HIDE DEF r
    <2> QED BY <2>4, <2>5, <2>6, WriterReturns, Zenon
  <1>8. CASE Rekey(w)
    <2>1. CASE Refuse(w, op, u)
      BY <1>2, <2>1, RefusalReadsNothing
    <2>2. CASE ~Refuse(w, op, u)
      <3>1. PICK v \in Versions : v = recs[u].ver + 1
        BY <1>3, <1>8, <2>2 DEF Rekey
      <3> DEFINE r == [recs[u] EXCEPT !.mat = v, !.ver = v]
                 s == [slices[u] EXCEPT ![v] = "key"]
      <3>2. /\ Found(u) /\ mu = None /\ mu' = mu /\ Return(w, op, u, "success", "nothing")
            /\ op \notin Users
            /\ recs' = [recs EXCEPT ![u] = r] /\ slices' = [slices EXCEPT ![u] = s]
        BY <1>3, <1>8, <2>2, <3>1
           DEF Rekey, Locked, Users, KmipCrypto, RestCrypto, UInv, MInv, TypeOK
      <3>3. v \in 0..MaxVersion
        BY MemoryAssumption DEF Versions
      <3>4. r \in Record /\ r.ver = v /\ r.state = recs[u].state
        BY <1>6, <3>2, <3>3 DEF Record
      <3>5. \A x \in 1..v : s[x] = "key"
        BY <1>6, <3>1, <3>2 DEF UInv, MInv, TypeOK, Versions
      <3>6. recs[u].ver <= r.ver
        BY <1>6, <3>1, <3>2, <3>4
      <3> HIDE DEF r, s
      <3> QED BY <1>6, <3>2, <3>4, <3>5, <3>6, WriterReturns
    <2> QED BY <2>1, <2>2
  <1>9. CASE DestroyWipes(w)
    <2> DEFINE q == [pc |-> "wiping", op |-> op, uid |-> u, mat |-> Unread,
                     out |-> "none", used |-> "nothing"]
               s == [slices[u] EXCEPT ![recs[u].mat] = "mixed"]
    <2>1. Found(u) /\ mu = None /\ op \notin Users
      BY <1>3, <1>9 DEF DestroyWipes, Locked, Users, KmipCrypto, RestCrypto
    <2>2. /\ proc' = [proc EXCEPT ![w] = q] /\ mu' = w /\ q.op \notin Users /\ q.uid = u
      BY <1>3, <1>9, <2>1 DEF DestroyWipes, Goto
    <2>3. slices' = [slices EXCEPT ![u] = s]
      BY <1>3, <1>9 DEF DestroyWipes, UInv, MInv, TypeOK
    <2>4. recs' = [recs EXCEPT ![u] = recs[u]] /\ recs[u] \in Record
      BY <1>6, <1>9, <2>1 DEF DestroyWipes
    <2> HIDE DEF q, s
    <2> QED BY <2>1, <2>2, <2>3, <2>4, DestroyerMoves
  <1> QED BY <1>4, <1>5, <1>7, <1>8, <1>9 DEF Acquire

(* Only a Destroy of the same key can spoil the result of a request that    *)
(* reads State and Material without the lock: whatever activations, rekeys, *)
(* revocations and destructions of other keys run beside it, a success used *)
(* the bytes of the key or the Destroy of this key has begun.               *)
THEOREM CryptoIsSpoiltOnlyByDestroy == Spec => []OnlyDestroySpoils
  <1>1. Init /\ MInv => UInv
    BY DEF Init, UInv, IntactBytes, ReadsKey, Known, NoRecord, Idle, Destroying
  <1>2. UInv /\ MInv' /\ [Next]_vars => UInv'
    <2>1. ASSUME UInv, MInv', UNCHANGED vars
          PROVE  UInv'
      BY <2>1 DEF vars, UInv, IntactBytes, Ended, ReadsKey, Known
    <2>. QED  BY <2>1, ReceiveSpares, AcquireSpares, ProceedSpares DEF Next
  <1>3. UInv => OnlyDestroySpoils
    BY DEF UInv, ReadsKey, OnlyDestroySpoils
  <1>. QED  BY <1>1, <1>2, <1>3, MemoryInvariance, PTL DEF Spec
=============================================================================
