--------------------------- MODULE KeyServerProofs ---------------------------
(***************************************************************************)
(* Proofs about KeyServer, for any number of keys, workers and rekeys.     *)
(*                                                                         *)
(* Every step of the server is one of three kinds: it changes only the     *)
(* control state of one worker (ProcStep), or also one row (InsertStep,    *)
(* UpdateStep), or also the attributes of one key (AttrStep).  For each    *)
(* kind a lemma says what the step must satisfy to keep IInv; the theorem  *)
(* then checks, action by action, that it does.                            *)
(***************************************************************************)
EXTENDS KeyServer, TLAPS

(* The states of a living key that are ever stored. *)
Live == {PreActive, Active, Compromised}

(* No request, alone or interleaved with others, ever brings a key into     *)
(* Deactivated, DestroyedCompromised or Archived: Revoke always stores      *)
(* Compromised and Destroy always Destroyed, so the Archive handler, which  *)
(* wants a Deactivated key, and with it Recover, can never succeed.         *)
NeverParked ==
  \A u \in Uids : keys[u].state \notin {Deactivated, DestroyedCompromised, Archived}

(* Versions count from 1. *)
VersionsCount == \A u \in Uids : keys[u].state # Absent => keys[u].ver >= 1

(* What an in-flight handler p knows of the rows it has seen.  No Archive   *)
(* or Recover is ever past its state check; a rekey past its read has a     *)
(* valid length; between the two Registers of a key pair the private half   *)
(* is in the table.                                                         *)
Knows(p) ==
  /\ p.pc \in {"update", "rekeyGet", "rekeyUpdate", "insertPublic",
              "setAttribute", "deleteAttribute"}
       => p.uid \in Uids /\ keys[p.uid].state # Absent
  /\ p.pc = "update" => p.op \in {"Activate", "Revoke", "Destroy"}
  /\ p.pc \in {"rekeyGet", "rekeyUpdate"} => p.op \in {"ReKey", "RestRekey"}
  /\ p.pc = "rekeyUpdate" => ValidLength(p.len) /\ p.ver >= 1
  /\ p.pc = "insertDerived" => DerivedBytes(p.len) <= MaxDerivedKeyBytes
  /\ p.pc = "insertPublic" =>
       /\ p.op \in {"CreateKeyPair", "RestCreateKeyPair"}
       /\ keys[p.uid].type = "PrivateKey"
       /\ keys[p.uid].len = p.len
  /\ p.pc = "deleteAttribute" => p.op = "DeleteAttribute"
  /\ p.pc # "done" => p.out = "none"
  /\ p.wrote => p.pc \in {"insertPublic", "done"}

(* The inductive invariant: the invariants of KeyServer, which need each    *)
(* other, NeverParked, VersionsCount and Knows.                             *)
IInv ==
  /\ TypeOK
  /\ NeverParked
  /\ VersionsCount
  /\ DestroyedIsWiped
  /\ RepliesAreTruthful
  /\ PublicKeyHasPrivateHalf
  /\ AttributesHaveRow
  /\ MaterialBounded
  /\ \A w \in Workers : Knows(proc[w])

(* What IInv demands of row r, apart from its pair. *)
GoodRow(r) ==
  /\ r \in Row
  /\ r.ver >= 1
  /\ r.state \in Live \cup {Destroyed}
  /\ r.state = Destroyed => r.bytes = 0
  /\ r.bytes \in BoundedSizes

-----------------------------------------------------------------------------
(* The lengths the store accepts give a bounded number of bytes. *)
LEMMA LengthFacts ==
  ASSUME NEW len \in Int
  PROVE  /\ ValidLength(len) => KeyBytes(len) \in BoundedSizes
         /\ DerivedBytes(len) <= MaxDerivedKeyBytes => DerivedBytes(len) \in BoundedSizes
  <1>1. PICK most \in Nat : most = KeyBytes(MaxKeyLengthBits) /\ most = 4096
    BY DEF KeyBytes, MaxKeyLengthBits
  <1>2. BoundedSizes = MaterialSizes \cup 0..most
    BY <1>1 DEF BoundedSizes
  <1>3. ValidLength(len) => KeyBytes(len) \in 0..most
    BY <1>1 DEF ValidLength, KeyBytes, MaxKeyLengthBits
  <1>4. DerivedBytes(len) <= MaxDerivedKeyBytes => DerivedBytes(len) \in 0..most
    BY <1>1 DEF DerivedBytes, MaxDerivedKeyBytes
  <1>. QED  BY ONLY <1>2, <1>3, <1>4

(* Sizes are natural numbers, and include 0 and what clients supply. *)
LEMMA SizeFacts ==
  0 \in BoundedSizes /\ BoundedSizes \subseteq Nat /\ MaterialSizes \subseteq BoundedSizes
  <1>1. PICK most \in Nat : most = KeyBytes(MaxKeyLengthBits)
    BY DEF KeyBytes, MaxKeyLengthBits
  <1>2. BoundedSizes = MaterialSizes \cup 0..most
    BY <1>1 DEF BoundedSizes
  <1>3. 0 \in 0..most /\ 0..most \subseteq Nat
    OBVIOUS
  <1>4. MaterialSizes \subseteq Nat
    BY ConstantsAssumption
  <1>. QED  BY ONLY <1>2, <1>3, <1>4

(* A key pair records a length that Register accepts. *)
LEMMA PairLengthFacts ==
  ASSUME NEW len \in Int, NEW n \in PairLengths(len)
  PROVE  n \in Nat
  BY DEF PairLengths, CurveLength, MinRSABits

-----------------------------------------------------------------------------
(* A step that changes only worker w keeps IInv if the new control state is *)
(* truthful and knows what it must.                                         *)
LEMMA ProcStep ==
  ASSUME IInv, NEW w \in Workers, NEW p \in Worker,
         proc' = [proc EXCEPT ![w] = p], UNCHANGED <<keys, attrs>>,
         Truthful(p), Knows(p)
  PROVE  IInv'
  <1>1. TypeOK'
    BY DEF IInv, TypeOK
  <1>2. \A v \in Workers : proc'[v] = IF v = w THEN p ELSE proc[v]
    BY DEF IInv, TypeOK
  <1>3. RepliesAreTruthful'
    BY <1>2 DEF IInv, RepliesAreTruthful, Truthful
  <1>4. \A v \in Workers : Knows(proc[v])'
    BY <1>2 DEF IInv, Knows
  <1>5. /\ NeverParked' /\ VersionsCount'
        /\ DestroyedIsWiped'
        /\ PublicKeyHasPrivateHalf'
        /\ AttributesHaveRow'
        /\ MaterialBounded'
    BY DEF IInv, NeverParked, VersionsCount, DestroyedIsWiped, PublicKeyHasPrivateHalf,
           AttributesHaveRow, MaterialBounded
  <1>. QED  BY <1>1, <1>3, <1>4, <1>5 DEF IInv

(* So does a step that also changes row u into a good row and keeps what    *)
(* other rows and workers rely on: that the row is there, its type and its  *)
(* length.  An insert meets these demands because its row was absent.       *)
LEMMA RowStep ==
  ASSUME IInv, NEW w \in Workers, NEW p \in Worker, NEW u \in Uids, NEW r,
         GoodRow(r), keys[u].state # Destroyed,
         keys[u].state # Absent =>
           r.type = keys[u].type /\ r.len = keys[u].len /\ r.pair = keys[u].pair,
         keys[u].state = Absent /\ r.pair # NoUid =>
           /\ keys[r.pair].type = "PrivateKey"
           /\ keys[r.pair].state # Absent
           /\ keys[r.pair].len = r.len,
         keys' = [keys EXCEPT ![u] = r], UNCHANGED attrs,
         proc' = [proc EXCEPT ![w] = p],
         Truthful(p)', Knows(p)'
  PROVE  IInv'
  <1>1. TypeOK'
    BY DEF IInv, TypeOK, GoodRow
  <1>2. \A v \in Workers : proc'[v] = IF v = w THEN p ELSE proc[v]
    BY DEF IInv, TypeOK
  <1>3. \A v \in Uids : keys'[v] = IF v = u THEN r ELSE keys[v]
    BY DEF IInv, TypeOK
  <1>4. r.state # Absent
    BY DEF GoodRow, Live, Absent, PreActive, Active, Compromised, Destroyed
  <1>5. ASSUME NEW v \in Workers
        PROVE  Truthful(proc[v])'
    <2>1. CASE v = w
      BY <2>1, <1>2 DEF Truthful
    <2>2. CASE v # w
      <3>1. Truthful(proc[v]) /\ proc'[v] = proc[v]
        BY <2>2, <1>2 DEF IInv, RepliesAreTruthful
      <3>. QED  BY <3>1, <1>3, <1>4 DEF Truthful
    <2>. QED  BY <2>1, <2>2
  <1>6. ASSUME NEW v \in Workers
        PROVE  Knows(proc[v])'
    <2>1. CASE v = w
      BY <2>1, <1>2 DEF Knows
    <2>2. CASE v # w
      <3>1. Knows(proc[v]) /\ proc'[v] = proc[v]
        BY <2>2, <1>2 DEF IInv
      <3>. QED  BY <3>1, <1>3, <1>4 DEF Knows
    <2>. QED  BY <2>1, <2>2
  <1>7. NeverParked' /\ VersionsCount' /\ DestroyedIsWiped' /\ MaterialBounded'
    BY <1>3 DEF IInv, GoodRow, NeverParked, VersionsCount, DestroyedIsWiped, MaterialBounded, Live,
        PreActive, Active, Compromised, Destroyed, Deactivated, DestroyedCompromised, Archived
  <1>8. AttributesHaveRow'
    BY <1>3, <1>4 DEF IInv, AttributesHaveRow
  <1>9. PublicKeyHasPrivateHalf'
    <2>. SUFFICES ASSUME NEW v \in Uids, keys'[v].pair # NoUid
                  PROVE  /\ keys'[keys'[v].pair].type = "PrivateKey"
                         /\ keys'[keys'[v].pair].state # Absent
                         /\ keys'[keys'[v].pair].len = keys'[v].len
      BY DEF PublicKeyHasPrivateHalf
    <2>1. keys'[v].pair \in Uids
      BY <1>1 DEF TypeOK, Row
    <2>2. /\ keys[keys'[v].pair].type = "PrivateKey"
          /\ keys[keys'[v].pair].state # Absent
          /\ keys[keys'[v].pair].len = keys'[v].len
      BY <1>3 DEF IInv, PublicKeyHasPrivateHalf
    <2>. QED  BY <2>1, <2>2, <1>3, <1>4
  <1>. QED  BY <1>1, <1>5, <1>6, <1>7, <1>8, <1>9 DEF IInv, RepliesAreTruthful

-----------------------------------------------------------------------------
(* The building blocks of the handlers keep IInv. *)

(* A handler that answers with an error before it has changed anything. *)
LEMMA RefuseStep ==
  ASSUME IInv, NEW w \in Workers, NEW op \in Op, NEW u \in Uids \cup {NoUid},
         Refuse(w, op, u)
  PROVE  IInv'
  <1>. DEFINE p == [pc |-> "done", op |-> op, uid |-> u, len |-> 0, ver |-> 0,
                    wrote |-> FALSE, out |-> "failure"]
  <1>1. p \in Worker
    BY DEF Worker, Pc
  <1>2. Truthful(p) /\ Knows(p)
    BY DEF Truthful, Knows
  <1>3. proc' = [proc EXCEPT ![w] = p] /\ UNCHANGED <<keys, attrs>>
    BY DEF Refuse, Return
  <1>. HIDE DEF p
  <1>. QED  BY <1>1, <1>2, <1>3, ProcStep

(* A handler that answers with the error of its last statement. *)
LEMMA FailStep ==
  ASSUME IInv, NEW w \in Workers, proc[w].pc # "done", Fail(w)
  PROVE  IInv'
  <1>. DEFINE p == [pc |-> "done", op |-> proc[w].op, uid |-> proc[w].uid, len |-> 0,
                    ver |-> 0, wrote |-> proc[w].wrote, out |-> "failure"]
  <1>0. proc[w] \in Worker /\ Knows(proc[w])
    BY DEF IInv, TypeOK
  <1>1. p \in Worker
    BY <1>0 DEF Worker, Pc
  <1>2. Truthful(p) /\ Knows(p)
    BY <1>0 DEF Truthful, Knows
  <1>3. proc' = [proc EXCEPT ![w] = p] /\ UNCHANGED <<keys, attrs>>
    BY DEF Fail, Return
  <1>. HIDE DEF p
  <1>. QED  BY <1>1, <1>2, <1>3, ProcStep

(* A handler that goes on to the statement pc. *)
LEMMA GotoStep ==
  ASSUME IInv, NEW w \in Workers, NEW pc \in Pc, NEW op \in Op, NEW u \in Uids,
         NEW len \in Int, NEW ver \in Nat,
         Goto(w, pc, op, u, len, ver, FALSE), UNCHANGED <<keys, attrs>>,
         keys[u].state # Absent, pc \notin {"done", "insertPublic"},
         pc = "update" => op \in {"Activate", "Revoke", "Destroy"},
         pc \in {"rekeyGet", "rekeyUpdate"} => op \in {"ReKey", "RestRekey"},
         pc = "rekeyUpdate" => ValidLength(len) /\ ver >= 1,
         pc = "deleteAttribute" => op = "DeleteAttribute",
         pc = "insertDerived" => DerivedBytes(len) <= MaxDerivedKeyBytes
  PROVE  IInv'
  <1>. DEFINE p == [pc |-> pc, op |-> op, uid |-> u, len |-> len, ver |-> ver,
                    wrote |-> FALSE, out |-> "none"]
  <1>1. p \in Worker
    BY DEF Worker
  <1>2. Truthful(p) /\ Knows(p)
    BY DEF Truthful, Knows
  <1>3. proc' = [proc EXCEPT ![w] = p]
    BY DEF Goto
  <1>. HIDE DEF p
  <1>. QED  BY <1>1, <1>2, <1>3, ProcStep

(* The single-UPDATE methods: activate, revoke and destroy. *)
LEMMA UpdateStep ==
  ASSUME IInv, NEW w \in Workers, NEW op \in Op, NEW u \in Uids,
         NEW stmt \in {"Activate", "Revoke", "Destroy"}, ExecUpdate(w, op, stmt, u)
  PROVE  IInv'
  <1>1. CASE Refuse(w, op, u)
    BY <1>1, RefuseStep
  <1>2. CASE /\ Matches(stmt, u)
             /\ keys' = [keys EXCEPT ![u] = Update(stmt, @)]
             /\ Return(w, op, u, TRUE, "success")
             /\ UNCHANGED attrs
    <2>. DEFINE p == [pc |-> "done", op |-> op, uid |-> u, len |-> 0, ver |-> 0,
                      wrote |-> TRUE, out |-> "success"]
                r == Update(stmt, keys[u])
    <2>1. p \in Worker
      BY DEF Worker, Pc
    <2>2. Truthful(p)' /\ Knows(p)'
      BY DEF Truthful, Knows
    <2>3. /\ keys[u] \in Row
          /\ keys[u].bytes \in BoundedSizes
          /\ keys[u].state \notin {Absent, Destroyed}
          /\ keys[u].ver >= 1
      BY <1>2 DEF IInv, TypeOK, MaterialBounded, VersionsCount, Matches, Get
    <2>4. GoodRow(r)
      <3>. USE <2>3 DEF GoodRow, Row, Update, KeyState, Live, PreActive, Active,
                        Compromised, Destroyed
      <3>2. CASE stmt = "Activate"  BY <3>2 DEF Activate
      <3>3. CASE stmt = "Revoke"    BY <3>3 DEF Revoke
      <3>4. CASE stmt = "Destroy"   BY <3>4, SizeFacts DEF Destroy
      <3>. QED  BY <3>2, <3>3, <3>4
    <2>5. r.type = keys[u].type /\ r.len = keys[u].len /\ r.pair = keys[u].pair
      BY <2>3 DEF Row, Update, Activate, Revoke, Destroy
    <2>6. keys' = [keys EXCEPT ![u] = r] /\ proc' = [proc EXCEPT ![w] = p] /\ UNCHANGED attrs
      BY <1>2 DEF Return
    <2>. HIDE DEF p, r
    <2>. QED  BY <2>1, <2>2, <2>3, <2>4, <2>5, <2>6, RowStep
  <1>. QED  BY <1>1, <1>2 DEF ExecUpdate

(* An insert that ends its handler. *)
LEMMA InsertStep ==
  ASSUME IInv, NEW w \in Workers, NEW op \in Op, NEW v \in Uids \cup {NoUid},
         NEW u \in Uids, NEW type \in ObjectType, NEW len \in Int,
         NEW bytes \in BoundedSizes,
         NEW pair \in Uids \cup {NoUid},
         pair # NoUid =>
           /\ keys[pair].type = "PrivateKey"
           /\ keys[pair].state # Absent
           /\ keys[pair].len = len,
         Insert(u, type, len, bytes, pair), Return(w, op, v, TRUE, "success")
  PROVE  IInv'
  <1>. DEFINE p == [pc |-> "done", op |-> op, uid |-> v, len |-> 0, ver |-> 0,
                    wrote |-> TRUE, out |-> "success"]
              r == [state |-> PreActive, type |-> type, len |-> len, bytes |-> bytes,
                    ver |-> 1, pair |-> pair]
  <1>1. p \in Worker
    BY DEF Worker, Pc
  <1>2. Truthful(p)' /\ Knows(p)'
    BY DEF Truthful, Knows
  <1>3. bytes \in Nat
    BY SizeFacts
  <1>4. GoodRow(r)
    BY <1>3 DEF GoodRow, Row, KeyState, Live, PreActive, Destroyed
  <1>5. /\ keys' = [keys EXCEPT ![u] = r]
        /\ proc' = [proc EXCEPT ![w] = p]
        /\ UNCHANGED attrs
        /\ keys[u].state = Absent
    BY DEF Insert, Return
  <1>6. r.pair = pair /\ r.len = len /\ keys[u].state # Destroyed
    BY <1>5 DEF Absent, Destroyed
  <1>. HIDE DEF p, r
  <1>. QED  BY <1>1, <1>2, <1>4, <1>5, <1>6, RowStep

-----------------------------------------------------------------------------
(* The handlers with statements of their own keep IInv. *)

(* A key pair's first Register: the private half is stored, and the worker *)
(* knows where.                                                             *)
LEMMA RegisterPrivateStep ==
  ASSUME IInv, NEW w \in Workers, NEW op \in Op,
         op \in {"CreateKeyPair", "RestCreateKeyPair"}, NEW len \in Int, NEW bytes \in MaterialSizes, RegisterPrivate(w, op, len, bytes)
  PROVE  IInv'
  <1>1. CASE Refuse(w, op, NoUid)
    BY <1>1, RefuseStep
  <1>2. ASSUME NEW n \in PairLengths(len), NEW u \in Uids,
               Register(u, "PrivateKey", n, bytes, NoUid),
               Goto(w, "insertPublic", op, u, n, 0, TRUE)
        PROVE  IInv'
    <2>. DEFINE p == [pc |-> "insertPublic", op |-> op, uid |-> u, len |-> n, ver |-> 0,
                      wrote |-> TRUE, out |-> "none"]
                r == [state |-> PreActive, type |-> "PrivateKey", len |-> n,
                      bytes |-> bytes, ver |-> 1, pair |-> NoUid]
    <2>1. n \in Nat
      BY PairLengthFacts
    <2>2. p \in Worker
      BY <2>1 DEF Worker, Pc
    <2>3. GoodRow(r)
      BY <2>1, SizeFacts
         DEF GoodRow, Row, ObjectType, KeyState, Live, PreActive, Destroyed
    <2>4. /\ keys' = [keys EXCEPT ![u] = r]
          /\ proc' = [proc EXCEPT ![w] = p]
          /\ UNCHANGED attrs
          /\ keys[u].state = Absent
      BY <1>2 DEF Register, Insert, Goto
    <2>5. keys'[u] = r
      BY <2>4 DEF IInv, TypeOK
    <2>6. Truthful(p)' /\ Knows(p)'
      BY <2>5 DEF Truthful, Knows, PreActive, Absent
    <2>7. r.pair = NoUid /\ keys[u].state # Destroyed
      BY <2>4 DEF Absent, Destroyed
    <2>. HIDE DEF p, r
    <2>. QED  BY <2>2, <2>3, <2>4, <2>6, <2>7, RowStep
  <1>. QED  BY <1>1, <1>2 DEF RegisterPrivate

(* The second Register of a key pair. *)
LEMMA RegisterPublicStep ==
  ASSUME IInv, NEW w \in Workers, NEW bytes \in MaterialSizes, RegisterPublic(w, bytes)
  PROVE  IInv'
  <1>0. proc[w] \in Worker /\ Knows(proc[w]) /\ proc[w].pc = "insertPublic"
    BY DEF IInv, TypeOK, RegisterPublic
  <1>1. CASE Fail(w)
    BY <1>0, <1>1, FailStep
  <1>2. ASSUME NEW u \in Uids,
               Register(u, "PublicKey", proc[w].len, bytes, proc[w].uid),
               Return(w, proc[w].op, proc[w].uid, TRUE, "success")
        PROVE  IInv'
    <2>1. /\ proc[w].op \in Op
          /\ proc[w].len \in Int
          /\ proc[w].uid \in Uids
          /\ keys[proc[w].uid].type = "PrivateKey"
          /\ keys[proc[w].uid].state # Absent
          /\ keys[proc[w].uid].len = proc[w].len
      BY <1>0 DEF Worker, Knows
    <2>2. Insert(u, "PublicKey", proc[w].len, bytes, proc[w].uid)
      BY <1>2 DEF Register
    <2>3. "PublicKey" \in ObjectType
      BY DEF ObjectType
    <2>. QED  BY <1>2, <2>1, <2>2, <2>3, SizeFacts, InsertStep
  <1>. QED  BY <1>1, <1>2 DEF RegisterPublic

(* New material of bounded size makes a good row of a living one. *)
LEMMA RekeyedRow ==
  ASSUME NEW k \in Row, k.state \in Live, NEW v \in Nat, v >= 1,
         NEW b \in BoundedSizes
  PROVE  LET r == [k EXCEPT !.bytes = b, !.ver = v]
         IN  GoodRow(r) /\ r.type = k.type /\ r.len = k.len /\ r.pair = k.pair
  <1>. DEFINE r == [k EXCEPT !.bytes = b, !.ver = v]
  <1>1. r \in Row
    BY SizeFacts DEF Row
  <1>2. /\ r.state = k.state
        /\ r.type = k.type
        /\ r.len = k.len
        /\ r.pair = k.pair
        /\ r.bytes = b
        /\ r.ver = v
    BY DEF Row
  <1>3. Destroyed \notin Live
    BY DEF Live, PreActive, Active, Compromised, Destroyed
  <1>. HIDE DEF r
  <1>4. GoodRow(r)
    BY <1>1, <1>2, <1>3 DEF GoodRow
  <1>5. GoodRow(r) /\ r.type = k.type /\ r.len = k.len /\ r.pair = k.pair
    BY <1>2, <1>4
  <1>. QED  BY <1>5 DEF r

(* The UPDATE of Rekey, on a row that may have been destroyed meanwhile. *)
LEMMA RekeyUpdateStep ==
  ASSUME IInv, NEW w \in Workers, RekeyUpdate(w)
  PROVE  IInv'
  <1>. PICK q : q = proc[w]
    OBVIOUS
  <1>. DEFINE u == q.uid
  <1>0. q \in Worker /\ Knows(q) /\ q.pc = "rekeyUpdate"
    BY DEF IInv, TypeOK, RekeyUpdate
  <1>1. /\ u \in Uids
        /\ q.op \in Op /\ q.op \in {"ReKey", "RestRekey"}
        /\ q.ver \in Nat
        /\ q.len \in Int
        /\ ValidLength(q.len)
        /\ keys[u].state # Absent
    BY <1>0 DEF Knows, Worker
  <1>2. CASE Fail(w)
    BY <1>0, <1>2, FailStep
  <1>3. CASE /\ Get(u)
             /\ keys' = [keys EXCEPT ![u].bytes = KeyBytes(q.len), ![u].ver = q.ver + 1]
             /\ Return(w, q.op, u, TRUE, "success")
             /\ UNCHANGED attrs
    <2>. DEFINE p == [pc |-> "done", op |-> q.op, uid |-> u, len |-> 0, ver |-> 0,
                      wrote |-> TRUE, out |-> "success"]
                r == [keys[u] EXCEPT !.bytes = KeyBytes(q.len), !.ver = q.ver + 1]
    <2>1. p \in Worker
      BY <1>1 DEF Worker, Pc
    <2>2. Truthful(p)' /\ Knows(p)'
      BY DEF Truthful, Knows
    <2>3. keys[u] \in Row /\ keys[u].state \in Live
      BY <1>1, <1>3 DEF IInv, TypeOK, Row, NeverParked, Get, KeyState, Live
    <2>4. KeyBytes(q.len) \in BoundedSizes
      BY <1>1, LengthFacts
    <2>5. q.ver + 1 \in Nat /\ q.ver + 1 >= 1
      BY <1>1
    <2>6. GoodRow(r) /\ r.type = keys[u].type /\ r.len = keys[u].len /\ r.pair = keys[u].pair
      BY <2>3, <2>4, <2>5, RekeyedRow
    <2>7. u \in Uids
      BY <1>1
    <2>8. keys[u].state # Absent /\ keys[u].state # Destroyed
      BY <1>3 DEF Get
    <2>9. keys' = [keys EXCEPT ![u] = r]
      BY <1>1, <1>3 DEF IInv, TypeOK
    <2>10. proc' = [proc EXCEPT ![w] = p] /\ UNCHANGED attrs
      BY <1>3 DEF Return
    <2>. HIDE DEF p, r, u
    <2>. QED  BY <2>1, <2>2, <2>6, <2>7, <2>8, <2>9, <2>10, RowStep
  <1>4. CASE /\ ~Get(u)
             /\ Return(w, q.op, u, FALSE, "success")
             /\ UNCHANGED <<keys, attrs>>
    <2>. DEFINE p == [pc |-> "done", op |-> q.op, uid |-> u, len |-> 0, ver |-> 0,
                      wrote |-> FALSE, out |-> "success"]
    <2>1. p \in Worker
      BY <1>1 DEF Worker, Pc
    <2>2. keys[u].state = Destroyed
      BY <1>1, <1>4 DEF Get
    <2>3. Truthful(p) /\ Knows(p)
      BY <1>1, <2>2 DEF Truthful, Knows
    <2>4. proc' = [proc EXCEPT ![w] = p]
      BY <1>4 DEF Return
    <2>. HIDE DEF p
    <2>. QED  BY <1>4, <2>1, <2>3, <2>4, ProcStep
  <1>. QED  BY <1>2, <1>3, <1>4 DEF RekeyUpdate

(* A change of the attributes of a key whose row is there. *)
LEMMA AttrStep ==
  ASSUME IInv, NEW w \in Workers,
         proc[w].pc \in {"setAttribute", "deleteAttribute"},
         NEW names \in SUBSET AttrNames, ExecAttributes(w, proc[w].uid, names)
  PROVE  IInv'
  <1>. PICK q : q = proc[w]
    OBVIOUS
  <1>. PICK wrote \in BOOLEAN : wrote = (q.pc = "setAttribute" \/ names # attrs[q.uid])
    OBVIOUS
  <1>. DEFINE p == [pc |-> "done", op |-> q.op, uid |-> q.uid, len |-> 0, ver |-> 0,
                    wrote |-> wrote, out |-> "success"]
  <1>1. /\ q \in Worker /\ q.uid \in Uids /\ keys[q.uid].state # Absent
        /\ ~wrote => q.op = "DeleteAttribute"
    BY DEF IInv, TypeOK, Knows
  <1>2. p \in Worker
    BY <1>1 DEF Worker, Pc
  <1>3. Truthful(p) /\ Knows(p)'
    BY <1>1 DEF Truthful, Knows
  <1>4. /\ proc' = [proc EXCEPT ![w] = p]
        /\ attrs' = [attrs EXCEPT ![q.uid] = names]
        /\ keys' = keys
    BY DEF ExecAttributes, Return
  <1>. HIDE DEF p
  <1>5. \A v \in Workers : proc'[v] = IF v = w THEN p ELSE proc[v]
    BY <1>4 DEF IInv, TypeOK
  <1>6. TypeOK'
    BY <1>1, <1>2, <1>4 DEF IInv, TypeOK
  <1>7. RepliesAreTruthful'
    <2>1. \A v \in Workers : Truthful(proc[v])
      BY DEF IInv, RepliesAreTruthful
    <2>. QED  BY ONLY <1>3, <1>4, <1>5, <2>1 DEF RepliesAreTruthful, Truthful
  <1>8. ASSUME NEW v \in Workers
        PROVE  Knows(proc[v])'
    <2>1. CASE v = w
      <3>1. proc'[v] = p
        BY <1>5, <2>1
      <3>. QED  BY ONLY <1>3, <3>1 DEF Knows
    <2>2. CASE v # w
      <3>1. Knows(proc[v]) /\ proc'[v] = proc[v]
        BY <1>5, <2>2 DEF IInv
      <3>. QED  BY ONLY <1>4, <3>1 DEF Knows
    <2>. QED  BY <2>1, <2>2
  <1>9. AttributesHaveRow'
    BY <1>1, <1>4 DEF IInv, TypeOK, AttributesHaveRow
  <1>10. /\ NeverParked' /\ VersionsCount' /\ DestroyedIsWiped'
         /\ PublicKeyHasPrivateHalf' /\ MaterialBounded'
    BY <1>4 DEF IInv, NeverParked, VersionsCount, DestroyedIsWiped, PublicKeyHasPrivateHalf,
        MaterialBounded
  <1>. QED  BY <1>6, <1>7, <1>8, <1>9, <1>10 DEF IInv

-----------------------------------------------------------------------------
(* The inductive argument. *)

(* An idle worker knows nothing and has said nothing. *)
LEMMA IdleFacts == Idle \in Worker /\ Truthful(Idle) /\ Knows(Idle)
  BY DEF Idle, Worker, Op, Pc, Truthful, Knows

(* The empty database, with every worker idle, satisfies IInv. *)
LEMMA InitInv == Init => IInv
  <1>. SUFFICES ASSUME Init PROVE IInv
    OBVIOUS
  <1>1. NoRow \in Row
    BY DEF NoRow, Row, ObjectType
  <1>2. TypeOK
    BY <1>1, IdleFacts DEF Init, TypeOK
  <1>3. \A w \in Workers : Truthful(proc[w]) /\ Knows(proc[w])
    BY IdleFacts DEF Init
  <1>4. \A u \in Uids : keys[u] = NoRow /\ attrs[u] = {}
    BY DEF Init
  <1>5. /\ NeverParked /\ VersionsCount
        /\ DestroyedIsWiped
        /\ PublicKeyHasPrivateHalf
        /\ AttributesHaveRow
    BY <1>4 DEF NoRow, NeverParked, VersionsCount, DestroyedIsWiped, PublicKeyHasPrivateHalf,
        AttributesHaveRow, Absent, Deactivated, DestroyedCompromised, Archived, Destroyed
  <1>6. MaterialBounded
    BY <1>4, SizeFacts DEF NoRow, MaterialBounded
  <1>. QED  BY <1>2, <1>3, <1>5, <1>6 DEF IInv, RepliesAreTruthful

(* The first statement of every request keeps IInv. *)
LEMMA ReceiveStep ==
  ASSUME IInv, NEW w \in Workers, Receive(w)
  PROVE  IInv'
  <1>1. ASSUME NEW u \in Uids, NEW op \in Op, CheckThenAct(w, op, u),
               op \in {"Activate", "Revoke", "Destroy", "Archive", "Recover"}
        PROVE  IInv'
    <2>1. CASE Refuse(w, op, u)
      BY <2>1, RefuseStep
    <2>2. CASE /\ Get(u)
               /\ validateStateTransition(keys[u].state, op)
               /\ Goto(w, "update", op, u, 0, 0, FALSE)
               /\ UNCHANGED <<keys, attrs>>
      <3>1. op \in {"Activate", "Revoke", "Destroy"}
        BY <1>1, <2>2 DEF IInv, NeverParked, validateStateTransition, AllowedStates,
            Deactivated, Archived
      <3>2. "update" \in Pc /\ 0 \in Int /\ 0 \in Nat
        BY DEF Pc
      <3>3. keys[u].state # Absent
        BY <2>2 DEF Get
      <3>. QED  BY <2>2, <3>1, <3>2, <3>3, GotoStep
    <2>. QED  BY <1>1, <2>1, <2>2 DEF CheckThenAct
  <1>2. ASSUME NEW u \in Uids, NEW op \in Op, CheckActive(w, op, u),
               op \in {"ReKey", "RestRekey"}
        PROVE  IInv'
    <2>1. CASE Refuse(w, op, u)
      BY <2>1, RefuseStep
    <2>2. CASE Get(u) /\ Goto(w, "rekeyGet", op, u, 0, 0, FALSE) /\ UNCHANGED <<keys, attrs>>
      <3>1. "rekeyGet" \in Pc /\ 0 \in Int /\ 0 \in Nat /\ keys[u].state # Absent
        BY <2>2 DEF Pc, Get
      <3>. QED  BY <1>2, <2>2, <3>1, GotoStep
    <2>. QED  BY <1>2, <2>1, <2>2 DEF CheckActive
  <1>3. ASSUME NEW u \in Uids, NEW op \in Op, NEW pc \in {"setAttribute", "deleteAttribute"},
               pc = "deleteAttribute" => op = "DeleteAttribute", CheckExists(w, pc, op, u)
        PROVE  IInv'
    <2>1. CASE Refuse(w, op, u)
      BY <2>1, RefuseStep
    <2>2. CASE Get(u) /\ Goto(w, pc, op, u, 0, 0, FALSE) /\ UNCHANGED <<keys, attrs>>
      <3>1. pc \in Pc /\ 0 \in Int /\ 0 \in Nat /\ keys[u].state # Absent
        BY <2>2 DEF Pc, Get
      <3>. QED  BY <1>3, <2>2, <3>1, GotoStep
    <2>. QED  BY <1>3, <2>1, <2>2 DEF CheckExists
  <1>4. ASSUME NEW u \in Uids,
               handleActivateKey(w, u) \/ handleRevokeKey(w, u) \/ handleDestroyKey(w, u)
        PROVE  IInv'
    BY <1>4, UpdateStep DEF Op, handleActivateKey, handleRevokeKey, handleDestroyKey
  <1>5. ASSUME NEW len \in Int, NEW op \in Op, NEW u \in Uids,
               Create(u, len), Return(w, op, u, TRUE, "success")
        PROVE  IInv'
    <2>1. KeyBytes(len) \in BoundedSizes /\ "SymmetricKey" \in ObjectType
      BY <1>5, LengthFacts DEF Create, ObjectType
    <2>2. Insert(u, "SymmetricKey", len, KeyBytes(len), NoUid)
      BY <1>5 DEF Create
    <2>. QED  BY <1>5, <2>1, <2>2, InsertStep
  <1>6. ASSUME NEW len \in Lengths, handleCreate(w, len) \/ handleCreateKey(w, len)
        PROVE  IInv'
    <2>1. len \in Int /\ (IF len = 0 THEN 256 ELSE len) \in Int
      BY ConstantsAssumption
    <2>. QED  BY <1>5, <1>6, <2>1, RefuseStep DEF Op, handleCreate, handleCreateKey
  <1>7. ASSUME NEW type \in ObjectType, NEW len \in Int, NEW n \in MaterialSizes,
               NEW op \in Op, NEW u \in Uids,
               Register(u, type, len, n, NoUid), Return(w, op, u, TRUE, "success")
        PROVE  IInv'
    <2>1. n \in BoundedSizes
      BY SizeFacts
    <2>. QED  BY <1>7, <2>1, InsertStep DEF Register
  <1>8. ASSUME NEW n \in MaterialSizes, handleUploadCertificate(w, n)
        PROVE  IInv'
    <2>1. "Certificate" \in ObjectType /\ 0 \in Int
      BY DEF ObjectType
    <2>. QED  BY <1>7, <1>8, <2>1, RefuseStep DEF Op, handleUploadCertificate
  <1>9. ASSUME NEW o \in Registered, handleRegister(w, o)
        PROVE  IInv'
    <2>1. /\ o.type \in ObjectType /\ o.bytes \in MaterialSizes
          /\ (IF o.type = "Certificate" THEN 256 ELSE o.len) \in Int
      BY ConstantsAssumption
    <2>2. CASE Refuse(w, "Register", NoUid)
      BY <2>2, RefuseStep DEF Op
    <2>3. "Register" \in Op
      BY DEF Op
    <2>. QED  BY <1>7, <1>9, <2>1, <2>2, <2>3 DEF handleRegister
  <1>10. ASSUME NEW u \in Uids, NEW len \in Lengths,
                handleDeriveKey(w, u, len) \/ handleUnwrapKey(w, u, len)
         PROVE  IInv'
    <2>1. /\ len \in Int /\ 0 \in Nat
          /\ "insertDerived" \in Pc /\ "insertUnwrapped" \in Pc
          /\ "DeriveKey" \in Op /\ "RestUnwrap" \in Op
      BY ConstantsAssumption DEF Pc, Op
    <2>2. CASE handleDeriveKey(w, u, len)
      <3>1. CASE Refuse(w, "DeriveKey", u)
        BY <3>1, RefuseStep DEF Op
      <3>2. CASE /\ Get(u)
                 /\ DerivedBytes(len) <= MaxDerivedKeyBytes
                 /\ Goto(w, "insertDerived", "DeriveKey", u, len, 0, FALSE)
                 /\ UNCHANGED <<keys, attrs>>
        <4>1. keys[u].state # Absent
          BY <3>2 DEF Get
        <4>. QED  BY <3>2, <4>1, <2>1, GotoStep
      <3>. QED  BY <2>2, <3>1, <3>2 DEF handleDeriveKey
    <2>3. CASE handleUnwrapKey(w, u, len)
      <3>1. CASE Refuse(w, "RestUnwrap", u)
        BY <3>1, RefuseStep DEF Op
      <3>2. CASE /\ Get(u)
                 /\ Goto(w, "insertUnwrapped", "RestUnwrap", u, len, 0, FALSE)
                 /\ UNCHANGED <<keys, attrs>>
        <4>1. keys[u].state # Absent
          BY <3>2 DEF Get
        <4>. QED  BY <3>2, <4>1, <2>1, GotoStep
      <3>. QED  BY <2>3, <3>1, <3>2 DEF handleUnwrapKey
    <2>. QED  BY <1>10, <2>2, <2>3
  <1>11. ASSUME NEW len \in Lengths, NEW n \in MaterialSizes,
                handleCreateKeyPair(w, len, n) \/ RestCreateKeyPair(w, len, n)
         PROVE  IInv'
    <2>1. len \in Int /\ (IF len = 0 THEN 2048 ELSE len) \in Int
      BY ConstantsAssumption
    <2>. QED  BY <1>11, <2>1, RegisterPrivateStep DEF Op, handleCreateKeyPair, RestCreateKeyPair
  <1>12. ASSUME NEW u \in Uids,
                \/ handleActivate(w, u) \/ handleRevoke(w, u) \/ handleDestroy(w, u)
                \/ handleArchive(w, u) \/ handleRecover(w, u)
         PROVE  IInv'
    BY <1>1, <1>12 DEF Op, handleActivate, handleRevoke, handleDestroy, handleArchive, handleRecover
  <1>13. ASSUME NEW u \in Uids, handleReKey(w, u) \/ handleRekeyKey(w, u)
         PROVE  IInv'
    BY <1>2, <1>13 DEF Op, handleReKey, handleRekeyKey
  <1>14. ASSUME NEW u \in Uids, handleAddAttribute(w, u) \/ handleDeleteAttribute(w, u)
         PROVE  IInv'
    BY <1>3, <1>14 DEF Op, handleAddAttribute, handleDeleteAttribute
  <1>. QED  BY <1>4, <1>6, <1>8, <1>9, <1>10, <1>11, <1>12, <1>13, <1>14 DEF Receive

(* Every later statement of a request, and its response, keeps IInv. *)
LEMMA ProceedStep ==
  ASSUME IInv, NEW w \in Workers, Proceed(w)
  PROVE  IInv'
  <1>0. proc[w] \in Worker /\ Knows(proc[w])
    BY DEF IInv, TypeOK
  <1>1. CASE StoreUpdate(w)
    <2>1. /\ proc[w].op \in Op
          /\ proc[w].op \in {"Activate", "Revoke", "Destroy"}
          /\ proc[w].uid \in Uids
      BY <1>0, <1>1 DEF StoreUpdate, Knows, Worker
    <2>. QED  BY <1>1, <2>1, UpdateStep DEF StoreUpdate
  <1>2. CASE RekeyGet(w)
    <2>1. CASE Fail(w)
      BY <1>2, <2>1, FailStep DEF RekeyGet
    <2>2. CASE /\ proc[w].pc = "rekeyGet"
               /\ ValidLength(keys[proc[w].uid].len)
               /\ Goto(w, "rekeyUpdate", proc[w].op, proc[w].uid,
                       keys[proc[w].uid].len, keys[proc[w].uid].ver, FALSE)
               /\ UNCHANGED <<keys, attrs>>
      <3>1. /\ proc[w].op \in Op
            /\ proc[w].op \in {"ReKey", "RestRekey"}
            /\ proc[w].uid \in Uids
            /\ keys[proc[w].uid].state # Absent
        BY <1>0, <2>2 DEF Knows, Worker
      <3>2. /\ keys[proc[w].uid].len \in Int
            /\ keys[proc[w].uid].ver \in Nat /\ keys[proc[w].uid].ver >= 1
        BY <3>1 DEF IInv, TypeOK, Row, VersionsCount
      <3>3. "rekeyUpdate" \in Pc
        BY DEF Pc
      <3>. QED  BY <2>2, <3>1, <3>2, <3>3, GotoStep
    <2>. QED  BY <1>2, <2>1, <2>2 DEF RekeyGet
  <1>3. CASE RekeyUpdate(w)
    BY <1>3, RekeyUpdateStep
  <1>4. CASE InsertDerived(w)
    <2>1. CASE Fail(w)
      BY <1>4, <2>1, FailStep DEF InsertDerived
    <2>2. ASSUME NEW u \in Uids,
                 Insert(u, "SymmetricKey", proc[w].len, DerivedBytes(proc[w].len), NoUid),
                 Return(w, "DeriveKey", proc[w].uid, TRUE, "success")
          PROVE  IInv'
      <3>1. proc[w].len \in Int /\ DerivedBytes(proc[w].len) <= MaxDerivedKeyBytes
        BY <1>0, <1>4 DEF InsertDerived, Knows, Worker
      <3>2. DerivedBytes(proc[w].len) \in BoundedSizes
        BY <3>1, LengthFacts
      <3>3. "SymmetricKey" \in ObjectType /\ "DeriveKey" \in Op
        BY DEF ObjectType, Op
      <3>4. PICK v \in Uids \cup {NoUid} : v = proc[w].uid
        BY <1>0 DEF Worker
      <3>5. Return(w, "DeriveKey", v, TRUE, "success")
        BY <2>2, <3>4
      <3>. QED  BY <2>2, <3>1, <3>2, <3>3, <3>5, InsertStep
    <2>. QED  BY <1>4, <2>1, <2>2 DEF InsertDerived
  <1>5. ASSUME NEW name \in AttrNames,
               SetCustomAttribute(w, name) \/ DeleteCustomAttribute(w, name)
        PROVE  IInv'
    <2>1. CASE Fail(w)
      BY <1>5, <2>1, FailStep DEF SetCustomAttribute, DeleteCustomAttribute
    <2>2. CASE ~Fail(w)
      <3>1. proc[w].pc \in {"setAttribute", "deleteAttribute"}
        BY <1>5 DEF SetCustomAttribute, DeleteCustomAttribute
      <3>2. attrs[proc[w].uid] \in SUBSET AttrNames
        BY <1>0, <3>1 DEF IInv, TypeOK, Knows
      <3>. QED  BY <1>5, <2>2, <3>1, <3>2, AttrStep DEF SetCustomAttribute, DeleteCustomAttribute
    <2>. QED  BY <2>1, <2>2
  <1>6. ASSUME NEW n \in MaterialSizes, RegisterPublic(w, n)
        PROVE  IInv'
    BY <1>6, RegisterPublicStep
  <1>7. ASSUME NEW n \in MaterialSizes, RegisterUnwrapped(w, n)
        PROVE  IInv'
    <2>. DEFINE len == IF proc[w].len = 0 THEN n * 8 ELSE proc[w].len
    <2>1. CASE Fail(w)
      BY <1>7, <2>1, FailStep DEF RegisterUnwrapped
    <2>2. ASSUME NEW u \in Uids, Register(u, "SymmetricKey", len, n, NoUid),
                 Return(w, "RestUnwrap", u, TRUE, "success")
          PROVE  IInv'
      <3>1. proc[w].len \in Int /\ n \in Nat
        BY <1>0, ConstantsAssumption DEF Worker
      <3>2. len \in Int
        BY <3>1
      <3>3. n \in BoundedSizes /\ "SymmetricKey" \in ObjectType /\ "RestUnwrap" \in Op
        BY SizeFacts DEF ObjectType, Op
      <3>. HIDE DEF len
      <3>. QED  BY <2>2, <3>2, <3>3, InsertStep DEF Register
    <2>. QED  BY <1>7, <2>1, <2>2 DEF RegisterUnwrapped
  <1>8. CASE Respond(w)
    BY <1>8, IdleFacts, ProcStep DEF Respond
  <1>. QED  BY <1>1, <1>2, <1>3, <1>4, <1>5, <1>6, <1>7, <1>8 DEF Proceed, Statement

(* A kill and restart keeps IInv: no worker survives, and IInv asks nothing *)
(* of the tables that only an unfinished request could provide.             *)
LEMMA CrashStep ==
  ASSUME IInv, Crash
  PROVE  IInv'
  <1>1. TypeOK' /\ \A w \in Workers : proc'[w] = Idle
    BY IdleFacts DEF IInv, TypeOK, Crash
  <1>2. Truthful(Idle)' /\ Knows(Idle)'
    BY DEF Truthful, Knows, Idle
  <1>3. RepliesAreTruthful' /\ \A w \in Workers : Knows(proc[w])'
    BY <1>1, <1>2 DEF RepliesAreTruthful, Truthful, Knows
  <1>4. /\ NeverParked' /\ VersionsCount'
        /\ DestroyedIsWiped'
        /\ PublicKeyHasPrivateHalf'
        /\ AttributesHaveRow'
        /\ MaterialBounded'
    BY DEF Crash, IInv, NeverParked, VersionsCount, DestroyedIsWiped, PublicKeyHasPrivateHalf,
           AttributesHaveRow, MaterialBounded
  <1>. QED  BY <1>1, <1>3, <1>4 DEF IInv

(* IInv is inductive: no statement of a handler and no kill breaks it. *)
LEMMA NextInv == IInv /\ [Next]_vars => IInv'
  <1>1. ASSUME IInv, Next PROVE IInv'
    BY <1>1, CrashStep, ReceiveStep, ProceedStep DEF Next
  <1>2. ASSUME IInv, UNCHANGED vars PROVE IInv'
    BY <1>2 DEF vars, IInv, TypeOK, NeverParked, VersionsCount, DestroyedIsWiped, RepliesAreTruthful,
        Truthful, PublicKeyHasPrivateHalf, AttributesHaveRow, MaterialBounded, Knows
  <1>. QED  BY <1>1, <1>2

(* IInv holds in every reachable state of the server: all that the handlers *)
(* of both front ends, interleaved statement by statement and killed        *)
(* anywhere, can do to the database.                                        *)
THEOREM Invariance == Spec => []IInv
  BY InitInv, NextInv, PTL DEF Spec

(* The type invariant of the tables and of every worker. *)
THEOREM Typing == Spec => []TypeOK
  <1>1. IInv => TypeOK
    BY DEF IInv
  <1>. QED  BY <1>1, Invariance, PTL

(* No request, alone or interleaved, makes a key Deactivated or Archived.   *)
(* Hence no Archive request ever gets past its state check.                 *)
THEOREM ArchiveUnreachable == Spec => []NeverParked
  <1>1. IInv => NeverParked
    BY DEF IInv
  <1>. QED  BY <1>1, Invariance, PTL

(* A destroyed key keeps no material. *)
THEOREM DestructionWipes == Spec => []DestroyedIsWiped
  <1>1. IInv => DestroyedIsWiped
    BY DEF IInv
  <1>. QED  BY <1>1, Invariance, PTL

(* A reply is true, but for the two documented exceptions. *)
THEOREM TruthfulReplies == Spec => []RepliesAreTruthful
  <1>1. IInv => RepliesAreTruthful
    BY DEF IInv
  <1>. QED  BY <1>1, Invariance, PTL

(* A public key is never stored without its private half, wherever the      *)
(* handler of the pair fails or the process is killed.                      *)
THEOREM Integrity == Spec => []PublicKeyHasPrivateHalf
  <1>1. IInv => PublicKeyHasPrivateHalf
    BY DEF IInv
  <1>. QED  BY <1>1, Invariance, PTL

(* The custom attributes that the handlers write always belong to a row. *)
THEOREM AttributesBelong == Spec => []AttributesHaveRow
  <1>1. IInv => AttributesHaveRow
    BY DEF IInv
  <1>. QED  BY <1>1, Invariance, PTL

(* The material that Create, Rekey and DeriveKey generate is bounded, for   *)
(* every requested length.                                                  *)
THEOREM MaterialIsBounded == Spec => []MaterialBounded
  <1>1. IInv => MaterialBounded
    BY DEF IInv
  <1>. QED  BY <1>1, Invariance, PTL

-----------------------------------------------------------------------------
(* What one step can do to the table. *)

(* Row u, and no other, is born, moves, gets new material or dies. *)
RowChange(u) ==
  /\ keys' = [keys EXCEPT ![u] = keys'[u]]
  /\ keys'[u].bytes \in Nat
  /\ \/ keys[u].state = Absent /\ keys'[u].state = PreActive
     \/ /\ keys[u].state \in Live
        /\ keys'[u].ver = keys[u].ver \/ keys'[u].ver > 1
        /\ \/ keys'[u].state \in {Active, Compromised} /\ keys'[u].bytes = keys[u].bytes
           \/ keys'[u].state = keys[u].state
           \/ keys'[u].state = Destroyed /\ keys'[u].bytes = 0

TableStep == UNCHANGED keys \/ \E u \in Uids : RowChange(u)

(* In a state of IInv, Get finds the rows in the living states. *)
LEMMA GetFacts ==
  ASSUME IInv, NEW u \in Uids, Get(u)
  PROVE  keys[u].state \in Live
  BY DEF IInv, TypeOK, Row, NeverParked, Get, KeyState, Live

(* An insert gives life to an absent row and changes no other. *)
LEMMA InsertChanges ==
  ASSUME IInv, NEW u \in Uids, NEW type, NEW len, NEW bytes \in BoundedSizes, NEW pair,
         Insert(u, type, len, bytes, pair)
  PROVE  TableStep
  <1>1. keys'[u] = [state |-> PreActive, type |-> type, len |-> len,
                    bytes |-> bytes, ver |-> 1, pair |-> pair]
    BY DEF Insert, IInv, TypeOK
  <1>2. keys' = [keys EXCEPT ![u] = keys'[u]] /\ keys[u].state = Absent
    BY <1>1 DEF Insert
  <1>3. keys'[u].bytes \in Nat /\ keys'[u].state = PreActive
    BY <1>1, SizeFacts
  <1>. QED  BY <1>2, <1>3 DEF TableStep, RowChange

(* An UPDATE of the lifecycle methods moves or ends one living key. *)
LEMMA UpdateChanges ==
  ASSUME IInv, NEW w, NEW op, NEW u \in Uids, NEW stmt \in {"Activate", "Revoke", "Destroy"},
         ExecUpdate(w, op, stmt, u)
  PROVE  TableStep
  <1>1. CASE Refuse(w, op, u)
    BY <1>1 DEF Refuse, TableStep
  <1>2. CASE Matches(stmt, u) /\ keys' = [keys EXCEPT ![u] = Update(stmt, @)]
    <2>1. Get(u)
      BY <1>2 DEF Matches
    <2>2. keys[u].state \in Live /\ keys[u] \in Row
      BY <2>1, GetFacts DEF IInv, TypeOK
    <2>3. keys'[u] = Update(stmt, keys[u])
      BY <1>2 DEF IInv, TypeOK
    <2>4. keys' = [keys EXCEPT ![u] = keys'[u]]
      BY <1>2, <2>3
    <2>5. \/ keys'[u].state \in {Active, Compromised} /\ keys'[u].bytes = keys[u].bytes
          \/ keys'[u].state = Destroyed /\ keys'[u].bytes = 0
      BY <2>2, <2>3 DEF Row, Update, Activate, Revoke, Destroy
    <2>6. keys'[u].bytes \in Nat
      BY <2>2, <2>5 DEF Row
    <2>7. keys'[u].ver = keys[u].ver
      BY <2>2, <2>3 DEF Row, Update, Activate, Revoke, Destroy
    <2>. QED  BY <2>2, <2>4, <2>5, <2>6, <2>7 DEF TableStep, RowChange
  <1>. QED  BY <1>1, <1>2 DEF ExecUpdate

(* The UPDATE of Rekey replaces the material of one living key, or nothing. *)
LEMMA RekeyChanges ==
  ASSUME IInv, NEW w \in Workers, RekeyUpdate(w)
  PROVE  TableStep
  <1>. PICK q : q = proc[w]
    OBVIOUS
  <1>1. /\ q \in Worker /\ q.uid \in Uids /\ q.len \in Int /\ ValidLength(q.len)
        /\ q.ver \in Nat /\ q.ver >= 1
    BY DEF IInv, TypeOK, RekeyUpdate, Knows, Worker
  <1>2. CASE UNCHANGED keys
    BY <1>2 DEF TableStep
  <1>3. CASE /\ Get(q.uid)
             /\ keys' = [keys EXCEPT ![q.uid].bytes = KeyBytes(q.len),
                                     ![q.uid].ver = q.ver + 1]
    <2>. PICK u \in Uids : u = q.uid
      BY <1>1
    <2>1. KeyBytes(q.len) \in Nat
      BY <1>1, LengthFacts, SizeFacts
    <2>2. keys[u].state \in Live /\ keys[u] \in Row
      BY <1>3, GetFacts DEF IInv, TypeOK
    <2>3. keys'[u] = [keys[u] EXCEPT !.bytes = KeyBytes(q.len), !.ver = q.ver + 1]
      BY <1>3 DEF IInv, TypeOK
    <2>4. keys' = [keys EXCEPT ![u] = keys'[u]]
      BY <1>3, <2>3 DEF IInv, TypeOK
    <2>5. keys'[u].state = keys[u].state /\ keys'[u].bytes = KeyBytes(q.len) /\ keys'[u].ver > 1
      BY <1>1, <2>2, <2>3 DEF Row
    <2>. QED  BY <2>1, <2>2, <2>4, <2>5 DEF TableStep, RowChange
  <1>. QED  BY <1>2, <1>3 DEF RekeyUpdate, Fail

(* Every step of the server changes at most one row, in one of these ways. *)
LEMMA TableSteps == IInv /\ [Next]_vars => TableStep
  <1>. SUFFICES ASSUME IInv, [Next]_vars, ~UNCHANGED keys
                PROVE  TableStep
    BY DEF TableStep
  <1>1. PICK w \in Workers : Receive(w) \/ Proceed(w)
    BY DEF Next, Crash, vars
  <1>2. ASSUME NEW u \in Uids, NEW type, NEW len, NEW n \in MaterialSizes, NEW pair,
               Register(u, type, len, n, pair)
        PROVE  TableStep
    BY <1>2, SizeFacts, InsertChanges DEF Register
  <1>3. ASSUME NEW u \in Uids, NEW len \in Int, Create(u, len)
        PROVE  TableStep
    BY <1>3, LengthFacts, InsertChanges DEF Create
  <1>4. CASE Receive(w)
    <2>1. ASSUME NEW u \in Uids,
                 handleActivateKey(w, u) \/ handleRevokeKey(w, u) \/ handleDestroyKey(w, u)
          PROVE  TableStep
      BY <2>1, UpdateChanges DEF handleActivateKey, handleRevokeKey, handleDestroyKey
    <2>2. ASSUME NEW len \in Lengths, handleCreate(w, len) \/ handleCreateKey(w, len)
          PROVE  TableStep
      <3>1. len \in Int /\ (IF len = 0 THEN 256 ELSE len) \in Int
        BY ConstantsAssumption
      <3>. QED  BY <2>2, <3>1, <1>3 DEF handleCreate, handleCreateKey, Refuse
    <2>3. ASSUME NEW n \in MaterialSizes, handleUploadCertificate(w, n)
          PROVE  TableStep
      BY <2>3, <1>2 DEF handleUploadCertificate, Refuse
    <2>4. ASSUME NEW o \in Registered, handleRegister(w, o)
          PROVE  TableStep
      <3>1. o.bytes \in MaterialSizes
        BY ConstantsAssumption
      <3>. QED  BY <2>4, <3>1, <1>2 DEF handleRegister, Refuse
    <2>5. ASSUME NEW len \in Lengths, NEW n \in MaterialSizes,
                 handleCreateKeyPair(w, len, n) \/ RestCreateKeyPair(w, len, n)
          PROVE  TableStep
      <3>1. ASSUME NEW op, NEW k, RegisterPrivate(w, op, k, n)
            PROVE  TableStep
        BY <3>1, <1>2 DEF RegisterPrivate, Refuse
      <3>. QED  BY <2>5, <3>1 DEF handleCreateKeyPair, RestCreateKeyPair
    <2>6. ASSUME NEW u \in Uids
          PROVE  /\ ~handleActivate(w, u) /\ ~handleRevoke(w, u) /\ ~handleDestroy(w, u)
                 /\ ~handleArchive(w, u) /\ ~handleRecover(w, u)
                 /\ ~handleReKey(w, u) /\ ~handleRekeyKey(w, u)
                 /\ ~handleAddAttribute(w, u) /\ ~handleDeleteAttribute(w, u)
      BY DEF handleActivate, handleRevoke, handleDestroy, handleArchive, handleRecover,
             CheckThenAct, handleReKey, handleRekeyKey, CheckActive,
             handleAddAttribute, handleDeleteAttribute, CheckExists, Refuse
    <2>7. ASSUME NEW u \in Uids, NEW len \in Lengths
          PROVE  ~handleDeriveKey(w, u, len) /\ ~handleUnwrapKey(w, u, len)
      BY DEF handleDeriveKey, handleUnwrapKey, Refuse
    <2>. QED  BY <1>4, <2>1, <2>2, <2>3, <2>4, <2>5, <2>6, <2>7 DEF Receive
  <1>5. CASE Proceed(w)
    <2>0. proc[w] \in Worker /\ Knows(proc[w])
      BY DEF IInv, TypeOK
    <2>1. CASE StoreUpdate(w)
      <3>1. proc[w].op \in {"Activate", "Revoke", "Destroy"} /\ proc[w].uid \in Uids
        BY <2>0, <2>1 DEF StoreUpdate, Knows
      <3>. QED  BY <2>1, <3>1, UpdateChanges DEF StoreUpdate
    <2>2. CASE RekeyUpdate(w)
      BY <2>2, RekeyChanges
    <2>3. CASE InsertDerived(w)
      <3>1. proc[w].len \in Int /\ DerivedBytes(proc[w].len) <= MaxDerivedKeyBytes
        BY <2>0, <2>3 DEF InsertDerived, Knows, Worker
      <3>2. DerivedBytes(proc[w].len) \in BoundedSizes
        BY <3>1, LengthFacts
      <3>. QED  BY <2>3, <3>2, InsertChanges DEF InsertDerived, Fail
    <2>4. ASSUME NEW n \in MaterialSizes, RegisterPublic(w, n) \/ RegisterUnwrapped(w, n)
          PROVE  TableStep
      BY <2>4, <1>2 DEF RegisterPublic, RegisterUnwrapped, Fail
    <2>5. /\ ~RekeyGet(w) /\ ~Respond(w)
          /\ \A name \in AttrNames : ~SetCustomAttribute(w, name) /\ ~DeleteCustomAttribute(w, name)
      BY DEF RekeyGet, Respond, SetCustomAttribute, DeleteCustomAttribute, ExecAttributes, Fail
    <2>. QED  BY <1>5, <2>1, <2>2, <2>3, <2>4, <2>5 DEF Proceed, Statement
  <1>. QED  BY <1>1, <1>4, <1>5

(* A destroyed row never changes again, whatever was in flight. *)
THEOREM DestructionIsFinal == Spec => DestroyedIsFinal
  <1>. DEFINE A == \A u \in Uids : keys[u].state = Destroyed => keys'[u] = keys[u]
  <1>1. IInv /\ [Next]_vars => [A]_vars
    <2>. SUFFICES ASSUME IInv, [Next]_vars, NEW u \in Uids, keys[u].state = Destroyed
                  PROVE  keys'[u] = keys[u]
      OBVIOUS
    <2>1. TableStep
      BY TableSteps
    <2>2. CASE UNCHANGED keys
      BY <2>2
    <2>3. ASSUME NEW v \in Uids, RowChange(v)
          PROVE  keys'[u] = keys[u]
      <3>1. v # u
        BY <2>3 DEF RowChange, Live, Absent, PreActive, Active, Compromised, Destroyed
      <3>. QED  BY <2>3, <3>1 DEF RowChange, IInv, TypeOK
    <2>. QED  BY <2>1, <2>2, <2>3 DEF TableStep
  <1>. QED  BY <1>1, Invariance, PTL DEF Spec, DestroyedIsFinal

(* The server implements KeyLifecycle: the rows of the table, under any     *)
(* interleaving of statements and kills, live the life it describes.        *)
THEOREM Refinement == Spec => ImplementsKeyLifecycle
  <1>1. Init => KL!LifeInit
    BY DEF Init, NoRow, KL!LifeInit, Absent, KL!Absent
  <1>2. IInv /\ [Next]_vars => [KL!LifeNext]_(KL!lifeVars)
    <2>. SUFFICES ASSUME IInv, [Next]_vars
                  PROVE  [KL!LifeNext]_(KL!lifeVars)
      OBVIOUS
    <2>1. TableStep
      BY TableSteps
    <2>2. CASE UNCHANGED keys
      BY <2>2 DEF KL!lifeVars
    <2>3. ASSUME NEW u \in Uids, RowChange(u)
          PROVE  KL!LifeNext
      <3>. DEFINE life   == [v \in Uids |-> keys[v].state]
                  secret == [v \in Uids |-> keys[v].bytes]
                  life2   == [v \in Uids |-> keys'[v].state]
                  secret2 == [v \in Uids |-> keys'[v].bytes]
      <3>. USE DEF Live, Absent, PreActive, Active, Compromised, Destroyed, KL!Living, KL!Absent,
                   KL!PreActive, KL!Active, KL!Compromised, KL!Destroyed
      <3>1. \A v \in Uids : v # u => keys'[v] = keys[v]
        BY <2>3 DEF RowChange, IInv, TypeOK
      <3>2. life2 = [life EXCEPT ![u] = keys'[u].state]
        BY <3>1
      <3>3. secret2 = [secret EXCEPT ![u] = keys'[u].bytes]
        BY <3>1
      <3>4. KL!FreshSecret(u)
        BY <2>3, <3>3 DEF KL!FreshSecret, RowChange
      <3>5. CASE keys[u].state = Absent /\ keys'[u].state = PreActive
        <4>1. KL!Born(u)
          BY <3>2, <3>4, <3>5 DEF KL!Born
        <4>. QED  BY <4>1 DEF KL!LifeNext
      <3>6. CASE /\ keys[u].state \in Live
                 /\ keys'[u].state \in {Active, Compromised}
                 /\ keys'[u].bytes = keys[u].bytes
        <4>1. secret2 = secret
          BY <3>3, <3>6
        <4>2. KL!Move(u, Active) \/ KL!Move(u, Compromised)
          BY <3>2, <3>6, <4>1 DEF KL!Move
        <4>. QED  BY <4>2 DEF KL!LifeNext
      <3>7. CASE keys[u].state \in Live /\ keys'[u].state = keys[u].state
        <4>1. life2 = life
          BY <3>2, <3>7
        <4>2. KL!Replace(u)
          BY <3>4, <3>7, <4>1 DEF KL!Replace
        <4>. QED  BY <4>2 DEF KL!LifeNext
      <3>8. CASE /\ keys[u].state \in Live
                 /\ keys'[u].state = Destroyed
                 /\ keys'[u].bytes = 0
        <4>1. KL!Die(u)
          BY <3>2, <3>3, <3>8 DEF KL!Die
        <4>. QED  BY <4>1 DEF KL!LifeNext
      <3>. QED  BY <2>3, <3>5, <3>6, <3>7, <3>8 DEF RowChange
    <2>. QED  BY <2>1, <2>2, <2>3 DEF TableStep
  <1>. QED  BY <1>1, <1>2, Invariance, PTL DEF Spec, ImplementsKeyLifecycle, KL!LifeSpec

=============================================================================
