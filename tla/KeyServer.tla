------------------------------ MODULE KeyServer ------------------------------
(***************************************************************************)
(* The SQLite key store and the request handlers of the two front ends     *)
(* (KMIP over TLS and REST over HTTPS) that change it.                     *)
(*                                                                         *)
(* A worker is the goroutine of one KMIP connection or of one REST         *)
(* request.  The store takes no lock and opens no transaction, so what is  *)
(* atomic is one SQL statement: every action below runs exactly one        *)
(* statement together with the local computation around it, and a handler  *)
(* that runs several statements is several actions.  A statement may fail  *)
(* (SQLITE_BUSY: no busy_timeout is set), and the process may be killed    *)
(* between any two statements.                                             *)
(*                                                                         *)
(* A KMIP batch is a worker that handles its items one after the other.    *)
(***************************************************************************)
EXTENDS KeyStates

CONSTANTS
  Uids,           \* the UUIDs the store may hand out; bounds the rows
  Workers,        \* goroutines serving requests
  Requests,       \* the requests that clients send
  Lengths,        \* the Cryptographic Lengths that clients ask for
  MaterialSizes,  \* byte counts of material that clients supply, or of DER
  Registered,     \* the objects that clients register
  AttrNames,      \* names of custom attributes
  MaxVersion,     \* bounds the number of rekeys of one key
  NoUid

ASSUME ConstantsAssumption ==
  /\ NoUid \notin Uids
  /\ Lengths \subseteq Int
  /\ MaterialSizes \subseteq Nat
  /\ Registered \subseteq [type : ObjectType, len : Int, bytes : MaterialSizes]
  /\ MaxVersion \in Nat

VARIABLES
  keys,    \* the table "keys"; absent UIDs map to NoRow
  attrs,   \* the table "key_attributes": names of the attributes of each UID
  proc     \* what each worker is doing

vars == <<keys, attrs, proc>>

(* A row of the table "keys".  The column material is kept as its size; the *)
(* columns no handler reads (owner, usage mask, dates, reason) are left out. *)
(* pair is not a column: it is the private half of a generated public key.  *)
Row == [state : KeyState \cup {Absent}, type : ObjectType, len : Int,
        bytes : Nat, ver : Nat, pair : Uids \cup {NoUid}]

NoRow == [state |-> Absent, type |-> "SymmetricKey", len |-> 0,
          bytes |-> 0, ver |-> 0, pair |-> NoUid]

(* The requests that change the database: KMIP operations and REST routes. *)
Op == {"none", "Create", "Register", "CreateKeyPair", "DeriveKey", "ReKey",
       "Activate", "Revoke", "Destroy", "Archive", "Recover", "AddAttribute",
       "DeleteAttribute", "RestCreateKey", "RestCreateKeyPair", "RestActivate",
       "RestRevoke", "RestDestroy", "RestRekey", "RestUploadCertificate", "RestUnwrap"}

(* Where a worker is: between requests, before the statement pc names, or   *)
(* with the outcome of its handler but the response not yet returned.       *)
Pc == {"idle", "update", "rekeyGet", "rekeyUpdate", "insertDerived",
       "insertPublic", "insertUnwrapped", "setAttribute",
       "deleteAttribute", "done"}

(* op is the request, uid the object it names (for a key pair: the private  *)
(* key), len and ver what an earlier statement of the handler read or the   *)
(* client asked for, out the outcome, and wrote whether a writing statement *)
(* of this request has been carried out (history, not in the code).         *)
Worker == [pc : Pc, op : Op, uid : Uids \cup {NoUid}, len : Int,
           ver : Nat, wrote : BOOLEAN, out : {"none", "success", "failure"}]

Idle == [pc |-> "idle", op |-> "none", uid |-> NoUid, len |-> 0,
         ver |-> 0, wrote |-> FALSE, out |-> "none"]

TypeOK ==
  /\ keys \in [Uids -> Row]
  /\ attrs \in [Uids -> SUBSET AttrNames]
  /\ proc \in [Workers -> Worker]

Init ==
  /\ keys = [u \in Uids |-> NoRow]
  /\ attrs = [u \in Uids |-> {}]
  /\ proc = [w \in Workers |-> Idle]

-----------------------------------------------------------------------------
(* The worker's control. *)

Begin(w, op) == proc[w].pc = "idle" /\ op \in Requests

Goto(w, pc, op, u, len, ver, wrote) ==
  proc' = [proc EXCEPT ![w] = [pc |-> pc, op |-> op, uid |-> u, len |-> len,
                               ver |-> ver, wrote |-> wrote, out |-> "none"]]

Return(w, op, u, wrote, out) ==
  proc' = [proc EXCEPT ![w] = [pc |-> "done", op |-> op, uid |-> u, len |-> 0,
                               ver |-> 0, wrote |-> wrote, out |-> out]]

(* The handler answers with an error before it has changed anything: a      *)
(* malformed request, an object that is not found, a state or a length that *)
(* is refused, a statement that failed (Get reports that as not found).     *)
Refuse(w, op, u) == Return(w, op, u, FALSE, "failure") /\ UNCHANGED <<keys, attrs>>

(* A statement of the handler fails after earlier ones succeeded. *)
Fail(w) ==
  /\ Return(w, proc[w].op, proc[w].uid, proc[w].wrote, "failure")
  /\ UNCHANGED <<keys, attrs>>
-----------------------------------------------------------------------------
(* The statements of the store. *)

(* SELECT ... WHERE uid = ? AND state != Destroyed finds a row. *)
Get(u) == keys[u].state \notin {Absent, Destroyed}

(* Mutant of Matches: the clause "AND state != Destroyed" is missing. *)
MatchesAnyState(op, u) == keys[u].state # Absent

(* The WHERE clause and the SET clause of the single-UPDATE methods. *)
Matches(op, u) ==
  IF op = "Recover" THEN keys[u].state = Archived ELSE Get(u)

(* Mutant of Revoke: the two placeholders of its UPDATE are swapped (reason *)
(* code 7).                                                                 *)
RevokeSwapped(r) == [r EXCEPT !.state = 7]

(* Mutants of Destroy: the material stays, and the row is deleted. *)
DestroyKeepsMaterial(r) == [r EXCEPT !.state = Destroyed]
DestroyDeletes(r)       == NoRow

Activate(r) == [r EXCEPT !.state = Active]
Revoke(r)   == [r EXCEPT !.state = Compromised]
Destroy(r)  == [r EXCEPT !.state = Destroyed, !.bytes = 0]
Archive(r)  == [r EXCEPT !.state = Archived]
Recover(r)  == [r EXCEPT !.state = PreActive]

Update(op, r) ==
  CASE op = "Activate" -> Activate(r)
    [] op = "Revoke"   -> Revoke(r)
    [] op = "Destroy"  -> Destroy(r)
    [] op = "Archive"  -> Archive(r)
    [] op = "Recover"  -> Recover(r)

(* Mutant of ExecUpdate: the number of affected rows is not checked. *)
ExecUpdateUnchecked(w, op, stmt, u) ==
  \/ Refuse(w, op, u)
  \/ /\ keys' = IF Matches(stmt, u) THEN [keys EXCEPT ![u] = Update(stmt, @)] ELSE keys
     /\ Return(w, op, u, Matches(stmt, u), "success")
     /\ UNCHANGED attrs

(* One UPDATE on behalf of request op: no row affected is an error. *)
ExecUpdate(w, op, stmt, u) ==
  \/ Refuse(w, op, u)
  \/ /\ Matches(stmt, u)
     /\ keys' = [keys EXCEPT ![u] = Update(stmt, @)]
     /\ Return(w, op, u, TRUE, "success")
     /\ UNCHANGED attrs

(* INSERT of a new row: every insert of the code draws a fresh UUID and     *)
(* starts in PreActive at version 1, whatever state the caller supplied.    *)
Insert(u, type, len, bytes, pair) ==
  /\ keys[u].state = Absent
  /\ keys' = [keys EXCEPT ![u] =
                [state |-> PreActive, type |-> type, len |-> len,
                 bytes |-> bytes, ver |-> 1, pair |-> pair]]
  /\ UNCHANGED attrs

(* Register refuses a negative length unless the object is a certificate. *)
Register(u, type, len, bytes, pair) ==
  /\ type = "Certificate" \/ len >= 0
  /\ Insert(u, type, len, bytes, pair)

Create(u, len) ==
  /\ ValidLength(len)
  /\ Insert(u, "SymmetricKey", len, KeyBytes(len), NoUid)
-----------------------------------------------------------------------------
(* KMIP handlers.  The lifecycle handlers read the row, check its state on  *)
(* that copy, and then call a store method that checks only for Destroyed.  *)

CheckThenAct(w, op, u) ==
  /\ Begin(w, op)
  /\ \/ Refuse(w, op, u)
     \/ /\ Get(u)
        /\ validateStateTransition(keys[u].state, op)
        /\ Goto(w, "update", op, u, 0, 0, FALSE)
        /\ UNCHANGED <<keys, attrs>>

handleActivate(w, u) == CheckThenAct(w, "Activate", u)
handleRevoke(w, u)   == CheckThenAct(w, "Revoke", u)
handleDestroy(w, u)  == CheckThenAct(w, "Destroy", u)
handleArchive(w, u)  == CheckThenAct(w, "Archive", u)
handleRecover(w, u)  == CheckThenAct(w, "Recover", u)

(* The store method of the five handlers above. *)
StoreUpdate(w) ==
  /\ proc[w].pc = "update"
  /\ ExecUpdate(w, proc[w].op, proc[w].op, proc[w].uid)

handleCreate(w, len) ==
  /\ Begin(w, "Create")
  /\ \/ Refuse(w, "Create", NoUid)
     \/ \E u \in Uids : /\ Create(u, len)
                        /\ Return(w, "Create", u, TRUE, "success")

(* A certificate keeps the default length 256. *)
handleRegister(w, o) ==
  LET len == IF o.type = "Certificate" THEN 256 ELSE o.len IN
  /\ Begin(w, "Register")
  /\ \/ Refuse(w, "Register", NoUid)
     \/ \E u \in Uids : /\ Register(u, o.type, len, o.bytes, NoUid)
                        /\ Return(w, "Register", u, TRUE, "success")

(* Mutant of RegisterPrivate: the error of the first Register is dropped. *)
RegisterPrivateIgnored(w, op, len, bytes) ==
  \E n \in PairLengths(len), u \in Uids :
    /\ Goto(w, "insertPublic", op, u, n, 0, FALSE)
    /\ UNCHANGED <<keys, attrs>>

(* The first Register of a key pair stores the private half. *)
RegisterPrivate(w, op, len, bytes) ==
  \/ Refuse(w, op, NoUid)
  \/ \E n \in PairLengths(len), u \in Uids :
       /\ Register(u, "PrivateKey", n, bytes, NoUid)
       /\ Goto(w, "insertPublic", op, u, n, 0, TRUE)

handleCreateKeyPair(w, len, bytes) ==
  /\ Begin(w, "CreateKeyPair")
  /\ RegisterPrivate(w, "CreateKeyPair", len, bytes)

(* The second Register, of either front end.  When it fails the private     *)
(* half stays behind.                                                       *)
RegisterPublic(w, bytes) ==
  /\ proc[w].pc = "insertPublic"
  /\ \/ Fail(w)
     \/ \E u \in Uids :
          /\ Register(u, "PublicKey", proc[w].len, bytes, proc[w].uid)
          /\ Return(w, proc[w].op, proc[w].uid, TRUE, "success")

(* DeriveKey reads the source in any state but Destroyed... *)
handleDeriveKey(w, u, len) ==
  /\ Begin(w, "DeriveKey")
  /\ \/ Refuse(w, "DeriveKey", u)
     \/ /\ Get(u)
        /\ DerivedBytes(len) <= MaxDerivedKeyBytes
        /\ Goto(w, "insertDerived", "DeriveKey", u, len, 0, FALSE)
        /\ UNCHANGED <<keys, attrs>>

(* ... and inserts the derived key with the length as requested. *)
InsertDerived(w) ==
  /\ proc[w].pc = "insertDerived"
  /\ \/ Fail(w)
     \/ \E u \in Uids :
          /\ Insert(u, "SymmetricKey", proc[w].len, DerivedBytes(proc[w].len), NoUid)
          /\ Return(w, "DeriveKey", proc[w].uid, TRUE, "success")

(* ReKey and POST /rekey: the state check on one copy of the row, ...       *)
CheckActive(w, op, u) ==
  /\ Begin(w, op)
  /\ \/ Refuse(w, op, u)
     \/ /\ Get(u)
        /\ validateStateTransition(keys[u].state, "ReKey")
        /\ Goto(w, "rekeyGet", op, u, 0, 0, FALSE)
        /\ UNCHANGED <<keys, attrs>>

handleReKey(w, u) == CheckActive(w, "ReKey", u)

(* ... the read of length and version in the store's Rekey, ...             *)
RekeyGet(w) ==
  LET u == proc[w].uid IN
  /\ proc[w].pc = "rekeyGet"
  /\ \/ Fail(w)
     \/ /\ Get(u)
        /\ ValidLength(keys[u].len)
        /\ keys[u].ver < MaxVersion
        /\ Goto(w, "rekeyUpdate", proc[w].op, u, keys[u].len, keys[u].ver, FALSE)
        /\ UNCHANGED <<keys, attrs>>

(* Mutant of RekeyUpdate: without "AND state != Destroyed". *)
RekeyUpdateAnyState(w) ==
  LET p == proc[w] IN
  /\ p.pc = "rekeyUpdate"
  /\ keys' = [keys EXCEPT ![p.uid].bytes = KeyBytes(p.len), ![p.uid].ver = p.ver + 1]
  /\ Return(w, p.op, p.uid, TRUE, "success")
  /\ UNCHANGED attrs

(* ... and its UPDATE, whose number of affected rows nobody looks at.       *)
RekeyUpdate(w) ==
  LET p == proc[w] IN
  /\ p.pc = "rekeyUpdate"
  /\ \/ Fail(w)
     \/ /\ Get(p.uid)
        /\ keys' = [keys EXCEPT ![p.uid].bytes = KeyBytes(p.len),
                                ![p.uid].ver = p.ver + 1]
        /\ Return(w, p.op, p.uid, TRUE, "success")
        /\ UNCHANGED attrs
     \/ /\ ~Get(p.uid)
        /\ Return(w, p.op, p.uid, FALSE, "success")
        /\ UNCHANGED <<keys, attrs>>

(* AddAttribute and ModifyAttribute are the same upsert. *)
CheckExists(w, pc, op, u) ==
  /\ Begin(w, op)
  /\ \/ Refuse(w, op, u)
     \/ /\ Get(u)
        /\ Goto(w, pc, op, u, 0, 0, FALSE)
        /\ UNCHANGED <<keys, attrs>>

handleAddAttribute(w, u)    == CheckExists(w, "setAttribute", "AddAttribute", u)
handleDeleteAttribute(w, u) == CheckExists(w, "deleteAttribute", "DeleteAttribute", u)

(* The upsert always writes a row; a DELETE that matches none is no error. *)
ExecAttributes(w, u, names) ==
  /\ attrs' = [attrs EXCEPT ![u] = names]
  /\ Return(w, proc[w].op, u, proc[w].pc = "setAttribute" \/ names # attrs[u], "success")
  /\ UNCHANGED keys

SetCustomAttribute(w, name) ==
  /\ proc[w].pc = "setAttribute"
  /\ \/ Fail(w)
     \/ ExecAttributes(w, proc[w].uid, attrs[proc[w].uid] \cup {name})

DeleteCustomAttribute(w, name) ==
  /\ proc[w].pc = "deleteAttribute"
  /\ \/ Fail(w)
     \/ ExecAttributes(w, proc[w].uid, attrs[proc[w].uid] \ {name})
-----------------------------------------------------------------------------
(* REST handlers.  Activate, revoke and destroy call the store method       *)
(* without looking at the state of the key.                                 *)

handleActivateKey(w, u) ==
  Begin(w, "RestActivate") /\ ExecUpdate(w, "RestActivate", "Activate", u)

handleRevokeKey(w, u) ==
  Begin(w, "RestRevoke") /\ ExecUpdate(w, "RestRevoke", "Revoke", u)

handleDestroyKey(w, u) ==
  Begin(w, "RestDestroy") /\ ExecUpdate(w, "RestDestroy", "Destroy", u)

handleRekeyKey(w, u) == CheckActive(w, "RestRekey", u)

handleCreateKey(w, len) ==
  /\ Begin(w, "RestCreateKey")
  /\ \/ Refuse(w, "RestCreateKey", NoUid)
     \/ \E u \in Uids : /\ Create(u, IF len = 0 THEN 256 ELSE len)
                        /\ Return(w, "RestCreateKey", u, TRUE, "success")

RestCreateKeyPair(w, len, bytes) ==
  /\ Begin(w, "RestCreateKeyPair")
  /\ RegisterPrivate(w, "RestCreateKeyPair", IF len = 0 THEN 2048 ELSE len, bytes)

handleUploadCertificate(w, bytes) ==
  /\ Begin(w, "RestUploadCertificate")
  /\ \/ Refuse(w, "RestUploadCertificate", NoUid)
     \/ \E u \in Uids : /\ Register(u, "Certificate", 0, bytes, NoUid)
                        /\ Return(w, "RestUploadCertificate", u, TRUE, "success")

(* Unwrap reads the wrapping key in any state but Destroyed, ... *)
handleUnwrapKey(w, u, len) ==
  /\ Begin(w, "RestUnwrap")
  /\ \/ Refuse(w, "RestUnwrap", u)
     \/ /\ Get(u)
        /\ Goto(w, "insertUnwrapped", "RestUnwrap", u, len, 0, FALSE)
        /\ UNCHANGED <<keys, attrs>>

(* ... and registers what it opened. *)
RegisterUnwrapped(w, bytes) ==
  LET len == IF proc[w].len = 0 THEN bytes * 8 ELSE proc[w].len IN
  /\ proc[w].pc = "insertUnwrapped"
  /\ \/ Fail(w)
     \/ \E u \in Uids : /\ Register(u, "SymmetricKey", len, bytes, NoUid)
                        /\ Return(w, "RestUnwrap", u, TRUE, "success")
-----------------------------------------------------------------------------
(* The response is returned.  AuditedServer adds the audit entry that the   *)
(* handler queues before it.                                                *)
Respond(w) ==
  /\ proc[w].pc = "done"
  /\ proc' = [proc EXCEPT ![w] = Idle]
  /\ UNCHANGED <<keys, attrs>>

(* The process is killed and started again on the same database file. *)
Crash ==
  /\ proc' = [w \in Workers |-> Idle]
  /\ UNCHANGED <<keys, attrs>>

(* The first statement of a request. *)
Receive(w) ==
  \/ \E u \in Uids :
       \/ handleActivate(w, u) \/ handleRevoke(w, u) \/ handleDestroy(w, u)
       \/ handleArchive(w, u) \/ handleRecover(w, u) \/ handleReKey(w, u)
       \/ handleAddAttribute(w, u) \/ handleDeleteAttribute(w, u)
       \/ handleActivateKey(w, u) \/ handleRevokeKey(w, u)
       \/ handleDestroyKey(w, u) \/ handleRekeyKey(w, u)
  \/ \E len \in Lengths : handleCreate(w, len) \/ handleCreateKey(w, len)
  \/ \E u \in Uids, len \in Lengths : handleDeriveKey(w, u, len) \/ handleUnwrapKey(w, u, len)
  \/ \E n \in MaterialSizes : handleUploadCertificate(w, n)
  \/ \E len \in Lengths, n \in MaterialSizes :
       handleCreateKeyPair(w, len, n) \/ RestCreateKeyPair(w, len, n)
  \/ \E o \in Registered : handleRegister(w, o)

(* A later statement of the request. *)
Statement(w) ==
  \/ StoreUpdate(w) \/ RekeyGet(w) \/ RekeyUpdate(w) \/ InsertDerived(w)
  \/ \E name \in AttrNames : SetCustomAttribute(w, name) \/ DeleteCustomAttribute(w, name)
  \/ \E n \in MaterialSizes : RegisterPublic(w, n) \/ RegisterUnwrapped(w, n)

Proceed(w) == Statement(w) \/ Respond(w)

Next == Crash \/ \E w \in Workers : Receive(w) \/ Proceed(w)

Spec == Init /\ [][Next]_vars

(* A goroutine that has a statement to run is eventually scheduled. *)
FairSpec == Spec /\ \A w \in Workers : WF_vars(Proceed(w))

(* Worker w takes on, or carries through, a request op and meets no error. *)
Accepts(w, op)   == Receive(w) /\ proc'[w].op = op /\ proc'[w].out # "failure"
Completes(w, op) == Statement(w) /\ proc'[w].op = op /\ proc'[w].out = "success"

(* Clients that do not give up: each repeats its well-formed request as     *)
(* long as the server might accept it, and not every try meets a failing    *)
(* statement or a kill.                                                     *)
InsistentSpec ==
  /\ FairSpec
  /\ \A w \in Workers, op \in Requests : SF_vars(Accepts(w, op)) /\ SF_vars(Completes(w, op))
-----------------------------------------------------------------------------
(* Properties of every run of the server. *)

(* A destroyed key keeps no material, also when a Rekey that read the row   *)
(* before the Destroy writes after it.                                      *)
DestroyedIsWiped == \A u \in Uids : keys[u].state = Destroyed => keys[u].bytes = 0

(* Once destroyed, a row never changes again, whatever handlers checked its *)
(* state earlier and are still on their way to their UPDATE.                *)
DestroyedIsFinal ==
  [][\A u \in Uids : keys[u].state = Destroyed => keys'[u] = keys[u]]_vars

(* The reply in hand of worker p says what p has done. *)
Truthful(p) ==
  /\ p.out = "failure" /\ p.wrote =>
       /\ p.op \in {"CreateKeyPair", "RestCreateKeyPair"}
       /\ p.uid \in {u \in Uids : keys[u].state # Absent /\ keys[u].type = "PrivateKey"}
  /\ p.out = "success" /\ ~p.wrote =>
       \/ p.op \in {"ReKey", "RestRekey"} /\ p.uid \in {u \in Uids : keys[u].state = Destroyed}
       \/ p.op = "DeleteAttribute"

(* What a client is told is what happened.  A failure means that the        *)
(* request has written nothing to the database; the one exception is a key  *)
(* pair whose second Register failed, and then the private half is there.   *)
(* A success means that it has, with two exceptions: a rekey whose key has  *)
(* been destroyed in the meantime (RekeyReplacesActive is about that), and  *)
(* the removal of an attribute that was not there.                          *)
RepliesAreTruthful == \A w \in Workers : Truthful(proc[w])

(* A generated public key is never stored without its private half, of the  *)
(* same length, having been stored before: a failure or a kill between the  *)
(* two Registers of a key pair can only lose the public half.               *)
PublicKeyHasPrivateHalf ==
  \A u \in Uids :
    keys[u].pair # NoUid =>
      LET private == keys[keys[u].pair] IN
      /\ private.type = "PrivateKey"
      /\ private.state # Absent
      /\ private.len = keys[u].len

(* A custom attribute always belongs to a row, also when the key is         *)
(* destroyed between the existence check and the INSERT: destroyed rows     *)
(* stay, and the foreign key is enforced on one pooled connection only.     *)
AttributesHaveRow == \A u \in Uids : attrs[u] # {} => keys[u].state # Absent

(* The server never generates more than MaxKeyLengthBits of material, also  *)
(* for keys registered with a larger length and rekeyed later.              *)
BoundedSizes    == MaterialSizes \cup 0..KeyBytes(MaxKeyLengthBits)
MaterialBounded == \A u \in Uids : keys[u].bytes \in BoundedSizes

(* The rows of the table live the life KeyLifecycle describes. *)
KL == INSTANCE KeyLifecycle
        WITH life <- [u \in Uids |-> keys[u].state],
             secret <- [u \in Uids |-> keys[u].bytes]

(* Keys are born PreActive once, never return to it, and die once and       *)
(* wiped: the store and both front ends together implement KeyLifecycle.    *)
ImplementsKeyLifecycle == KL!LifeSpec

-----------------------------------------------------------------------------
(* What the tables and comments of the code, its tests and the README of    *)
(* the repository say of keys, and the server does not keep.                *)

(* A key becomes Active only from PreActive: the Activate row of            *)
(* validateStateTransition.                                                 *)
ActivatedOnlyFromPreActive ==
  [][\A u \in Uids : keys'[u].state = Active /\ keys[u].state # Active
        => keys[u].state = PreActive]_vars

(* A rekey that reports success has replaced the material of an Active key: *)
(* the ReKey row of validateStateTransition and the state check of          *)
(* POST /rekey.  A Revoke between check and UPDATE leaves a revoked key     *)
(* with new material, and after a Destroy the UPDATE matches no row.        *)
RekeyReplacesActive ==
  [][\A w \in Workers :
       proc[w].pc = "rekeyUpdate" /\ proc'[w].out = "success"
         => proc'[w].wrote /\ keys[proc[w].uid].state = Active]_vars

(* Every rekey that stores new material stores it under the next version of *)
(* the key, as the test of the store expects.                               *)
RekeyAdvancesVersion ==
  [][\A w \in Workers :
       proc[w].pc = "rekeyUpdate" /\ proc'[w].wrote
         => keys'[proc[w].uid].ver = keys[proc[w].uid].ver + 1]_vars

(* Clients that create, activate, revoke and archive keys, and do not give  *)
(* up, get a key archived in the end: the README lists archive and recover  *)
(* in the life of a key.  Revoke always stores Compromised, and the Archive *)
(* handler wants Deactivated.                                               *)
KeysCanBeArchived == <>(\E u \in Uids : keys[u].state = Archived)
=============================================================================
