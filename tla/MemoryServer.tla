----------------------------- MODULE MemoryServer -----------------------------
(***************************************************************************)
(* The in-memory key store (--dev --storage memory) under the lifecycle    *)
(* handlers and the handlers that use key material.                        *)
(*                                                                         *)
(* The store's methods hold a RWMutex, but Get returns a pointer to the    *)
(* live record and the handlers read its State and its Material after the  *)
(* lock is released.  So what a handler reads is not the record Get found  *)
(* but the record as it is at each read, also in the middle of a Destroy,  *)
(* which wipes the bytes in place.  Every unlocked read and every write    *)
(* inside Destroy is therefore an action of its own.                       *)
(***************************************************************************)
EXTENDS KeyStates

CONSTANTS
  Uids,         \* the UUIDs the store may hand out
  Workers,      \* goroutines serving requests
  Requests,     \* the requests that clients send to each of them
  MaxVersion,   \* bounds the number of rekeys of one key
  None          \* no worker, no uid

ASSUME MemoryAssumption == None \notin Uids \cup Workers /\ MaxVersion \in Nat \ {0}

VARIABLES
  recs,    \* the records of the map keys
  slices,  \* the byte arrays: slices[u][v] was the Material of version v
  mu,      \* who holds the write lock
  proc     \* what each worker is doing

vars == <<recs, slices, mu, proc>>

Versions == 1..MaxVersion

(* Material is the version whose array it points to, or 0 for nil. *)
Record == [state : KeyState \cup {Absent}, mat : 0..MaxVersion, ver : 0..MaxVersion]

(* What an array holds: nothing yet, the key, a half-wiped key, zeros. *)
Bytes == {"unused", "key", "mixed", "zero"}

(* What a worker has read of Material: nothing yet, nil, a version's array. *)
Unread == -1
Read   == {Unread, 0} \cup Versions

KmipCrypto == {"Encrypt", "Decrypt", "Sign", "SignatureVerify", "MAC"}
RestCrypto == {"RestEncrypt", "RestDecrypt", "RestSign", "RestVerify", "RestMAC"}
Op == {"none", "Create", "Register", "Activate", "Revoke", "Destroy", "ReKey",
       "RestActivate", "RestRevoke", "RestDestroy", "RestRekey", "Get", "DeriveKey"}
      \cup KmipCrypto \cup RestCrypto

Pc == {"idle", "check", "lock", "wiping", "wiped", "cleared", "read", "use", "insert", "done"}

(* used is what a successful request computed with (history). *)
Worker == [pc : Pc, op : Op, uid : Uids \cup {None}, mat : Read,
           out : {"none", "success", "failure"}, used : {"nothing", "empty"} \cup Bytes]

Idle == [pc |-> "idle", op |-> "none", uid |-> None, mat |-> Unread,
         out |-> "none", used |-> "nothing"]

NoRecord == [state |-> Absent, mat |-> 0, ver |-> 0]

TypeOK ==
  /\ recs \in [Uids -> Record]
  /\ slices \in [Uids -> [Versions -> Bytes]]
  /\ mu \in Workers \cup {None}
  /\ proc \in [Workers -> Worker]

Init ==
  /\ recs = [u \in Uids |-> NoRecord]
  /\ slices = [u \in Uids |-> [v \in Versions |-> "unused"]]
  /\ mu = None
  /\ proc = [w \in Workers |-> Idle]
-----------------------------------------------------------------------------
(* The worker's control. *)

Begin(w, op) == proc[w].pc = "idle" /\ op \in Requests[w]

Goto(w, pc, op, u, mat) ==
  proc' = [proc EXCEPT ![w] = [pc |-> pc, op |-> op, uid |-> u, mat |-> mat,
                               out |-> "none", used |-> "nothing"]]

Return(w, op, u, out, used) ==
  proc' = [proc EXCEPT ![w] = [pc |-> "done", op |-> op, uid |-> u, mat |-> Unread,
                               out |-> out, used |-> used]]

At(w, pc) == proc[w].pc = pc

(* An error before anything changed, panics that the connection recovers    *)
(* from included.                                                           *)
Refuse(w, op, u) ==
  /\ Return(w, op, u, "failure", "nothing")
  /\ UNCHANGED <<recs, slices, mu>>

(* The record is in the map and not Destroyed. *)
Found(u) == recs[u].state \notin {Absent, Destroyed}
-----------------------------------------------------------------------------
(* Inserts: the record is built first, which fails for a bad length, and    *)
(* added under the lock.                                                    *)

AddRecord(u) ==
  /\ mu = None
  /\ recs[u].state = Absent
  /\ recs' = [recs EXCEPT ![u] = [state |-> PreActive, mat |-> 1, ver |-> 1]]
  /\ slices' = [slices EXCEPT ![u][1] = "key"]
  /\ UNCHANGED mu

Create(w, u) ==
  /\ Begin(w, "Create")
  /\ \/ Refuse(w, "Create", None)
     \/ AddRecord(u) /\ Return(w, "Create", u, "success", "nothing")

Register(w, u) ==
  /\ Begin(w, "Register")
  /\ \/ Refuse(w, "Register", None)
     \/ AddRecord(u) /\ Return(w, "Register", u, "success", "nothing")
-----------------------------------------------------------------------------
(* Requests about a key.  Get takes the read lock, which waits for a writer. *)

Get(w, op, u, pc) ==
  /\ Begin(w, op)
  /\ mu = None
  /\ \/ Refuse(w, op, u)
     \/ /\ Found(u)
        /\ Goto(w, pc, op, u, Unread)
        /\ UNCHANGED <<recs, slices, mu>>

handleActivate(w, u)        == Get(w, "Activate", u, "check")
handleRevoke(w, u)          == Get(w, "Revoke", u, "check")
handleDestroy(w, u)         == Get(w, "Destroy", u, "check")
handleReKey(w, u)           == Get(w, "ReKey", u, "check")
handleGet(w, u)             == Get(w, "Get", u, "check")
handleEncrypt(w, u)         == Get(w, "Encrypt", u, "check")
handleDecrypt(w, u)         == Get(w, "Decrypt", u, "check")
handleSign(w, u)            == Get(w, "Sign", u, "check")
handleSignatureVerify(w, u) == Get(w, "SignatureVerify", u, "check")
handleMAC(w, u)             == Get(w, "MAC", u, "check")
handleRekeyKey(w, u)        == Get(w, "RestRekey", u, "check")
handleEncryptKey(w, u)      == Get(w, "RestEncrypt", u, "check")
handleDecryptKey(w, u)      == Get(w, "RestDecrypt", u, "check")
handleSignKey(w, u)         == Get(w, "RestSign", u, "check")
handleMACKey(w, u)          == Get(w, "RestMAC", u, "check")

(* These two look at no state: a public key verifies in any, and DeriveKey  *)
(* derives from any.                                                        *)
handleVerifyKey(w, u) == Get(w, "RestVerify", u, "read")
handleDeriveKey(w, u) == Get(w, "DeriveKey", u, "read")

(* REST lifecycle calls go straight to the store. *)
Straight(w, op, u) ==
  /\ Begin(w, op)
  /\ Goto(w, "lock", op, u, Unread)
  /\ UNCHANGED <<recs, slices, mu>>

handleActivateKey(w, u) == Straight(w, "RestActivate", u)
handleRevokeKey(w, u)   == Straight(w, "RestRevoke", u)
handleDestroyKey(w, u)  == Straight(w, "RestDestroy", u)

(* The states in which a handler goes on, KMIP's table or REST's "!= Active". *)
Accepts(op, state) ==
  IF op \in RestCrypto \cup {"RestRekey"} THEN state = Active
  ELSE validateStateTransition(state, op)

(* The handler reads rec.State through the shared pointer, without the lock. *)
CheckState(w) ==
  LET p == proc[w] IN
  /\ At(w, "check")
  /\ \/ /\ ~Accepts(p.op, recs[p.uid].state)
        /\ Refuse(w, p.op, p.uid)
     \/ /\ Accepts(p.op, recs[p.uid].state)
        /\ Goto(w, IF p.op \in {"Activate", "Revoke", "Destroy", "ReKey", "RestRekey"}
                   THEN "lock" ELSE "read", p.op, p.uid, Unread)
        /\ UNCHANGED <<recs, slices, mu>>
-----------------------------------------------------------------------------
(* The methods that change a record, under the write lock. *)

NotFound(w) ==
  /\ mu = None
  /\ At(w, "lock")
  /\ ~Found(proc[w].uid)
  /\ Refuse(w, proc[w].op, proc[w].uid)

Locked(w, ops) ==
  /\ mu = None
  /\ At(w, "lock")
  /\ proc[w].op \in ops
  /\ Found(proc[w].uid)

Activate(w) ==
  /\ Locked(w, {"Activate", "RestActivate"})
  /\ recs' = [recs EXCEPT ![proc[w].uid].state = Active]
  /\ Return(w, proc[w].op, proc[w].uid, "success", "nothing")
  /\ UNCHANGED <<slices, mu>>

(* Mutant of Revoke: the reason (code 7) is stored as the state. *)
RevokeSwapped(w) ==
  /\ Locked(w, {"Revoke", "RestRevoke"})
  /\ recs' = [recs EXCEPT ![proc[w].uid].state = 7]
  /\ Return(w, proc[w].op, proc[w].uid, "success", "nothing")
  /\ UNCHANGED <<slices, mu>>

Revoke(w) ==
  /\ Locked(w, {"Revoke", "RestRevoke"})
  /\ recs' = [recs EXCEPT ![proc[w].uid].state = Compromised]
  /\ Return(w, proc[w].op, proc[w].uid, "success", "nothing")
  /\ UNCHANGED <<slices, mu>>

(* Mutants of Rekey: it does not take the lock, and it wipes the array that *)
(* it replaces.                                                             *)
RekeyUnlocked(w) ==
  LET u == proc[w].uid  v == recs[u].ver + 1 IN
  /\ At(w, "lock")
  /\ proc[w].op \in {"ReKey", "RestRekey"}
  /\ Found(u)
  /\ v \in Versions
  /\ recs' = [recs EXCEPT ![u].mat = v, ![u].ver = v]
  /\ slices' = [slices EXCEPT ![u][v] = "key"]
  /\ Return(w, proc[w].op, u, "success", "nothing")
  /\ UNCHANGED mu

RekeyWipes(w) ==
  LET u == proc[w].uid  v == recs[u].ver + 1 IN
  /\ Locked(w, {"ReKey", "RestRekey"})
  /\ v \in Versions
  /\ recs' = [recs EXCEPT ![u].mat = v, ![u].ver = v]
  /\ slices' = [slices EXCEPT ![u] = [@ EXCEPT ![v] = "key", ![v - 1] = "zero"]]
  /\ Return(w, proc[w].op, u, "success", "nothing")
  /\ UNCHANGED mu

(* A new array replaces the old one, which keeps its bytes.  The bound on   *)
(* the versions turns a further rekey into an error.                        *)
Rekey(w) ==
  LET u == proc[w].uid  v == recs[u].ver + 1 IN
  /\ Locked(w, {"ReKey", "RestRekey"})
  /\ \/ Refuse(w, proc[w].op, u)
     \/ /\ v \in Versions
        /\ recs' = [recs EXCEPT ![u].mat = v, ![u].ver = v]
        /\ slices' = [slices EXCEPT ![u][v] = "key"]
        /\ Return(w, proc[w].op, u, "success", "nothing")
        /\ UNCHANGED mu

(* Destroy wipes the array byte by byte, ... *)
DestroyWipes(w) ==
  LET u == proc[w].uid IN
  /\ Locked(w, {"Destroy", "RestDestroy"})
  /\ mu' = w
  /\ slices' = [slices EXCEPT ![u][recs[u].mat] = "mixed"]
  /\ Goto(w, "wiping", proc[w].op, u, Unread)
  /\ UNCHANGED recs

(* Mutant of DestroyWiped: the slice is cleared before the loop over it. *)
DestroyWipedNothing(w) ==
  /\ At(w, "wiping")
  /\ Goto(w, "wiped", proc[w].op, proc[w].uid, Unread)
  /\ UNCHANGED <<recs, slices, mu>>

(* ... until all bytes are zero, ... *)
DestroyWiped(w) ==
  LET u == proc[w].uid IN
  /\ At(w, "wiping")
  /\ slices' = [slices EXCEPT ![u][recs[u].mat] = "zero"]
  /\ Goto(w, "wiped", proc[w].op, u, Unread)
  /\ UNCHANGED <<recs, mu>>

(* ... sets Material to nil, ... *)
DestroyClears(w) ==
  LET u == proc[w].uid IN
  /\ At(w, "wiped")
  /\ recs' = [recs EXCEPT ![u].mat = 0]
  /\ Goto(w, "cleared", proc[w].op, u, Unread)
  /\ UNCHANGED <<slices, mu>>

(* Mutant of DestroyEnds: the lock is not released. *)
DestroyKeepsLock(w) ==
  /\ At(w, "cleared")
  /\ recs' = [recs EXCEPT ![proc[w].uid].state = Destroyed]
  /\ Return(w, proc[w].op, proc[w].uid, "success", "nothing")
  /\ UNCHANGED <<slices, mu>>

(* ... sets the state, and releases the lock. *)
DestroyEnds(w) ==
  /\ At(w, "cleared")
  /\ recs' = [recs EXCEPT ![proc[w].uid].state = Destroyed]
  /\ mu' = None
  /\ Return(w, proc[w].op, proc[w].uid, "success", "nothing")
  /\ UNCHANGED slices
-----------------------------------------------------------------------------
(* The handlers that use material, without the lock. *)

(* The slice header is read: from here on the handler holds an array that   *)
(* Destroy may be wiping.  A wrong object type is refused here, and so is   *)
(* the panic of a header torn by a concurrent Destroy.                      *)
ReadMaterial(w) ==
  LET p == proc[w] IN
  /\ At(w, "read")
  /\ \/ Refuse(w, p.op, p.uid)
     \/ /\ Goto(w, "use", p.op, p.uid, recs[p.uid].mat)
        /\ UNCHANGED <<recs, slices, mu>>

(* Which contents let an operation succeed.  HMAC, HKDF and Get take any    *)
(* bytes; AES refuses an empty key; DER does not parse, and no ciphertext   *)
(* authenticates, under anything but the key.                               *)
Tolerates(op) ==
  CASE op \in {"Get", "MAC", "RestMAC", "DeriveKey"} -> {"empty", "key", "mixed", "zero"}
    [] op \in {"Encrypt", "RestEncrypt"}             -> {"key", "mixed", "zero"}
    [] OTHER                                         -> {"key"}

UseMaterial(w) ==
  LET p    == proc[w]
      used == IF p.mat = 0 THEN "empty" ELSE slices[p.uid][p.mat]
  IN
  /\ At(w, "use")
  /\ \/ Refuse(w, p.op, p.uid)
     \/ /\ used \in Tolerates(p.op)
        /\ IF p.op = "DeriveKey"
             THEN proc' = [proc EXCEPT ![w].pc = "insert", ![w].used = used]
             ELSE Return(w, p.op, p.uid, "success", used)
        /\ UNCHANGED <<recs, slices, mu>>

(* The derived key is added.  With no UUID left (a bound of the model) the  *)
(* request fails.                                                           *)
InsertDerived(w) ==
  /\ At(w, "insert")
  /\ \/ \E u \in Uids : AddRecord(u) /\ Return(w, "DeriveKey", u, "success", proc[w].used)
     \/ /\ \A u \in Uids : recs[u].state # Absent
        /\ Refuse(w, "DeriveKey", proc[w].uid)
-----------------------------------------------------------------------------
Respond(w) ==
  /\ At(w, "done")
  /\ proc' = [proc EXCEPT ![w] = Idle]
  /\ UNCHANGED <<recs, slices, mu>>

Receive(w) ==
  \E u \in Uids :
    \/ Create(w, u) \/ Register(w, u)
    \/ handleActivate(w, u) \/ handleRevoke(w, u) \/ handleDestroy(w, u) \/ handleReKey(w, u)
    \/ handleActivateKey(w, u) \/ handleRevokeKey(w, u) \/ handleDestroyKey(w, u)
    \/ handleRekeyKey(w, u) \/ handleGet(w, u) \/ handleDeriveKey(w, u)
    \/ handleEncrypt(w, u) \/ handleDecrypt(w, u) \/ handleSign(w, u)
    \/ handleSignatureVerify(w, u) \/ handleMAC(w, u)
    \/ handleEncryptKey(w, u) \/ handleDecryptKey(w, u) \/ handleSignKey(w, u)
    \/ handleVerifyKey(w, u) \/ handleMACKey(w, u)

(* Steps that wait for the write lock, and steps that wait for nothing. *)
Acquire(w) ==
  NotFound(w) \/ Activate(w) \/ Revoke(w) \/ Rekey(w) \/ DestroyWipes(w) \/ InsertDerived(w)

Proceed(w) ==
  \/ CheckState(w) \/ DestroyWiped(w) \/ DestroyClears(w) \/ DestroyEnds(w)
  \/ ReadMaterial(w) \/ UseMaterial(w) \/ Respond(w)

Next == \E w \in Workers : Receive(w) \/ Acquire(w) \/ Proceed(w)

Spec == Init /\ [][Next]_vars

(* Runnable goroutines run, and sync.RWMutex hands the lock to every waiter *)
(* in the end.                                                              *)
FairSpec == Spec /\ \A w \in Workers : WF_vars(Proceed(w)) /\ SF_vars(Acquire(w))
-----------------------------------------------------------------------------
(* Properties. *)

(* A destroyed record holds no material, and the array it held last is all  *)
(* zeros, whatever readers and rekeys ran beside the Destroy.               *)
DestroyedIsWiped ==
  \A u \in Uids :
    recs[u].state = Destroyed => recs[u].mat = 0 /\ slices[u][recs[u].ver] = "zero"

(* The records live the life that KeyLifecycle describes, as the rows of    *)
(* the SQLite store do.                                                     *)
KL == INSTANCE KeyLifecycle
        WITH life <- [u \in Uids |-> recs[u].state],
             secret <- [u \in Uids |-> IF recs[u].mat = 0 THEN 0 ELSE 1]

ImplementsKeyLifecycle == KL!LifeSpec

(* A cryptographic request that reports success has computed with the bytes *)
(* of the key, not with what a concurrent operation left of them.  Handlers *)
(* that read Material without the lock do not ensure that: it is refuted    *)
(* when a Destroy overlaps a user of the key.                               *)
SuccessUsedTheKey ==
  \A w \in Workers :
    proc[w].out = "success" /\ proc[w].op \in KmipCrypto \cup RestCrypto
      => proc[w].used = "key"

(* The requests that compute with material or hand it out. *)
Users == KmipCrypto \cup RestCrypto \cup {"Get"}

(* The material of u is gone, or its Destroy is under way with the lock. *)
Ended(u) == recs[u].state = Destroyed \/ (mu # None /\ proc[mu].uid = u)

(* Nothing but a Destroy of the very key spoils a result: a success used    *)
(* the bytes of the key, although State and Material are read without the   *)
(* lock and a Rekey or Revoke may change both in between, unless a Destroy  *)
(* has begun by the time of the answer.                                     *)
OnlyDestroySpoils ==
  \A w \in Workers :
    proc[w].out = "success" /\ proc[w].op \in Users
      => proc[w].used = "key" \/ Ended(proc[w].uid)

(* Every request that was received ends, the ones that wait for the lock    *)
(* included.                                                                *)
RequestsEnd == \A w \in Workers : proc[w].pc # "idle" ~> proc[w].pc = "idle"
=============================================================================
