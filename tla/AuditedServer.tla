---------------------------- MODULE AuditedServer ----------------------------
(***************************************************************************)
(* The SQLite key server of KeyServer together with its audit log: the     *)
(* handlers queue an entry after their last statement and before they      *)
(* answer, the background writer stores it, and a kill loses whatever has  *)
(* not reached the table.  The keys and the log are in one database file,  *)
(* but no transaction spans the two.                                       *)
(***************************************************************************)
EXTENDS KeyServer, AuditLog

auditedVars == <<vars, logVars>>

(* Entries as the handlers build them; the writer can tell them from none. *)
Entry == [op : Op, uid : Uids \cup {NoUid}, status : {"success", "failure"}]

ASSUME NoEntryAssumption == NoEntry \notin Entry

RestOps == {"RestCreateKey", "RestCreateKeyPair", "RestActivate", "RestRevoke",
            "RestDestroy", "RestRekey", "RestUploadCertificate", "RestUnwrap"}

(* The object that the entry of outcome p names: the one of the request or  *)
(* else of the response, in which a KMIP key pair has two identifiers but   *)
(* not the one that is looked for.                                          *)
ObjectUID(p) == IF p.op = "CreateKeyPair" THEN NoUid ELSE p.uid

(* Mutant of EntryOf: the result status of the response is not looked at. *)
EntryAlwaysSuccess(p) == [op |-> p.op, uid |-> ObjectUID(p), status |-> "success"]

(* The entry of outcome p.  Entries of failures are not told apart. *)
EntryOf(p) ==
  IF p.out = "success"
    THEN [op |-> p.op, uid |-> ObjectUID(p), status |-> "success"]
    ELSE [op |-> "none", uid |-> NoUid, status |-> "failure"]

(* KMIP logs every outcome.  REST logs its successes, and the failures of   *)
(* the store's Create.                                                      *)
MustLog(p) == p.op \notin RestOps \/ p.out = "success"
MayLog(p)  == MustLog(p) \/ p.op = "RestCreateKey"
-----------------------------------------------------------------------------
AuditedInit == Init /\ LogInit

(* Mutant of AuditedRespond: only KMIP operations are logged. *)
RespondKmipOnly(w) ==
  /\ Respond(w)
  /\ IF proc[w].op \notin RestOps THEN Log(EntryOf(proc[w])) ELSE UNCHANGED logVars

(* The outcome is logged, then returned. *)
AuditedRespond(w) ==
  /\ Respond(w)
  /\ \/ MayLog(proc[w]) /\ Log(EntryOf(proc[w]))
     \/ ~MustLog(proc[w]) /\ UNCHANGED logVars

(* A kill loses the channel, the entry that the writer has in hand, and the *)
(* entries of requests that have written but not answered.  main leaves     *)
(* through log.Fatalf, so that the deferred Close never runs.               *)
AuditedCrash ==
  /\ Crash
  /\ NewLogger
  /\ lost' = lost \cup Objects(Recorded \ auditLog)
                  \cup {proc[w].uid : w \in {x \in Workers : proc[x].wrote}}

AuditedProceed(w) == AuditedRespond(w) \/ (Statement(w) /\ UNCHANGED logVars)

AuditedNext ==
  \/ AuditedCrash
  \/ \E w \in Workers : AuditedProceed(w) \/ (Receive(w) /\ UNCHANGED logVars)
  \/ writer /\ UNCHANGED vars

AuditedSpec == AuditedInit /\ [][AuditedNext]_auditedVars

(* The goroutine of the writer is scheduled. *)
AuditedFairSpec == AuditedSpec /\ WF_auditedVars(writer /\ UNCHANGED vars)
-----------------------------------------------------------------------------
Activations  == {"Activate", "RestActivate"}
Revocations  == {"Revoke", "RestRevoke"}
Destructions == {"Destroy", "RestDestroy"}
Rekeys       == {"ReKey", "RestRekey"}

(* The states a key can be in after op succeeded on it, at any later time. *)
After(op) ==
  CASE op \in Destructions                          -> {Destroyed}
    [] op \in Activations \cup Revocations \cup Rekeys -> {Active, Compromised, Destroyed}
    [] OTHER                                        -> KeyState

(* The row of key u shows that op succeeded.  The first version of a rekeyed *)
(* key is gone, or the whole key: a rekey that a Destroy overtakes reports   *)
(* success although its UPDATE matched no row.                               *)
Shows(u, op) ==
  /\ keys[u].state \in After(op)
  /\ op \in Rekeys => keys[u].ver > 1 \/ keys[u].state = Destroyed

(* The log never runs ahead of the keys: an entry of a success, stored or   *)
(* still on its way, is about an effect that the table keys shows, also     *)
(* after requests of other workers and kills.  Handlers log after their     *)
(* last statement and read the status from the response.                    *)
AuditNeverAhead ==
  \A e \in Recorded : e.status = "success" /\ e.uid \in Uids => Shows(e.uid, e.op)

(* The operations that bring a key into a state. *)
LeadsTo(state) ==
  CASE state = Active      -> Activations
    [] state = Compromised -> Revocations
    [] state = Destroyed   -> Destructions

(* The state of every key is explained: a key that was activated, revoked   *)
(* or destroyed by either front end has an entry of such an operation in    *)
(* the log, on its way there or about to be queued by the worker that did   *)
(* it, unless an entry about this key was dropped by the full channel,      *)
(* refused by the database or lost in a kill.                               *)
StateIsAudited ==
  \A u \in Uids \ lost :
    keys[u].state \in {Active, Compromised, Destroyed} =>
      \E e \in Recorded \cup {EntryOf(proc[w]) : w \in {x \in Workers : proc[x].pc = "done"}} :
        e.status = "success" /\ e.uid = u /\ e.op \in LeadsTo(keys[u].state)

(* A queued entry does not stay queued: it comes into the table, unless an  *)
(* entry about this key is lost.  An INSERT that fails does not stop the    *)
(* writer.                                                                  *)
QueuedIsWritten ==
  \A op \in Requests, u \in Uids :
    LET e == [op |-> op, uid |-> u, status |-> "success"] IN
    e \in InChannel ~> (e \in auditLog \/ u \in lost)
=============================================================================
