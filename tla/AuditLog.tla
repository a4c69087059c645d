------------------------------- MODULE AuditLog -------------------------------
(***************************************************************************)
(* The audit logger: a bounded channel that the request handlers fill      *)
(* without waiting, and a background writer that empties it into the table *)
(* audit_log.  The module has the operations of the logger; AuditedServer  *)
(* composes them with the handlers that call them.                         *)
(*                                                                         *)
(* An entry keeps what the properties are about: the operation, the object *)
(* it names and the status.                                                *)
(***************************************************************************)
EXTENDS Naturals, Sequences

CONSTANTS
  Capacity,   \* entries the channel holds (256 in the code)
  NoEntry     \* the writer has nothing in hand

ASSUME CapacityAssumption == Capacity \in Nat \ {0}

VARIABLES
  logger,     \* NewLogger succeeded in this run of the process
  ch,         \* the channel
  writing,    \* the entry that the writer received and has not inserted yet
  auditLog,   \* the table audit_log, as the set of the successes in it
  lost        \* history: the objects of successes whose entry is not stored

logVars == <<logger, ch, writing, auditLog, lost>>

InChannel == {ch[i] : i \in DOMAIN ch}

(* The entries that are in the table or on their way to it. *)
Recorded == auditLog \cup InChannel \cup ({writing} \ {NoEntry})

(* Entries of failures take their place in the channel and in the writer's  *)
(* hand, but what becomes of them is not followed any further.              *)
Successes(entries) == {e \in entries : e.status = "success"}
Objects(entries)   == {e.uid : e \in Successes(entries)}

LogInit ==
  /\ logger \in BOOLEAN
  /\ ch = <<>>
  /\ writing = NoEntry
  /\ auditLog = {}
  /\ lost = {}

(* A started process creates the table and the channel.  When CREATE TABLE  *)
(* fails there is no logger, and the process runs on without one.           *)
NewLogger ==
  /\ logger' \in BOOLEAN
  /\ ch' = <<>>
  /\ writing' = NoEntry
  /\ UNCHANGED auditLog

(* Log never waits: an entry that finds the channel full is dropped, and    *)
(* without a logger the handlers do not even build it.                      *)
Log(e) ==
  /\ \/ /\ logger /\ Len(ch) < Capacity
        /\ ch' = Append(ch, e)
        /\ UNCHANGED lost
     \/ /\ logger => Len(ch) = Capacity
        /\ lost' = lost \cup Objects({e})
        /\ UNCHANGED ch
  /\ UNCHANGED <<logger, writing, auditLog>>

WriterReceives ==
  /\ writing = NoEntry
  /\ ch # <<>>
  /\ writing' = Head(ch)
  /\ ch' = Tail(ch)
  /\ UNCHANGED <<logger, auditLog, lost>>

(* Mutant of WriterInserts: the writer gives up at the first error. *)
WriterStopsAtError ==
  /\ writing # NoEntry /\ writing.status # "stopped"
  /\ \/ /\ auditLog' = auditLog \cup Successes({writing})
        /\ writing' = NoEntry
        /\ UNCHANGED lost
     \/ /\ lost' = lost \cup Objects({writing})
        /\ writing' = [writing EXCEPT !.status = "stopped"]
        /\ UNCHANGED auditLog
  /\ UNCHANGED <<logger, ch>>

(* The INSERT of the entry in hand.  An error is only printed. *)
WriterInserts ==
  /\ writing # NoEntry
  /\ \/ auditLog' = auditLog \cup Successes({writing}) /\ UNCHANGED lost
     \/ lost' = lost \cup Objects({writing}) /\ UNCHANGED auditLog
  /\ writing' = NoEntry
  /\ UNCHANGED <<logger, ch>>

writer == WriterReceives \/ WriterInserts
=============================================================================
