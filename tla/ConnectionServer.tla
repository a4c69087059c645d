--------------------------- MODULE ConnectionServer ---------------------------
(***************************************************************************)
(* The KMIP listener: the accept loop with its semaphore, one goroutine    *)
(* per connection (handshake, then requests until an error), the tracker   *)
(* that the REST API shows, and what a client sees of it.  A request is a  *)
(* batch of items that are carried out one after the other; what an item   *)
(* does to the keys is the subject of KeyServer.                           *)
(*                                                                         *)
(* A goroutine that leaves handleConnection, normally or by a panic, runs  *)
(* its deferred calls one by one: out of the tracker, close, give the slot *)
(* back.                                                                   *)
(***************************************************************************)
EXTENDS Integers, FiniteSets

CONSTANTS
  Conns,           \* TCP connections that may exist at the same time
  maxConnections,  \* capacity of the semaphore (1000 in the code)
  MaxBatch,        \* items of a batch that is not refused (100 in the code)
  MaxItems         \* bounds the items that a client sends on one connection

ASSUME ConnectionAssumption ==
  /\ IsFiniteSet(Conns)
  /\ maxConnections \in Nat
  /\ MaxBatch \in Nat
  /\ MaxItems \in Nat

VARIABLES
  conn,     \* the goroutine of each connection, and its client
  sem,      \* slots of the semaphore in use
  tracker   \* operations counted for each connection, or Untracked

connVars == <<conn, sem, tracker>>

Untracked == -1

(* closed: there is no connection; backlog: not accepted yet; reading:      *)
(* waiting for a request under a deadline; handling: left items to go, then *)
(* the response; remove, close, release: the deferred calls to come.        *)
ConnPc == {"closed", "backlog", "handshake", "reading", "handling",
           "remove", "close", "release"}

(* done counts the items carried out on this connection. *)
Connection == [pc : ConnPc, left : Nat, done : Nat]

NoConnection == [pc |-> "closed", left |-> 0, done |-> 0]

ConnTypeOK ==
  /\ conn \in [Conns -> Connection]
  /\ sem \in Nat
  /\ tracker \in [Conns -> Nat \cup {Untracked}]

ConnInit ==
  /\ conn = [c \in Conns |-> NoConnection]
  /\ sem = 0
  /\ tracker = [c \in Conns |-> Untracked]

Goto(c, pc) == conn' = [conn EXCEPT ![c].pc = pc]
-----------------------------------------------------------------------------
(* A client connects: the kernel completes the TCP handshake by itself. *)
Dial(c) ==
  /\ conn[c].pc = "closed"
  /\ Goto(c, "backlog")
  /\ UNCHANGED <<sem, tracker>>

(* The client gives up before it is accepted: Accept returns an error or a  *)
(* connection that is gone, and the loop goes on.                           *)
Abandon(c) ==
  /\ conn[c].pc = "backlog"
  /\ Goto(c, "closed")
  /\ UNCHANGED <<sem, tracker>>

(* Mutant of Accept: the accept loop waits for a slot. *)
AcceptWaits(c) ==
  /\ conn[c].pc = "backlog"
  /\ sem < maxConnections
  /\ sem' = sem + 1
  /\ Goto(c, "handshake")
  /\ UNCHANGED tracker

(* The accept loop starts a goroutine if a slot is free and closes the      *)
(* connection otherwise.                                                    *)
Accept(c) ==
  /\ conn[c].pc = "backlog"
  /\ \/ /\ sem < maxConnections
        /\ sem' = sem + 1
        /\ Goto(c, "handshake")
     \/ /\ sem = maxConnections
        /\ Goto(c, "closed")
        /\ UNCHANGED sem
  /\ UNCHANGED tracker

(* The TLS handshake, for which no deadline is set. *)
HandshakeDone(c) ==
  /\ conn[c].pc = "handshake"
  /\ tracker' = [tracker EXCEPT ![c] = 0]
  /\ Goto(c, "reading")
  /\ UNCHANGED sem

(* Mutant of HandshakeFails: the goroutine ends without its deferred calls. *)
HandshakeFailsNoRelease(c) ==
  /\ conn[c].pc = "handshake"
  /\ Goto(c, "closed")
  /\ UNCHANGED <<sem, tracker>>

HandshakeFails(c) ==
  /\ conn[c].pc = "handshake"
  /\ Goto(c, "close")
  /\ UNCHANGED <<sem, tracker>>

(* A whole request has arrived.  A message that is refused as a whole       *)
(* (undecodable, wrong version, no item or too many) has no item to handle. *)
ReadRequest(c, items) ==
  /\ conn[c].pc = "reading"
  /\ conn[c].done + items <= MaxItems
  /\ conn' = [conn EXCEPT ![c].pc = "handling", ![c].left = items]
  /\ UNCHANGED <<sem, tracker>>

(* Mutant of ReadFails: the deadline is only set after the first response. *)
ReadFailsLater(c) ==
  /\ conn[c].pc = "reading"
  /\ conn[c].done > 0
  /\ Goto(c, "remove")
  /\ UNCHANGED <<sem, tracker>>

(* End of file, an error, a header that announces too much, or the deadline. *)
ReadFails(c) ==
  /\ conn[c].pc = "reading"
  /\ Goto(c, "remove")
  /\ UNCHANGED <<sem, tracker>>

(* The next item is carried out and counted. *)
processBatchItem(c) ==
  /\ conn[c].pc = "handling"
  /\ conn[c].left > 0
  /\ conn' = [conn EXCEPT ![c].left = @ - 1, ![c].done = @ + 1]
  /\ tracker' = [tracker EXCEPT ![c] = IF @ = Untracked THEN @ ELSE @ + 1]
  /\ UNCHANGED sem

(* An item without an operation is answered with an error and not counted. *)
SkipItem(c) ==
  /\ conn[c].pc = "handling"
  /\ conn[c].left > 0
  /\ conn' = [conn EXCEPT ![c].left = @ - 1]
  /\ UNCHANGED <<sem, tracker>>

(* Mutant of Panic: only the loop removes the connection from the tracker. *)
PanicKeepsTracker(c) ==
  /\ conn[c].pc = "handling"
  /\ conn[c].left > 0
  /\ Goto(c, "close")
  /\ UNCHANGED <<sem, tracker>>

(* A handler panics in the middle of an item; handleConnection recovers. *)
Panic(c) ==
  /\ conn[c].pc = "handling"
  /\ conn[c].left > 0
  /\ Goto(c, "remove")
  /\ UNCHANGED <<sem, tracker>>

(* The response is written and the next request waited for, or Write        *)
(* returns an error: the client is gone, or the deadline, which was set     *)
(* before the request was read, has passed.                                 *)
Write(c) ==
  /\ conn[c].pc = "handling"
  /\ conn[c].left = 0
  /\ Goto(c, "reading") \/ Goto(c, "remove")
  /\ UNCHANGED <<sem, tracker>>

Remove(c) ==
  /\ conn[c].pc = "remove"
  /\ tracker' = [tracker EXCEPT ![c] = Untracked]
  /\ Goto(c, "close")
  /\ UNCHANGED sem

(* Mutant of Close: the slot is given back here and in Release. *)
CloseReleases(c) ==
  /\ conn[c].pc = "close"
  /\ sem' = sem - 1
  /\ Goto(c, "release")
  /\ UNCHANGED tracker

Close(c) ==
  /\ conn[c].pc = "close"
  /\ Goto(c, "release")
  /\ UNCHANGED <<sem, tracker>>

Release(c) ==
  /\ conn[c].pc = "release"
  /\ sem' = sem - 1
  /\ conn' = [conn EXCEPT ![c] = NoConnection]
  /\ UNCHANGED tracker

(* What the server does by itself, and what it waits for a client to do. *)
Serving(c) ==
  \/ Accept(c) \/ ReadFails(c) \/ processBatchItem(c) \/ SkipItem(c) \/ Panic(c)
  \/ Write(c) \/ Remove(c) \/ Close(c) \/ Release(c)

Client(c) ==
  \/ Dial(c) \/ Abandon(c) \/ HandshakeFails(c) \/ \E items \in 0..MaxBatch : ReadRequest(c, items)
-----------------------------------------------------------------------------
(* The connections whose goroutine exists. *)
Holding(pc) == pc \notin {"closed", "backlog"}

(* The semaphore counts the goroutines exactly, so that no slot is lost     *)
(* and none is given out twice, on every way out of handleConnection.       *)
SlotsAreLive ==
  /\ sem = Cardinality({c \in Conns : Holding(conn[c].pc)})
  /\ sem <= maxConnections

(* The connections that the REST API lists are the established ones, each   *)
(* with the number of items carried out on it: the tracker has no entry for *)
(* a connection that is gone, whichever way it ended.                       *)
TrackedIsEstablished ==
  \A c \in Conns :
    tracker[c] = IF conn[c].pc \in {"reading", "handling", "remove"}
                   THEN conn[c].done ELSE Untracked

(* Every client that connects is let in or turned away, also while all      *)
(* slots are held by handshakes that never end: the accept loop waits for   *)
(* nothing.                                                                 *)
DialsAreAnswered ==
  \A c \in Conns : conn[c].pc = "backlog" ~> conn[c].pc # "backlog"

(* A handshake is the only step of a connection that may take for ever.  An *)
(* established client keeps its slot only by sending requests: when it      *)
(* falls silent it runs into the deadline, a request that has arrived is    *)
(* answered or its connection ended, and what is ended gives its slot back. *)
OnlyHandshakesStall ==
  \A c \in Conns :
    /\ conn[c].pc = "reading" ~> conn[c].pc # "reading"
    /\ conn[c].pc \in {"handling", "remove", "close", "release"}
         ~> conn[c].pc \in {"reading", "closed"}
=============================================================================
