----------------------------- MODULE KmipProcess -----------------------------
(***************************************************************************)
(* The server process: Startup brings the KMIP listener up, and while it   *)
(* is up ConnectionServer serves connections.  A kill ends both, and a     *)
(* restart finds the certificate directory as the last start left it.      *)
(***************************************************************************)
EXTENDS Startup, ConnectionServer

processVars == <<startVars, connVars>>

ProcessInit == StartInit /\ ConnInit

(* A client gets through the handshake with any certificate or none, or     *)
(* with one that the CA of the listener has signed.  The clients of a --dev *)
(* server use the certificate in its directory; other clients have their    *)
(* own.                                                                     *)
ClientIsAccepted ==
  kmip = "mTLS" /\ flags.dev => SameGeneration({"ca.pem", "client.pem", "client-key.pem"})

Serve(c) == pc = "serving" /\ Serving(c) /\ UNCHANGED startVars

Connect(c) ==
  /\ pc = "serving"
  /\ Client(c) \/ (ClientIsAccepted /\ HandshakeDone(c))
  /\ UNCHANGED startVars

(* All goroutines, the semaphore and the tracker go with the process. *)
ProcessKill ==
  /\ Kill
  /\ conn' = [c \in Conns |-> NoConnection]
  /\ sem' = 0
  /\ tracker' = [c \in Conns |-> Untracked]

ProcessNext ==
  \/ (Main \/ Operator \/ ServeRest) /\ UNCHANGED connVars
  \/ ProcessKill
  \/ \E c \in Conns : Serve(c) \/ Connect(c)

ProcessSpec == ProcessInit /\ [][ProcessNext]_processVars

(* main runs on, the goroutines of the connections are scheduled and their  *)
(* deadlines fire.  Nothing is assumed of clients or of the operator.       *)
ProcessFairSpec ==
  /\ ProcessSpec
  /\ WF_processVars(Main /\ UNCHANGED connVars)
  /\ \A c \in Conns : WF_processVars(Serve(c))
-----------------------------------------------------------------------------
ProcessTypeOK == StartTypeOK /\ ConnTypeOK
=============================================================================
