-------------------------- MODULE KmipProcessProofs --------------------------
(***************************************************************************)
(* The start of the process and its listener are correct for every set of  *)
(* command lines, every number of connections and slots and every batch    *)
(* limit, with kills and restarts at any point.                            *)
(***************************************************************************)
EXTENDS KmipProcess, FiniteSetTheorems, TLAPS

(* What holds of a connection r with the entry t in the tracker. *)
Consistent(r, t) ==
  /\ t = IF r.pc \in {"reading", "handling", "remove"} THEN r.done ELSE Untracked
  /\ r.pc \in {"closed", "backlog", "handshake"} => r.done = 0

ConnInv ==
  /\ conn \in [Conns -> Connection]
  /\ tracker \in [Conns -> Int]
  /\ sem \in Nat
  /\ \A c \in Conns : Consistent(conn[c], tracker[c])
  /\ SlotsAreLive

Holders == {c \in Conns : Holding(conn[c].pc)}

(* A step of one connection keeps the invariant if it leaves that           *)
(* connection consistent and takes or gives back a slot with the goroutine. *)
LEMMA OneConnection ==
  ASSUME ConnInv, NEW c \in Conns, NEW r \in Connection, NEW t \in Int,
         conn' = [conn EXCEPT ![c] = r],
         tracker' = [tracker EXCEPT ![c] = t],
         Consistent(r, t),
         \/ sem' = sem /\ (Holding(r.pc) <=> Holding(conn[c].pc))
         \/ sem' = sem + 1 /\ sem < maxConnections /\ Holding(r.pc) /\ ~Holding(conn[c].pc)
         \/ sem' = sem - 1 /\ ~Holding(r.pc) /\ Holding(conn[c].pc)
  PROVE  ConnInv'
  <1>1. /\ conn' \in [Conns -> Connection] /\ tracker' \in [Conns -> Int]
        /\ \A d \in Conns : Consistent(conn[d], tracker[d])'
    BY DEF ConnInv, Consistent
  <1>2. /\ IsFiniteSet(Holders) /\ Cardinality(Holders) \in Nat
        /\ sem = Cardinality(Holders) /\ sem <= maxConnections /\ maxConnections \in Nat
    BY FS_Subset, FS_CardinalityType, ConnectionAssumption DEF ConnInv, SlotsAreLive, Holders
  <1>3. /\ conn'[c] = r
        /\ \A d \in Conns : d # c => conn'[d] = conn[d]
    BY DEF ConnInv
  <1>4. CASE sem' = sem /\ (Holding(r.pc) <=> Holding(conn[c].pc))
    <2>1. Holders' = Holders
      BY <1>3, <1>4 DEF Holders
    <2> QED BY <1>1, <1>2, <1>4, <2>1 DEF ConnInv, SlotsAreLive, Holders
  <1>5. CASE sem' = sem + 1 /\ sem < maxConnections /\ Holding(r.pc) /\ ~Holding(conn[c].pc)
    <2>1. Holders' = Holders \cup {c} /\ c \notin Holders
      BY <1>3, <1>5 DEF Holders
    <2>2. Cardinality(Holders') = Cardinality(Holders) + 1
      BY <1>2, <2>1, FS_AddElement
    <2> QED BY <1>1, <1>2, <1>5, <2>2 DEF ConnInv, SlotsAreLive, Holders
  <1>6. CASE sem' = sem - 1 /\ ~Holding(r.pc) /\ Holding(conn[c].pc)
    <2>1. Holders' = Holders \ {c} /\ c \in Holders
      BY <1>3, <1>6 DEF Holders
    <2>2. Cardinality(Holders') = Cardinality(Holders) - 1
      BY <1>2, <2>1, FS_RemoveElement
    <2>3. Cardinality(Holders') \in Nat
      BY <1>2, <2>1, FS_RemoveElement, FS_CardinalityType
    <2> QED BY <1>1, <1>2, <1>6, <2>2, <2>3 DEF ConnInv, SlotsAreLive, Holders
  <1> QED BY <1>4, <1>5, <1>6

(* A step that only moves a connection from one place to another. *)
LEMMA OneMove ==
  ASSUME ConnInv, NEW c \in Conns, NEW to \in ConnPc, Goto(c, to),
         NEW t \in Int, tracker' = [tracker EXCEPT ![c] = t],
         Consistent([conn[c] EXCEPT !.pc = to], t),
         \/ sem' = sem /\ (Holding(to) <=> Holding(conn[c].pc))
         \/ sem' = sem + 1 /\ sem < maxConnections /\ Holding(to) /\ ~Holding(conn[c].pc)
  PROVE  ConnInv'
  <1> DEFINE r == [conn[c] EXCEPT !.pc = to]
  <1>1. conn' = [conn EXCEPT ![c] = r] /\ r \in Connection /\ r.pc = to
    BY DEF Goto, ConnInv, Connection
  <1> HIDE DEF r
  <1> QED BY <1>1, OneConnection DEF r

(* Every step of the accept loop, of a connection's goroutine and of its    *)
(* client.                                                                  *)
LEMMA ConnectionStep ==
  ASSUME ConnInv, NEW c \in Conns, Serving(c) \/ Client(c) \/ HandshakeDone(c)
  PROVE  ConnInv'
  <1>1. /\ conn[c] \in Connection /\ tracker[c] \in Int /\ Consistent(conn[c], tracker[c])
        /\ tracker = [tracker EXCEPT ![c] = tracker[c]]
        /\ sem \in Nat
    BY DEF ConnInv
  <1>2. CASE Dial(c)
    BY <1>1, <1>2, OneMove DEF Dial, Consistent, Connection, ConnPc, Holding
  <1>3. CASE Accept(c) \/ Abandon(c)
    BY <1>1, <1>3, OneMove DEF Accept, Abandon, Consistent, Connection, ConnPc, Holding
  <1>4. CASE HandshakeDone(c)
    <2> DEFINE t == 0
    <2>1. Consistent([conn[c] EXCEPT !.pc = "reading"], t) /\ t \in Int
      BY <1>1, <1>4 DEF HandshakeDone, Consistent, Connection
    <2>2. "reading" \in ConnPc /\ Holding("reading") /\ Holding(conn[c].pc)
      BY <1>4 DEF HandshakeDone, ConnPc, Holding
    <2>3. Goto(c, "reading") /\ tracker' = [tracker EXCEPT ![c] = t] /\ sem' = sem
      BY <1>4 DEF HandshakeDone
    <2> HIDE DEF t
    <2> QED BY <2>1, <2>2, <2>3, OneMove
  <1>5. CASE HandshakeFails(c)
    BY <1>1, <1>5, OneMove DEF HandshakeFails, Consistent, Connection, ConnPc, Holding
  <1>6. ASSUME NEW items \in 0..MaxBatch, ReadRequest(c, items)
        PROVE  ConnInv'
    <2> DEFINE r == [conn[c] EXCEPT !.pc = "handling", !.left = items]
    <2>1. items \in Nat
      BY ConnectionAssumption
    <2>2. conn' = [conn EXCEPT ![c] = r] /\ r \in Connection
      BY <1>1, <1>6, <2>1 DEF ReadRequest, Connection, ConnPc, ConnInv
    <2>3. Consistent(r, tracker[c]) /\ Holding(r.pc) /\ Holding(conn[c].pc)
      BY <1>1, <1>6 DEF ReadRequest, Consistent, Holding, Connection
    <2> HIDE DEF r
    <2> QED BY <1>1, <1>6, <2>2, <2>3, OneConnection DEF ReadRequest
  <1>7. CASE ReadFails(c)
    BY <1>1, <1>7, OneMove DEF ReadFails, Consistent, Connection, ConnPc, Holding
  <1>8. CASE processBatchItem(c)
    <2> DEFINE r == [conn[c] EXCEPT !.left = @ - 1, !.done = @ + 1]
               t == IF tracker[c] = Untracked THEN tracker[c] ELSE tracker[c] + 1
    <2>1. conn' = [conn EXCEPT ![c] = r] /\ r \in Connection
      BY <1>1, <1>8 DEF processBatchItem, Connection, ConnInv
    <2>2. t \in Int /\ Consistent(r, t) /\ Holding(r.pc) /\ Holding(conn[c].pc)
      BY <1>1, <1>8 DEF processBatchItem, Consistent, Holding, Connection, Untracked
    <2>3. tracker' = [tracker EXCEPT ![c] = t]
      BY <1>8 DEF processBatchItem, ConnInv
    <2> HIDE DEF r, t
    <2> QED BY <1>8, <2>1, <2>2, <2>3, OneConnection DEF processBatchItem
  <1>9. CASE Panic(c)
    BY <1>1, <1>9, OneMove DEF Panic, Consistent, Connection, ConnPc, Holding
  <1>10. CASE Write(c)
    BY <1>1, <1>10, OneMove DEF Write, Consistent, Connection, ConnPc, Holding
  <1>11. CASE Remove(c)
    <2>1. Consistent([conn[c] EXCEPT !.pc = "close"], Untracked) /\ Untracked \in Int
      BY <1>1, <1>11 DEF Remove, Consistent, Connection, Untracked
    <2>2. "close" \in ConnPc /\ Holding("close") /\ Holding(conn[c].pc)
      BY <1>11 DEF Remove, ConnPc, Holding
    <2>3. Goto(c, "close") /\ tracker' = [tracker EXCEPT ![c] = Untracked] /\ sem' = sem
      BY <1>11 DEF Remove
    <2> QED BY <2>1, <2>2, <2>3, OneMove
  <1>12. CASE Close(c)
    BY <1>1, <1>12, OneMove DEF Close, Consistent, Connection, ConnPc, Holding
  <1>13. CASE Release(c)
    <2>1. NoConnection \in Connection /\ ~Holding(NoConnection.pc) /\ Holding(conn[c].pc)
      BY <1>13 DEF Release, NoConnection, Connection, ConnPc, Holding
    <2>2. Consistent(NoConnection, tracker[c])
      BY <1>1, <1>13 DEF Release, Consistent, NoConnection
    <2> QED BY <1>1, <1>13, <2>1, <2>2, OneConnection DEF Release
  <1>14. CASE SkipItem(c)
    <2> DEFINE r == [conn[c] EXCEPT !.left = @ - 1]
    <2>1. conn' = [conn EXCEPT ![c] = r] /\ r \in Connection
      BY <1>1, <1>14 DEF SkipItem, Connection, ConnInv
    <2>2. Consistent(r, tracker[c]) /\ Holding(r.pc) /\ Holding(conn[c].pc)
      BY <1>1, <1>14 DEF SkipItem, Consistent, Holding, Connection
    <2> HIDE DEF r
    <2> QED BY <1>1, <1>14, <2>1, <2>2, OneConnection DEF SkipItem
  <1> QED
    BY <1>2, <1>3, <1>4, <1>5, <1>6, <1>7, <1>8, <1>9, <1>10, <1>11, <1>12, <1>13, <1>14
    DEF Serving, Client

(* A process that has just started has no connections. *)
LEMMA NoConnections ==
  ASSUME ConnInit
  PROVE  ConnInv
  <1>1. conn \in [Conns -> Connection] /\ tracker \in [Conns -> Int]
    BY DEF ConnInit, NoConnection, Connection, ConnPc, Untracked
  <1>2. \A c \in Conns : Consistent(conn[c], tracker[c])
    BY DEF ConnInit, NoConnection, Consistent
  <1>3. Holders = {}
    BY DEF ConnInit, NoConnection, Holding, Holders
  <1>4. sem = Cardinality(Holders) /\ sem \in Nat /\ sem <= maxConnections
    BY <1>3, FS_EmptySet, ConnectionAssumption DEF ConnInit
  <1> QED BY <1>1, <1>2, <1>4 DEF ConnInv, SlotsAreLive, Holders

(* The connections are consistent in every state of the process. *)
LEMMA ConnectionInvariant == ProcessSpec => []ConnInv
  <1>1. ProcessInit => ConnInv
    BY NoConnections DEF ProcessInit
  <1>2. ASSUME ConnInv, [ProcessNext]_processVars
        PROVE  ConnInv'
    <2>1. CASE UNCHANGED connVars
      BY <1>2, <2>1 DEF connVars, ConnInv, SlotsAreLive
    <2>2. CASE ProcessKill
      <3>1. ConnInit'
        BY <2>2 DEF ProcessKill, ConnInit
      <3>2. ConnInit' => ConnInv'
        BY NoConnections, PTL
      <3> QED BY <3>1, <3>2
    <2>3. ASSUME NEW c \in Conns, Serve(c) \/ Connect(c)
          PROVE  ConnInv'
      BY <1>2, <2>3, ConnectionStep DEF Serve, Connect
    <2> QED BY <1>2, <2>1, <2>2, <2>3 DEF ProcessNext, processVars, ServeRest
  <1> QED BY <1>1, <1>2, PTL DEF ProcessSpec

(* The semaphore of the accept loop counts the goroutines exactly, for any  *)
(* number of connections and slots: no way out of handleConnection loses a  *)
(* slot or gives one back twice.                                            *)
THEOREM SlotsAreCounted == ProcessSpec => []SlotsAreLive
  <1>1. ConnInv => SlotsAreLive
    BY DEF ConnInv
  <1> QED BY <1>1, ConnectionInvariant, PTL

(* The tracker lists exactly the established connections, with the number   *)
(* of items carried out on each.                                            *)
THEOREM TrackerIsExact == ProcessSpec => []TrackedIsEstablished
  <1>1. ConnInv => TrackedIsEstablished
    BY DEF ConnInv, Consistent, TrackedIsEstablished
  <1> QED BY <1>1, ConnectionInvariant, PTL
-----------------------------------------------------------------------------
(* What the checks of main have established when it comes to each place. *)
ConfigInv ==
  /\ flags \in Flags
  /\ pc \in {"generate", "open", "tempKey"} => flags.dev
  /\ pc \in {"store", "rest", "kmip", "serving"} /\ ~flags.dev
       => (flags.ca \/ flags.insecure) /\ (flags.apiPort => flags.apiKey)
  /\ pc \in {"rest", "kmip", "serving"}
       => flags.storage # "other" /\ (flags.storage = "memory" => flags.dev)
  /\ rest # "none" => pc \in {"kmip", "serving"} /\ flags.apiPort
  /\ ServesAsConfigured

(* A step of the process as its start sees it. *)
StartStep == Main \/ Operator \/ ServeRest \/ Kill \/ UNCHANGED startVars

(* Connections do not touch the state of the start. *)
LEMMA StepOfStart ==
  ASSUME [ProcessNext]_processVars
  PROVE  StartStep
  BY DEF ProcessNext, processVars, ProcessKill, Serve, Connect, StartStep

(* main reaches each place only through its checks. *)
LEMMA ConfigStep ==
  ASSUME ConfigInv, StartStep
  PROVE  ConfigInv'
  <1>1. CASE Exit
    BY <1>1 DEF Exit, ConfigInv, ServesAsConfigured
  <1>2. CASE CheckFlags
    BY <1>1, <1>2 DEF CheckFlags, Step, ConfigInv, ServesAsConfigured
  <1>3. CASE setupDevMode \/ OpenPEM \/ EncodePEM \/ Generated \/ TempKey
    BY <1>3
    DEF setupDevMode, OpenPEM, EncodePEM, Generated, TempKey, Step, ConfigInv, ServesAsConfigured
  <1>4. CASE OpenStore \/ StartRest
    BY <1>4 DEF OpenStore, StartRest, Step, ConfigInv, ServesAsConfigured
  <1>5. CASE NewServer
    BY <1>5 DEF NewServer, Step, ConfigInv, ServesAsConfigured
  <1>6. CASE ServeRest
    BY <1>6 DEF ServeRest, ConfigInv, ServesAsConfigured
  <1>7. CASE Operator
    BY <1>7 DEF Operator, Start, RemoveCerts, Step, ConfigInv, ServesAsConfigured
  <1>8. CASE UNCHANGED startVars
    BY <1>8 DEF startVars, ConfigInv, ServesAsConfigured
  <1> QED
    BY <1>1, <1>2, <1>3, <1>4, <1>5, <1>6, <1>7, <1>8 DEF StartStep, Main, StartFails, Kill

(* The checks hold in every state of the process. *)
LEMMA ConfigInvariant == ProcessSpec => []ConfigInv
  <1>1. ProcessInit => ConfigInv
    BY DEF ProcessInit, StartInit, ConfigInv, ServesAsConfigured
  <1>2. ConfigInv /\ [ProcessNext]_processVars => ConfigInv'
    BY StepOfStart, ConfigStep
  <1> QED BY <1>1, <1>2, PTL DEF ProcessSpec

(* A process that serves lets in nobody whom its command line keeps out,    *)
(* for every set of command lines and after any number of kills and         *)
(* restarts.                                                                *)
THEOREM ConfigurationIsKept == ProcessSpec => []ServesAsConfigured
  <1>1. ConfigInv => ServesAsConfigured
    BY DEF ConfigInv
  <1> QED BY <1>1, ConfigInvariant, PTL
-----------------------------------------------------------------------------
(* The certificate directory.  While Generate runs, the files before next   *)
(* are of this generation and the others are older or cut off.  Otherwise   *)
(* ca.pem is missing or, unless a Generate was interrupted, the directory   *)
(* is complete.                                                             *)
DirectoryInv ==
  /\ files \in [File -> Int]
  /\ gen \in Nat
  /\ next \in 1..6
  /\ \A f \in File : files[f] <= gen
  /\ pc = "open" \/ next > 1 => gen > 0
  /\ pc \in {"generate", "open"} =>
       /\ \A i \in 1..5 : i < next => files[Order[i]] = gen
       /\ \A i \in 1..5 : i >= next /\ (next > 1 \/ pc = "open") => files[Order[i]] < gen
  /\ pc = "generate" /\ next = 1 => files["ca.pem"] = Missing
  /\ pc = "open" => next <= 5 /\ files[Order[next]] = Torn
  /\ pc \notin {"generate", "open"} =>
       /\ next = 1
       /\ ~interrupted /\ files["ca.pem"] # Missing => SameGeneration(File)
  /\ flags.dev /\ pc = "serving" => PairLoads /\ CALoads

(* The five files and the order in which Generate writes them. *)
LEMMA OrderFacts ==
  /\ Len(Order) = 5 /\ Order[1] = "ca.pem"
  /\ File = {"ca.pem", "server.pem", "server-key.pem", "client.pem", "client-key.pem"}
  /\ \A i \in 1..5 : Order[i] \in File
  /\ \A f \in File : \E i \in 1..5 : f = Order[i]
  /\ \A i, j \in 1..5 : Order[i] = Order[j] => i = j
  BY DEF Order, File

(* A directory in which Generate has something left to do is not complete. *)
LEMMA IncompleteWhileGenerating ==
  ASSUME DirectoryInv, pc \in {"generate", "open"}, next <= 5
  PROVE  ~SameGeneration(File)
  <1>1. next \in 1..5 /\ Order[next] \in File /\ Order[1] \in File /\ Order[1] = "ca.pem"
    BY OrderFacts DEF DirectoryInv
  <1>2. CASE pc = "open"
    BY <1>1, <1>2 DEF DirectoryInv, SameGeneration, Whole, Torn
  <1>3. CASE pc = "generate" /\ next = 1
    BY <1>1, <1>3 DEF DirectoryInv, SameGeneration, Whole, Missing
  <1>4. CASE pc = "generate" /\ next > 1
    <2>1. files[Order[1]] = gen /\ files[Order[next]] < gen
      BY <1>1, <1>4 DEF DirectoryInv
    <2> QED BY <1>1, <2>1 DEF DirectoryInv, SameGeneration
  <1> QED BY <1>1, <1>2, <1>3, <1>4

(* Every step of a start, and every way it can end, keeps the directory so. *)
LEMMA DirectoryStep ==
  ASSUME DirectoryInv, StartStep
  PROVE  DirectoryInv'
  <1>1. CASE Exit
    <2>1. UNCHANGED <<flags, files, gen>> /\ pc' = "down" /\ next' = 1
      BY <1>1 DEF Exit
    <2>2. ASSUME ~interrupted', files["ca.pem"] # Missing
          PROVE  SameGeneration(File)
      <3>1. CASE pc \notin {"generate", "open"}
        BY <1>1, <2>2, <3>1 DEF Exit, DirectoryInv
      <3>2. CASE pc = "generate" /\ next = 6
        <4>1. \A i \in 1..5 : files[Order[i]] = gen /\ gen > 0
          BY <3>2 DEF DirectoryInv
        <4> QED BY <4>1, OrderFacts DEF SameGeneration, Whole
      <3>3. CASE pc = "open" \/ (pc = "generate" /\ next \in 1..5)
        <4>1. CASE pc = "generate" /\ next = 1
          BY <2>2, <4>1 DEF DirectoryInv
        <4>2. CASE pc = "open" \/ (pc = "generate" /\ next \in 2..Len(Order))
          BY <1>1, <2>2, <4>2, Zenon DEF Exit
        <4> QED BY <3>3, <4>1, <4>2, OrderFacts
      <3> QED BY <3>1, <3>2, <3>3 DEF DirectoryInv
    <2>3. SameGeneration(File) => SameGeneration(File)'
      BY <2>1 DEF SameGeneration, Whole
    <2> QED BY <2>1, <2>2, <2>3 DEF DirectoryInv
  <1>2. CASE UNCHANGED <<files, gen, next, interrupted, flags>> /\ pc' \notin {"generate", "open", "serving"}
             /\ pc \notin {"generate", "open"}
    BY <1>2 DEF DirectoryInv, SameGeneration, Whole
  <1>3. CASE setupDevMode
    <2>1. CASE files["ca.pem"] = Missing
      BY <1>3, <2>1, OrderFacts DEF setupDevMode, Step, DirectoryInv
    <2>2. CASE files["ca.pem"] # Missing
      BY <1>2, <1>3, <2>2 DEF setupDevMode, Step
    <2> QED BY <2>1, <2>2
  <1>4. CASE OpenPEM
    <2>1. /\ pc = "generate" /\ pc' = "open" /\ next' = next /\ next \in 1..5
          /\ files' = [files EXCEPT ![Order[next]] = Torn]
          /\ gen' = IF next = 1 THEN gen + 1 ELSE gen
      BY <1>4, OrderFacts DEF OpenPEM, Step, DirectoryInv
    <2>2. /\ files' \in [File -> Int] /\ gen' \in Nat
          /\ files'[Order[next]] = Torn
          /\ \A f \in File : f # Order[next] => files'[f] = files[f]
      BY <2>1, OrderFacts DEF DirectoryInv, Torn
    <2>3. gen <= gen' /\ gen' > 0 /\ Torn < gen'
      <3>1. next > 1 => gen > 0
        BY <2>1 DEF DirectoryInv
      <3> QED BY <2>1, <3>1 DEF DirectoryInv, Torn
    <2>4. \A f \in File : files'[f] <= gen'
      BY <2>2, <2>3 DEF DirectoryInv, Torn
    <2>5. ASSUME NEW i \in 1..5, i < next
          PROVE  files'[Order[i]] = gen'
      BY <2>1, <2>2, <2>3, <2>5, OrderFacts DEF DirectoryInv
    <2>6. ASSUME NEW i \in 1..5, i >= next
          PROVE  files'[Order[i]] < gen'
      <3>1. CASE i = next
        BY <2>2, <2>3, <3>1
      <3>2. CASE i # next
        <4>1. files'[Order[i]] = files[Order[i]] /\ Order[i] \in File
          BY <2>1, <2>2, <3>2, OrderFacts
        <4>2. CASE next = 1
          BY <2>1, <4>1, <4>2 DEF DirectoryInv
        <4>3. CASE next > 1
          BY <2>1, <2>6, <4>1, <4>3 DEF DirectoryInv
        <4> QED BY <2>1, <4>2, <4>3
      <3> QED BY <3>1, <3>2
    <2> QED BY <2>1, <2>2, <2>3, <2>4, <2>5, <2>6 DEF DirectoryInv
  <1>5. CASE EncodePEM
    <2>1. /\ pc = "open" /\ pc' = "generate" /\ next' = next + 1 /\ next \in 1..5
          /\ files' = [files EXCEPT ![Order[next]] = gen] /\ gen' = gen
      BY <1>5 DEF EncodePEM, Step, DirectoryInv
    <2>2. /\ files' \in [File -> Int]
          /\ files'[Order[next]] = gen
          /\ \A f \in File : f # Order[next] => files'[f] = files[f]
      BY <2>1, OrderFacts DEF DirectoryInv
    <2>3. gen \in Nat /\ gen > 0
      BY <2>1, OrderFacts DEF DirectoryInv, Torn
    <2>4. \A f \in File : files'[f] <= gen
      BY <2>2, <2>3 DEF DirectoryInv
    <2>5. ASSUME NEW i \in 1..5, i < next + 1
          PROVE  files'[Order[i]] = gen
      BY <2>1, <2>2, <2>5, OrderFacts DEF DirectoryInv
    <2>6. ASSUME NEW i \in 1..5, i >= next + 1
          PROVE  files'[Order[i]] < gen
      BY <2>1, <2>2, <2>6, OrderFacts DEF DirectoryInv
    <2> QED BY <2>1, <2>2, <2>3, <2>4, <2>5, <2>6 DEF DirectoryInv
  <1>6. CASE Generated
    <2>1. \A i \in 1..5 : files[Order[i]] = gen /\ gen > 0
      BY <1>6, OrderFacts DEF Generated, Step, DirectoryInv
    <2>2. SameGeneration(File)'
      BY <1>6, <2>1, OrderFacts DEF SameGeneration, Whole, Generated
    <2> QED BY <1>6, <2>2 DEF Generated, Step, DirectoryInv
  <1>7. CASE NewServer
    BY <1>7 DEF NewServer, Step, DirectoryInv, SameGeneration, Whole, PairLoads, CALoads
  <1>8. ASSUME NEW removed \in {File, {"ca.pem"}}, RemoveCerts(removed)
        PROVE  DirectoryInv'
    <2>1. files' \in [File -> Int] /\ files'["ca.pem"] = Missing
      BY <1>8, OrderFacts DEF RemoveCerts, DirectoryInv, Missing
    <2>2. \A f \in File : files'[f] <= gen
      BY <1>8, OrderFacts DEF RemoveCerts, DirectoryInv, Missing
    <2> QED BY <1>8, <2>1, <2>2 DEF RemoveCerts, DirectoryInv, Missing
  <1>9. CASE ServeRest \/ UNCHANGED startVars
    BY <1>9
    DEF ServeRest, startVars, DirectoryInv, SameGeneration, Whole, PairLoads, CALoads
  <1>10. CASE CheckFlags \/ TempKey \/ OpenStore \/ StartRest \/ Start
    BY <1>1, <1>2, <1>10 DEF CheckFlags, TempKey, OpenStore, StartRest, Start, Step
  <1> QED
    BY <1>1, <1>3, <1>4, <1>5, <1>6, <1>7, <1>8, <1>9, <1>10
    DEF StartStep, Main, Operator, StartFails, Kill

(* The directory is so in every state of the process. *)
LEMMA DirectoryInvariant == ProcessSpec => []DirectoryInv
  <1>1. ProcessInit => DirectoryInv
    BY OrderFacts DEF ProcessInit, StartInit, DirectoryInv, Missing
  <1>2. DirectoryInv /\ [ProcessNext]_processVars => DirectoryInv'
    BY StepOfStart, DirectoryStep
  <1> QED BY <1>1, <1>2, PTL DEF ProcessSpec

(* A --dev server that came up has a matching certificate and key, and a    *)
(* whole directory of one generation unless a Generate was cut short, for   *)
(* any number of kills, restarts and removals of certificates.              *)
THEOREM DevServersAreUsable == ProcessSpec => []DevServerIsUsable
  <1>1. ASSUME DirectoryInv, flags.dev, pc = "serving"
        PROVE  /\ SameGeneration({"server.pem", "server-key.pem"})
               /\ ~interrupted => SameGeneration(File)
    BY <1>1 DEF DirectoryInv, PairLoads, CALoads, SameGeneration, Whole, Missing
  <1>2. DirectoryInv => DevServerIsUsable
    BY <1>1 DEF DevServerIsUsable
  <1> QED BY <1>2, DirectoryInvariant, PTL

(* No start touches a complete certificate directory, in any state that     *)
(* kills and restarts lead to.                                              *)
THEOREM CertsAreKept == ProcessSpec => CompleteCertsAreKept
  <1>1. ASSUME DirectoryInv, [ProcessNext]_processVars, SameGeneration(File), pc # "down"
        PROVE  files' = files
    <2>1. StartStep
      BY <1>1, StepOfStart
    <2>2. ~OpenPEM /\ ~EncodePEM
      BY <1>1, IncompleteWhileGenerating, OrderFacts DEF OpenPEM, EncodePEM, Step, DirectoryInv
    <2> QED
      BY <1>1, <2>1, <2>2
      DEF StartStep, Main, Operator, Start, RemoveCerts, CheckFlags, setupDevMode, Generated,
          TempKey, OpenStore, StartRest, NewServer, StartFails, Kill, Exit, ServeRest, startVars
  <1>2. DirectoryInv /\ [ProcessNext]_processVars
          => [SameGeneration(File) /\ pc # "down" => files' = files]_startVars
    BY <1>1
  <1> QED BY <1>2, DirectoryInvariant, PTL DEF ProcessSpec, CompleteCertsAreKept
-----------------------------------------------------------------------------
(* The types of the start, and why the bound on the generations is never    *)
(* exceeded: ca.pem is missing, so that Generate will run again, only after *)
(* a removal that left room for one more.                                   *)
StartTypeInv ==
  /\ StartTypeOK
  /\ files["ca.pem"] = Missing => gen < MaxGenerations

(* Every step of a start keeps its types. *)
LEMMA StartTypeStep ==
  ASSUME StartTypeInv, DirectoryInv, DirectoryInv', StartStep
  PROVE  StartTypeInv'
  <1> DEFINE Content == {Missing, Torn} \cup 1..MaxGenerations
             Typed == /\ flags \in Flags /\ pc \in MainPc /\ kmip \in {"none", "mTLS", "anyClient"}
                      /\ rest \in {"none", "starting", "apiKey", "open"} /\ interrupted \in BOOLEAN
  <1>1. /\ MaxGenerations \in Nat /\ gen \in 0..MaxGenerations /\ files \in [File -> Content]
        /\ Missing \in Content /\ Torn \in Content /\ Missing = 0 /\ Torn = -1 /\ Typed
    BY StartupAssumption DEF StartTypeInv, StartTypeOK, Missing, Torn
  <1>2. next' \in DOMAIN Order \cup {Len(Order) + 1}
    <2>1. next' \in 1..6
      BY DEF DirectoryInv
    <2> QED BY <2>1 DEF Order
  <1>3. Typed'
    <2>1. CASE Exit
      BY <1>1, <2>1 DEF Exit, MainPc
    <2>2. CASE ServeRest \/ Operator \/ UNCHANGED startVars
      BY <1>1, <2>2 DEF ServeRest, Operator, Start, RemoveCerts, Step, MainPc, startVars
    <2>3. CASE Main
      BY <1>1, <2>1, <2>3
      DEF Main, CheckFlags, setupDevMode, OpenPEM, EncodePEM, Generated, TempKey, OpenStore,
          StartRest, NewServer, StartFails, Step, MainPc
    <2> QED BY <2>1, <2>2, <2>3 DEF StartStep, Kill
  <1>4. /\ gen' \in 0..MaxGenerations /\ files' \in [File -> Content]
        /\ files'["ca.pem"] = Missing => gen' < MaxGenerations
    <2>1. CASE UNCHANGED <<files, gen>>
      BY <1>1, <2>1 DEF StartTypeInv
    <2>2. ASSUME NEW removed \in {File, {"ca.pem"}}, RemoveCerts(removed)
          PROVE  /\ gen' \in 0..MaxGenerations /\ files' \in [File -> Content]
                 /\ files'["ca.pem"] = Missing => gen' < MaxGenerations
      BY <1>1, <2>2 DEF RemoveCerts
    <2>3. CASE OpenPEM
      <3>1. /\ next \in 1..5 /\ Order[next] \in File /\ pc = "generate"
            /\ files' = [files EXCEPT ![Order[next]] = Torn]
            /\ gen' = IF next = 1 THEN gen + 1 ELSE gen
        BY <2>3, OrderFacts DEF OpenPEM, Step, DirectoryInv
      <3>2. CASE next = 1
        <4>1. gen < MaxGenerations /\ files'["ca.pem"] = Torn
          BY <1>1, <3>1, <3>2, OrderFacts DEF DirectoryInv, StartTypeInv
        <4> QED BY <1>1, <3>1, <3>2, <4>1
      <3>3. CASE next # 1
        <4>1. files'["ca.pem"] = files["ca.pem"]
          BY <1>1, <3>1, <3>3, OrderFacts
        <4> QED BY <1>1, <3>1, <3>3, <4>1 DEF StartTypeInv
      <3> QED BY <3>2, <3>3
    <2>4. CASE EncodePEM
      <3>1. /\ next \in 1..5 /\ Order[next] \in File
            /\ files' = [files EXCEPT ![Order[next]] = gen] /\ gen' = gen /\ gen > 0
        BY <2>4, OrderFacts DEF EncodePEM, Step, DirectoryInv
      <3>2. gen \in Content
        BY <1>1, <3>1
      <3> QED BY <1>1, <3>1, <3>2, OrderFacts DEF StartTypeInv
    <2>5. CASE ~OpenPEM /\ ~EncodePEM /\ ~RemoveCerts(File) /\ ~RemoveCerts({"ca.pem"})
      <3>1. UNCHANGED <<files, gen>>
        BY <2>5
        DEF StartStep, Main, Operator, Start, CheckFlags, setupDevMode, Generated, TempKey,
            OpenStore, StartRest, NewServer, StartFails, Kill, Exit, ServeRest, startVars
      <3> QED BY <2>1, <3>1
    <2> QED BY <2>2, <2>3, <2>4, <2>5
  <1> QED BY <1>2, <1>3, <1>4 DEF StartTypeInv, StartTypeOK

(* Flags, files, listeners, connections, semaphore and tracker keep their   *)
(* types through every start, kill and restart, for every set of command    *)
(* lines and every number of connections and generations.                   *)
THEOREM ProcessIsTyped == ProcessSpec => []ProcessTypeOK
  <1>1. ProcessInit => StartTypeInv
    <2>1. MaxGenerations \in Nat /\ 0 < MaxGenerations /\ 0 \in 0..MaxGenerations
      BY StartupAssumption
    <2>2. 1 \in DOMAIN Order \cup {Len(Order) + 1}
      BY DEF Order
    <2> QED BY <2>1, <2>2 DEF ProcessInit, StartInit, StartTypeInv, StartTypeOK, MainPc
  <1>2. ASSUME StartTypeInv, DirectoryInv, [ProcessNext]_processVars
        PROVE  StartTypeInv'
    BY <1>2, StepOfStart, DirectoryStep, StartTypeStep
  <1>3. ProcessSpec => []StartTypeInv
    BY <1>1, <1>2, DirectoryInvariant, PTL DEF ProcessSpec
  <1>4. ASSUME ConnInv
        PROVE  ConnTypeOK
    <2>1. ASSUME NEW c \in Conns
          PROVE  tracker[c] \in Nat \cup {Untracked}
      <3>1. conn[c] \in Connection /\ Consistent(conn[c], tracker[c])
        BY <1>4 DEF ConnInv
      <3> QED BY <3>1 DEF Consistent, Connection
    <2> QED BY <1>4, <2>1 DEF ConnInv, ConnTypeOK
  <1>5. StartTypeInv /\ ConnInv => ProcessTypeOK
    BY <1>4 DEF StartTypeInv, ProcessTypeOK
  <1> QED BY <1>3, <1>5, ConnectionInvariant, PTL
=============================================================================
