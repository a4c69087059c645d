------------------------------- MODULE Startup -------------------------------
(***************************************************************************)
(* The start of the process: main with its flags, the development          *)
(* certificates that --dev writes to a directory file by file and reuses   *)
(* in later starts, and the two listeners.  The process may be killed at   *)
(* any point and started again with the same flags on what it left behind. *)
(***************************************************************************)
EXTENDS Integers, Sequences

CONSTANTS
  Flags,          \* the command lines that are tried
  MaxGenerations  \* bounds how often the operator removes certificates

ASSUME StartupAssumption ==
  /\ Flags \subseteq [dev : BOOLEAN, ca : BOOLEAN, cert : BOOLEAN, insecure : BOOLEAN,
                      apiKey : BOOLEAN, apiPort : BOOLEAN,
                      storage : {"memory", "sqlite", "other"}]
  /\ MaxGenerations \in Nat \ {0}

VARIABLES
  flags,        \* the command line of every start
  files,        \* the certificate directory: what each file holds
  gen,          \* the calls of Generate on it that have written something
  pc,           \* where main is
  next,         \* the file that Generate writes next
  kmip,         \* the KMIP listener: none, or which clients it lets in
  rest,         \* the REST listener: none, starting, or which requests it lets in
  interrupted   \* history: Generate left the directory without finishing it

startVars == <<flags, files, gen, pc, next, kmip, rest, interrupted>>

(* The files in the order in which Generate writes them.  The key of the CA *)
(* is not among them.                                                       *)
Order == <<"ca.pem", "server.pem", "server-key.pem", "client.pem", "client-key.pem">>
File  == {Order[i] : i \in DOMAIN Order}

(* A file is absent, cut off, or whole and of the n-th generation. *)
Missing == 0
Torn    == -1
Whole(f) == files[f] > 0

(* main is not running, checks its flags, is in Generate (open: the file    *)
(* was truncated but not written), makes an API key in the temporary        *)
(* directory, opens the store, starts REST, starts KMIP, or serves.         *)
MainPc == {"down", "flags", "generate", "open", "tempKey", "store", "rest", "kmip", "serving"}

StartTypeOK ==
  /\ flags \in Flags
  /\ files \in [File -> {Missing, Torn} \cup 1..MaxGenerations]
  /\ gen \in 0..MaxGenerations
  /\ pc \in MainPc
  /\ next \in DOMAIN Order \cup {Len(Order) + 1}
  /\ kmip \in {"none", "mTLS", "anyClient"}
  /\ rest \in {"none", "starting", "apiKey", "open"}
  /\ interrupted \in BOOLEAN

StartInit ==
  /\ flags \in Flags
  /\ files = [f \in File |-> Missing]
  /\ gen = 0
  /\ pc = "down"
  /\ next = 1
  /\ kmip = "none"
  /\ rest = "none"
  /\ interrupted = FALSE
-----------------------------------------------------------------------------
Step(from, to) == pc = from /\ pc' = to

(* The process ends, by log.Fatal, by a panic or by a kill.  When it ends   *)
(* in Generate, and the first file was opened, the directory stays as it is. *)
Exit ==
  /\ pc' = "down"
  /\ next' = 1
  /\ kmip' = "none"
  /\ rest' = "none"
  /\ interrupted' = (interrupted \/ pc = "open" \/ (pc = "generate" /\ next \in 2..Len(Order)))
  /\ UNCHANGED <<flags, files, gen>>

(* The operator starts the server, or clears the directory or at least the  *)
(* file by which setupDevMode decides.                                      *)
Start ==
  /\ Step("down", "flags")
  /\ UNCHANGED <<flags, files, gen, next, kmip, rest, interrupted>>

RemoveCerts(removed) ==
  /\ pc = "down"
  /\ gen < MaxGenerations
  /\ files["ca.pem"] # Missing
  /\ files' = [f \in File |-> IF f \in removed THEN Missing ELSE files[f]]
  /\ UNCHANGED <<flags, gen, pc, next, kmip, rest, interrupted>>

(* Mutant of CheckFlags: the check of --ca is missing. *)
CheckFlagsNoCA ==
  /\ ~flags.dev
  /\ flags.cert /\ (flags.apiPort => flags.apiKey)
  /\ Step("flags", "store")
  /\ UNCHANGED <<flags, files, gen, next, kmip, rest, interrupted>>

(* The checks of a start without --dev. *)
CheckFlags ==
  /\ ~flags.dev
  /\ \/ /\ flags.ca \/ flags.insecure
        /\ flags.cert
        /\ flags.apiPort => flags.apiKey
        /\ Step("flags", "store")
        /\ UNCHANGED <<flags, files, gen, next, kmip, rest, interrupted>>
     \/ /\ \/ ~flags.ca /\ ~flags.insecure
           \/ ~flags.cert
           \/ flags.apiPort /\ ~flags.apiKey
        /\ pc = "flags" /\ Exit

(* Mutant of setupDevMode: the certificates are made anew in every start. *)
setupDevModeAnew ==
  /\ flags.dev
  /\ Step("flags", "generate")
  /\ UNCHANGED <<flags, files, gen, next, kmip, rest, interrupted>>

(* With --dev, ca.pem decides whether certificates are generated. *)
setupDevMode ==
  /\ flags.dev
  /\ Step("flags", IF files["ca.pem"] = Missing THEN "generate"
                   ELSE IF flags.apiKey THEN "store" ELSE "tempKey")
  /\ UNCHANGED <<flags, files, gen, next, kmip, rest, interrupted>>

(* writePEM creates or truncates the file, ... *)
OpenPEM ==
  /\ Step("generate", "open")
  /\ next <= Len(Order)
  /\ files' = [files EXCEPT ![Order[next]] = Torn]
  /\ gen' = IF next = 1 THEN gen + 1 ELSE gen
  /\ UNCHANGED <<flags, next, kmip, rest, interrupted>>

(* Mutant of EncodePEM: the error of writePEM is not looked at. *)
EncodePEMUnchecked ==
  /\ Step("open", "generate")
  /\ \/ files' = [files EXCEPT ![Order[next]] = gen]
     \/ UNCHANGED files
  /\ next' = next + 1
  /\ UNCHANGED <<flags, gen, kmip, rest, interrupted>>

(* ... and encodes into it. *)
EncodePEM ==
  /\ Step("open", "generate")
  /\ files' = [files EXCEPT ![Order[next]] = gen]
  /\ next' = next + 1
  /\ UNCHANGED <<flags, gen, kmip, rest, interrupted>>

(* After the last file Generate draws an API key and returns. *)
Generated ==
  /\ Step("generate", "store")
  /\ next = Len(Order) + 1
  /\ next' = 1
  /\ interrupted' = FALSE
  /\ UNCHANGED <<flags, files, gen, kmip, rest>>

(* A reuse without an API key calls Generate on the temporary directory for *)
(* the sake of its key; the error is ignored and the result dereferenced.   *)
TempKey ==
  /\ Step("tempKey", "store")
  /\ UNCHANGED <<flags, files, gen, next, kmip, rest, interrupted>>

(* The storage backend. *)
OpenStore ==
  /\ flags.storage = "sqlite" \/ (flags.storage = "memory" /\ flags.dev)
  /\ Step("store", "rest")
  /\ UNCHANGED <<flags, files, gen, next, kmip, rest, interrupted>>

(* The REST server is a goroutine of its own, ... *)
StartRest ==
  /\ Step("rest", "kmip")
  /\ rest' = IF flags.apiPort THEN "starting" ELSE "none"
  /\ UNCHANGED <<flags, files, gen, next, kmip, interrupted>>

(* The certificate and the key load and belong together.  Files that the    *)
(* operator names are good or bad; a bad one shows as an error.             *)
PairLoads == flags.dev => Whole("server.pem") /\ files["server-key.pem"] = files["server.pem"]
CALoads   == flags.dev => Whole("ca.pem")

(* ... which loads the certificates itself. *)
ServeRest ==
  /\ rest = "starting"
  /\ PairLoads
  /\ rest' = IF flags.dev THEN "open" ELSE "apiKey"
  /\ UNCHANGED <<flags, files, gen, pc, next, kmip, interrupted>>

(* NewServer and the listener: client certificates are required exactly     *)
(* when there is a CA file.                                                 *)
NewServer ==
  /\ Step("kmip", "serving")
  /\ PairLoads /\ CALoads
  /\ kmip' = IF flags.dev \/ flags.ca THEN "mTLS" ELSE "anyClient"
  /\ UNCHANGED <<flags, files, gen, next, rest, interrupted>>

(* Mutant of StartFails: an error of NewServer is logged and tried again. *)
StartFailsNotInKmip == pc \notin {"down", "flags", "serving", "kmip"} /\ Exit

(* The rest of main fails somewhere: a file, the database, the certificates *)
(* or a port.                                                               *)
StartFails == pc \notin {"down", "flags", "serving"} /\ Exit

(* The process is killed, or the REST server fails and takes it down. *)
Kill == pc # "down" /\ Exit

Main ==
  \/ CheckFlags \/ setupDevMode \/ OpenPEM \/ EncodePEM \/ Generated \/ TempKey
  \/ OpenStore \/ StartRest \/ NewServer \/ StartFails

Operator == Start \/ RemoveCerts(File) \/ RemoveCerts({"ca.pem"})
-----------------------------------------------------------------------------
(* A server that serves lets in nobody whom its command line keeps out,     *)
(* whatever path through main it took: the KMIP listener does without       *)
(* client certificates only if --insecure-no-mtls was given, and REST       *)
(* without the API key only with --dev.  The in-memory store is only served *)
(* with --dev.                                                              *)
ServesAsConfigured ==
  /\ kmip = "anyClient" => flags.insecure
  /\ rest = "open" => flags.dev
  /\ rest = "apiKey" => flags.apiKey
  /\ pc = "serving" => flags.storage # "other" /\ (flags.storage = "memory" => flags.dev)

(* With --insecure-no-mtls any TLS client can connect, as the help text,    *)
(* the warning and the banner of main say.  It is refuted by a command line *)
(* that also has --ca or --dev: NewServer is given the CA file and nothing  *)
(* of the flag.                                                             *)
InsecureMeansAnyClient == pc = "serving" /\ flags.insecure => kmip = "anyClient"

SameGeneration(F) == \A f, g \in F : Whole(f) /\ files[f] = files[g]

(* A --dev server that came up has a server certificate with its own key,   *)
(* and if no Generate on the directory was cut short, all five files are of *)
(* one generation, so that the client certificate is one its CA accepts.    *)
(* After an interrupted Generate this can fail for ever: ca.pem is there,   *)
(* nothing completes the rest, and the key of the CA is gone.               *)
DevServerIsUsable ==
  flags.dev /\ pc = "serving" =>
    /\ SameGeneration({"server.pem", "server-key.pem"})
    /\ ~interrupted => SameGeneration(File)

(* No start changes a directory that is complete: clients that copied the   *)
(* certificates can go on using them.                                       *)
CompleteCertsAreKept ==
  [][SameGeneration(File) /\ pc # "down" => files' = files]_startVars

(* Every start ends: the server serves, or the process is down. *)
StartsEnd == pc \notin {"down", "serving"} ~> pc \in {"down", "serving"}
=============================================================================
