--------------------------- MODULE MC_KmipProcess ---------------------------
(* Values for the constants of KmipProcess. *)
EXTENDS KmipProcess

(* --dev starts, and normal starts with every flag present or missing in    *)
(* turn.                                                                    *)
DevMode == [dev |-> TRUE, ca |-> FALSE, cert |-> FALSE, insecure |-> FALSE,
            apiKey |-> FALSE, apiPort |-> TRUE, storage |-> "memory"]

Normal == [dev |-> FALSE, ca |-> TRUE, cert |-> TRUE, insecure |-> FALSE,
           apiKey |-> TRUE, apiPort |-> TRUE, storage |-> "sqlite"]

SomeFlags ==
  {DevMode, Normal,
   [Normal EXCEPT !.ca = FALSE], [Normal EXCEPT !.ca = FALSE, !.insecure = TRUE],
   [Normal EXCEPT !.cert = FALSE], [Normal EXCEPT !.apiKey = FALSE],
   [Normal EXCEPT !.apiKey = FALSE, !.apiPort = FALSE, !.insecure = TRUE],
   [DevMode EXCEPT !.insecure = TRUE], [Normal EXCEPT !.insecure = TRUE],
   [Normal EXCEPT !.storage = "memory"], [Normal EXCEPT !.storage = "other"]}
=============================================================================
