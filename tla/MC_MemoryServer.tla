--------------------------- MODULE MC_MemoryServer ---------------------------
(* Values for the constants of MemoryServer. *)
EXTENDS MemoryServer

CONSTANTS w1, w2

AllRequests == Op \ {"none"}
AnyToAny    == [w \in Workers |-> AllRequests]

(* Two requests that only read do not disturb each other: it is enough that *)
(* one of the two workers gets them.  The other gets one of each kind that  *)
(* writes; the remaining writers differ from these in their checks only.    *)
Writing       == {"Create", "Destroy", "RestActivate", "RestRevoke", "RestDestroy", "RestRekey"}
AnyWithWriter == [w \in Workers |-> IF w = w1 THEN AllRequests ELSE Writing]
=============================================================================
