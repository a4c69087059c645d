--------------------------- MODULE MC_AuditedServer ---------------------------
(* Values for the constants of AuditedServer. *)
EXTENDS AuditedServer, TLC

(* A way into every state a key reaches, from both front ends. *)
LifecycleRequests ==
  {"RestCreateKey", "Activate", "RestRevoke", "RestDestroy", "RestRekey"}

UsualLengths == {256}
Sizes        == {32}
=============================================================================
