---------------------------- MODULE MC_KeyServer -----------------------------
(* Values for the constants of KeyServer. *)
EXTENDS KeyServer, TLC

AllRequests == Op \ {"none"}

(* The lifecycle of a key through KMIP. *)
KmipRequests ==
  {"Create", "Activate", "Revoke", "Destroy", "Archive", "Recover", "ReKey"}

(* Rekeys that race with nothing but each other. *)
KmipRekeyRequests == {"Create", "Activate", "ReKey"}

(* A rekey through REST beside a revoke and a KMIP Destroy. *)
RekeyRequests == {"RestCreateKey", "RestActivate", "RestRevoke", "RestRekey", "Destroy"}

RestRequests == {"RestCreateKey", "RestActivate", "RestRevoke", "RestDestroy"}

(* The way of a key into the archive. *)
ArchiveRequests == {"Create", "Activate", "Revoke", "Archive"}

UsualLengths == {256}

Sizes == {32}

(* A key that is longer than the store would generate. *)
LongKeys == {[type |-> "SymmetricKey", len |-> 40000, bytes |-> 32]}

Symmetry == Permutations(Uids) \cup Permutations(Workers)
=============================================================================
