---------------------------- MODULE MC_RestFront ----------------------------
(* RestFront for TLC: the configuration gives all constants their values. *)
EXTENDS RestFront
=============================================================================
