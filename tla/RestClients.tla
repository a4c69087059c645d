---------------------------- MODULE RestClients ----------------------------
(* What the rate limiter and the authentication of the REST server share:   *)
(* the addresses of its clients, and times, which are kept as ages.         *)
EXTENDS Integers, Sequences

CONSTANTS
  Ips  \* client addresses

(* An age one tick later; ages beyond max are not told apart. *)
Older(age, max) == IF age < max THEN age + 1 ELSE max

(* The ages below limit, in their order: one pass over the list, appending  *)
(* what is recent enough to a new one.                                      *)
Younger(ages, limit) ==
  LET kept[n \in 0..Len(ages)] ==
        IF n = 0 THEN <<>>
        ELSE IF ages[n] < limit THEN Append(kept[n - 1], ages[n]) ELSE kept[n - 1]
  IN  kept[Len(ages)]
=============================================================================
