---------------------------- MODULE KeyLifecycle -----------------------------
(***************************************************************************)
(* What the key server promises about the life of every key, whatever      *)
(* requests run concurrently and wherever the process is killed.  A key is *)
(* born PreActive with some material; while it lives it may be made Active *)
(* or Compromised, and its material may be replaced; it dies once, and     *)
(* then has no material and never changes again.  No step leads back to    *)
(* PreActive.                                                              *)
(***************************************************************************)
EXTENDS KeyStates

CONSTANT Uids

VARIABLES
  life,      \* the state of each key
  secret     \* the number of bytes of its material

lifeVars == <<life, secret>>

Living == {PreActive, Active, Compromised}

LifeInit ==
  /\ life = [u \in Uids |-> Absent]
  /\ secret = [u \in Uids |-> 0]

(* secret[u] becomes some number of bytes, all other keys keep theirs. *)
FreshSecret(u) ==
  /\ secret'[u] \in Nat
  /\ secret' = [secret EXCEPT ![u] = secret'[u]]

Born(u) ==
  /\ life[u] = Absent
  /\ life' = [life EXCEPT ![u] = PreActive]
  /\ FreshSecret(u)

Move(u, s) ==
  /\ life[u] \in Living
  /\ life' = [life EXCEPT ![u] = s]
  /\ UNCHANGED secret

Replace(u) ==
  /\ life[u] \in Living
  /\ FreshSecret(u)
  /\ UNCHANGED life

Die(u) ==
  /\ life[u] \in Living
  /\ life' = [life EXCEPT ![u] = Destroyed]
  /\ secret' = [secret EXCEPT ![u] = 0]

LifeNext ==
  \E u \in Uids :
    \/ Born(u)
    \/ Move(u, Active)
    \/ Move(u, Compromised)
    \/ Replace(u)
    \/ Die(u)

LifeSpec == LifeInit /\ [][LifeNext]_lifeVars
=============================================================================
