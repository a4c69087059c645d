------------------------------ MODULE KeyStates ------------------------------
(***************************************************************************)
(* The vocabulary of managed objects: the states of a key, the transition  *)
(* table of the KMIP handlers and the length rules of the two stores.      *)
(* There is no state here, only definitions that every component shares.   *)
(***************************************************************************)
EXTENDS Integers

Absent               == 0    \* no row with this UID (not a state of the code)
PreActive            == 1
Active               == 2
Deactivated          == 3
Compromised          == 4    \* also StateRevoked
Destroyed            == 5
DestroyedCompromised == 6
Archived             == 100

KeyState == {PreActive, Active, Deactivated, Compromised, Destroyed,
             DestroyedCompromised, Archived}

ObjectType == {"Certificate", "SymmetricKey", "PublicKey", "PrivateKey"}

MaxKeyLengthBits   == 32768
MaxDerivedKeyBytes == 512

(* The states in which a KMIP handler accepts an operation.  Operations the *)
(* switch does not name are accepted in every state.                        *)
AllowedStates(op) ==
  CASE op = "Get"      -> {PreActive, Active, Deactivated, Compromised}
    [] op = "Activate" -> {PreActive}
    [] op = "Revoke"   -> {PreActive, Active, Deactivated}
    [] op = "Destroy"  -> KeyState \ {Destroyed, DestroyedCompromised}
    [] op = "Archive"  -> {Deactivated}
    [] op = "Recover"  -> {Archived}
    [] op \in {"ReKey", "Encrypt", "Decrypt", "Sign", "SignatureVerify", "MAC"}
                       -> {Active}
    [] OTHER           -> KeyState

validateStateTransition(state, op) == state \in AllowedStates(op)

(* Mutant of ValidLength: no upper bound. *)
ValidLengthUnbounded(len) == len > 0

(* Create and Rekey accept these lengths and generate this many bytes.  The *)
(* integer division drops the bits of an incomplete byte, so lengths 1..7   *)
(* are accepted and give no material at all.                                *)
ValidLength(len) == len > 0 /\ len <= MaxKeyLengthBits
KeyBytes(len)    == len \div 8

(* DeriveKey generates 32 bytes when the requested length has no full byte, *)
(* zero and negative lengths included.                                      *)
DerivedBytes(len) == IF len \div 8 <= 0 THEN 32 ELSE len \div 8

(* A fresh elliptic-curve key records the length of the curve it fell back  *)
(* to; RSA records the length asked for and refuses less than 1024 bits     *)
(* (crypto/rsa).                                                            *)
CurveLength(len) == IF len \in {256, 384, 521} THEN len ELSE 256
MinRSABits       == 1024
PairLengths(len) == {CurveLength(len)} \cup {n \in {len} : n >= MinRSABits}
=============================================================================
