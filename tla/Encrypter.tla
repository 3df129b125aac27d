------------------------------ MODULE Encrypter ------------------------------
(***************************************************************************)
(* What class Encrypter promises its callers: under one key the integers   *)
(* of n bits are permuted, and Decrypt goes back.  Nothing is said of how, *)
(* and of the past only the last ciphertext is remembered.  Ffx and Rabbit *)
(* implement this.                                                         *)
(***************************************************************************)
EXTENDS Powers

VARIABLES
  doing,    \* "idle", or the function that is running
  n,        \* plaintext_len_in_bits or ciphertext_len_in_bits
  in, out,  \* the argument and the result
  op,       \* the function last called
  pair      \* the last encryption under this key, as [n, in, out]

vars == <<doing, n, in, out, op, pair>>

NoPair == [n |-> 0, in |-> 0, out |-> 0]

Residues(bits) == 0 .. Two[bits] - 1

Init ==
  /\ doing = "idle"
  /\ n \in Nat /\ in \in Nat /\ out \in Nat
  /\ op = "none"
  /\ pair = NoPair

SetKey ==
  /\ doing = "idle"
  /\ op' = "SetKey"
  /\ pair' = NoPair
  /\ UNCHANGED <<doing, n, in, out>>

Call(function, loop) ==
  /\ doing = "idle"
  /\ doing' = loop
  /\ op' = function
  /\ n' \in Nat \ {0}
  /\ in' \in Nat
  /\ UNCHANGED <<out, pair>>

Returns ==
  /\ doing' = "idle"
  /\ out' \in Residues(n)
  /\ UNCHANGED <<n, in, op>>

(* Equal ciphertexts for equal plaintexts, and for no others.              *)
EncryptReturns ==
  /\ doing = "encrypt"
  /\ Returns
  /\ pair.n = n => (out' = pair.out <=> in % Two[n] = pair.in % Two[n])
  /\ pair' = [n |-> n, in |-> in, out |-> out']

(* The ciphertext that Encrypt made gives its plaintext back.              *)
DecryptReturns ==
  /\ doing = "decrypt"
  /\ Returns
  /\ pair.n = n /\ in = pair.out => out' = pair.in % Two[n]
  /\ UNCHANGED pair

Next ==
  \/ SetKey
  \/ Call("Encrypt", "encrypt") \/ Call("Decrypt", "decrypt")
  \/ EncryptReturns \/ DecryptReturns

Spec == Init /\ [][Next]_vars
=============================================================================
