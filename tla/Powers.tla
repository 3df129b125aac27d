-------------------------------- MODULE Powers --------------------------------
(***************************************************************************)
(* The powers that the components take of GMP: of 256 in the rankers, of 2 *)
(* in the encrypters.                                                      *)
(***************************************************************************)
EXTENDS Integers

(* PowersOf(b)[k] is b to the power k: mpz_ui_pow_ui(e, b, k).             *)
PowersOf(b) ==
  LET power[k \in Nat] == IF k = 0 THEN 1 ELSE b * power[k - 1]
  IN  power

Two == PowersOf(2)

(* mpz_sizeinbase(v, b): the number of digits, 1 for 0.                    *)
SizeInBase(b, v) ==
  CHOOSE k \in 1 .. v + 1 : v < PowersOf(b)[k] /\ (k > 1 => PowersOf(b)[k - 1] <= v)
=============================================================================
