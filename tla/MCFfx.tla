-------------------------------- MODULE MCFfx --------------------------------
(***************************************************************************)
(* Ffx on every integer of at most three bits, for lengths of up to three: *)
(* an input may be longer than the length it is encrypted under.           *)
(***************************************************************************)
EXTENDS Ffx

MCLengths == {1, 2, 3}
MCInputs == 0 .. 7
=============================================================================
