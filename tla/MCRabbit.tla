------------------------------- MODULE MCRabbit -------------------------------
(***************************************************************************)
(* Rabbit with bytes of two bits and words of eight.                       *)
(***************************************************************************)
EXTENDS Rabbit

MCXor ==
  LET d(a, b) == (a + b) % 2
  IN  [a \in 0 .. 3 |-> [b \in 0 .. 3 |-> 2 * d(a \div 2, b \div 2) + d(a, b)]]

(* The last byte of each of the eight constants.                           *)
MCAdd == <<77, 211, 52, 77, 211, 52, 77, 211>>

MCKeys == {<<145, 40, 37, 99>>, <<7, 250, 128, 66>>}
MCIvs == {<<0, 0>>, <<89, 146>>}

MCPlain == [p \in 1 .. 37 |-> (p * p + p \div 3) % 4]

(* The reference for the keystream: what the reference implementation's    *)
(* state is after each step, for a message on its own.                     *)
Contexts(k, v) ==
  LET s0 == AfterIv(Master(k), Master(k), v)
      s1 == NextState(s0)
      s2 == NextState(s1)
      s3 == NextState(s2)
  IN  [t \in 0 .. 3 |-> <<s0, s1, s2, s3>>[t + 1]]

MCStream == [k \in MCKeys |-> [v \in MCIvs |-> Contexts(k, v)]]

MCGarbage ==
  {[x |-> [j \in 1 .. 8 |-> 9], c |-> [j \in 1 .. 8 |-> 199 + j], carry |-> 200]}

MCInputs == {0, 1, 6, 14, 15, 27, 31}
=============================================================================
