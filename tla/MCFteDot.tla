------------------------------- MODULE MCFteDot -------------------------------
(***************************************************************************)
(* Fte with the ranker of .* over two byte values, as DotWords models it.  *)
(***************************************************************************)
EXTENDS MCFte

D == INSTANCE DotWords WITH Base <- 2

Bytes(lengths) == {w \in BoundedSeq({0, 1}, 4) : Len(w) \in lengths}

DotStar(max) ==
  [kind     |-> "star",
   count    |-> D!DotStarWords(0, max, 0),
   accepted |-> Bytes(0 .. max),
   rank     |-> [w \in Bytes(0 .. 4) |-> D!DotStarRank(w)],
   unrank   |-> [r \in 0 .. 15 |-> D!DotStarUnrank(r)]]

MCDotLang == [star |-> DotStar(1)]
=============================================================================
