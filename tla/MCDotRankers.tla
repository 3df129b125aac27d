----------------------------- MODULE MCDotRankers -----------------------------
(***************************************************************************)
(* The rankers of .+ and .* on words of up to three bytes.                 *)
(***************************************************************************)
EXTENDS DotRankers, SequencesExt

MCMaxLens == {1, 2}
MCWords == BoundedSeq(0 .. Base - 1, 3)
MCRanks == 0 .. 30

(* Rank is the inverse of Unrank (ranker.h:21) on every word, in           *)
(* particular on the words that start with the last byte value.            *)
UnrankRecoversWord ==
  op = "Unrank" /\ before.op = "Rank" /\ before.rank = rank => word = before.word
=============================================================================
