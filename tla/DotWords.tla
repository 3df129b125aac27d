------------------------------- MODULE DotWords -------------------------------
(***************************************************************************)
(* The arithmetic of DotPlusRanker and DotStarRanker, the rankers of the   *)
(* languages .+ and .* that use no automaton.  A word is a sequence of     *)
(* bytes, a byte a number below Base.                                      *)
(***************************************************************************)
EXTENDS Powers, Sequences

CONSTANT Base  \* the number of byte values: 256 in the code

ASSUME BaseAssumption == Base \in Nat \ {0, 1}

(* mpz_ui_pow_ui(e, 256, k).                                               *)
Power == PowersOf(Base)

AbsVal(v) == IF v < 0 THEN -v ELSE v

(* MpzClassToBase256: mpz_export writes the digits of the absolute value,  *)
(* most significant first, the rest is padded with zeros on the left.      *)
ToBytes(v, len) == [i \in 1 .. len |-> (AbsVal(v) \div Power[len - i]) % Base]

(* Mutation: the first byte is taken for the least significant one.        *)
FromBytesReversed(w) ==
  LET value[i \in 0 .. Len(w)] == IF i = 0 THEN 0 ELSE value[i - 1] + w[i] * Power[i - 1]
  IN  value[Len(w)]

(* Base256ToMpzClass: the first byte is the most significant one.          *)
FromBytes(w) ==
  LET value[i \in 0 .. Len(w)] == IF i = 0 THEN 0 ELSE value[i - 1] * Base + w[i]
  IN  value[Len(w)]

(* DotPlusRanker::Unrank.  The rank 0 is one digit long and 1 is           *)
(* subtracted from it, which leaves -1 to be written.                      *)
DotPlusUnrank(rank) ==
  LET len == SizeInBase(Base, rank)
  IN  ToBytes(rank - Power[len - 1], len)

(* Mutation: the ranks of each length start one later.                     *)
DotPlusRankLater(word) == Power[Len(word) - 1] + FromBytes(word) + 1

(* DotPlusRanker::Rank, for a word that is not empty.                      *)
DotPlusRank(word) == Power[Len(word) - 1] + FromBytes(word)

(* Mutation: one length more is counted.                                   *)
DotPlusWordsLonger(min, max, words) ==
  LET total[k \in min .. max + 1] ==
        (IF k = min THEN words ELSE total[k - 1]) + Power[k]
  IN  IF min <= max THEN total[max + 1] ELSE words

(* WordsInLanguage(min, max, &words) adds to the value words already has.  *)
DotPlusWords(min, max, words) ==
  LET total[k \in min .. max] ==
        (IF k = min THEN words ELSE total[k - 1]) + Power[k]
  IN  IF min <= max THEN total[max] ELSE words

DotStarUnrank(rank) == IF rank = 0 THEN << >> ELSE DotPlusUnrank(rank - 1)

DotStarRank(word) == IF word = << >> THEN 0 ELSE DotPlusRank(word) + 1

(* Mutation: the empty word is not counted.                                *)
DotStarWordsShort(min, max, words) == DotPlusWords(min, max, words)

DotStarWords(min, max, words) == DotPlusWords(min, max, words) + 1
=============================================================================
