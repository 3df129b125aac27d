--------------------------- MODULE DotRankersProofs ---------------------------
(***************************************************************************)
(* The properties of DotRankers, for every number of byte values, maximum  *)
(* length, word and integer.                                               *)
(***************************************************************************)
EXTENDS DotRankers, DotWordsProofs

(* What a function call leaves: the variables of the caller hold the       *)
(* argument and the result.                                                *)
Answered(o, w, r) ==
  /\ w \in Seq(Byte) /\ r \in Nat
  /\ o = "Rank" => Rankable(w) /\ r = RankOf(w)
  /\ o = "Unrank" => w = UnrankOf(r)

(* The count while the caller's variable was 0 before it.                  *)
FreshCount == IF kind = "plus" THEN DotPlusWords(0, max, 0) ELSE DotStarWords(0, max, 0)

(* The inductive invariant: the last call and the one before it were       *)
(* answered as the arithmetic says, and one count is the fresh count.  A   *)
(* count in either place of the history was counted.                       *)
DotInv ==
  /\ kind \in {"plus", "star"} /\ max \in Nat /\ counts \in Nat
  /\ (op = "WordsInLanguage" \/ op = "Rank" \/ op = "Unrank" \/ op = "none")
  /\ op # "WordsInLanguage" => Answered(op, word, rank)
  /\ word \in Seq(Byte) /\ rank \in Nat
  /\ before.op # "WordsInLanguage" => Answered(before.op, before.word, before.rank)
  /\ counts = 0 => words = 0
  /\ counts = 1 => words = FreshCount

LEMMA SeqIsWordOf ==
  ASSUME NEW w \in Seq(Byte)
  PROVE  /\ Len(w) \in Nat /\ w \in WordsOf(Len(w)) /\ (w = << >> <=> Len(w) = 0)
BY DEF WordsOf

LEMMA WordOfIsSeq ==
  ASSUME NEW n \in Nat, NEW w \in WordsOf(n)
  PROVE  w \in Seq(Byte) /\ Len(w) = n /\ (w = << >> <=> n = 0)
<1>1. w \in Seq(Byte) /\ Len(w) = n
  BY WordLen
<1>2. QED
  BY <1>1

LEMMA RankOfIsNat ==
  ASSUME DotInv, NEW w \in Seq(Byte), Rankable(w)
  PROVE  RankOf(w) \in Nat
<1>1. CASE w = << >>
  <2>1. kind = "star"
    BY <1>1 DEF Rankable
  <2>2. QED
    BY <1>1, <2>1 DEF RankOf, DotStarRank
<1>2. CASE w # << >>
  <2>1. Len(w) \in Nat \ {0} /\ w \in WordsOf(Len(w))
    <3>1. Len(w) \in Nat /\ Len(w) # 0 /\ w \in WordsOf(Len(w))
      BY <1>2, SeqIsWordOf, Zenon
    <3>2. QED
      BY <3>1
  <2>2. DotPlusRank(w) \in Nat
    BY <2>1, DotPlusRankRange
  <2>3. QED
    BY <1>2, <2>2 DEF RankOf, DotStarRank
<1>3. QED
  BY <1>1, <1>2

LEMMA UnrankOfIsWord ==
  ASSUME DotInv, NEW r \in Nat
  PROVE  UnrankOf(r) \in Seq(Byte)
<1>1. ASSUME NEW q \in Nat
      PROVE  DotPlusUnrank(q) \in Seq(Byte)
  <2>1. PICK n \in Nat \ {0} : DotPlusUnrank(q) \in WordsOf(n)
    BY DotPlusRankInverts
  <2>2. n \in Nat
    OBVIOUS
  <2>3. QED
    BY <2>1, <2>2, WordOfIsSeq
<1>2. << >> \in Seq(Byte)
  OBVIOUS
<1>3. r # 0 => r - 1 \in Nat
  OBVIOUS
<1>4. QED
  BY <1>1, <1>2, <1>3 DEF UnrankOf, DotStarUnrank

LEMMA DotInvInit == Init => DotInv
<1>1. SUFFICES ASSUME Init
               PROVE  DotInv
  OBVIOUS
<1>2. << >> \in Seq(Byte)
  OBVIOUS
<1>3. QED
  BY <1>1, <1>2, ConstantsAssumption DEF Init, DotInv, Answered

LEMMA DotInvNext == DotInv /\ [Next]_vars => DotInv'
<1>1. SUFFICES ASSUME DotInv, [Next]_vars
               PROVE  DotInv'
  OBVIOUS
<1>2. CASE WordsInLanguage
  <2>1. /\ kind' = kind /\ max' = max /\ word' = word /\ rank' = rank
        /\ op' = "WordsInLanguage" /\ counts' = counts + 1
        /\ before' = [op |-> op, word |-> word, rank |-> rank]
        /\ words' = IF kind = "plus" THEN DotPlusWords(0, max, words)
                                     ELSE DotStarWords(0, max, words)
    BY <1>2 DEF WordsInLanguage, Remember
  <2>2. counts \in Nat
    BY <1>1 DEF DotInv
  <2>3. counts' \in Nat /\ counts' # 0 /\ (counts' = 1 => counts = 0)
    BY <2>1, <2>2
  <2>4. counts' = 1 => words' = FreshCount'
    BY <1>1, <2>1, <2>3 DEF DotInv, FreshCount
  <2>5. before'.op # "WordsInLanguage" => Answered(before.op, before.word, before.rank)'
    BY <1>1, <2>1 DEF DotInv, Answered, Rankable, RankOf, UnrankOf
  <2>6. QED
    BY <1>1, <2>1, <2>3, <2>4, <2>5 DEF DotInv
<1>3. ASSUME NEW r \in Ranks \cup {rank}, Unrank(r)
      PROVE  DotInv'
  <2>1. /\ kind' = kind /\ max' = max /\ words' = words /\ counts' = counts
        /\ rank' = r /\ word' = UnrankOf(r) /\ op' = "Unrank"
        /\ before' = [op |-> op, word |-> word, rank |-> rank]
    BY <1>3 DEF Unrank, Remember
  <2>2. r \in Nat
    BY <1>1, ConstantsAssumption DEF DotInv
  <2>3. word' \in Seq(Byte)
    BY <1>1, <2>1, <2>2, UnrankOfIsWord
  <2>4. Answered(op, word, rank)'
    BY <2>1, <2>2, <2>3 DEF Answered, UnrankOf
  <2>5. before'.op # "WordsInLanguage" => Answered(before.op, before.word, before.rank)'
    BY <1>1, <2>1 DEF DotInv, Answered, Rankable, RankOf, UnrankOf
  <2>6. FreshCount' = FreshCount
    BY <2>1 DEF FreshCount
  <2>7. QED
    BY <1>1, <2>1, <2>2, <2>3, <2>4, <2>5, <2>6 DEF DotInv
<1>4. ASSUME NEW w \in Words \cup {word}, Rank(w)
      PROVE  DotInv'
  <2>1. /\ kind' = kind /\ max' = max /\ words' = words /\ counts' = counts
        /\ Rankable(w) /\ word' = w /\ rank' = RankOf(w) /\ op' = "Rank"
        /\ before' = [op |-> op, word |-> word, rank |-> rank]
    BY <1>4 DEF Rank, Remember
  <2>2. w \in Seq(Byte)
    BY <1>1, ConstantsAssumption DEF DotInv, Byte
  <2>3. rank' \in Nat
    BY <1>1, <2>1, <2>2, RankOfIsNat
  <2>4. Answered(op, word, rank)'
    BY <2>1, <2>2, <2>3 DEF Answered, RankOf, Rankable
  <2>5. before'.op # "WordsInLanguage" => Answered(before.op, before.word, before.rank)'
    BY <1>1, <2>1 DEF DotInv, Answered, Rankable, RankOf, UnrankOf
  <2>6. FreshCount' = FreshCount
    BY <2>1 DEF FreshCount
  <2>7. QED
    BY <1>1, <2>1, <2>2, <2>3, <2>4, <2>5, <2>6 DEF DotInv
<1>5. CASE UNCHANGED vars
  BY <1>1, <1>5 DEF vars, DotInv, Answered, Rankable, RankOf, UnrankOf, FreshCount
<1>6. QED
  BY <1>1, <1>2, <1>3, <1>4, <1>5 DEF Next
-----------------------------------------------------------------------------
LEMMA RankAfterUnrank ==
  ASSUME kind \in {"plus", "star"}, NEW r \in Nat, Inverted(r)
  PROVE  RankOf(UnrankOf(r)) = r
<1>1. ASSUME NEW q \in Nat \ {0}
      PROVE  DotPlusUnrank(q) # << >> /\ DotPlusRank(DotPlusUnrank(q)) = q
  <2>1. q \in Nat /\ q > 0
    OBVIOUS
  <2>2. PICK n \in Nat \ {0} :
          DotPlusUnrank(q) \in WordsOf(n) /\ DotPlusRank(DotPlusUnrank(q)) = q
    BY <2>1, DotPlusRankInverts
  <2>3. n \in Nat /\ n # 0
    OBVIOUS
  <2>4. QED
    BY <2>2, <2>3, WordOfIsSeq
<1>2. CASE kind = "plus"
  <2>1. r \in Nat \ {0}
    BY <1>2 DEF Inverted
  <2>2. QED
    BY <1>1, <1>2, <2>1 DEF RankOf, UnrankOf
<1>3. CASE kind = "star" /\ r = 0
  BY <1>3 DEF RankOf, UnrankOf, DotStarRank, DotStarUnrank
<1>4. CASE kind = "star" /\ r # 0
  <2>1. r - 1 \in Nat \ {0} /\ (r - 1) + 1 = r
    BY <1>4 DEF Inverted
  <2>2. QED
    BY <1>1, <1>4, <2>1 DEF RankOf, UnrankOf, DotStarRank, DotStarUnrank
<1>5. QED
  BY <1>2, <1>3, <1>4

LEMMA UnrankAfterRank ==
  ASSUME kind \in {"plus", "star"}, NEW w \in Seq(Byte), Rankable(w)
  PROVE  UnrankOf(RankOf(w)) = w <=> (w = << >> \/ w[1] # Base - 1)
<1>1. CASE w = << >>
  <2>1. kind = "star"
    BY <1>1 DEF Rankable
  <2>2. QED
    BY <1>1, <2>1 DEF RankOf, UnrankOf, DotStarRank, DotStarUnrank
<1>2. CASE w # << >>
  <2>1. Len(w) \in Nat \ {0} /\ w \in WordsOf(Len(w))
    BY <1>2, SeqIsWordOf
  <2>2. DotPlusUnrank(DotPlusRank(w)) = w <=> w[1] # Base - 1
    BY <2>1, DotPlusUnrankInverts
  <2>3. UnrankOf(RankOf(w)) = DotPlusUnrank(DotPlusRank(w))
    <3>1. DotPlusRank(w) \in Nat
      BY <2>1, DotPlusRankRange
    <3>2. CASE kind = "plus"
      BY <3>2 DEF RankOf, UnrankOf
    <3>3. CASE kind = "star"
      <4>1. RankOf(w) = DotPlusRank(w) + 1
        BY <1>2, <3>3 DEF RankOf, DotStarRank
      <4>2. DotPlusRank(w) + 1 # 0 /\ (DotPlusRank(w) + 1) - 1 = DotPlusRank(w)
        BY <3>1
      <4>3. QED
        BY <3>3, <4>1, <4>2 DEF UnrankOf, DotStarUnrank
    <3>4. QED
      BY <3>2, <3>3
  <2>4. QED
    BY <1>2, <2>2, <2>3
<1>3. QED
  BY <1>1, <1>2

LEMMA FreshCountCovers ==
  ASSUME kind \in {"plus", "star"}, max \in Nat,
         NEW w \in Seq(Byte), Rankable(w), Len(w) <= max
  PROVE  RankOf(w) < FreshCount
<1>1. DotPlusWords(0, max, 0) \in Nat \ {0}
  BY CountBetweenPowers
<1>2. CASE w = << >>
  <2>1. kind = "star"
    BY <1>2 DEF Rankable
  <2>2. QED
    BY <1>1, <1>2, <2>1 DEF RankOf, DotStarRank, FreshCount, DotStarWords
<1>3. CASE w # << >>
  <2>1. Len(w) \in Nat \ {0} /\ Len(w) \in 1 .. max /\ w \in WordsOf(Len(w))
    BY <1>3, SeqIsWordOf
  <2>2. DotPlusRank(w) \in Nat /\ DotPlusRank(w) < Power[Len(w) - 1] + Power[Len(w)]
    BY <2>1, DotPlusRankRange
  <2>3. Power[Len(w) - 1] + Power[Len(w)] <= DotPlusWords(0, max, 0)
    BY <2>1, CountBetweenPowers
  <2>4. Power[Len(w) - 1] + Power[Len(w)] \in Nat
    <3>1. Len(w) - 1 \in Nat /\ Len(w) \in Nat
      BY <2>1
    <3>2. Power[Len(w) - 1] \in Nat /\ Power[Len(w)] \in Nat
      BY <3>1, PowerSteps
    <3>3. QED
      BY <3>2
  <2>5. DotPlusRank(w) < DotPlusWords(0, max, 0)
    BY <1>1, <2>2, <2>3, <2>4
  <2>6. QED
    BY <1>1, <1>3, <2>2, <2>5 DEF RankOf, DotStarRank, FreshCount, DotStarWords
<1>4. QED
  BY <1>2, <1>3

LEMMA FreshCountBounds ==
  ASSUME kind \in {"plus", "star"}, max \in Nat, NEW r \in Nat, r < FreshCount
  PROVE  Len(UnrankOf(r)) <= max + 1
<1>1. ASSUME NEW q \in Nat, q < DotPlusWords(0, max, 0)
      PROVE  Len(DotPlusUnrank(q)) <= max + 1
  <2>1. PICK n \in Nat \ {0} : n = SizeInBase(Base, q) /\ DotPlusUnrank(q) \in WordsOf(n)
    BY DotPlusRankInverts
  <2>2. Len(DotPlusUnrank(q)) = n
    BY <2>1, WordLen
  <2>3. n > 1 => Power[n - 1] <= q
    BY <2>1, SizeExists
  <2>4. q < Power[max + 1]
    <3>1. DotPlusWords(0, max, 0) < Power[max + 1] /\ DotPlusWords(0, max, 0) \in Nat
      BY CountBetweenPowers
    <3>2. Power[max + 1] \in Nat
      <4>1. max + 1 \in Nat
        OBVIOUS
      <4>2. QED
        BY <4>1, PowerSteps
    <3>3. QED
      BY <1>1, <3>1, <3>2
  <2>5. ASSUME n > max + 1
        PROVE  FALSE
    <3>1. max + 1 \in Nat /\ n - 1 \in Nat /\ max + 1 <= n - 1 /\ n > 1
      BY <2>5
    <3>2. Power[max + 1] <= Power[n - 1]
      BY <3>1, PowerGrows, Zenon
    <3>3. Power[max + 1] \in Nat /\ Power[n - 1] \in Nat
      BY <3>1, PowerSteps
    <3>4. QED
      BY <2>3, <2>4, <3>1, <3>2, <3>3
  <2>6. QED
    BY <2>2, <2>5
<1>2. DotPlusWords(0, max, 0) \in Nat
  BY CountBetweenPowers
<1>3. CASE kind = "plus"
  BY <1>1, <1>3 DEF UnrankOf, FreshCount
<1>4. CASE kind = "star" /\ r = 0
  BY <1>4 DEF UnrankOf, DotStarUnrank
<1>5. CASE kind = "star" /\ r # 0
  <2>1. r - 1 \in Nat /\ r - 1 < DotPlusWords(0, max, 0)
    BY <1>2, <1>5 DEF FreshCount, DotStarWords
  <2>2. QED
    BY <1>1, <1>5, <2>1 DEF UnrankOf, DotStarUnrank
<1>6. QED
  BY <1>3, <1>4, <1>5

LEMMA DotPlusRankFollows ==
  ASSUME NEW v \in Seq(Byte), NEW w \in Seq(Byte), v # << >>, w # << >>, Before(v, w)
  PROVE  DotPlusRank(v) < DotPlusRank(w)
<1>1. /\ Len(v) \in Nat \ {0} /\ v \in WordsOf(Len(v))
      /\ Len(w) \in Nat \ {0} /\ w \in WordsOf(Len(w))
  BY SeqIsWordOf
<1>2. /\ DotPlusRank(v) \in Nat /\ (DotPlusRank(v) < Power[Len(v)] <=> v[1] # Base - 1)
      /\ DotPlusRank(w) \in Nat /\ Power[Len(w) - 1] <= DotPlusRank(w)
  BY <1>1, DotPlusRankRange
<1>3. CASE Len(v) < Len(w) /\ Base - 1 \notin FirstBytes(v)
  <2>1. v[1] # Base - 1
    BY <1>1, <1>3 DEF FirstBytes
  <2>2. Len(v) \in Nat /\ Len(w) - 1 \in Nat /\ Len(v) <= Len(w) - 1
    BY <1>1, <1>3
  <2>3. Power[Len(v)] <= Power[Len(w) - 1]
    BY <2>2, PowerGrows, Zenon
  <2>4. Power[Len(v)] \in Nat /\ Power[Len(w) - 1] \in Nat
    BY <2>2, PowerSteps
  <2>5. QED
    BY <1>2, <2>1, <2>3, <2>4
<1>4. CASE Len(v) = Len(w) /\ \E i \in DOMAIN w : v[i] < w[i] /\ \A j \in 1 .. i - 1 : v[j] = w[j]
  <2>1. PICK i \in 1 .. Len(w) : v[i] < w[i] /\ \A j \in 1 .. i - 1 : v[j] = w[j]
    BY <1>4
  <2>2. FromBytes(v) < FromBytes(w)
    <3>1. Len(w) \in Nat /\ v \in WordsOf(Len(w)) /\ w \in WordsOf(Len(w))
      BY <1>1, <1>4
    <3>2. QED
      BY <2>1, <3>1, IntegersFollowWords, Zenon
  <2>3. FromBytes(v) \in Int /\ FromBytes(w) \in Int
    <3>1. \A n \in Nat : Power[n] \in Nat
      BY PowerSteps
    <3>2. QED
      BY <1>1, <3>1, FromBytesRange
  <2>4. Power[Len(w) - 1] \in Nat
    BY <1>1, PowerSteps
  <2>5. QED
    BY <1>4, <2>2, <2>3, <2>4 DEF DotPlusRank
<1>5. QED
  BY <1>3, <1>4 DEF Before

LEMMA RanksFollow ==
  ASSUME kind \in {"plus", "star"}, NEW v \in Seq(Byte), NEW w \in Seq(Byte),
         Rankable(v), Rankable(w), Before(v, w)
  PROVE  RankOf(v) < RankOf(w)
<1>1. w # << >>
  BY DEF Before
<1>2. Len(w) \in Nat \ {0} /\ w \in WordsOf(Len(w))
  BY <1>1, SeqIsWordOf
<1>3. DotPlusRank(w) \in Nat
  BY <1>2, DotPlusRankRange
<1>4. CASE v = << >>
  <2>1. kind = "star"
    BY <1>4 DEF Rankable
  <2>2. QED
    BY <1>1, <1>3, <1>4, <2>1 DEF RankOf, DotStarRank
<1>5. CASE v # << >>
  <2>1. Len(v) \in Nat \ {0} /\ v \in WordsOf(Len(v))
    BY <1>5, SeqIsWordOf
  <2>2. DotPlusRank(v) \in Nat
    BY <2>1, DotPlusRankRange
  <2>3. DotPlusRank(v) < DotPlusRank(w)
    BY <1>1, <1>5, DotPlusRankFollows
  <2>4. QED
    BY <1>1, <1>3, <1>5, <2>2, <2>3 DEF RankOf, DotStarRank
<1>6. QED
  BY <1>4, <1>5
-----------------------------------------------------------------------------
DotSafe ==
  /\ RankInvertsUnrank /\ UnrankInvertsRank
  /\ CountCoversRanks /\ CountBoundsWords /\ RankFollowsOrder

LEMMA DotInvSafe == DotInv => DotSafe
<1>1. SUFFICES ASSUME DotInv
               PROVE  DotSafe
  OBVIOUS
<1>2. kind \in {"plus", "star"} /\ max \in Nat /\ word \in Seq(Byte) /\ rank \in Nat
  BY <1>1 DEF DotInv
<1>3. op # "WordsInLanguage" => Answered(op, word, rank)
  BY <1>1 DEF DotInv
<1>4. before.op # "WordsInLanguage" => Answered(before.op, before.word, before.rank)
  BY <1>1 DEF DotInv
<1>5. counts = 1 => words = FreshCount
  BY <1>1 DEF DotInv
<1>6. op = "Rank" => Rankable(word) /\ rank = RankOf(word)
  BY <1>3 DEF Answered
<1>7. op = "Unrank" => word = UnrankOf(rank)
  BY <1>3 DEF Answered
<1>8. before.op = "Rank" => /\ before.word \in Seq(Byte) /\ Rankable(before.word)
                            /\ before.rank = RankOf(before.word)
  BY <1>4 DEF Answered
<1>9. before.op = "Unrank" => before.rank \in Nat /\ before.word = UnrankOf(before.rank)
  BY <1>4 DEF Answered
<1>10. RankInvertsUnrank
  BY <1>2, <1>6, <1>9, RankAfterUnrank DEF RankInvertsUnrank
<1>11. UnrankInvertsRank
  BY <1>2, <1>7, <1>8, UnrankAfterRank DEF UnrankInvertsRank
<1>12. CountCoversRanks
  BY <1>2, <1>5, <1>6, FreshCountCovers DEF CountCoversRanks
<1>13. CountBoundsWords
  BY <1>2, <1>5, <1>7, FreshCountBounds DEF CountBoundsWords
<1>14. RankFollowsOrder
  BY <1>2, <1>6, <1>8, RanksFollow DEF RankFollowsOrder
<1>15. QED
  BY <1>10, <1>11, <1>12, <1>13, <1>14 DEF DotSafe

LEMMA DotInvHolds == Spec => []DotInv
<1>1. QED
  BY DotInvInit, DotInvNext, PTL DEF Spec

(* Rank after Unrank gives the integer back, for every integer but the one *)
(* whose word is written from -1 (DotPlusRanker::Unrank and Rank).         *)
THEOREM RankInvertsUnrankHolds == Spec => []RankInvertsUnrank
<1>1. DotInv => RankInvertsUnrank
  BY DotInvSafe DEF DotSafe
<1>2. QED
  BY DotInvHolds, <1>1, PTL

(* Unrank after Rank gives a word back exactly when its first byte is not  *)
(* the last byte value.                                                    *)
THEOREM UnrankInvertsRankHolds == Spec => []UnrankInvertsRank
<1>1. DotInv => UnrankInvertsRank
  BY DotInvSafe DEF DotSafe
<1>2. QED
  BY DotInvHolds, <1>1, PTL

(* The first count WordsInLanguage leaves is above the rank of every word  *)
(* up to the maximum length, whatever that length is.                      *)
THEOREM CountCoversRanksHolds == Spec => []CountCoversRanks
<1>1. DotInv => CountCoversRanks
  BY DotInvSafe DEF DotSafe
<1>2. QED
  BY DotInvHolds, <1>1, PTL

(* An integer below that count has a word at most one byte too long.       *)
THEOREM CountBoundsWordsHolds == Spec => []CountBoundsWords
<1>1. DotInv => CountBoundsWords
  BY DotInvSafe DEF DotSafe
<1>2. QED
  BY DotInvHolds, <1>1, PTL

(* Ranks follow the order of the words, by length and then byte by byte.   *)
THEOREM RankFollowsOrderHolds == Spec => []RankFollowsOrder
<1>1. DotInv => RankFollowsOrder
  BY DotInvSafe DEF DotSafe
<1>2. QED
  BY DotInvHolds, <1>1, PTL
=============================================================================
