------------------------------ MODULE DotRankers ------------------------------
(***************************************************************************)
(* One DotPlusRanker or DotStarRanker object and a caller that counts its  *)
(* language, unranks integers and ranks words, the words it has been given *)
(* among them.                                                             *)
(***************************************************************************)
EXTENDS DotWords

CONSTANTS
  MaxLens,   \* the values callers pass for max_word_length
  Words,     \* words callers rank
  Ranks,     \* integers callers unrank
  MaxCounts  \* bound: the calls of WordsInLanguage

ASSUME ConstantsAssumption ==
  /\ MaxLens \subseteq Nat /\ Ranks \subseteq Nat /\ MaxCounts \in Nat
  /\ Words \subseteq Seq(0 .. Base - 1)

VARIABLES
  kind,      \* "plus" or "star", the class of the object
  max,       \* max_word_len_
  words,     \* *words_in_language, the caller's variable
  word,      \* *word of Unrank, or the argument of Rank
  rank,      \* *rank of Rank, or the argument of Unrank
  op,        \* the function last called
  before,    \* history: the call before it, as [op, word, rank]
  counts     \* bound: the calls of WordsInLanguage made so far

vars == <<kind, max, words, word, rank, op, before, counts>>

UnrankOf(r) == IF kind = "plus" THEN DotPlusUnrank(r) ELSE DotStarUnrank(r)

RankOf(w) == IF kind = "plus" THEN DotPlusRank(w) ELSE DotStarRank(w)

Rankable(w) == kind = "star" \/ w # << >>

Init ==
  /\ kind \in {"plus", "star"}
  /\ max \in MaxLens
  /\ words = 0
  /\ word = << >> /\ rank = 0
  /\ op = "none"
  /\ before = [op |-> "none", word |-> << >>, rank |-> 0]
  /\ counts = 0

Remember == before' = [op |-> op, word |-> word, rank |-> rank]

(* WordsInLanguage(&words), with whatever words holds.                     *)
WordsInLanguage ==
  /\ counts < MaxCounts
  /\ words' = IF kind = "plus" THEN DotPlusWords(0, max, words)
                              ELSE DotStarWords(0, max, words)
  /\ op' = "WordsInLanguage"
  /\ counts' = counts + 1
  /\ Remember
  /\ UNCHANGED <<kind, max, word, rank>>

Unrank(r) ==
  /\ rank' = r
  /\ word' = UnrankOf(r)
  /\ op' = "Unrank"
  /\ Remember
  /\ UNCHANGED <<kind, max, words, counts>>

Rank(w) ==
  /\ Rankable(w)
  /\ word' = w
  /\ rank' = RankOf(w)
  /\ op' = "Rank"
  /\ Remember
  /\ UNCHANGED <<kind, max, words, counts>>

Next ==
  \/ WordsInLanguage
  \/ \E r \in Ranks \cup {rank} : Unrank(r)
  \/ \E w \in Words \cup {word} : Rank(w)

Spec == Init /\ [][Next]_vars
-----------------------------------------------------------------------------
(* The first integer whose word Rank maps back: 0 is written as a byte 1   *)
(* by .+, and 1 likewise by .*.                                            *)
Inverted(r) == IF kind = "plus" THEN r > 0 ELSE r # 1

(* Rank after Unrank gives the integer back (ranker.h:21), but for the one *)
(* integer that unranks through a negative number.                         *)
RankInvertsUnrank ==
  op = "Rank" /\ before.op = "Unrank" /\ before.word = word /\ Inverted(before.rank) =>
    rank = before.rank

(* Unrank after Rank gives the word back when its first byte is not the    *)
(* last one: such a word has the rank of a longer word.                    *)
UnrankInvertsRank ==
  op = "Unrank" /\ before.op = "Rank" /\ before.rank = rank =>
    (word = before.word) <=> (before.word = << >> \/ before.word[1] # Base - 1)

(* A fresh count is above the rank of every word up to the maximum length, *)
(* also of those that start with the last byte: Fte takes any integer below *)
(* the count for a rank and walks on from any other.                       *)
CountCoversRanks ==
  op = "Rank" /\ before.op = "WordsInLanguage" /\ counts = 1 /\ Len(word) <= max =>
    rank < words

(* The count is above integers whose words are longer than the maximum, but *)
(* while it is fresh by one byte at most: this is what Fte::Encrypt outputs *)
(* for .+ and .* , as it takes any integer below the count.                *)
CountBoundsWords ==
  op = "Unrank" /\ counts = 1 /\ rank < words => Len(word) <= max + 1

FirstBytes(w) == {w[i] : i \in DOMAIN w \cap {1}}

(* Ordered by length and, for one length, lexicographically.               *)
Before(v, w) ==
  \/ Len(v) < Len(w) /\ Base - 1 \notin FirstBytes(v)
  \/ /\ Len(v) = Len(w)
     /\ \E i \in DOMAIN w : v[i] < w[i] /\ \A j \in 1 .. i - 1 : v[j] = w[j]

(* Ranks grow with the length of the words and, for one length, with their *)
(* lexicographic order (ranker.h:15-17); only the words that start with    *)
(* Base - 1 reach into the ranks of the next length.                       *)
RankFollowsOrder ==
  op = "Rank" /\ before.op = "Rank" /\ Before(before.word, word) => before.rank < rank
=============================================================================
