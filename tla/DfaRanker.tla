------------------------------ MODULE DfaRanker ------------------------------
(***************************************************************************)
(* One fte::ranking::DfaRanker object: SetLanguage, which builds the       *)
(* counting tables of an automaton, and the two Goldberg-Sipser walks over *)
(* them, Unrank (an integer to a word) and Rank (a word to an integer).    *)
(*                                                                         *)
(* The loops of the code are the steps of the model: one step of           *)
(* PopulateCachedTable adds one table entry to another, one step of Unrank *)
(* subtracts one entry or appends one symbol, one step of Rank adds one    *)
(* entry.  A word is a sequence of bytes.  The integers are GMP's, so they *)
(* are not bounded; only Unrank's length counter, a uint32_t, wraps.       *)
(***************************************************************************)
EXTENDS Powers, Vectors

CONSTANTS
  Dfas,     \* the automata a text passed to SetLanguage may describe
  MaxLen,   \* fixed_slice_, the longest word the tables cover
  Base,     \* the number of byte values: 256 in the code
  Wrap,     \* the uint32_t counter n of Unrank counts modulo Wrap
  Words,    \* words that callers pass to Rank
  Ranks     \* integers that callers pass to Unrank

States(d) == 0 .. d.states - 1

Symbols(d) == 0 .. d.symbols - 1

FinalStates(d) == Range(d.finals)

(* What SetLanguage has once the text is parsed: the states are numbered,  *)
(* the last one being the dead state, and delta is total.  finals is       *)
(* final_states_ in the order of the text, sigma and reverse are sigma_    *)
(* and sigma_reverse_, which need not be each other's inverse.             *)
IsDfa(d) ==
  /\ d.states \in Nat \ {0}
  /\ d.symbols \in 1 .. Base
  /\ d.start \in States(d)
  /\ d.finals \in Seq(States(d))
  /\ \A i, j \in DOMAIN d.finals : d.finals[i] = d.finals[j] => i = j
  /\ d.delta \in [States(d) -> [Symbols(d) -> States(d)]]
  /\ \A a \in Symbols(d) : a \in DOMAIN d.sigma /\ d.sigma[a] \in 0 .. Base - 1
  /\ \A b \in DOMAIN d.reverse : d.reverse[b] \in Symbols(d)

ASSUME DfaAssumption == \A d \in Dfas : IsDfa(d)

ASSUME BoundAssumption ==
  /\ MaxLen \in Nat
  /\ Base \in Nat \ {0}
  /\ Wrap \in Nat
  /\ MaxLen + 1 < Wrap

(* What a digit weighs in the number that mpz_export and mpz_import see.   *)
Weight == PowersOf(Base)

ASSUME CallerAssumption ==
  /\ \A w \in Words : w \in Seq(0 .. Base - 1) /\ Len(w) <= MaxLen + 2
  /\ Ranks \subseteq Nat

VARIABLES
  pc,           \* what the object is executing
  dfa,          \* start_state_, final_states_, num_states_, num_symbols_, delta_, sigma_
  CachedTable,  \* CachedTable[q][l]: words of length l accepted from q
  inclusive,    \* words_in_language_inclusive_
  exclusive,    \* words_in_language_exclusive_
  usable,       \* what SetLanguage returned: final_states_ is sorted
  len, q, cursor, \* the loop variables of the running function
  acc,          \* the sum CalculateNumWordsInLanguage has reached
  n,            \* the length of the word being unranked or ranked
  pos,          \* i, the position in that word
  c,            \* what Unrank has left of the rank
  word,         \* *word of Unrank, or the argument of Rank
  indices,      \* the symbols of word: the values of char_cursor or symbol_as_int
  final_state_loop, \* Rank has taken the shortcut of such a loop
  rank,         \* *rank of Rank
  op,           \* the function last called on the built object
  ret,          \* how that call ended: "none" until it has
  below,        \* history: the partial sums that PopulateCachedTable went through
  asked,        \* history: the rank that word was unranked from, or NoRank
  trail         \* history: the state and the remainder before each symbol of word

lang     == <<dfa, CachedTable, inclusive, exclusive, usable, below>>
building == <<len, acc>>
spelling == <<word, indices, final_state_loop>>
vars == <<pc, dfa, CachedTable, inclusive, exclusive, usable, len, q, cursor,
          acc, n, pos, c, word, indices, final_state_loop, rank, op, ret, below, asked, trail>>

NoRank == -1

Lens == 0 .. MaxLen

Delta(s, a) == dfa.delta[s][a]

(* delta_dense_: all the transitions of s go to the same state.            *)
Dense(s) == \A a \in Symbols(dfa) : Delta(s, a) = Delta(s, 0)

(* Mutation: final_states_ is never sorted.                                *)
IsFinalUnsorted(s) == BinarySearch(dfa.finals, s)

(* std::binary_search in final_states_, which SetLanguage sorts just       *)
(* before it returns true.                                                 *)
IsFinal(s) ==
  BinarySearch(IF usable THEN InOrder(FinalStates(dfa)) ELSE dfa.finals, s)

(* The condition of the shortcuts: from s on, every string of bytes is a   *)
(* suffix.                                                                 *)
FinalStateLoop(s) ==
  /\ IsFinal(s)
  /\ Dense(s)
  /\ dfa.symbols = Base
  /\ Delta(s, 0) = s

(* What sigma_reverse_ has for each byte of w; for a byte it does not have *)
(* the number of symbols stands, which is no index.                        *)
Indices(w) ==
  [i \in 1 .. Len(w) |-> IF w[i] \in DOMAIN dfa.reverse THEN dfa.reverse[w[i]] ELSE dfa.symbols]

(* sigma_ and sigma_reverse_ are inverse, and with all byte values as      *)
(* symbols each byte is its own index, which the shortcuts take for        *)
(* granted.  An object that has read two texts need not be so.             *)
OneToOne ==
  \A a \in Symbols(dfa) :
    /\ dfa.sigma[a] \in DOMAIN dfa.reverse /\ dfa.reverse[dfa.sigma[a]] = a
    /\ dfa.symbols = Base => dfa.sigma[a] = a
-----------------------------------------------------------------------------
Init ==
  /\ pc = "new"
  /\ dfa \in Dfas
  /\ CachedTable = << >> /\ below = << >>
  /\ inclusive = << >> /\ exclusive = << >>
  /\ usable = FALSE
  /\ len = 0 /\ q = 0 /\ cursor = 0 /\ acc = 0
  /\ n = 0 /\ pos = 0 /\ c = 0 /\ rank = 0
  /\ word = << >> /\ indices = << >> /\ trail = << >>
  /\ final_state_loop = FALSE
  /\ op = "none" /\ ret = "none"
  /\ asked = NoRank

(* SetLanguage up to the loops of PopulateCachedTable: the words of length *)
(* 0 are counted, every other entry is 0.                                  *)
SetLanguage ==
  /\ pc = "new"
  /\ pc' = "fill"
  /\ CachedTable' = [s \in States(dfa) |->
                       [l \in Lens |-> IF l = 0 /\ s \in FinalStates(dfa) THEN 1 ELSE 0]]
  /\ below' = [s \in States(dfa) |-> [l \in Lens |-> [a \in 0 .. dfa.symbols |-> 0]]]
  /\ len' = 1 /\ q' = 0 /\ cursor' = 0
  /\ UNCHANGED <<dfa, inclusive, exclusive, usable, acc, n, pos, c, spelling, rank,
                 ret, op, asked, trail>>

(* The three loops of PopulateCachedTable: symbols innermost, then states, *)
(* then lengths.                                                           *)
NextEntry ==
  \/ /\ cursor + 1 < dfa.symbols
     /\ cursor' = cursor + 1
     /\ UNCHANGED <<q, len>>
  \/ /\ cursor + 1 = dfa.symbols
     /\ q + 1 < dfa.states
     /\ cursor' = 0 /\ q' = q + 1
     /\ UNCHANGED len
  \/ /\ cursor + 1 = dfa.symbols
     /\ q + 1 = dfa.states
     /\ cursor' = 0 /\ q' = 0 /\ len' = len + 1

(* Mutation: the transitions into the state itself are not counted.        *)
EntryNoSelfLoop(s, l, a) ==
  IF Delta(s, a) = s THEN CachedTable[s][l]
                     ELSE CachedTable[s][l] + CachedTable[Delta(s, a)][l - 1]

Entry(s, l, a) == CachedTable[s][l] + CachedTable[Delta(s, a)][l - 1]

FillEntry ==
  /\ pc = "fill"
  /\ len <= MaxLen
  /\ CachedTable' = [CachedTable EXCEPT ![q][len] = Entry(q, len, cursor)]
  /\ below' = [below EXCEPT ![q][len][cursor + 1] = Entry(q, len, cursor)]
  /\ NextEntry
  /\ UNCHANGED <<pc, dfa, inclusive, exclusive, usable, acc, n, pos, c, spelling, rank,
                 ret, op, asked, trail>>

FillDone ==
  /\ pc = "fill"
  /\ len > MaxLen
  /\ pc' = "count"
  /\ inclusive' = [l \in Lens |-> 0]
  /\ exclusive' = [l \in Lens |-> 0]
  /\ len' = 0 /\ pos' = 0 /\ acc' = 0
  /\ UNCHANGED <<dfa, CachedTable, usable, q, cursor, n, c, spelling, rank, ret, below,
                 op, asked, trail>>

(* CalculateNumWordsInLanguage(0, len) adds the words of length pos.       *)
CountWords ==
  /\ pc = "count"
  /\ len <= MaxLen
  /\ pos <= len
  /\ acc' = acc + CachedTable[dfa.start][pos]
  /\ pos' = pos + 1
  /\ UNCHANGED <<pc, lang, len, q, cursor, n, c, spelling, rank, ret, op, asked, trail>>

StoreCount ==
  /\ pc = "count"
  /\ len <= MaxLen
  /\ pos > len
  /\ inclusive' = [inclusive EXCEPT ![len] = acc]
  /\ exclusive' = [exclusive EXCEPT ![len] = CachedTable[dfa.start][len]]
  /\ len' = len + 1 /\ pos' = 0 /\ acc' = 0
  /\ UNCHANGED <<pc, dfa, CachedTable, usable, q, cursor, n, c, spelling, rank,
                 ret, below, op, asked, trail>>

(* SetLanguage returns false for a language of at most one word, before it *)
(* sorts final_states_; the tables are in place all the same.              *)
SetLanguageReturn ==
  /\ pc = "count"
  /\ len > MaxLen
  /\ pc' = "idle"
  /\ usable' = (inclusive[MaxLen] > 1)
  /\ UNCHANGED <<dfa, CachedTable, inclusive, exclusive, building, q, cursor, n,
                 pos, c, spelling, rank, ret, below, op, asked, trail>>
-----------------------------------------------------------------------------
(* Unrank(r) with *word empty, as callers pass it: first the length of the *)
(* word, then its symbols.                                                 *)
CallUnrank(r) ==
  /\ pc = "idle"
  /\ pc' = "slice"
  /\ asked' = r
  /\ c' = r /\ n' = 1
  /\ word' = << >> /\ indices' = << >> /\ trail' = << >>
  /\ final_state_loop' = FALSE
  /\ rank' = 0 /\ pos' = 0 /\ q' = 0 /\ cursor' = 0
  /\ op' = "Unrank" /\ ret' = "none"
  /\ UNCHANGED <<lang, building>>

(* Mutation: the first word of each length is left out.                    *)
InSliceAfterFirst(r, l) ==
  /\ l <= MaxLen
  /\ r > inclusive[l - 1]
  /\ r < inclusive[l]

InSlice(r, l) ==
  /\ l <= MaxLen
  /\ r >= inclusive[l - 1]
  /\ r < inclusive[l]

(* Mutation: the length is not incremented.                                *)
NextSliceStuck ==
  /\ pc = "slice"
  /\ n # 0
  /\ ~InSlice(c, n)
  /\ UNCHANGED vars

(* The length is not this one: ++n.                                        *)
NextSlice ==
  /\ pc = "slice"
  /\ n # 0
  /\ ~InSlice(c, n)
  /\ n' = (n + 1) % Wrap
  /\ UNCHANGED <<pc, lang, building, q, cursor, pos, c, spelling, rank, ret, op, asked, trail>>

(* No length was found and n has wrapped around: InSlice(c, 0) reads       *)
(* words_in_language_inclusive_.at(-1), which throws std::out_of_range.    *)
SliceThrows ==
  /\ pc = "slice"
  /\ n = 0
  /\ pc' = "idle" /\ ret' = "threw"
  /\ UNCHANGED <<lang, building, q, cursor, n, pos, c, spelling, rank, op, asked, trail>>

(* Mutation: the shorter words are not subtracted.                         *)
FoundSliceKeepsRank ==
  /\ pc = "slice"
  /\ n # 0
  /\ InSlice(c, n)
  /\ pc' = "unrank"
  /\ c' = c /\ trail' = <<[q |-> dfa.start, c |-> c]>>
  /\ pos' = 1 /\ q' = dfa.start /\ cursor' = 0
  /\ UNCHANGED <<lang, building, n, spelling, rank, ret, op, asked>>

(* The test n > fixed_slice_ that follows the loop cannot succeed, since   *)
(* InSlice has bounded n.                                                  *)
FoundSlice ==
  /\ pc = "slice"
  /\ n # 0
  /\ InSlice(c, n)
  /\ pc' = "unrank"
  /\ c' = c - inclusive[n - 1]
  /\ trail' = <<[q |-> dfa.start, c |-> c - inclusive[n - 1]]>>
  /\ pos' = 1 /\ q' = dfa.start /\ cursor' = 0
  /\ UNCHANGED <<lang, building, n, spelling, rank, ret, op, asked>>

(* The byte b of the symbol a is appended, s is the next state and r what  *)
(* is left of c.                                                           *)
AppendByte(b, a, s, r) ==
  /\ word' = Append(word, b) /\ indices' = Append(indices, a)
  /\ trail' = Append(trail, [q |-> s, c |-> r])
  /\ q' = s /\ c' = r
  /\ pos' = pos + 1
  /\ cursor' = 0
  /\ UNCHANGED <<pc, lang, building, n, final_state_loop, rank, ret, op, asked>>

Append1(a, s, r) == AppendByte(dfa.sigma[a], a, s, r)

(* Mutation: least significant digit first.                                *)
UnrankTailReversed ==
  /\ pc = "unrank"
  /\ pos <= n
  /\ FinalStateLoop(q)
  /\ AppendByte(c % Base, c % Base, q, c \div Base)

(* In a final state that loops on every byte the rest of the word is c in  *)
(* base 256, most significant digit first (MpzClassToBase256): one digit,  *)
(* a byte that does not go through sigma_.                                 *)
UnrankTail ==
  /\ pc = "unrank"
  /\ pos <= n
  /\ FinalStateLoop(q)
  /\ LET digit == c \div Weight[n - pos]
     IN  AppendByte(digit, digit, q, c % Weight[n - pos])

(* All transitions go to the same state: mpz_fdiv_qr.                      *)
UnrankDense ==
  /\ pc = "unrank"
  /\ pos <= n
  /\ Dense(q) /\ ~FinalStateLoop(q)
  /\ LET s == Delta(q, 0)
         w == CachedTable[s][n - pos]
     IN  Append1(c \div w, s, c % w)

(* The words that continue with the symbol at the cursor.                  *)
Continuations == CachedTable[Delta(q, cursor)][n - pos]

(* Mutation: the comparison is dropped.                                    *)
UnrankSkipAlways ==
  /\ pc = "unrank"
  /\ pos <= n
  /\ ~Dense(q)
  /\ c' = c - Continuations
  /\ cursor' = cursor + 1
  /\ UNCHANGED <<pc, lang, building, q, n, pos, spelling, rank, ret, op, asked, trail>>

(* They all come before c: subtract them and try the next symbol.          *)
UnrankSkip ==
  /\ pc = "unrank"
  /\ pos <= n
  /\ ~Dense(q)
  /\ c >= Continuations
  /\ c' = c - Continuations
  /\ cursor' = cursor + 1
  /\ UNCHANGED <<pc, lang, building, q, n, pos, spelling, rank, ret, op, asked, trail>>

UnrankChoose ==
  /\ pc = "unrank"
  /\ pos <= n
  /\ ~Dense(q)
  /\ c < Continuations
  /\ Append1(cursor, Delta(q, cursor), c)

UnrankReturn ==
  /\ pc = "unrank"
  /\ pos > n
  /\ pc' = "idle"
  /\ ret' = IF IsFinal(q) THEN "true" ELSE "false"
  /\ UNCHANGED <<lang, building, q, cursor, n, pos, c, spelling, rank, op, asked, trail>>
-----------------------------------------------------------------------------
JustUnranked(w) == op = "Unrank" /\ ret = "true" /\ w = word

(* Rank(w) with *rank = 0, the value all callers pass.  sigma_reverse_ is  *)
(* read here for the whole word, where the code reads it symbol by symbol. *)
(* The history keeps asked when w is the word that Unrank has just         *)
(* returned.                                                               *)
CallRank(w) ==
  /\ pc = "idle"
  /\ pc' = "rank"
  /\ asked' = IF JustUnranked(w) THEN asked ELSE NoRank
  /\ trail' = IF JustUnranked(w) THEN trail ELSE << >>
  /\ word' = w /\ indices' = Indices(w) /\ n' = Len(w)
  /\ final_state_loop' = FALSE
  /\ pos' = 1 /\ q' = dfa.start /\ cursor' = 0
  /\ rank' = 0 /\ c' = 0
  /\ op' = "Rank" /\ ret' = "none"
  /\ UNCHANGED <<lang, building>>

RankEnds(result, r) ==
  /\ pc' = "idle"
  /\ ret' = result
  /\ rank' = r
  /\ UNCHANGED <<lang, building, q, cursor, n, pos, c, spelling, op, asked, trail>>

(* A byte outside the alphabet: false, with part of the sum in *rank.      *)
RankUnknownSymbol ==
  /\ pc = "rank"
  /\ pos <= n
  /\ ~final_state_loop
  /\ indices[pos] \notin Symbols(dfa)
  /\ RankEnds("false", rank)

(* An entry of CachedTable_ beyond fixed_slice_ is read: std::out_of_range *)
(* (the loop of a state that is not dense reads none for the first symbol, *)
(* the shortcut of a final loop reads none at all).                        *)
RankBeyondTable ==
  /\ pc = "rank"
  /\ pos <= n
  /\ indices[pos] \in Symbols(dfa)
  /\ n - pos > MaxLen
  /\ ~FinalStateLoop(q)
  /\ Dense(q) \/ indices[pos] > 0
  /\ RankEnds("threw", rank)

(* The next symbol, after the current one has added r.                     *)
RankMove(r) ==
  /\ rank' = r
  /\ q' = Delta(q, indices[pos])
  /\ pos' = pos + 1
  /\ cursor' = 0
  /\ UNCHANGED <<pc, lang, building, n, c, spelling, ret, op, asked, trail>>

(* The rest of the word, of which only the first byte is looked up.        *)
InTail ==
  /\ pc = "rank"
  /\ pos <= n
  /\ final_state_loop \/ indices[pos] \in Symbols(dfa)
  /\ FinalStateLoop(q)

TailMove(r) ==
  /\ final_state_loop' = TRUE
  /\ rank' = r
  /\ pos' = pos + 1
  /\ cursor' = 0
  /\ UNCHANGED <<pc, lang, building, n, q, c, word, indices, ret, op, asked, trail>>

(* Mutation: the digits are weighted from the other end.                   *)
RankTailReversed ==
  /\ InTail
  /\ TailMove(rank + word[pos] * Weight[pos - 1])

(* One digit of Base256ToMpzClass on the rest of the word.                 *)
RankTail ==
  /\ InTail
  /\ TailMove(rank + word[pos] * Weight[n - pos])

RankDense ==
  /\ pc = "rank"
  /\ pos <= n
  /\ indices[pos] \in Symbols(dfa)
  /\ Dense(q) /\ ~FinalStateLoop(q)
  /\ n - pos <= MaxLen
  /\ RankMove(rank + CachedTable[Delta(q, 0)][n - pos] * indices[pos])

(* The loop over the symbols before indices[pos].                          *)
RankAdd ==
  /\ pc = "rank"
  /\ pos <= n
  /\ indices[pos] \in Symbols(dfa)
  /\ ~Dense(q)
  /\ n - pos <= MaxLen
  /\ cursor < indices[pos]
  /\ rank' = rank + Continuations
  /\ cursor' = cursor + 1
  /\ UNCHANGED <<pc, lang, building, q, n, pos, c, spelling, ret, op, asked, trail>>

RankNext ==
  /\ pc = "rank"
  /\ pos <= n
  /\ indices[pos] \in Symbols(dfa)
  /\ ~Dense(q)
  /\ cursor = indices[pos]
  /\ RankMove(rank)

RankRejects ==
  /\ pc = "rank"
  /\ pos > n
  /\ ~IsFinal(q)
  /\ RankEnds("false", rank)

(* Mutation: the words of the same length are counted with the shorter.    *)
RankAcceptsSlice ==
  /\ pc = "rank"
  /\ pos > n
  /\ IsFinal(q)
  /\ n - 1 \in Lens
  /\ RankEnds("true", rank + inclusive[IF n > MaxLen THEN n - 1 ELSE n])

(* The shorter words are added: WordsInLanguage(0, n - 1).                 *)
RankAccepts ==
  /\ pc = "rank"
  /\ pos > n
  /\ IsFinal(q)
  /\ n - 1 \in Lens
  /\ RankEnds("true", rank + inclusive[n - 1])

(* n - 1 is not an index of the table, or wraps for the empty word.        *)
RankBeyondCount ==
  /\ pc = "rank"
  /\ pos > n
  /\ IsFinal(q)
  /\ n - 1 \notin Lens
  /\ RankEnds("threw", rank)
-----------------------------------------------------------------------------
Build == SetLanguage \/ FillEntry \/ FillDone \/ CountWords \/ StoreCount \/ SetLanguageReturn

UnrankStep ==
  \/ NextSlice \/ SliceThrows \/ FoundSlice
  \/ UnrankTail \/ UnrankDense \/ UnrankSkip \/ UnrankChoose \/ UnrankReturn

RankStep ==
  \/ RankUnknownSymbol \/ RankBeyondTable
  \/ RankTail \/ RankDense \/ RankAdd \/ RankNext
  \/ RankRejects \/ RankAccepts \/ RankBeyondCount

Step == Build \/ UnrankStep \/ RankStep

Next ==
  \/ Step
  \/ \E r \in Ranks : CallUnrank(r)
  \/ \E w \in Words \cup {word} : CallRank(w)

Spec == Init /\ [][Next]_vars

(* A call, once made, runs: the object is used by one thread.              *)
FairSpec == Spec /\ WF_vars(Step)
-----------------------------------------------------------------------------
Tables ==
  /\ CachedTable \in [States(dfa) -> [Lens -> Nat]]
  /\ below \in [States(dfa) -> [Lens -> [0 .. dfa.symbols -> Nat]]]

Counts ==
  /\ inclusive \in [Lens -> Nat]
  /\ exclusive \in [Lens -> Nat]

Positions == [q : States(dfa), c : Nat]

TypeOK ==
  /\ pc \in {"new", "fill", "count", "idle", "slice", "unrank", "rank"}
  /\ IsDfa(dfa)
  /\ pc # "new" => Tables
  /\ pc \notin {"new", "fill"} => Counts
  /\ usable \in BOOLEAN
  /\ len \in 0 .. MaxLen + 1
  /\ q \in States(dfa)
  /\ cursor \in Symbols(dfa)
  /\ acc \in Nat
  /\ n \in Nat
  /\ pos \in Nat
  /\ c \in Nat
  /\ word \in Seq(0 .. Base - 1)
  /\ indices \in Seq(0 .. Base)
  /\ final_state_loop \in BOOLEAN
  /\ rank \in Nat
  /\ op \in {"none", "Unrank", "Rank"}
  /\ ret \in {"none", "true", "false", "threw"}
  /\ asked \in Nat \cup {NoRank}
  /\ trail \in Seq(Positions)

(* While Unrank walks, what is left of the rank counts words of the        *)
(* current state that still have the right length: c and the entries       *)
(* already subtracted stay below CachedTable_[q][n - i + 1].  Hence the    *)
(* scan of the symbols ends inside delta_'s row and mpz_fdiv_qr never      *)
(* divides by zero (dfa_ranker.cc:282-307).                                *)
UnrankInRange ==
  pc = "unrank" =>
    /\ n \in 1 .. MaxLen
    /\ pos \in 1 .. n + 1
    /\ c + below[q][n - pos + 1][cursor] < CachedTable[q][n - pos + 1]
    /\ pos <= n /\ Dense(q) => CachedTable[Delta(q, 0)][n - pos] > 0

(* Unrank ends by throwing on the index of the empty word and on what is   *)
(* the index of no word, and on nothing else.  After a SetLanguage that    *)
(* returned true it finds the word of every other index: its last `return  *)
(* false` (dfa_ranker.cc:315-317) is taken only of a language of one word, *)
(* the final states of which were left unsorted (dfa_ranker.cc:153-158).   *)
UnrankSucceeds ==
  pc = "idle" /\ op = "Unrank" =>
    /\ (ret = "threw") <=> ~(inclusive[0] <= asked /\ asked < inclusive[MaxLen])
    /\ usable => ret # "false"

(* Rank is the inverse of Unrank (ranker.h:21): ranking the word that      *)
(* Unrank returned succeeds and gives back the rank it was asked for.      *)
RankInvertsUnrank ==
  pc = "idle" /\ op = "Rank" /\ asked # NoRank /\ OneToOne =>
    ret = "true" /\ rank = asked
=============================================================================
