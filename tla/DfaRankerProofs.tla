--------------------------- MODULE DfaRankerProofs ---------------------------
(***************************************************************************)
(* Theorems of DfaRanker, for every set of automata, every fixed_slice_    *)
(* and every sequence of calls.  The argument has two layers: what the     *)
(* tables hold while and after they are built (BuildInv), and what the two *)
(* walks keep true over finished tables (WalkInv).  Before these, facts    *)
(* about vectors: what sorting leaves, and that a binary search finds what *)
(* is there if the vector is sorted, and nothing else in any vector.       *)
(***************************************************************************)
EXTENDS DfaRanker, ProofLemmas

LEMMA PositionFacts ==
  ASSUME NEW S \in SUBSET Int, IsFiniteSet(S)
  PROVE  /\ \A a \in S : Position(S, a) \in 0 .. Cardinality(S) - 1
         /\ \A a, b \in S : a < b => Position(S, a) < Position(S, b)
         /\ \A j \in 0 .. Cardinality(S) - 1 : \E a \in S : Position(S, a) = j
<1> DEFINE R == {p \in S \X S : p[1] < p[2]}
<1>1. \A a, b \in S : <<a, b>> \in R <=> a < b
  OBVIOUS
<1>2. Orders(R, S)
  <2> HIDE DEF R
  <2>1. \A a, b, d \in S : a < b /\ b < d => a < d
    OBVIOUS
  <2>2. \A a, b \in S : ~ a < a /\ (a # b => a < b \/ b < a)
    OBVIOUS
  <2>3. QED
    BY <1>1, <2>1, <2>2 DEF Orders
<1>3. \A a \in S : Cardinality(Lower(S, R, a)) = Position(S, a)
  <2> HIDE DEF R
  <2>1. \A a \in S : Lower(S, R, a) = {b \in S : b < a}
    BY <1>1 DEF Lower
  <2>2. QED
    BY <2>1 DEF Position
<1> HIDE DEF R
<1>4. Placed(R, S)
  BY <1>2, PlacesInOrder
<1>5. \A a \in S : Position(S, a) \in 0 .. Cardinality(S) - 1
  BY <1>3, <1>4 DEF Placed
<1>6. \A a, b \in S : a < b => Position(S, a) < Position(S, b)
  <2>1. SUFFICES ASSUME NEW a \in S, NEW b \in S, a < b
                 PROVE  Position(S, a) < Position(S, b)
    OBVIOUS
  <2>2. <<a, b>> \in R
    BY <1>1, <2>1
  <2>3. Cardinality(Lower(S, R, a)) < Cardinality(Lower(S, R, b))
    BY <1>4, <2>2 DEF Placed
  <2>4. QED
    BY <1>3, <2>3
<1>7. \A j \in 0 .. Cardinality(S) - 1 : \E a \in S : Position(S, a) = j
  BY <1>3, <1>4 DEF Placed
<1>8. QED
  BY <1>5, <1>6, <1>7

LEMMA PositionUnique ==
  ASSUME NEW S \in SUBSET Int, IsFiniteSet(S), NEW a \in S, NEW b \in S,
         Position(S, a) = Position(S, b)
  PROVE  a = b
<1>1. Position(S, a) \in Int /\ Position(S, b) \in Int
  BY PositionFacts
<1>2. a < b => Position(S, a) < Position(S, b)
  BY PositionFacts
<1>3. b < a => Position(S, b) < Position(S, a)
  BY PositionFacts
<1>4. QED
  BY <1>1, <1>2, <1>3

Ascending(v) == \A i, j \in 1 .. Len(v) : i < j => v[i] < v[j]

(* Sorting leaves the elements, in ascending order.                        *)
LEMMA InOrderFacts ==
  ASSUME NEW S \in SUBSET Int, IsFiniteSet(S), NEW v, v = InOrder(S)
  PROVE  v \in Seq(S) /\ Len(v) = Cardinality(S) /\ Ascending(v) /\ Range(v) = S
<1> DEFINE K == Cardinality(S)
           At(k) == CHOOSE a \in S : Position(S, a) = k - 1
<1>1. K \in Nat
  BY FS_CardinalityType
<1>2. ASSUME NEW k \in 1 .. K
      PROVE  At(k) \in S /\ Position(S, At(k)) = k - 1
  <2>1. k - 1 \in 0 .. K - 1
    BY <1>1
  <2>2. \E a \in S : Position(S, a) = k - 1
    BY <2>1, PositionFacts
  <2>3. QED
    BY <2>2
<1>3. v = [k \in 1 .. K |-> At(k)]
  BY DEF InOrder
<1> HIDE DEF At, K
<1>4. v \in Seq(S) /\ Len(v) = K /\ DOMAIN v = 1 .. K
  BY <1>1, <1>2, <1>3
<1>5. \A k \in 1 .. K : v[k] \in S /\ Position(S, v[k]) = k - 1
  BY <1>2, <1>3
<1>6. ASSUME NEW i \in 1 .. K, NEW j \in 1 .. K, i < j
      PROVE  v[i] < v[j]
  <2>1. v[i] \in S /\ v[j] \in S /\ Position(S, v[i]) = i - 1 /\ Position(S, v[j]) = j - 1
    BY <1>5
  <2>2. v[j] < v[i] => Position(S, v[j]) < Position(S, v[i])
    BY <2>1, PositionFacts
  <2>3. v[i] # v[j]
    BY <1>1, <1>6, <2>1
  <2>4. ~ v[j] < v[i]
    BY <1>1, <1>6, <2>1, <2>2
  <2>5. v[i] \in Int /\ v[j] \in Int
    BY <2>1
  <2>6. QED
    BY <2>3, <2>4, <2>5
<1>7. ASSUME NEW a \in S
      PROVE  \E k \in 1 .. K : v[k] = a
  <2>1. Position(S, a) \in 0 .. K - 1
    BY PositionFacts DEF K
  <2>2. PICK k \in 1 .. K : Position(S, a) = k - 1
    BY <1>1, <2>1
  <2>3. v[k] \in S /\ Position(S, v[k]) = Position(S, a)
    BY <1>5, <2>2
  <2>4. v[k] = a
    BY <2>3, PositionUnique
  <2>5. QED
    BY <2>4
<1>8. Range(v) = S
  BY <1>4, <1>5, <1>7 DEF Range
<1>9. QED
  BY <1>4, <1>6, <1>8 DEF K, Ascending

(* What the turns of the search keep true of a range: what follows it is   *)
(* not below s, and in a sorted vector what precedes it is.                *)
Around(v, s, r, k) ==
  /\ r.first \in 1 .. Len(v) + 1 /\ r.len \in Nat
  /\ r.first + r.len <= Len(v) + 1
  /\ r.len = 0 \/ r.len <= Len(v) - k
  /\ r.first + r.len <= Len(v) => ~ v[r.first + r.len] < s
  /\ Ascending(v) => \A i \in 1 .. r.first - 1 : v[i] < s

LEMMA HalvedKeeps ==
  ASSUME NEW v \in Seq(Int), NEW s \in Int, NEW r, NEW k \in 1 .. Len(v), Around(v, s, r, k - 1)
  PROVE  Around(v, s, Halved(v, s, r), k)
<1>1. PICK N \in Nat : N = Len(v)
  OBVIOUS
<1>2. PICK at \in Nat, m \in Nat : at = r.first /\ m = r.len
  BY <1>1 DEF Around
<1>3. PICK half \in Int : half = m \div 2
  OBVIOUS
<1>4. /\ at \in 1 .. N + 1 /\ at + m <= N + 1
      /\ m = 0 \/ m <= N - (k - 1)
      /\ at + m <= N => ~ v[at + m] < s
      /\ Ascending(v) => \A i \in 1 .. at - 1 : v[i] < s
  BY <1>1, <1>2 DEF Around
<1>5. \A i \in 1 .. N : v[i] \in Int
  BY <1>1
<1>6. CASE m = 0
  <2>1. Halved(v, s, r) = r
    BY <1>2, <1>6 DEF Halved
  <2>2. QED
    BY <1>1, <1>2, <1>4, <1>6, <2>1 DEF Around
<1>7. CASE m # 0
  <2>1. half \in Nat /\ half < m
    BY <1>3, <1>7
  <2>2. at + half \in 1 .. N /\ m <= N - (k - 1) /\ k \in 1 .. N
    BY <1>1, <1>4, <1>7, <2>1
  <2>3. v[at + half] \in Int
    BY <1>5, <2>2
  <2>4. CASE v[at + half] < s
    <3>1. Halved(v, s, r) = [first |-> at + half + 1, len |-> m - half - 1]
      BY <1>2, <1>3, <1>7, <2>4 DEF Halved
    <3>2. Halved(v, s, r).first = at + half + 1 /\ Halved(v, s, r).len = m - half - 1
      BY <3>1
    <3>3. /\ at + half + 1 \in 1 .. N + 1 /\ m - half - 1 \in Nat
          /\ (at + half + 1) + (m - half - 1) = at + m
          /\ m - half - 1 <= N - k
      BY <1>4, <2>1, <2>2
    <3>4. ASSUME Ascending(v), NEW i \in 1 .. (at + half + 1) - 1
          PROVE  v[i] < s
      <4>1. i \in 1 .. N /\ (i = at + half \/ i < at + half)
        BY <2>1, <2>2
      <4>2. i = at + half \/ v[i] < v[at + half]
        BY <1>1, <2>2, <3>4, <4>1 DEF Ascending
      <4>3. v[i] \in Int
        BY <1>5, <4>1
      <4>4. QED
        BY <2>3, <2>4, <4>2, <4>3
    <3>5. QED
      BY <1>1, <1>4, <3>2, <3>3, <3>4 DEF Around
  <2>5. CASE ~ v[at + half] < s
    <3>1. Halved(v, s, r) = [first |-> at, len |-> half]
      BY <1>2, <1>3, <1>7, <2>5 DEF Halved
    <3>2. Halved(v, s, r).first = at /\ Halved(v, s, r).len = half
      BY <3>1
    <3>3. half <= N - k /\ at + half <= N + 1
      BY <2>1, <2>2
    <3>4. QED
      BY <1>1, <1>4, <2>1, <2>5, <3>2, <3>3 DEF Around
  <2>6. QED
    BY <2>4, <2>5
<1>8. QED
  BY <1>6, <1>7

LEMMA RangesFollow ==
  ASSUME NEW v \in Seq(Int), NEW s \in Int
  PROVE  /\ Ranges(v, s)[0] = [first |-> 1, len |-> Len(v)]
         /\ \A k \in 1 .. Len(v) : Ranges(v, s)[k] = Halved(v, s, Ranges(v, s)[k - 1])
<1> DEFINE N == Len(v)
           first == [first |-> 1, len |-> N]
           S == [first : Int, len : Int]
           G == [k \in 1 .. N |-> [r \in S |-> Halved(v, s, r)]]
<1>1. N \in Nat /\ first \in S
  OBVIOUS
<1>2. \A r \in S : Halved(v, s, r) \in S
  BY DEF Halved
<1>3. G \in [1 .. N -> [S -> S]]
  BY <1>2
<1>4. PICK f \in [0 .. N -> S] : Follows(f, first, G, N)
  <2> HIDE DEF N, first, S, G
  <2> QED
    BY <1>1, <1>3, RecursionUpTo
<1>5. f[0] = first
  BY <1>4 DEF Follows
<1>6. ASSUME NEW k \in 1 .. N
      PROVE  f[k] = Halved(v, s, f[k - 1])
  <2>1. f[k] = G[k][f[k - 1]]
    BY <1>4 DEF Follows
  <2>2. k - 1 \in 0 .. N
    BY <1>1
  <2>3. f[k - 1] \in S
    BY <2>2
  <2>4. G[k][f[k - 1]] = Halved(v, s, f[k - 1])
    <3> HIDE DEF N, S
    <3> QED
      BY <2>3
  <2>5. QED
    BY <2>1, <2>4
<1>7. f = [k \in 0 .. N |-> IF k = 0 THEN first ELSE Halved(v, s, f[k - 1])]
  <2> HIDE DEF S, G, first
  <2>1. \A k \in 0 .. N : k = 0 \/ k \in 1 .. N
    BY <1>1
  <2>2. \A k \in 0 .. N : f[k] = IF k = 0 THEN first ELSE Halved(v, s, f[k - 1])
    BY <1>5, <1>6, <2>1
  <2>3. QED
    BY <2>2
<1> DEFINE P(g) == g = [k \in 0 .. N |-> IF k = 0 THEN first ELSE Halved(v, s, g[k - 1])]
<1>8. Ranges(v, s) = CHOOSE g : P(g)
  BY DEF Ranges
<1>9. P(Ranges(v, s))
  <2>1. P(f)
    BY <1>7
  <2> HIDE DEF P
  <2>2. QED
    BY <2>1, <1>8
<1>10. /\ 0 \in 0 .. N
       /\ \A k \in 1 .. N : k \in 0 .. N /\ k # 0
  BY <1>1
<1>11. QED
  <2> HIDE DEF N, S, G
  <2> QED
    BY <1>9, <1>10 DEF N

(* A search that ends with true has found s; in a sorted vector it finds   *)
(* what is there.                                                          *)
LEMMA BinarySearchFacts ==
  ASSUME NEW v \in Seq(Int), NEW s \in Int
  PROVE  /\ BinarySearch(v, s) => s \in Range(v)
         /\ Ascending(v) /\ s \in Range(v) => BinarySearch(v, s)
<1> DEFINE N == Len(v)
           r == Ranges(v, s)
           T == {k \in 0 .. N : Around(v, s, r[k], k)}
<1>1. N \in Nat /\ r[0] = [first |-> 1, len |-> N] /\ DOMAIN v = 1 .. N
  BY RangesFollow
<1>2. \A k \in 1 .. N : r[k] = Halved(v, s, r[k - 1])
  BY RangesFollow
<1>3. 0 \in T
  <2>1. r[0].first = 1 /\ r[0].len = N
    BY <1>1
  <2>2. QED
    BY <1>1, <2>1 DEF Around
<1> HIDE DEF r
<1>4. ASSUME NEW k \in 0 .. N - 1, k \in T
      PROVE  k + 1 \in T
  <2>1. k + 1 \in 1 .. N /\ (k + 1) - 1 = k
    BY <1>1
  <2>2. r[k + 1] = Halved(v, s, r[k])
    BY <1>2, <2>1
  <2>3. Around(v, s, r[k], (k + 1) - 1)
    BY <1>4, <2>1
  <2>4. Around(v, s, Halved(v, s, r[k]), k + 1)
    <3>1. k + 1 \in 1 .. Len(v)
      BY <2>1
    <3>2. QED
      BY <2>3, <3>1, HalvedKeeps
  <2>5. QED
    BY <2>1, <2>2, <2>4
<1>5. \A k \in 0 .. N : k \in T
  <2> HIDE DEF T, N
  <2> QED
    BY <1>1, <1>3, <1>4, InductionUpTo
<1>6. Around(v, s, r[N], N)
  BY <1>1, <1>5
<1> DEFINE at == r[N].first
<1>7. at \in 1 .. N + 1 /\ r[N].len = 0
  BY <1>1, <1>6 DEF Around
<1>8. /\ at <= N => ~ v[at] < s
      /\ Ascending(v) => \A i \in 1 .. at - 1 : v[i] < s
  <2>1. at + r[N].len = at
    BY <1>1, <1>7
  <2>2. QED
    BY <1>6, <2>1 DEF Around
<1>9. BinarySearch(v, s) <=> at <= N /\ ~ s < v[at]
  BY DEF BinarySearch, r
<1> HIDE DEF at
<1>10. at <= N => at \in 1 .. N /\ v[at] \in Int
  BY <1>1, <1>7
<1>11. BinarySearch(v, s) => s \in Range(v)
  BY <1>1, <1>8, <1>9, <1>10 DEF Range
<1>12. ASSUME Ascending(v), s \in Range(v)
       PROVE  BinarySearch(v, s)
  <2>1. PICK i \in 1 .. N : v[i] = s
    BY <1>1, <1>12 DEF Range
  <2>2. ~ i < at
    BY <1>1, <1>7, <1>8, <1>12, <2>1
  <2>3. at <= N
    BY <1>1, <1>7, <2>1, <2>2
  <2>4. at = i \/ v[at] < v[i]
    BY <1>1, <1>7, <1>12, <2>1, <2>2, <2>3 DEF Ascending
  <2>5. QED
    BY <1>9, <1>10, <2>1, <2>3, <2>4
<1>13. QED
  BY <1>11, <1>12
-----------------------------------------------------------------------------
Built == pc \notin {"new", "fill", "count"}

BuildType ==
  /\ pc \in {"new", "fill", "count", "idle", "slice", "unrank", "rank"}
  /\ dfa \in Dfas
  /\ pc # "new" => Tables
  /\ pc \notin {"new", "fill"} => Counts
  /\ pc = "fill" => /\ len \in 1 .. MaxLen + 1
                    /\ q \in States(dfa)
                    /\ cursor \in Symbols(dfa)
                    /\ len = MaxLen + 1 => q = 0 /\ cursor = 0
  /\ pc = "count" => /\ len \in 0 .. MaxLen + 1
                     /\ pos \in 0 .. len + 1
                     /\ len = MaxLen + 1 => pos = 0
                     /\ acc \in Nat

(* The transitions of (s, l) that PopulateCachedTable has added: all those *)
(* before the symbol Reached(s, l).                                        *)
Reached(s, l) ==
  IF pc # "fill" \/ l < len \/ (l = len /\ s < q) THEN dfa.symbols
  ELSE IF l = len /\ s = q THEN cursor
  ELSE 0

(* The condition of the shortcuts, as it is meant.                         *)
Looping(s) ==
  s \in FinalStates(dfa) /\ Dense(s) /\ dfa.symbols = Base /\ Delta(s, 0) = s

(* What PopulateCachedTable keeps true of one entry of the table.          *)
EntryInv(s, l) ==
  /\ below[s][l][0] = 0
  /\ \A a \in 0 .. Reached(s, l) - 1 :
       below[s][l][a + 1] = below[s][l][a] + CachedTable[Delta(s, a)][l - 1]
  /\ CachedTable[s][l] = below[s][l][Reached(s, l)]
  /\ Dense(s) =>
       \A a \in 0 .. Reached(s, l) :
         below[s][l][a] = a * CachedTable[Delta(s, 0)][l - 1]
  /\ Looping(s) /\ Reached(s, l) = dfa.symbols =>
       CachedTable[s][l] = Weight[l]

TableInv ==
  pc # "new" =>
    \A s \in States(dfa) :
      /\ CachedTable[s][0] = IF s \in FinalStates(dfa) THEN 1 ELSE 0
      /\ below[s][0][0] = 0
      /\ \A l \in 1 .. MaxLen : EntryInv(s, l)

(* The lengths whose count is stored.                                      *)
Counted == IF pc = "count" THEN len ELSE MaxLen + 1

UpTo(m) == CachedTable[dfa.start][m] + IF m = 0 THEN 0 ELSE inclusive[m - 1]

CountInv ==
  pc \notin {"new", "fill"} =>
    /\ \A m \in 0 .. Counted - 1 : inclusive[m] = UpTo(m)
    /\ \A k, m \in 0 .. Counted - 1 : k <= m => inclusive[k] <= inclusive[m]
    /\ pc = "count" =>
         acc = IF pos = 0 THEN 0
               ELSE IF pos <= len THEN inclusive[pos - 1]
               ELSE UpTo(len)

BuildInv == BuildType /\ TableInv /\ CountInv
-----------------------------------------------------------------------------
USE DEF Lens

LEMMA WeightFacts ==
  /\ Weight \in [Nat -> Nat \ {0}]
  /\ Weight[0] = 1
  /\ \A k \in Nat : Weight[k + 1] = Base * Weight[k]
<1>1. IsPowers(Weight, Base)
  BY BoundAssumption, PowersSteps DEF Weight
<1>2. \A k \in Nat : k + 1 \in Nat \ {0} /\ (k + 1) - 1 = k
  OBVIOUS
<1>3. QED
  BY <1>1, <1>2 DEF IsPowers

LEMMA DfaFacts ==
  ASSUME BuildType
  PROVE  /\ IsDfa(dfa)
         /\ dfa.states \in Nat /\ dfa.symbols \in Nat /\ dfa.symbols > 0
         /\ 0 \in States(dfa) /\ 0 \in Symbols(dfa)
         /\ dfa.start \in States(dfa)
         /\ \A s \in States(dfa) : \A a \in Symbols(dfa) : Delta(s, a) \in States(dfa)
         /\ \A s \in States(dfa) : s \in Int
         /\ \A a \in Symbols(dfa) : a \in Int
<1>1. IsDfa(dfa)
  BY DfaAssumption DEF BuildType
<1>2. /\ dfa.states \in Nat /\ dfa.symbols \in Nat /\ dfa.symbols > 0
      /\ 0 \in States(dfa) /\ 0 \in Symbols(dfa)
      /\ dfa.start \in States(dfa)
      /\ \A s \in States(dfa) : s \in Int
      /\ \A a \in Symbols(dfa) : a \in Int
  BY <1>1, BoundAssumption DEF IsDfa, States, Symbols
<1>3. \A s \in States(dfa) : \A a \in Symbols(dfa) : Delta(s, a) \in States(dfa)
  BY <1>1 DEF IsDfa, Delta
<1>4. QED
  BY <1>1, <1>2, <1>3

(* One step of PopulateCachedTable: where it was and where it goes.        *)
LEMMA NextEntryFacts ==
  ASSUME BuildType, pc = "fill", len <= MaxLen, NextEntry
  PROVE  /\ len' \in 1 .. MaxLen + 1
         /\ q' \in States(dfa)
         /\ cursor' \in Symbols(dfa)
         /\ len' = MaxLen + 1 => q' = 0 /\ cursor' = 0
<1>1. /\ dfa.states \in Nat /\ dfa.symbols \in Nat /\ dfa.symbols > 0
      /\ MaxLen \in Nat /\ len \in 1 .. MaxLen
      /\ q \in 0 .. dfa.states - 1 /\ cursor \in 0 .. dfa.symbols - 1
  BY DfaFacts, BoundAssumption DEF BuildType, States, Symbols
<1>2. QED
  BY <1>1 DEF NextEntry, States, Symbols

(* What one step of PopulateCachedTable does to the tables and to Reached. *)
LEMMA FillEntryEffect ==
  ASSUME BuildType, FillEntry
  PROVE  /\ pc = "fill" /\ pc' = "fill" /\ dfa' = dfa /\ len \in 1 .. MaxLen
         /\ q \in States(dfa) /\ cursor \in Symbols(dfa)
         /\ Tables /\ Tables'
         /\ \A s \in States(dfa) : \A l \in Lens :
              CachedTable'[s][l] = IF s = q /\ l = len THEN Entry(q, len, cursor)
                                   ELSE CachedTable[s][l]
         /\ \A s \in States(dfa) : \A l \in Lens : \A a \in 0 .. dfa.symbols :
              below'[s][l][a] = IF s = q /\ l = len /\ a = cursor + 1
                                  THEN Entry(q, len, cursor)
                                ELSE below[s][l][a]
         /\ \A s \in States(dfa) : \A l \in 1 .. MaxLen :
              Reached(s, l)' = IF s = q /\ l = len THEN cursor + 1 ELSE Reached(s, l)
<1>1. /\ pc = "fill" /\ pc' = "fill" /\ dfa' = dfa /\ len \in 1 .. MaxLen
      /\ q \in States(dfa) /\ cursor \in Symbols(dfa) /\ MaxLen \in Nat
      /\ Tables
  BY BoundAssumption DEF FillEntry, BuildType
<1>2. Delta(q, cursor) \in States(dfa) /\ len - 1 \in Lens /\ len \in Lens
  BY <1>1, DfaFacts
<1>3. Entry(q, len, cursor) \in Nat
  BY <1>1, <1>2 DEF Entry, Tables
<1>4. /\ CachedTable' = [CachedTable EXCEPT ![q][len] = Entry(q, len, cursor)]
      /\ below' = [below EXCEPT ![q][len][cursor + 1] = Entry(q, len, cursor)]
      /\ NextEntry
  BY DEF FillEntry
<1>5. cursor + 1 \in 0 .. dfa.symbols
  BY <1>1, DfaFacts DEF Symbols
<1>6. Tables'
  BY <1>1, <1>2, <1>3, <1>4, <1>5 DEF Tables
<1>7. \A s \in States(dfa) : \A l \in Lens :
        CachedTable'[s][l] = IF s = q /\ l = len THEN Entry(q, len, cursor)
                             ELSE CachedTable[s][l]
  BY <1>1, <1>2, <1>3, <1>4 DEF Tables
<1>8. ASSUME NEW s \in States(dfa), NEW l \in Lens, NEW a \in 0 .. dfa.symbols
      PROVE  below'[s][l][a] = IF s = q /\ l = len /\ a = cursor + 1
                                 THEN Entry(q, len, cursor)
                               ELSE below[s][l][a]
  <2>1. below'[s] = IF s = q THEN [below[q] EXCEPT ![len][cursor + 1] = Entry(q, len, cursor)]
                    ELSE below[s]
    BY <1>1, <1>4 DEF Tables
  <2>2. below[s] \in [Lens -> [0 .. dfa.symbols -> Nat]]
    BY <1>1 DEF Tables
  <2>3. CASE s = q /\ l = len
    <3>1. below'[s][l] = [below[s][l] EXCEPT ![cursor + 1] = Entry(q, len, cursor)]
      BY <2>1, <2>2, <2>3
    <3>2. below[s][l] \in [0 .. dfa.symbols -> Nat]
      BY <2>2
    <3>3. QED
      BY <2>3, <3>1, <3>2
  <2>4. CASE s # q \/ l # len
    BY <2>1, <2>2, <2>4
  <2>5. QED
    BY <2>3, <2>4
<1>9. ASSUME NEW s \in States(dfa), NEW l \in 1 .. MaxLen
      PROVE  Reached(s, l)' = IF s = q /\ l = len THEN cursor + 1 ELSE Reached(s, l)
  BY <1>1, <1>4, DfaFacts DEF Reached, NextEntry, States, Symbols
<1>10. QED
  BY <1>1, <1>6, <1>7, <1>8, <1>9

LEMMA FillEntryOther ==
  ASSUME BuildInv, FillEntry,
         NEW s \in States(dfa), NEW l \in 1 .. MaxLen, s # q \/ l # len
  PROVE  EntryInv(s, l)'
<1>1. BuildType /\ BuildInv /\ pc = "fill"
  BY FillEntryEffect DEF BuildInv
<1>2. EntryInv(s, l)
  BY <1>1 DEF BuildInv, TableInv
<1>3. /\ MaxLen \in Nat /\ l \in Lens /\ l - 1 \in Lens
      /\ dfa.symbols \in Nat /\ dfa.symbols > 0 /\ 0 \in Symbols(dfa)
      /\ \A a \in Symbols(dfa) : Delta(s, a) \in States(dfa)
      /\ len \in 1 .. MaxLen /\ q \in States(dfa) /\ cursor \in Symbols(dfa)
      /\ dfa' = dfa
  <2>1. MaxLen \in Nat /\ l \in Lens /\ l - 1 \in Lens
    BY BoundAssumption
  <2>2. /\ dfa.symbols \in Nat /\ dfa.symbols > 0 /\ 0 \in Symbols(dfa)
        /\ \A a \in Symbols(dfa) : Delta(s, a) \in States(dfa)
    BY <1>1, DfaFacts
  <2>3. /\ len \in 1 .. MaxLen /\ q \in States(dfa) /\ cursor \in Symbols(dfa)
        /\ dfa' = dfa
    BY <1>1, FillEntryEffect
  <2>4. QED
    BY <2>1, <2>2, <2>3
<1>4. Reached(s, l) \in 0 .. dfa.symbols
  BY <1>1, <1>3 DEF Reached, Symbols
<1>5. /\ Reached(s, l)' = Reached(s, l)
      /\ \A a \in 0 .. dfa.symbols : below'[s][l][a] = below[s][l][a]
      /\ CachedTable'[s][l] = CachedTable[s][l]
  BY <1>1, <1>3, FillEntryEffect
<1>6. CASE l = len + 1
  <2>1. Reached(s, l) = 0
    BY <1>1, <1>3, <1>6, DfaFacts DEF Reached, States
  <2>2. CachedTable'[Delta(s, 0)][l - 1] \in Nat
    <3>1. Tables'
      BY <1>1, FillEntryEffect
    <3>2. QED
      BY <3>1, <1>3 DEF Tables, States
  <2>3. QED
    BY <1>2, <1>3, <1>5, <2>1, <2>2
    DEF EntryInv, Dense, Delta, Looping, FinalStates, Symbols
<1>7. CASE l # len + 1
  <2>1. \A t \in States(dfa) : CachedTable'[t][l - 1] = CachedTable[t][l - 1]
    <3>1. l - 1 # len
      BY <1>3, <1>7
    <3>2. QED
      BY <1>1, <1>3, <3>1, FillEntryEffect
  <2>2. \A a \in Symbols(dfa) :
          CachedTable'[Delta(s, a)][l - 1] = CachedTable[Delta(s, a)][l - 1]
    BY <1>3, <2>1
  <2>3. \A a \in 0 .. Reached(s, l) - 1 : a \in Symbols(dfa)
    BY <1>3, <1>4 DEF Symbols
  <2>4. QED
    BY <1>2, <1>3, <1>4, <1>5, <2>2, <2>3
    DEF EntryInv, Dense, Delta, Looping, FinalStates, Symbols
<1>8. QED
  BY <1>6, <1>7

LEMMA FillEntryThis ==
  ASSUME BuildInv, FillEntry, NEW s, NEW l, s = q, l = len
  PROVE  EntryInv(s, l)'
<1> DEFINE x(a) == CachedTable[Delta(s, a)][l - 1]
<1>1. BuildType /\ BuildInv /\ pc = "fill"
  BY FillEntryEffect DEF BuildInv
<1>2. /\ MaxLen \in Nat /\ Base \in Nat /\ l \in 1 .. MaxLen /\ l - 1 \in Lens
      /\ s \in States(dfa)
      /\ dfa.symbols \in Nat /\ dfa.symbols > 0 /\ 0 \in Symbols(dfa)
      /\ \A a \in Symbols(dfa) : Delta(s, a) \in States(dfa)
      /\ cursor \in Symbols(dfa) /\ cursor \in 0 .. dfa.symbols - 1
      /\ dfa' = dfa
  <2>1. /\ l \in 1 .. MaxLen /\ s \in States(dfa) /\ cursor \in Symbols(dfa)
        /\ dfa' = dfa
    BY <1>1, FillEntryEffect
  <2>2. MaxLen \in Nat /\ Base \in Nat /\ l - 1 \in Lens
    BY <2>1, BoundAssumption
  <2>3. /\ dfa.symbols \in Nat /\ dfa.symbols > 0 /\ 0 \in Symbols(dfa)
        /\ \A a \in Symbols(dfa) : Delta(s, a) \in States(dfa)
    BY <1>1, <2>1, DfaFacts
  <2>4. cursor \in 0 .. dfa.symbols - 1
    BY <2>1 DEF Symbols
  <2>5. QED
    BY <2>1, <2>2, <2>3, <2>4
<1>3. EntryInv(s, l) /\ Reached(s, l) = cursor
  BY <1>1, <1>2, DfaFacts DEF BuildInv, TableInv, Reached, States
<1>4. Tables
  BY <1>1, FillEntryEffect
<1>5. /\ \A a \in Symbols(dfa) : x(a) \in Nat
      /\ CachedTable[s][l] \in Nat
      /\ \A a \in 0 .. dfa.symbols : below[s][l][a] \in Nat
  <2>1. \A t \in States(dfa) : \A k \in Lens : CachedTable[t][k] \in Nat
    BY <1>4 DEF Tables
  <2>2. l \in Lens
    BY <1>2
  <2>3. below[s][l] \in [0 .. dfa.symbols -> Nat]
    BY <1>2, <1>4, <2>2 DEF Tables
  <2>4. QED
    BY <1>2, <2>1, <2>2, <2>3
<1>6. Reached(s, l)' = cursor + 1
  BY <1>1, <1>2, FillEntryEffect
<1>7. \A a \in Symbols(dfa) : CachedTable'[Delta(s, a)][l - 1] = x(a)
  <2>1. \A t \in States(dfa) : CachedTable'[t][l - 1] = CachedTable[t][l - 1]
    BY <1>1, <1>2, FillEntryEffect
  <2>2. QED
    BY <1>2, <2>1
<1>8. /\ CachedTable'[s][l] = CachedTable[s][l] + x(cursor)
      /\ below'[s][l][cursor + 1] = CachedTable[s][l] + x(cursor)
      /\ \A a \in 0 .. cursor : below'[s][l][a] = below[s][l][a]
  <2>1. Entry(q, len, cursor) = CachedTable[s][l] + x(cursor)
    BY DEF Entry
  <2>2. \A a \in 0 .. dfa.symbols :
          below'[s][l][a] = IF a = cursor + 1 THEN Entry(q, len, cursor) ELSE below[s][l][a]
    BY <1>1, <1>2, FillEntryEffect
  <2>3. CachedTable'[s][l] = Entry(q, len, cursor)
    BY <1>1, <1>2, FillEntryEffect
  <2>4. QED
    BY <1>2, <2>1, <2>2, <2>3
<1>9. CachedTable[s][l] = below[s][l][cursor]
  BY <1>3 DEF EntryInv
<1>10. below'[s][l][0] = 0
  BY <1>2, <1>3, <1>8 DEF EntryInv
<1>11. ASSUME NEW a \in 0 .. cursor
       PROVE  below'[s][l][a + 1] = below'[s][l][a] + CachedTable'[Delta(s, a)][l - 1]
  <2>1. CASE a = cursor
    BY <1>2, <1>7, <1>8, <1>9, <2>1
  <2>2. CASE a \in 0 .. cursor - 1
    <3>1. a \in Symbols(dfa) /\ a \in 0 .. cursor /\ a + 1 \in 0 .. cursor
      BY <1>2, <2>2 DEF Symbols
    <3>2. below[s][l][a + 1] = below[s][l][a] + x(a)
      BY <1>3, <2>2 DEF EntryInv
    <3>3. QED
      BY <1>7, <1>8, <3>1, <3>2
  <2>3. QED
    BY <1>2, <2>1, <2>2
<1>12. ASSUME Dense(s), NEW a \in 0 .. cursor + 1
       PROVE  below'[s][l][a] = a * x(0)
  <2>1. x(cursor) = x(0)
    BY <1>2, <1>12 DEF Dense
  <2>2. \A b \in 0 .. cursor : below[s][l][b] = b * x(0)
    BY <1>3, <1>12 DEF EntryInv
  <2>3. CASE a = cursor + 1
    <3>1. below'[s][l][a] = cursor * x(0) + x(0)
      BY <1>2, <1>8, <1>9, <2>1, <2>2, <2>3
    <3>2. x(0) \in Nat /\ cursor \in Nat
      BY <1>2, <1>5
    <3>3. cursor * x(0) + x(0) = (cursor + 1) * x(0)
      BY <3>2
    <3>4. QED
      BY <2>3, <3>1, <3>3
  <2>4. CASE a \in 0 .. cursor
    BY <1>8, <2>2, <2>4
  <2>5. QED
    BY <1>2, <2>3, <2>4
<1>13. ASSUME Looping(s), cursor + 1 = dfa.symbols
       PROVE  CachedTable'[s][l] = Weight[l]
  <2>1. Dense(s) /\ Delta(s, 0) = s /\ dfa.symbols = Base /\ s \in FinalStates(dfa)
    BY <1>13 DEF Looping
  <2>2. CachedTable'[s][l] = Base * CachedTable[s][l - 1]
    BY <1>2, <1>8, <1>12, <1>13, <2>1
  <2>3. CachedTable[s][l - 1] = Weight[l - 1]
    <3>1. CASE l = 1
      BY <1>1, <1>2, <2>1, <3>1, WeightFacts DEF BuildInv, TableInv
    <3>2. CASE l > 1
      <4>1. l - 1 \in 1 .. MaxLen /\ Reached(s, l - 1) = dfa.symbols
        BY <1>1, <1>2, <3>2 DEF Reached
      <4>2. EntryInv(s, l - 1)
        BY <1>1, <1>2, <4>1 DEF BuildInv, TableInv
      <4>3. QED
        BY <1>13, <4>1, <4>2 DEF EntryInv
    <3>3. QED
      BY <1>2, <3>1, <3>2
  <2>4. Weight[l] = Base * Weight[l - 1]
    <3>1. l - 1 \in 0 .. MaxLen /\ (l - 1) + 1 = l
      BY <1>2
    <3>2. QED
      BY <3>1, WeightFacts
  <2>5. QED
    BY <2>2, <2>3, <2>4
<1>14. /\ Delta(s, 0)' = Delta(s, 0) /\ \A a \in Symbols(dfa) : Delta(s, a)' = Delta(s, a)
       /\ Dense(s)' = Dense(s) /\ Looping(s)' = Looping(s)
  BY <1>2 DEF Delta, Dense, Looping, FinalStates
<1>15. QED
  BY <1>2, <1>6, <1>7, <1>8, <1>10, <1>11, <1>12, <1>13, <1>14 DEF EntryInv, Delta, Symbols

LEMMA FillEntryBuildInv ==
  ASSUME BuildInv, FillEntry
  PROVE  BuildInv'
<1>1. BuildType /\ TableInv
  BY DEF BuildInv
<1>2. /\ pc = "fill" /\ pc' = "fill" /\ dfa' = dfa /\ len \in 1 .. MaxLen
      /\ Tables'
      /\ \A s \in States(dfa) : \A l \in Lens :
           CachedTable'[s][l] = IF s = q /\ l = len THEN Entry(q, len, cursor)
                                ELSE CachedTable[s][l]
  BY <1>1, FillEntryEffect
<1>3. BuildType'
  <2>1. NextEntry
    BY DEF FillEntry
  <2>2. /\ len' \in 1 .. MaxLen + 1
        /\ q' \in States(dfa)
        /\ cursor' \in Symbols(dfa)
        /\ len' = MaxLen + 1 => q' = 0 /\ cursor' = 0
    BY <1>1, <1>2, <2>1, NextEntryFacts
  <2>3. QED
    BY <1>1, <1>2, <2>2 DEF BuildType
<1>4. TableInv'
  <2>1. ASSUME NEW s \in States(dfa)
        PROVE  /\ CachedTable'[s][0] = IF s \in FinalStates(dfa) THEN 1 ELSE 0
               /\ below'[s][0][0] = 0
    <3>1. 0 \in Lens /\ len # 0
      BY <1>2, BoundAssumption
    <3>2. CachedTable'[s][0] = CachedTable[s][0]
      BY <1>2, <3>1
    <3>3. below'[s][0][0] = below[s][0][0]
      <4>1. 0 \in 0 .. dfa.symbols
        BY <1>1, DfaFacts
      <4>2. QED
        BY <1>1, <3>1, <4>1, FillEntryEffect
    <3>4. QED
      BY <1>1, <1>2, <3>2, <3>3 DEF TableInv
  <2>2. ASSUME NEW s \in States(dfa), NEW l \in 1 .. MaxLen
        PROVE  EntryInv(s, l)'
    BY FillEntryOther, FillEntryThis
  <2>3. QED
    BY <1>2, <2>1, <2>2 DEF TableInv
<1>5. CountInv'
  BY <1>2 DEF CountInv
<1>6. QED
  BY <1>3, <1>4, <1>5 DEF BuildInv

LEMMA SetLanguageBuildInv ==
  ASSUME BuildInv, SetLanguage
  PROVE  BuildInv'
<1>1. BuildType /\ pc = "new" /\ pc' = "fill" /\ dfa' = dfa
      /\ len' = 1 /\ q' = 0 /\ cursor' = 0
  BY DEF BuildInv, SetLanguage
<1>2. /\ dfa.symbols \in Nat /\ dfa.symbols > 0 /\ MaxLen \in Nat /\ Base \in Nat
      /\ 0 \in States(dfa) /\ 0 \in Symbols(dfa)
  BY <1>1, DfaFacts, BoundAssumption
<1>3. \A s \in States(dfa) : \A a \in Symbols(dfa) : Delta(s, a) \in States(dfa)
  BY <1>1, DfaFacts
<1>4. /\ \A s \in States(dfa) : \A l \in Lens :
           CachedTable'[s][l] = IF l = 0 /\ s \in FinalStates(dfa) THEN 1 ELSE 0
      /\ \A s \in States(dfa) : \A l \in Lens : \A a \in 0 .. dfa.symbols :
           below'[s][l][a] = 0
  BY DEF SetLanguage
<1>5. Tables'
  BY <1>1 DEF SetLanguage, Tables
<1>6. BuildType'
  BY <1>1, <1>2, <1>5 DEF BuildType
<1>7. ASSUME NEW s \in States(dfa), NEW l \in 1 .. MaxLen
      PROVE  EntryInv(s, l)'
  <2>1. Reached(s, l)' = 0
    BY <1>1, DfaFacts DEF Reached, States
  <2>2. CachedTable'[s][l] = 0 /\ below'[s][l][0] = 0
    BY <1>2, <1>4
  <2>3. CachedTable'[Delta(s, 0)][l - 1] \in Nat
    BY <1>2, <1>3, <1>4
  <2>4. QED
    BY <1>1, <1>2, <2>1, <2>2, <2>3 DEF EntryInv, Delta
<1>8. TableInv'
  <2>1. ASSUME NEW s \in States(dfa)
        PROVE  /\ CachedTable'[s][0] = IF s \in FinalStates(dfa) THEN 1 ELSE 0
               /\ below'[s][0][0] = 0
    BY <1>2, <1>4
  <2>2. QED
    BY <1>1, <1>7, <2>1 DEF TableInv
<1>9. CountInv'
  BY <1>1 DEF CountInv
<1>10. QED
  BY <1>6, <1>8, <1>9 DEF BuildInv

LEMMA FillDoneBuildInv ==
  ASSUME BuildInv, FillDone
  PROVE  BuildInv'
<1>1. /\ BuildType /\ TableInv /\ pc = "fill" /\ pc' = "count" /\ len > MaxLen
      /\ dfa' = dfa /\ CachedTable' = CachedTable /\ below' = below
      /\ len' = 0 /\ pos' = 0 /\ acc' = 0
      /\ inclusive' = [l \in Lens |-> 0] /\ exclusive' = [l \in Lens |-> 0]
  BY DEF BuildInv, FillDone
<1>2. MaxLen \in Nat /\ len = MaxLen + 1 /\ q \in States(dfa) /\ cursor \in Symbols(dfa)
  BY <1>1, BoundAssumption DEF BuildType
<1>3. BuildType'
  BY <1>1, <1>2 DEF BuildType, Tables, Counts
<1>4. ASSUME NEW s \in States(dfa), NEW l \in 1 .. MaxLen
      PROVE  EntryInv(s, l)'
  <2>1. Reached(s, l) = dfa.symbols /\ Reached(s, l)' = dfa.symbols
    BY <1>1, <1>2 DEF Reached
  <2>2. EntryInv(s, l)
    BY <1>1 DEF TableInv
  <2>3. QED
    BY <1>1, <2>1, <2>2 DEF EntryInv, Dense, Delta, Looping, FinalStates, Symbols
<1>5. TableInv'
  BY <1>1, <1>4 DEF TableInv
<1>6. CountInv'
  BY <1>1 DEF CountInv, Counted
<1>7. QED
  BY <1>3, <1>5, <1>6 DEF BuildInv

(* After PopulateCachedTable nothing touches the table.                    *)
LEMMA TableInvKept ==
  ASSUME TableInv, pc \notin {"new", "fill"}, pc' \notin {"new", "fill"},
         dfa' = dfa, CachedTable' = CachedTable, below' = below
  PROVE  TableInv'
<1>1. ASSUME NEW s \in States(dfa), NEW l \in 1 .. MaxLen
      PROVE  EntryInv(s, l)'
  <2>1. Reached(s, l) = dfa.symbols /\ Reached(s, l)' = dfa.symbols
    BY DEF Reached
  <2>2. EntryInv(s, l)
    BY DEF TableInv
  <2>3. QED
    BY <2>1, <2>2 DEF EntryInv, Dense, Delta, Looping, FinalStates, Symbols
<1>2. QED
  BY <1>1 DEF TableInv

LEMMA CountWordsBuildInv ==
  ASSUME BuildInv, CountWords
  PROVE  BuildInv'
<1>1. /\ BuildType /\ TableInv /\ CountInv /\ pc = "count" /\ pc' = "count"
      /\ len <= MaxLen /\ pos <= len /\ pos' = pos + 1 /\ len' = len
      /\ acc' = acc + CachedTable[dfa.start][pos]
      /\ dfa' = dfa /\ CachedTable' = CachedTable /\ below' = below
      /\ inclusive' = inclusive /\ exclusive' = exclusive
  BY DEF BuildInv, CountWords, lang
<1>2. /\ MaxLen \in Nat /\ len \in Lens /\ pos \in 0 .. len /\ pos \in Lens /\ acc \in Nat
      /\ dfa.start \in States(dfa) /\ Tables /\ Counts
  BY <1>1, BoundAssumption, DfaFacts DEF BuildType
<1>3. CachedTable[dfa.start][pos] \in Nat
  BY <1>2 DEF Tables
<1>4. BuildType'
  <2>1. Tables'
    BY <1>1, <1>2 DEF Tables
  <2>2. Counts'
    BY <1>1, <1>2, <1>3 DEF Counts
  <2>3. len' \in 0 .. MaxLen + 1 /\ pos' \in 0 .. len' + 1 /\ acc' \in Nat
    BY <1>1, <1>2, <1>3
  <2>4. len' = MaxLen + 1 => pos' = 0
    BY <1>1, <1>2
  <2>5. dfa' \in Dfas
    BY <1>1 DEF BuildType
  <2>6. QED
    BY <1>1, <2>1, <2>2, <2>3, <2>4, <2>5 DEF BuildType
<1>5. TableInv'
  BY <1>1, TableInvKept
<1>6. CountInv'
  <2>1. /\ \A m \in 0 .. len - 1 : inclusive[m] = UpTo(m)
        /\ \A k, m \in 0 .. len - 1 : k <= m => inclusive[k] <= inclusive[m]
    BY <1>1 DEF CountInv, Counted
  <2>2. acc' = IF pos' = 0 THEN 0
               ELSE IF pos' <= len THEN inclusive[pos' - 1]
               ELSE UpTo(len)
    <3>1. CASE pos = 0
      BY <1>1, <1>2, <1>3, <2>1, <3>1 DEF CountInv, UpTo
    <3>2. CASE pos # 0
      <4>1. acc = inclusive[pos - 1]
        BY <1>1, <1>2, <3>2 DEF CountInv
      <4>2. acc' = UpTo(pos)
        BY <1>1, <3>2, <4>1, <1>2, <1>3 DEF UpTo, Counts
      <4>3. pos < len => inclusive[pos] = UpTo(pos)
        BY <1>2, <2>1
      <4>4. QED
        BY <1>1, <1>2, <4>2, <4>3
    <3>3. QED
      BY <3>1, <3>2
  <2>3. \A m : UpTo(m)' = UpTo(m)
    BY <1>1 DEF UpTo
  <2>4. QED
    BY <1>1, <2>1, <2>2, <2>3 DEF CountInv, Counted, UpTo
<1>7. QED
  BY <1>4, <1>5, <1>6 DEF BuildInv

LEMMA StoreCountBuildInv ==
  ASSUME BuildInv, StoreCount
  PROVE  BuildInv'
<1>1. /\ BuildType /\ TableInv /\ CountInv /\ pc = "count" /\ pc' = "count"
      /\ len <= MaxLen /\ pos > len /\ pos' = 0 /\ len' = len + 1 /\ acc' = 0
      /\ dfa' = dfa /\ CachedTable' = CachedTable /\ below' = below
      /\ inclusive' = [inclusive EXCEPT ![len] = acc]
      /\ exclusive' = [exclusive EXCEPT ![len] = CachedTable[dfa.start][len]]
  BY DEF BuildInv, StoreCount
<1>2. /\ MaxLen \in Nat /\ len \in Lens /\ pos = len + 1 /\ acc \in Nat
      /\ dfa.start \in States(dfa) /\ Tables /\ Counts
  BY <1>1, BoundAssumption, DfaFacts DEF BuildType
<1>3. \A m \in Lens : CachedTable[dfa.start][m] \in Nat
  BY <1>2 DEF Tables
<1>4. BuildType'
  <2>1. Tables'
    BY <1>1, <1>2 DEF Tables
  <2>2. Counts'
    BY <1>1, <1>2, <1>3 DEF Counts
  <2>3. len' \in 0 .. MaxLen + 1 /\ pos' \in 0 .. len' + 1 /\ acc' \in Nat
    BY <1>1, <1>2, <1>3
  <2>4. len' = MaxLen + 1 => pos' = 0
    BY <1>1, <1>2
  <2>5. dfa' \in Dfas
    BY <1>1 DEF BuildType
  <2>6. QED
    BY <1>1, <2>1, <2>2, <2>3, <2>4, <2>5 DEF BuildType
<1>5. TableInv'
  BY <1>1, TableInvKept
<1>6. CountInv'
  <2>1. /\ \A m \in 0 .. len - 1 : inclusive[m] = UpTo(m)
        /\ \A k, m \in 0 .. len - 1 : k <= m => inclusive[k] <= inclusive[m]
        /\ acc = UpTo(len)
    BY <1>1, <1>2 DEF CountInv, Counted
  <2>2. /\ inclusive'[len] = acc
        /\ \A m \in 0 .. len - 1 : inclusive'[m] = inclusive[m]
    BY <1>1, <1>2 DEF Counts
  <2>3. \A m \in 0 .. len : UpTo(m)' = UpTo(m)
    BY <1>1, <1>2, <2>2 DEF UpTo
  <2>4. \A m \in 0 .. len : inclusive'[m] = UpTo(m)'
    BY <1>2, <2>1, <2>2, <2>3
  <2>5. \A k \in 0 .. len - 1 : inclusive[k] <= acc
    <3>1. CASE len = 0
      BY <3>1
    <3>2. CASE len > 0
      <4>1. acc = CachedTable[dfa.start][len] + inclusive[len - 1]
        BY <1>2, <2>1, <3>2 DEF UpTo
      <4>2. /\ CachedTable[dfa.start][len] \in Nat
            /\ \A k \in 0 .. len - 1 : inclusive[k] \in Nat /\ inclusive[k] <= inclusive[len - 1]
        BY <1>2, <1>3, <2>1, <3>2 DEF Counts
      <4>3. QED
        BY <1>2, <3>2, <4>1, <4>2
    <3>3. QED
      BY <1>2, <3>1, <3>2
  <2>6. \A k, m \in 0 .. len : k <= m => inclusive'[k] <= inclusive'[m]
    BY <1>2, <2>1, <2>2, <2>5
  <2>7. Counted' - 1 = len
    BY <1>1, <1>2 DEF Counted
  <2>8. QED
    BY <1>1, <2>4, <2>6, <2>7 DEF CountInv
<1>7. QED
  BY <1>4, <1>5, <1>6 DEF BuildInv

LEMMA SetLanguageReturnBuildInv ==
  ASSUME BuildInv, SetLanguageReturn
  PROVE  BuildInv'
<1>1. /\ BuildType /\ TableInv /\ CountInv /\ pc = "count" /\ pc' = "idle" /\ len > MaxLen
      /\ dfa' = dfa /\ CachedTable' = CachedTable /\ below' = below
      /\ inclusive' = inclusive /\ exclusive' = exclusive
  BY DEF BuildInv, SetLanguageReturn
<1>2. MaxLen \in Nat /\ len = MaxLen + 1
  BY <1>1, BoundAssumption DEF BuildType
<1>3. BuildType'
  BY <1>1 DEF BuildType, Tables, Counts
<1>4. TableInv'
  BY <1>1, TableInvKept
<1>5. CountInv'
  BY <1>1, <1>2 DEF CountInv, Counted, UpTo
<1>6. QED
  BY <1>3, <1>4, <1>5 DEF BuildInv

(* The walks leave what was built alone.                                   *)
LEMMA WalkBuildInv ==
  ASSUME BuildInv, Built, UNCHANGED lang,
         pc' \in {"idle", "slice", "unrank", "rank"}
  PROVE  BuildInv'
<1>1. /\ dfa' = dfa /\ CachedTable' = CachedTable /\ below' = below
      /\ inclusive' = inclusive /\ exclusive' = exclusive
      /\ pc \notin {"new", "fill", "count"}
  BY DEF lang, Built
<1>2. BuildType'
  BY <1>1 DEF BuildInv, BuildType, Tables, Counts
<1>3. TableInv'
  BY <1>1, TableInvKept DEF BuildInv
<1>4. CountInv'
  BY <1>1 DEF BuildInv, CountInv, Counted, UpTo
<1>5. QED
  BY <1>2, <1>3, <1>4 DEF BuildInv

Walk ==
  \/ UnrankStep \/ RankStep
  \/ \E r \in Ranks : CallUnrank(r)
  \/ \E w \in Words \cup {word} : CallRank(w)

LEMMA WalkFrame ==
  ASSUME Walk
  PROVE  /\ Built
         /\ UNCHANGED lang
         /\ pc' \in {"idle", "slice", "unrank", "rank"}
<1> USE DEF Built
<1>1. CASE UnrankStep
  BY <1>1 DEF UnrankStep, NextSlice, SliceThrows, FoundSlice, UnrankTail, UnrankDense,
              UnrankSkip, UnrankChoose, UnrankReturn, Append1, AppendByte
<1>2. CASE RankStep
  BY <1>2 DEF RankStep, RankUnknownSymbol, RankBeyondTable, RankTail, RankDense, RankAdd,
              RankNext, RankRejects, RankAccepts, RankBeyondCount, RankEnds, RankMove,
              InTail, TailMove
<1>3. CASE \E r \in Ranks : CallUnrank(r)
  BY <1>3 DEF CallUnrank
<1>4. CASE \E w \in Words \cup {word} : CallRank(w)
  BY <1>4 DEF CallRank
<1>5. QED
  BY <1>1, <1>2, <1>3, <1>4 DEF Walk

(* The tables hold, at every point of SetLanguage and ever after, what     *)
(* EntryInv and CountInv say of them.                                      *)
THEOREM TablesBuilt == Spec => []BuildInv
<1>1. Init => BuildInv
  BY DEF Init, BuildInv, BuildType, TableInv, CountInv
<1>2. BuildInv /\ [Next]_vars => BuildInv'
  <2> SUFFICES ASSUME BuildInv, [Next]_vars
               PROVE  BuildInv'
    OBVIOUS
  <2>1. CASE Build
    BY <2>1, SetLanguageBuildInv, FillEntryBuildInv, FillDoneBuildInv, CountWordsBuildInv,
       StoreCountBuildInv, SetLanguageReturnBuildInv DEF Build
  <2>2. CASE Walk
    BY <2>2, WalkFrame, WalkBuildInv
  <2>3. CASE UNCHANGED vars
    <3>1. BuildType'
      BY <2>3 DEF vars, BuildInv, BuildType, Tables, Counts
    <3>2. TableInv'
      BY <2>3 DEF vars, BuildInv, TableInv, EntryInv, Reached, Dense, Delta, Looping, FinalStates,
                   Symbols
    <3>3. CountInv'
      BY <2>3 DEF vars, BuildInv, CountInv, Counted, UpTo
    <3>4. QED
      BY <3>1, <3>2, <3>3 DEF BuildInv
  <2>4. QED
    BY <2>1, <2>2, <2>3 DEF Next, Step, Walk
<1>3. QED
  BY <1>1, <1>2, PTL DEF Spec
-----------------------------------------------------------------------------
(* The types of what the walks use.                                        *)
WalkType ==
  /\ usable \in BOOLEAN
  /\ len \in 0 .. MaxLen + 1
  /\ q \in States(dfa)
  /\ cursor \in Symbols(dfa)
  /\ acc \in Nat
  /\ n \in Nat
  /\ pos \in Nat
  /\ c \in Nat
  /\ word \in Seq(0 .. Base - 1) /\ Len(word) <= MaxLen + 2
  /\ indices \in Seq(0 .. Base) /\ Len(indices) = Len(word)
  /\ final_state_loop \in BOOLEAN
  /\ rank \in Nat
  /\ op \in {"none", "Unrank", "Rank"}
  /\ ret \in {"none", "true", "false", "threw"}
  /\ asked \in Nat \cup {NoRank}
  /\ trail \in Seq(Positions)

InLanguage(r) == inclusive[0] <= r /\ r < inclusive[MaxLen]

(* Unrank looks for the length: the shorter ones are behind it.            *)
SliceInv ==
  pc = "slice" =>
    /\ op = "Unrank" /\ asked \in Nat /\ c = asked
    /\ n < Wrap
    /\ word = << >> /\ indices = << >>
    /\ \/ asked < inclusive[0]
       \/ n \in 1 .. MaxLen + 1 /\ asked >= inclusive[n - 1]
       \/ n \notin 1 .. MaxLen + 1 /\ asked >= inclusive[MaxLen]

(* The symbol at j of word took Unrank from the j-th point of the trail to *)
(* the next: it left out the words that continue with a smaller symbol.    *)
Hop(j) ==
  /\ indices[j] \in Symbols(dfa)
  /\ trail[j].c = below[trail[j].q][n - j + 1][indices[j]] + trail[j + 1].c
  /\ trail[j + 1].q = Delta(trail[j].q, indices[j])

(* The first m symbols of the word for asked are known.                    *)
Walked(m) ==
  /\ asked \in Nat /\ InLanguage(asked)
  /\ n \in 1 .. MaxLen
  /\ asked >= inclusive[n - 1]
  /\ Len(word) = m /\ Len(trail) = m + 1
  /\ trail[1].q = dfa.start /\ trail[1].c = asked - inclusive[n - 1]
  /\ \A j \in 1 .. m : Hop(j)

(* The whole word is known, and nothing is left of the rank.               *)
Unranked ==
  /\ Walked(n)
  /\ trail[n + 1].q \in FinalStates(dfa) /\ trail[n + 1].c = 0

UnrankInv ==
  pc = "unrank" =>
    /\ op = "Unrank"
    /\ pos \in 1 .. n + 1
    /\ Walked(pos - 1)
    /\ trail[pos].q = q
    /\ trail[pos].c = c + below[q][n - pos + 1][cursor]
    /\ trail[pos].c < CachedTable[q][n - pos + 1]
    /\ Dense(q) \/ pos > n => cursor = 0

UnrankReturned ==
  pc = "idle" /\ op = "Unrank" =>
    /\ asked \in Nat
    /\ ~InLanguage(asked) => ret = "threw"
    /\ InLanguage(asked) =>
         /\ Unranked
         /\ ret = IF IsFinal(trail[n + 1].q) THEN "true" ELSE "false"

(* Rank follows the trail: what it has added and what was left to Unrank   *)
(* at the same position make up the whole.                                 *)
RankInv ==
  pc = "rank" =>
    /\ op = "Rank"
    /\ n = Len(word)
    /\ pos \in 1 .. n + 1
    /\ cursor = 0 \/ (pos <= n /\ cursor <= indices[pos] /\ ~Dense(q))
    /\ final_state_loop => FinalStateLoop(q)
    /\ asked # NoRank /\ OneToOne =>
         /\ Unranked /\ IsFinal(trail[n + 1].q)
         /\ q = trail[pos].q
         /\ rank + trail[pos].c = trail[1].c + below[q][n - pos + 1][cursor]

Ranked ==
  pc = "idle" /\ op = "Rank" /\ asked # NoRank /\ OneToOne => ret = "true" /\ rank = asked

(* The bytes of a word and its symbols.                                    *)
Spelled ==
  /\ op = "Unrank" /\ OneToOne => \A i \in 1 .. Len(word) : word[i] = dfa.sigma[indices[i]]
  /\ op = "Rank" => indices = Indices(word)

WalkInv ==
  /\ WalkType
  /\ SliceInv
  /\ UnrankInv
  /\ UnrankReturned
  /\ RankInv
  /\ Ranked
  /\ Spelled
  /\ ~Built => op = "none"
-----------------------------------------------------------------------------
LEMMA DivFacts ==
  ASSUME NEW x \in Nat, NEW w \in Nat, w > 0, NEW b \in Nat, x < b * w
  PROVE  \E d \in 0 .. b - 1, m \in 0 .. w - 1 :
           x \div w = d /\ x % w = m /\ x = d * w + m
<1>1. PICK d \in Int, m \in 0 .. w - 1 :
        d = x \div w /\ m = x % w /\ m = x - w * d
  <2>1. x \div w \in Int
    OBVIOUS
  <2>2. x % w \in 0 .. w - 1
    OBVIOUS
  <2>3. x % w = x - w * (x \div w)
    OBVIOUS
  <2>4. QED
    BY <2>1, <2>2, <2>3
<1>2. m = x - w * d
  BY <1>1
<1>3. x = d * w + m
  BY <1>2
<1>4. d >= 0
  <2>1. ASSUME d < 0
        PROVE  FALSE
    <3>1. d * w <= -w
      BY <2>1
    <3>2. QED
      BY <1>3, <3>1
  <2>2. QED
    BY <2>1
<1>5. d < b
  <2>1. ASSUME d >= b
        PROVE  FALSE
    <3>1. d * w >= b * w
      BY <2>1
    <3>2. QED
      BY <1>3, <3>1
  <2>2. QED
    BY <2>1
<1>6. d \in 0 .. b - 1
  BY <1>4, <1>5
<1>7. QED
  BY <1>1, <1>3, <1>6

(* What is asked of the automaton does not change under the walks.         *)
LEMMA SameDfa ==
  ASSUME dfa' = dfa, usable' = usable
  PROVE  /\ States(dfa)' = States(dfa) /\ Symbols(dfa)' = Symbols(dfa)
         /\ Positions' = Positions /\ FinalStates(dfa)' = FinalStates(dfa)
         /\ \A s, a : Delta(s, a)' = Delta(s, a)
         /\ \A s : Dense(s)' = Dense(s)
         /\ \A s : IsFinal(s)' = IsFinal(s)
         /\ \A s : FinalStateLoop(s)' = FinalStateLoop(s)
         /\ OneToOne' = OneToOne
         /\ \A w : Indices(w)' = Indices(w)
BY DEF States, Symbols, Positions, FinalStates, Delta, Dense, IsFinal, FinalStateLoop, OneToOne,
       Indices

(* The search finds only final states, and in sorted ones all of them.     *)
LEMMA IsFinalFacts ==
  ASSUME BuildType, NEW s \in States(dfa)
  PROVE  /\ IsFinal(s) => s \in FinalStates(dfa)
         /\ usable /\ s \in FinalStates(dfa) => IsFinal(s)
         /\ FinalStateLoop(s) => Looping(s)
         /\ usable /\ Looping(s) => FinalStateLoop(s)
<1>1. dfa.finals \in Seq(States(dfa)) /\ dfa.states \in Nat /\ States(dfa) \subseteq Int /\ s \in Int
  BY DfaFacts DEF IsDfa
<1>2. dfa.finals \in Seq(Int) /\ FinalStates(dfa) \in SUBSET States(dfa)
  BY <1>1 DEF FinalStates, Range
<1>3. IsFiniteSet(FinalStates(dfa)) /\ FinalStates(dfa) \in SUBSET Int
  <2>1. IsFiniteSet(States(dfa))
    BY <1>1, FS_Interval DEF States
  <2>2. IsFiniteSet(FinalStates(dfa))
    BY <1>2, <2>1, FS_Subset
  <2>3. QED
    BY <1>1, <1>2, <2>2
<1>4. PICK v : v = InOrder(FinalStates(dfa))
  OBVIOUS
<1>5. v \in Seq(FinalStates(dfa)) /\ Ascending(v) /\ Range(v) = FinalStates(dfa)
  BY <1>3, <1>4, InOrderFacts
<1>6. v \in Seq(Int)
  BY <1>3, <1>5
<1>7. BinarySearch(v, s) <=> s \in FinalStates(dfa)
  BY <1>1, <1>5, <1>6, BinarySearchFacts
<1>8. BinarySearch(dfa.finals, s) => s \in FinalStates(dfa)
  BY <1>1, <1>2, BinarySearchFacts DEF FinalStates
<1>9. IsFinal(s) => s \in FinalStates(dfa)
  BY <1>4, <1>7, <1>8 DEF IsFinal
<1>10. usable /\ s \in FinalStates(dfa) => IsFinal(s)
  BY <1>4, <1>7 DEF IsFinal
<1>11. QED
  BY <1>9, <1>10 DEF FinalStateLoop, Looping

(* If sigma_ is one to one, symbols can be read off the bytes; and if all  *)
(* bytes are symbols, each is its own index.                               *)
LEMMA OneToOneFacts ==
  ASSUME BuildType, OneToOne
  PROVE  /\ \A a \in Symbols(dfa) :
              /\ dfa.sigma[a] \in 0 .. Base - 1 /\ dfa.sigma[a] \in DOMAIN dfa.reverse
              /\ dfa.reverse[dfa.sigma[a]] = a
         /\ dfa.symbols = Base =>
              /\ Symbols(dfa) = 0 .. Base - 1
              /\ \A b \in 0 .. Base - 1 :
                   dfa.sigma[b] = b /\ b \in DOMAIN dfa.reverse /\ dfa.reverse[b] = b
<1>1. IsDfa(dfa)
  BY DfaFacts
<1>2. QED
  BY <1>1 DEF IsDfa, OneToOne, Symbols

(* What Rank reads of a word that is spelled by sigma_.                    *)
LEMMA IndicesOf ==
  ASSUME BuildType, WalkType, OneToOne, \A i \in 1 .. Len(word) : word[i] = dfa.sigma[indices[i]],
         \A i \in 1 .. Len(word) : indices[i] \in Symbols(dfa)
  PROVE  Indices(word) = indices
<1>1. PICK N \in Nat : N = Len(word)
  BY DEF WalkType
<1>2. indices = [i \in 1 .. N |-> indices[i]]
  BY <1>1 DEF WalkType
<1>3. \A i \in 1 .. N : word[i] \in DOMAIN dfa.reverse /\ dfa.reverse[word[i]] = indices[i]
  BY <1>1, OneToOneFacts
<1>4. QED
  BY <1>1, <1>2, <1>3 DEF Indices

LEMMA IndicesType ==
  ASSUME BuildType, NEW w \in Seq(0 .. Base - 1)
  PROVE  Indices(w) \in Seq(0 .. Base) /\ Len(Indices(w)) = Len(w)
<1>1. PICK N \in Nat : N = Len(w)
  OBVIOUS
<1>2. \A b \in DOMAIN dfa.reverse : dfa.reverse[b] \in Symbols(dfa)
  BY DfaFacts DEF IsDfa
<1>3. dfa.symbols \in 0 .. Base /\ Symbols(dfa) \subseteq 0 .. Base
  BY DfaFacts, BoundAssumption DEF IsDfa, Symbols
<1>4. \A i \in 1 .. N : Indices(w)[i] \in 0 .. Base
  BY <1>1, <1>2, <1>3 DEF Indices
<1>5. Indices(w) = [i \in 1 .. N |-> Indices(w)[i]]
  BY <1>1 DEF Indices
<1>6. QED
  BY <1>1, <1>4, <1>5

LEMMA WrapFacts ==
  ASSUME NEW x \in Nat, NEW w \in Nat, x < w
  PROVE  (x + 1) % w = IF x + 1 = w THEN 0 ELSE x + 1
OBVIOUS

(* What finished tables hold.                                              *)
LEMMA TableFacts ==
  ASSUME BuildInv, Built, NEW s \in States(dfa)
  PROVE  /\ CachedTable[s][0] = IF s \in FinalStates(dfa) THEN 1 ELSE 0
         /\ \A l \in Lens : CachedTable[s][l] \in Nat
         /\ \A l \in Lens : below[s][l][0] = 0
         /\ \A l \in Lens : \A a \in 0 .. dfa.symbols : below[s][l][a] \in Nat
         /\ \A l \in 1 .. MaxLen : \A a \in Symbols(dfa) :
              below[s][l][a + 1] = below[s][l][a] + CachedTable[Delta(s, a)][l - 1]
         /\ \A l \in 1 .. MaxLen : CachedTable[s][l] = below[s][l][dfa.symbols]
         /\ Dense(s) =>
              \A l \in 1 .. MaxLen : \A a \in 0 .. dfa.symbols :
                below[s][l][a] = a * CachedTable[Delta(s, 0)][l - 1]
         /\ FinalStateLoop(s) => \A l \in Lens : CachedTable[s][l] = Weight[l]
<1>1. BuildType /\ TableInv /\ pc \notin {"new", "fill", "count"} /\ Tables
  BY DEF BuildInv, BuildType, Built
<1>2. /\ CachedTable[s][0] = IF s \in FinalStates(dfa) THEN 1 ELSE 0
      /\ below[s][0][0] = 0
      /\ \A l \in 1 .. MaxLen : EntryInv(s, l) /\ Reached(s, l) = dfa.symbols
  BY <1>1 DEF TableInv, Reached
<1>3. /\ \A l \in Lens : CachedTable[s][l] \in Nat
      /\ \A l \in Lens : \A a \in 0 .. dfa.symbols : below[s][l][a] \in Nat
  <2>1. CachedTable[s] \in [Lens -> Nat] /\ below[s] \in [Lens -> [0 .. dfa.symbols -> Nat]]
    BY <1>1 DEF Tables
  <2>2. QED
    BY <2>1
<1>4. \A l \in Lens : l = 0 \/ l \in 1 .. MaxLen
  BY BoundAssumption
<1>5. \A l \in Lens : below[s][l][0] = 0
  BY <1>2, <1>4 DEF EntryInv
<1>6. /\ \A l \in 1 .. MaxLen : \A a \in Symbols(dfa) :
           below[s][l][a + 1] = below[s][l][a] + CachedTable[Delta(s, a)][l - 1]
      /\ \A l \in 1 .. MaxLen : CachedTable[s][l] = below[s][l][dfa.symbols]
  BY <1>2 DEF EntryInv, Symbols
<1>7. Dense(s) =>
        \A l \in 1 .. MaxLen : \A a \in 0 .. dfa.symbols :
          below[s][l][a] = a * CachedTable[Delta(s, 0)][l - 1]
  BY <1>2 DEF EntryInv
<1>8. FinalStateLoop(s) => \A l \in Lens : CachedTable[s][l] = Weight[l]
  <2>1. Looping(s) => \A l \in 1 .. MaxLen : CachedTable[s][l] = Weight[l]
    BY <1>2 DEF EntryInv
  <2>2. Looping(s) => CachedTable[s][0] = Weight[0]
    BY <1>2, WeightFacts DEF Looping
  <2>3. FinalStateLoop(s) => Looping(s)
    BY <1>1, IsFinalFacts
  <2>4. QED
    BY <1>4, <2>1, <2>2, <2>3
<1>9. QED
  BY <1>2, <1>3, <1>5, <1>6, <1>7, <1>8

LEMMA CountFacts ==
  ASSUME BuildInv, Built
  PROVE  /\ \A m \in Lens : inclusive[m] \in Nat
         /\ \A m \in 1 .. MaxLen :
              inclusive[m] = CachedTable[dfa.start][m] + inclusive[m - 1]
         /\ \A k, m \in Lens : k <= m => inclusive[k] <= inclusive[m]
<1>1. CountInv /\ Counts /\ Counted = MaxLen + 1 /\ pc \notin {"new", "fill", "count"}
  BY DEF BuildInv, BuildType, Built, Counted
<1>2. \A m \in Lens : inclusive[m] \in Nat
  BY <1>1 DEF Counts
<1>3. Lens = 0 .. Counted - 1
  BY <1>1, BoundAssumption
<1>4. /\ \A m \in Lens : inclusive[m] = UpTo(m)
      /\ \A k, m \in Lens : k <= m => inclusive[k] <= inclusive[m]
  BY <1>1, <1>3 DEF CountInv
<1>5. ASSUME NEW m \in 1 .. MaxLen
      PROVE  inclusive[m] = CachedTable[dfa.start][m] + inclusive[m - 1]
  <2>1. m \in Lens /\ m # 0
    BY BoundAssumption
  <2>2. QED
    BY <1>4, <2>1 DEF UpTo
<1>6. QED
  BY <1>2, <1>4, <1>5
-----------------------------------------------------------------------------
(* Unrank appends the symbol a in the state q, or its byte b, and is left  *)
(* with r: enough to know that r and the words before a make up what there *)
(* was, and that r is below the number of words that a leads to.           *)
LEMMA AppendWalkInv ==
  ASSUME BuildInv, WalkInv, pc = "unrank", pos <= n,
         NEW a \in Symbols(dfa), NEW b \in 0 .. Base - 1, OneToOne => b = dfa.sigma[a],
         NEW r \in Nat, AppendByte(b, a, Delta(q, a), r),
         trail[pos].c = below[q][n - pos + 1][a] + r,
         r < CachedTable[Delta(q, a)][n - pos]
  PROVE  WalkInv'
<1> DEFINE s == Delta(q, a)
<1>1. /\ BuildType /\ WalkType /\ UnrankInv /\ Built
  BY DEF BuildInv, WalkInv, Built
<1>2. /\ pc' = "unrank"
      /\ UNCHANGED <<lang, building, n, final_state_loop, rank, ret, op, asked>>
      /\ word' = Append(word, b) /\ indices' = Append(indices, a)
      /\ trail' = Append(trail, [q |-> s, c |-> r])
      /\ q' = s /\ c' = r /\ pos' = pos + 1 /\ cursor' = 0
  BY DEF AppendByte
<1>3. /\ dfa' = dfa /\ CachedTable' = CachedTable /\ below' = below /\ inclusive' = inclusive
      /\ usable' = usable /\ len' = len /\ acc' = acc /\ n' = n /\ rank' = rank
      /\ op' = op /\ ret' = ret /\ asked' = asked /\ final_state_loop' = final_state_loop
  BY <1>2 DEF lang, building
<1>4. /\ op = "Unrank" /\ pos \in 1 .. n /\ n \in 1 .. MaxLen /\ MaxLen \in Nat
      /\ Walked(pos - 1) /\ trail[pos].q = q
  BY <1>1, BoundAssumption DEF UnrankInv, WalkType, Walked
<1>5. s \in States(dfa) /\ q \in States(dfa) /\ a \in 0 .. Base /\ 0 \in Symbols(dfa)
      /\ Base \in Nat
  <2>1. q \in States(dfa)
    BY <1>1 DEF WalkType
  <2>2. s \in States(dfa) /\ 0 \in Symbols(dfa)
    BY <1>1, <2>1, DfaFacts
  <2>3. IsDfa(dfa)
    BY <1>1, DfaFacts
  <2>4. QED
    BY <2>1, <2>2, <2>3, BoundAssumption DEF IsDfa, Symbols
<1>6. [q |-> s, c |-> r] \in Positions
  BY <1>5 DEF Positions
<1>7. /\ word \in Seq(0 .. Base - 1) /\ indices \in Seq(0 .. Base) /\ trail \in Seq(Positions)
      /\ Len(word) = pos - 1 /\ Len(indices) = pos - 1 /\ Len(trail) = pos
  BY <1>1, <1>4 DEF WalkType, Walked
<1>8. /\ word' \in Seq(0 .. Base - 1) /\ indices' \in Seq(0 .. Base) /\ trail' \in Seq(Positions)
      /\ Len(word') = pos /\ Len(indices') = pos /\ Len(trail') = pos + 1
      /\ word'[pos] = b /\ \A j \in 1 .. pos - 1 : word'[j] = word[j]
      /\ indices'[pos] = a /\ \A j \in 1 .. pos - 1 : indices'[j] = indices[j]
      /\ trail'[pos + 1] = [q |-> s, c |-> r]
      /\ \A j \in 1 .. pos : trail'[j] = trail[j]
  BY <1>2, <1>4, <1>5, <1>6, <1>7
<1>9. WalkType'
  <2>1. Positions' = Positions /\ States(dfa)' = States(dfa) /\ Symbols(dfa)' = Symbols(dfa)
    BY <1>3 DEF Positions, States, Symbols
  <2>2. pos' \in Nat /\ Len(word') <= MaxLen + 2
    <3>1. pos \in Int /\ n \in Int /\ 1 <= pos /\ pos <= n /\ n <= MaxLen /\ MaxLen \in Nat
      BY <1>4
    <3>2. pos' = pos + 1 /\ Len(word') = pos
      BY <1>2, <1>8
    <3>3. QED
      BY <3>1, <3>2
  <2>3. QED
    BY <1>1, <1>2, <1>3, <1>5, <1>8, <2>1, <2>2 DEF WalkType
<1>10. ASSUME NEW k \in Nat, k = pos
       PROVE  Walked(k)'
  <2>1. ASSUME NEW j \in 1 .. k - 1
        PROVE  Hop(j)'
    <3>1. Hop(j)
      BY <1>4, <1>10 DEF Walked
    <3>2. indices'[j] = indices[j] /\ trail'[j] = trail[j] /\ trail'[j + 1] = trail[j + 1]
      BY <1>4, <1>8, <1>10
    <3>3. QED
      BY <1>3, <3>1, <3>2 DEF Hop, Delta, Symbols
  <2>2. Hop(k)'
    <3>1. /\ indices'[k] = a /\ trail'[k] = trail[k]
          /\ trail'[k + 1].q = s /\ trail'[k + 1].c = r
      BY <1>4, <1>8, <1>10
    <3>2. /\ trail[k].q = q /\ trail[k].c = below[q][n - k + 1][a] + r
      BY <1>4, <1>10
    <3>3. QED
      BY <1>3, <3>1, <3>2 DEF Hop, Delta, Symbols
  <2>3. \A j \in 1 .. k : Hop(j)'
    BY <1>4, <1>10, <2>1, <2>2
  <2>4. trail'[1] = trail[1]
    BY <1>4, <1>8
  <2>5. /\ asked \in Nat /\ InLanguage(asked) /\ n \in 1 .. MaxLen
        /\ asked >= inclusive[n - 1]
        /\ trail[1].q = dfa.start /\ trail[1].c = asked - inclusive[n - 1]
    BY <1>4 DEF Walked
  <2>6. InLanguage(asked)'
    BY <1>3, <2>5 DEF InLanguage
  <2>7. Len(word') = k /\ Len(trail') = k + 1
    BY <1>8, <1>10
  <2>8. QED
    BY <1>3, <2>3, <2>4, <2>5, <2>6, <2>7 DEF Walked
<1>11. UnrankInv'
  <2>1. below[s][n - pos][0] = 0
    <3>1. n - pos \in Lens
      BY <1>4
    <3>2. QED
      BY <1>1, <1>5, <3>1, TableFacts
  <2>2. /\ n' - pos' + 1 = n - pos /\ pos' - 1 = pos /\ pos' \in 1 .. n' + 1
        /\ pos \in Nat
    <3>1. pos' = pos + 1 /\ n' = n
      BY <1>2, <1>3
    <3>2. pos \in Int /\ n \in Int /\ 1 <= pos /\ pos <= n
      BY <1>4
    <3>3. QED
      BY <3>1, <3>2
  <2>3. Walked(pos - 1)'
    BY <1>10, <2>2 DEF Walked
  <2>4. trail'[pos'].q = q' /\ trail'[pos'].c = r
    BY <1>2, <1>8
  <2>5. r = c' + below'[q'][n' - pos' + 1][cursor'] /\ r < CachedTable'[q'][n' - pos' + 1]
    BY <1>2, <1>3, <2>1, <2>2
  <2>6. QED
    BY <1>2, <1>3, <1>4, <2>2, <2>3, <2>4, <2>5 DEF UnrankInv
<1>12. Spelled'
  <2>1. OneToOne' = OneToOne /\ Spelled
    BY <1>3, SameDfa DEF WalkInv
  <2>2. ASSUME OneToOne, NEW i \in 1 .. pos
        PROVE  word'[i] = dfa.sigma[indices'[i]]
    <3>1. i = pos \/ i \in 1 .. pos - 1
      BY <1>4
    <3>2. \A j \in 1 .. pos - 1 : word[j] = dfa.sigma[indices[j]]
      BY <1>4, <1>7, <2>1, <2>2 DEF Spelled
    <3>3. QED
      BY <1>8, <2>2, <3>1, <3>2
  <2>3. QED
    BY <1>3, <1>4, <1>8, <2>1, <2>2 DEF Spelled
<1>13. QED
  BY <1>2, <1>9, <1>11, <1>12
  DEF WalkInv, SliceInv, UnrankReturned, RankInv, Ranked, Built

(* The byte that sigma_ has for the symbol.                                *)
LEMMA Append1WalkInv ==
  ASSUME BuildInv, WalkInv, pc = "unrank", pos <= n,
         NEW a \in Symbols(dfa), NEW r \in Nat, Append1(a, Delta(q, a), r),
         trail[pos].c = below[q][n - pos + 1][a] + r,
         r < CachedTable[Delta(q, a)][n - pos]
  PROVE  WalkInv'
<1>1. IsDfa(dfa)
  BY DfaFacts DEF BuildInv
<1>2. dfa.sigma[a] \in 0 .. Base - 1
  BY <1>1 DEF IsDfa
<1>3. AppendByte(dfa.sigma[a], a, Delta(q, a), r)
  BY DEF Append1
<1>4. QED
  BY <1>2, <1>3, AppendWalkInv

(* Where Unrank is when it chooses a symbol.                               *)
LEMMA UnrankFacts ==
  ASSUME BuildInv, WalkInv, pc = "unrank"
  PROVE  /\ n \in 1 .. MaxLen /\ MaxLen \in Nat /\ pos \in 1 .. n + 1
         /\ n - pos + 1 \in Lens
         /\ pos <= n => n - pos \in Lens /\ n - pos + 1 \in 1 .. MaxLen
         /\ q \in States(dfa) /\ cursor \in Symbols(dfa) /\ c \in Nat
         /\ trail[pos].c = c + below[q][n - pos + 1][cursor]
         /\ trail[pos].c < CachedTable[q][n - pos + 1]
         /\ Dense(q) \/ pos > n => cursor = 0
         /\ below[q][n - pos + 1][0] = 0
<1>1. WalkType /\ UnrankInv /\ Built
  BY DEF WalkInv, Built
<1>2. n \in 1 .. MaxLen /\ MaxLen \in Nat /\ pos \in 1 .. n + 1
  BY <1>1, BoundAssumption DEF UnrankInv, Walked
<1>3. /\ n - pos + 1 \in Lens
      /\ pos <= n => n - pos \in Lens /\ n - pos + 1 \in 1 .. MaxLen
  BY <1>2
<1>4. q \in States(dfa) /\ cursor \in Symbols(dfa) /\ c \in Nat
  BY <1>1 DEF WalkType
<1>5. below[q][n - pos + 1][0] = 0
  BY <1>1, <1>3, <1>4, TableFacts
<1>6. QED
  BY <1>1, <1>2, <1>3, <1>4, <1>5 DEF UnrankInv

(* In a dense state the words split into blocks of one size, w, and c is   *)
(* below the size of the alphabet times w: so w is not 0.                  *)
LEMMA DenseFacts ==
  ASSUME BuildInv, WalkInv, pc = "unrank", pos <= n, Dense(q),
         NEW w, w = CachedTable[Delta(q, 0)][n - pos]
  PROVE  /\ w \in Nat /\ w > 0
         /\ trail[pos].c = c
         /\ c < dfa.symbols * w
         /\ \A d \in 0 .. dfa.symbols : below[q][n - pos + 1][d] = d * w
<1>1. BuildType /\ Built
  BY DEF BuildInv, Built
<1>2. /\ n - pos \in Lens /\ n - pos + 1 \in 1 .. MaxLen /\ (n - pos + 1) - 1 = n - pos
      /\ q \in States(dfa) /\ c \in Nat
      /\ trail[pos].c = c + below[q][n - pos + 1][0]
      /\ trail[pos].c < CachedTable[q][n - pos + 1]
      /\ below[q][n - pos + 1][0] = 0
  BY UnrankFacts
<1>3. dfa.symbols \in Nat /\ dfa.symbols > 0 /\ Delta(q, 0) \in States(dfa)
  BY <1>1, <1>2, DfaFacts
<1>4. w \in Nat
  BY <1>1, <1>2, <1>3, TableFacts
<1>5. /\ CachedTable[q][n - pos + 1] = below[q][n - pos + 1][dfa.symbols]
      /\ \A d \in 0 .. dfa.symbols :
           below[q][n - pos + 1][d] = d * CachedTable[Delta(q, 0)][(n - pos + 1) - 1]
  BY <1>1, <1>2, TableFacts
<1>6. \A d \in 0 .. dfa.symbols : below[q][n - pos + 1][d] = d * w
  BY <1>2, <1>5
<1>7. trail[pos].c = c
  BY <1>2
<1>8. c < dfa.symbols * w
  <2>1. CachedTable[q][n - pos + 1] = dfa.symbols * w
    BY <1>3, <1>5, <1>6
  <2>2. QED
    BY <1>2, <1>7, <2>1
<1>9. w > 0
  BY <1>2, <1>3, <1>4, <1>8
<1>10. QED
  BY <1>4, <1>6, <1>7, <1>8, <1>9

LEMMA UnrankDenseWalkInv ==
  ASSUME BuildInv, WalkInv, UnrankDense
  PROVE  WalkInv'
<1> DEFINE w == CachedTable[Delta(q, 0)][n - pos]
<1>1. /\ pc = "unrank" /\ pos <= n /\ Dense(q)
      /\ Append1(c \div w, Delta(q, 0), c % w)
  BY DEF UnrankDense
<1>2. /\ w \in Nat /\ w > 0 /\ trail[pos].c = c /\ c < dfa.symbols * w
      /\ \A d \in 0 .. dfa.symbols : below[q][n - pos + 1][d] = d * w
  BY <1>1, DenseFacts
<1>3. BuildType /\ c \in Nat
  BY <1>1, UnrankFacts DEF BuildInv
<1>4. dfa.symbols \in Nat
  BY <1>3, DfaFacts
<1> HIDE DEF w
<1>5. PICK d \in 0 .. dfa.symbols - 1, m \in 0 .. w - 1 :
        c \div w = d /\ c % w = m /\ c = d * w + m
  BY <1>2, <1>3, <1>4, DivFacts
<1>6. d \in Symbols(dfa) /\ d \in 0 .. dfa.symbols /\ m \in Nat /\ m < w
  BY <1>2, <1>4, <1>5 DEF Symbols
<1>7. Delta(q, 0) = Delta(q, d)
  BY <1>1, <1>6 DEF Dense
<1>8. Append1(d, Delta(q, d), m)
  BY <1>1, <1>5, <1>7
<1>9. trail[pos].c = below[q][n - pos + 1][d] + m
  BY <1>2, <1>5, <1>6
<1>10. m < CachedTable[Delta(q, d)][n - pos]
  BY <1>6, <1>7 DEF w
<1>11. QED
  BY <1>1, <1>6, <1>8, <1>9, <1>10, Append1WalkInv

LEMMA UnrankTailWalkInv ==
  ASSUME BuildInv, WalkInv, UnrankTail
  PROVE  WalkInv'
<1> DEFINE w == CachedTable[Delta(q, 0)][n - pos]
<1>1. /\ pc = "unrank" /\ pos <= n /\ FinalStateLoop(q)
      /\ Dense(q) /\ Delta(q, 0) = q
      /\ AppendByte(c \div Weight[n - pos], c \div Weight[n - pos], q, c % Weight[n - pos])
      /\ dfa.symbols = Base
  BY DEF UnrankTail, FinalStateLoop
<1>2. /\ w \in Nat /\ w > 0 /\ trail[pos].c = c /\ c < dfa.symbols * w
      /\ \A d \in 0 .. dfa.symbols : below[q][n - pos + 1][d] = d * w
  BY <1>1, DenseFacts
<1>3. BuildType /\ c \in Nat /\ q \in States(dfa) /\ n - pos \in Lens /\ Built
  BY <1>1, UnrankFacts DEF BuildInv, Built
<1>4. dfa.symbols \in Nat
  BY <1>3, DfaFacts
<1>5. Weight[n - pos] = w
  BY <1>1, <1>3, TableFacts
<1> HIDE DEF w
<1>6. PICK d \in 0 .. dfa.symbols - 1, m \in 0 .. w - 1 :
        c \div w = d /\ c % w = m /\ c = d * w + m
  BY <1>2, <1>3, <1>4, DivFacts
<1>7. d \in Symbols(dfa) /\ d \in 0 .. dfa.symbols /\ m \in Nat /\ m < w
  BY <1>2, <1>4, <1>6 DEF Symbols
<1>8. q = Delta(q, d)
  BY <1>1, <1>7 DEF Dense
<1>9. AppendByte(d, d, Delta(q, d), m)
  BY <1>1, <1>5, <1>6, <1>8
<1>10. trail[pos].c = below[q][n - pos + 1][d] + m
  BY <1>2, <1>6, <1>7
<1>11. m < CachedTable[Delta(q, d)][n - pos]
  BY <1>1, <1>7, <1>8 DEF w
<1>12. d \in 0 .. Base - 1 /\ (OneToOne => d = dfa.sigma[d])
  BY <1>1, <1>3, <1>7, OneToOneFacts DEF Symbols
<1>13. QED
  BY <1>1, <1>7, <1>9, <1>10, <1>11, <1>12, AppendWalkInv

LEMMA UnrankChooseWalkInv ==
  ASSUME BuildInv, WalkInv, UnrankChoose
  PROVE  WalkInv'
<1>1. /\ pc = "unrank" /\ pos <= n /\ c < CachedTable[Delta(q, cursor)][n - pos]
      /\ Append1(cursor, Delta(q, cursor), c)
  BY DEF UnrankChoose, Continuations
<1>2. BuildType /\ Built
  BY <1>1 DEF BuildInv, Built
<1>3. /\ cursor \in Symbols(dfa) /\ c \in Nat
      /\ trail[pos].c = c + below[q][n - pos + 1][cursor]
      /\ q \in States(dfa) /\ n - pos + 1 \in Lens
  BY <1>1, UnrankFacts
<1>4. cursor \in 0 .. dfa.symbols
  BY <1>2, <1>3, DfaFacts DEF Symbols
<1>5. below[q][n - pos + 1][cursor] \in Nat
  BY <1>2, <1>3, <1>4, TableFacts
<1>6. trail[pos].c = below[q][n - pos + 1][cursor] + c
  BY <1>3, <1>5
<1>7. QED
  BY <1>1, <1>3, <1>6, Append1WalkInv

LEMMA UnrankSkipWalkInv ==
  ASSUME BuildInv, WalkInv, UnrankSkip
  PROVE  WalkInv'
<1> DEFINE k == n - pos + 1
           t == CachedTable[Delta(q, cursor)][n - pos]
<1>1. /\ pc = "unrank" /\ pos <= n /\ ~Dense(q) /\ c >= t
      /\ c' = c - t /\ cursor' = cursor + 1
      /\ UNCHANGED <<pc, lang, building, q, n, pos, spelling, rank, ret, op, asked, trail>>
  BY DEF UnrankSkip, Continuations
<1>2. BuildType /\ Built /\ WalkType /\ UnrankInv
  BY <1>1 DEF BuildInv, WalkInv, Built
<1>3. /\ k \in 1 .. MaxLen /\ k \in Lens /\ n - pos \in Lens /\ k - 1 = n - pos
      /\ q \in States(dfa) /\ cursor \in Symbols(dfa) /\ c \in Nat
      /\ trail[pos].c = c + below[q][k][cursor]
      /\ trail[pos].c < CachedTable[q][k]
  BY <1>1, UnrankFacts
<1>4. /\ dfa.symbols \in Nat /\ cursor \in 0 .. dfa.symbols - 1
      /\ cursor \in 0 .. dfa.symbols /\ cursor + 1 \in 0 .. dfa.symbols
      /\ Delta(q, cursor) \in States(dfa)
  BY <1>2, <1>3, DfaFacts DEF Symbols
<1>5. /\ below[q][k][cursor + 1] = below[q][k][cursor] + t
      /\ CachedTable[q][k] = below[q][k][dfa.symbols]
      /\ below[q][k][cursor] \in Nat
  BY <1>2, <1>3, <1>4, TableFacts
<1>6. t \in Nat
  BY <1>2, <1>3, <1>4, TableFacts
<1> HIDE DEF k, t
<1>7. c' \in Nat /\ trail[pos].c = c' + below[q][k][cursor + 1]
  BY <1>1, <1>3, <1>5, <1>6
<1>8. cursor + 1 # dfa.symbols
  BY <1>1, <1>3, <1>5, <1>6
<1>9. cursor' \in Symbols(dfa)
  BY <1>1, <1>4, <1>8 DEF Symbols
<1>10. /\ dfa' = dfa /\ CachedTable' = CachedTable /\ below' = below /\ inclusive' = inclusive
       /\ usable' = usable /\ len' = len /\ acc' = acc /\ n' = n /\ rank' = rank /\ pc' = pc
       /\ op' = op /\ ret' = ret /\ asked' = asked /\ q' = q /\ pos' = pos
       /\ word' = word /\ trail' = trail
       /\ indices' = indices /\ final_state_loop' = final_state_loop
  BY <1>1 DEF lang, building, spelling
<1>11. WalkType'
  BY <1>2, <1>7, <1>9, <1>10 DEF WalkType, Positions, States, Symbols
<1>12. UnrankInv'
  <2>1. Walked(pos - 1)'
    BY <1>1, <1>2, <1>10 DEF UnrankInv, Walked, InLanguage, Hop, Delta, Symbols
  <2>2. trail'[pos'].c = c' + below'[q'][n' - pos' + 1][cursor']
    BY <1>1, <1>7, <1>10 DEF k
  <2>3. ~Dense(q)' /\ pos' <= n'
    BY <1>1, <1>10 DEF Dense, Delta, Symbols
  <2>4. /\ op' = "Unrank" /\ pos' \in 1 .. n' + 1 /\ trail'[pos'].q = q'
        /\ trail'[pos'].c < CachedTable'[q'][n' - pos' + 1]
    BY <1>1, <1>2, <1>10 DEF UnrankInv
  <2>5. ~(pos' > n')
    <3>1. pos' = pos /\ n' = n /\ pos \in Nat /\ n \in Nat /\ pos <= n
      BY <1>1, <1>2, <1>10 DEF WalkType
    <3>2. QED
      BY <3>1
  <2>6. QED
    BY <2>1, <2>2, <2>3, <2>4, <2>5 DEF UnrankInv
<1>13. Spelled'
  BY <1>2, <1>10, SameDfa DEF WalkInv, Spelled, UnrankInv
<1>14. QED
  BY <1>1, <1>10, <1>11, <1>12, <1>13
  DEF WalkInv, SliceInv, UnrankReturned, RankInv, Ranked, Built

LEMMA CallUnrankWalkInv ==
  ASSUME BuildInv, WalkInv, NEW r \in Ranks, CallUnrank(r)
  PROVE  WalkInv'
<1>1. /\ pc = "idle" /\ pc' = "slice" /\ asked' = r /\ c' = r /\ n' = 1
      /\ word' = << >> /\ indices' = << >> /\ final_state_loop' = FALSE
      /\ trail' = << >> /\ rank' = 0 /\ pos' = 0 /\ q' = 0 /\ cursor' = 0
      /\ op' = "Unrank" /\ ret' = "none"
      /\ dfa' = dfa /\ inclusive' = inclusive /\ usable' = usable /\ len' = len /\ acc' = acc
  BY DEF CallUnrank, lang, building
<1>2. BuildType /\ Built /\ WalkType
  BY <1>1 DEF BuildInv, WalkInv, Built
<1>3. r \in Nat /\ MaxLen \in Nat /\ 1 < Wrap /\ Base \in Nat
  BY CallerAssumption, BoundAssumption
<1>4. 0 \in States(dfa) /\ 0 \in Symbols(dfa)
  BY <1>2, DfaFacts
<1>5. WalkType'
  <2>1. << >> \in Seq(0 .. Base - 1) /\ << >> \in Seq(0 .. Base) /\ << >> \in Seq(Positions)
    OBVIOUS
  <2>2. Positions' = Positions /\ States(dfa)' = States(dfa) /\ Symbols(dfa)' = Symbols(dfa)
    BY <1>1, SameDfa
  <2>3. word' = << >> /\ indices' = << >> /\ trail' = << >> /\ Len(<< >>) = 0
    BY <1>1
  <2>4. final_state_loop' \in BOOLEAN
    BY <1>1, Zenon
  <2>5. usable' \in BOOLEAN
    BY <1>1, <1>2, Zenon DEF WalkType
  <2>6. q' \in States(dfa)' /\ cursor' \in Symbols(dfa)' /\ len' \in 0 .. MaxLen + 1 /\ acc' \in Nat
    BY <1>1, <1>2, <1>4, <2>2 DEF WalkType
  <2>7. QED
    BY <1>1, <1>3, <2>1, <2>2, <2>3, <2>4, <2>5, <2>6 DEF WalkType
<1>6. inclusive[0] \in Nat
  BY <1>2, <1>3, CountFacts
<1>7. SliceInv'
  BY <1>1, <1>3, <1>6 DEF SliceInv
<1>8. QED
  BY <1>1, <1>5, <1>7 DEF WalkInv, UnrankInv, UnrankReturned, RankInv, Ranked, Spelled, Built

LEMMA NextSliceWalkInv ==
  ASSUME BuildInv, WalkInv, NextSlice
  PROVE  WalkInv'
<1>1. /\ pc = "slice" /\ pc' = "slice" /\ n # 0 /\ ~InSlice(c, n) /\ n' = (n + 1) % Wrap
      /\ dfa' = dfa /\ inclusive' = inclusive /\ usable' = usable /\ len' = len /\ acc' = acc
      /\ q' = q /\ cursor' = cursor /\ pos' = pos /\ c' = c /\ word' = word /\ rank' = rank
      /\ ret' = ret /\ op' = op /\ asked' = asked /\ trail' = trail
      /\ indices' = indices /\ final_state_loop' = final_state_loop
  BY DEF NextSlice, lang, building, spelling
<1>2. BuildType /\ Built /\ WalkType /\ SliceInv
  BY <1>1 DEF BuildInv, WalkInv, Built
<1>3. /\ MaxLen \in Nat /\ Wrap \in Nat /\ MaxLen + 1 < Wrap
      /\ n \in Nat /\ n < Wrap /\ asked \in Nat /\ c = asked
  BY <1>1, <1>2, BoundAssumption DEF WalkType, SliceInv
<1>4. n' = IF n + 1 = Wrap THEN 0 ELSE n + 1
  BY <1>1, <1>3, WrapFacts
<1>5. n' \in Nat /\ n' < Wrap
  BY <1>3, <1>4
<1>6. WalkType'
  BY <1>1, <1>2, <1>5 DEF WalkType, Positions, States, Symbols
<1>7. \A m \in Lens : inclusive[m] \in Nat
  BY <1>2, CountFacts
<1>8. \/ asked < inclusive[0]
      \/ n' \in 1 .. MaxLen + 1 /\ asked >= inclusive[n' - 1]
      \/ n' \notin 1 .. MaxLen + 1 /\ asked >= inclusive[MaxLen]
  <2>1. CASE asked < inclusive[0]
    BY <2>1
  <2>2. CASE n \in 1 .. MaxLen /\ asked >= inclusive[n - 1]
    <3>1. inclusive[n] \in Nat /\ inclusive[n - 1] \in Nat
      BY <1>3, <1>7, <2>2
    <3>2. asked >= inclusive[n]
      BY <1>1, <1>3, <2>2, <3>1 DEF InSlice
    <3>3. n' = n + 1 /\ n' \in 1 .. MaxLen + 1
      BY <1>3, <1>4, <2>2
    <3>4. n' - 1 = n
      BY <1>3, <3>3
    <3>5. QED
      BY <3>2, <3>3, <3>4
  <2>3. CASE n = MaxLen + 1 /\ asked >= inclusive[n - 1]
    <3>1. n - 1 = MaxLen
      BY <1>3, <2>3
    <3>2. n' \notin 1 .. MaxLen + 1
      BY <1>3, <1>4, <2>3
    <3>3. QED
      BY <2>3, <3>1, <3>2
  <2>4. CASE n \notin 1 .. MaxLen + 1 /\ asked >= inclusive[MaxLen]
    <3>1. n' \notin 1 .. MaxLen + 1
      BY <1>1, <1>3, <1>4, <2>4
    <3>2. QED
      BY <2>4, <3>1
  <2>5. QED
    <3>1. n \in 1 .. MaxLen + 1 => n \in 1 .. MaxLen \/ n = MaxLen + 1
      BY <1>3
    <3>2. QED
      BY <1>1, <1>2, <2>1, <2>2, <2>3, <2>4, <3>1 DEF SliceInv
<1>9. SliceInv'
  BY <1>1, <1>2, <1>5, <1>8 DEF SliceInv
<1>10. QED
  BY <1>1, <1>2, <1>6, <1>9
  DEF WalkInv, SliceInv, UnrankInv, UnrankReturned, RankInv, Ranked, Spelled, Built

LEMMA SliceThrowsWalkInv ==
  ASSUME BuildInv, WalkInv, SliceThrows
  PROVE  WalkInv'
<1>1. /\ pc = "slice" /\ pc' = "idle" /\ n = 0 /\ ret' = "threw"
      /\ dfa' = dfa /\ inclusive' = inclusive /\ usable' = usable /\ len' = len /\ acc' = acc
      /\ n' = n /\ q' = q /\ cursor' = cursor /\ pos' = pos /\ c' = c /\ word' = word
      /\ rank' = rank /\ op' = op /\ asked' = asked /\ trail' = trail
      /\ indices' = indices /\ final_state_loop' = final_state_loop
  BY DEF SliceThrows, lang, building, spelling
<1>2. BuildType /\ Built /\ WalkType /\ SliceInv
  BY <1>1 DEF BuildInv, WalkInv, Built
<1>3. WalkType'
  BY <1>1, <1>2 DEF WalkType, Positions, States, Symbols
<1>4. op = "Unrank" /\ asked \in Nat /\ (asked < inclusive[0] \/ asked >= inclusive[MaxLen])
  BY <1>1, <1>2, BoundAssumption DEF SliceInv
<1>5. ~InLanguage(asked)
  <2>1. inclusive[0] \in Nat /\ inclusive[MaxLen] \in Nat
    BY <1>2, BoundAssumption, CountFacts
  <2>2. QED
    BY <1>4, <2>1 DEF InLanguage
<1>6. UnrankReturned'
  BY <1>1, <1>4, <1>5 DEF UnrankReturned, InLanguage
<1>7. Spelled'
  BY <1>1, <1>2 DEF SliceInv, Spelled
<1>8. QED
  BY <1>1, <1>3, <1>4, <1>6, <1>7 DEF WalkInv, SliceInv, UnrankInv, RankInv, Ranked, Built

LEMMA FoundSliceWalkInv ==
  ASSUME BuildInv, WalkInv, FoundSlice
  PROVE  WalkInv'
<1>1. /\ pc = "slice" /\ pc' = "unrank" /\ n # 0 /\ InSlice(c, n)
      /\ c' = c - inclusive[n - 1]
      /\ trail' = <<[q |-> dfa.start, c |-> c - inclusive[n - 1]]>>
      /\ pos' = 1 /\ q' = dfa.start /\ cursor' = 0
      /\ dfa' = dfa /\ inclusive' = inclusive /\ usable' = usable /\ len' = len /\ acc' = acc
      /\ CachedTable' = CachedTable /\ below' = below
      /\ n' = n /\ word' = word /\ rank' = rank /\ op' = op /\ ret' = ret /\ asked' = asked
      /\ indices' = indices /\ final_state_loop' = final_state_loop
  BY DEF FoundSlice, lang, building, spelling
<1>2. BuildType /\ Built /\ WalkType /\ SliceInv
  BY <1>1 DEF BuildInv, WalkInv, Built
<1>3. /\ MaxLen \in Nat /\ n \in 1 .. MaxLen /\ n - 1 \in Lens /\ n \in Lens
      /\ op = "Unrank" /\ word = << >> /\ asked \in Nat /\ c = asked
      /\ c >= inclusive[n - 1] /\ c < inclusive[n]
  BY <1>1, <1>2, BoundAssumption DEF WalkType, SliceInv, InSlice
<1>4. /\ inclusive[n - 1] \in Nat /\ inclusive[n] \in Nat /\ inclusive[0] \in Nat
      /\ inclusive[MaxLen] \in Nat
      /\ inclusive[n] = CachedTable[dfa.start][n] + inclusive[n - 1]
      /\ inclusive[0] <= inclusive[n - 1] /\ inclusive[n] <= inclusive[MaxLen]
  <2>1. /\ 0 \in Lens /\ MaxLen \in Lens /\ n - 1 \in Lens /\ n \in Lens
        /\ n \in 1 .. MaxLen /\ 0 <= n - 1 /\ n <= MaxLen
    BY <1>3
  <2>2. /\ \A m \in Lens : inclusive[m] \in Nat
        /\ \A m \in 1 .. MaxLen :
             inclusive[m] = CachedTable[dfa.start][m] + inclusive[m - 1]
        /\ \A k, m \in Lens : k <= m => inclusive[k] <= inclusive[m]
    BY <1>2, CountFacts
  <2> HIDE DEF Lens
  <2>3. /\ inclusive[n - 1] \in Nat /\ inclusive[n] \in Nat /\ inclusive[0] \in Nat
        /\ inclusive[MaxLen] \in Nat
    BY <2>1, <2>2
  <2>4. inclusive[n] = CachedTable[dfa.start][n] + inclusive[n - 1]
    BY <2>1, <2>2
  <2>5. inclusive[0] <= inclusive[n - 1] /\ inclusive[n] <= inclusive[MaxLen]
    BY <2>1, <2>2
  <2>6. QED
    BY <2>3, <2>4, <2>5
<1>5. dfa.start \in States(dfa) /\ 0 \in Symbols(dfa)
  BY <1>2, DfaFacts
<1>6. CachedTable[dfa.start][n] \in Nat /\ below[dfa.start][n][0] = 0
  BY <1>2, <1>3, <1>5, TableFacts
<1>7. /\ c' \in Nat /\ c' = asked - inclusive[n - 1] /\ c' < CachedTable[dfa.start][n]
      /\ InLanguage(asked)
  BY <1>1, <1>3, <1>4, <1>6 DEF InLanguage
<1>8. /\ trail' \in Seq(Positions) /\ Len(trail') = 1
      /\ trail'[1] = [q |-> dfa.start, c |-> c']
  BY <1>1, <1>5, <1>7 DEF Positions
<1>9. WalkType'
  <2>1. Positions' = Positions /\ States(dfa)' = States(dfa) /\ Symbols(dfa)' = Symbols(dfa)
    BY <1>1 DEF Positions, States, Symbols
  <2>2. QED
    BY <1>1, <1>2, <1>5, <1>7, <1>8, <2>1 DEF WalkType
<1>10. ASSUME NEW k, k = 0
       PROVE  Walked(k)'
  BY <1>1, <1>3, <1>7, <1>8, <1>10 DEF Walked, InLanguage
<1>11. UnrankInv'
  <2>1. Walked(pos - 1)'
    BY <1>1, <1>10 DEF Walked
  <2>2. n' - pos' + 1 = n /\ pos' \in 1 .. n' + 1 /\ ~(pos' > n')
    BY <1>1, <1>3
  <2>3. /\ trail'[pos'].q = q' /\ trail'[pos'].c = c'
    BY <1>1, <1>8
  <2>4. c' = c' + below[dfa.start][n][0]
    BY <1>6, <1>7
  <2>5. QED
    BY <1>1, <1>3, <1>7, <2>1, <2>2, <2>3, <2>4 DEF UnrankInv
<1>12. Spelled'
  BY <1>1, <1>3 DEF Spelled
<1>13. QED
  BY <1>1, <1>9, <1>11, <1>12 DEF WalkInv, SliceInv, UnrankReturned, RankInv, Ranked, Built

LEMMA UnrankReturnWalkInv ==
  ASSUME BuildInv, WalkInv, UnrankReturn
  PROVE  WalkInv'
<1>1. /\ pc = "unrank" /\ pc' = "idle" /\ pos > n
      /\ ret' = IF IsFinal(q) THEN "true" ELSE "false"
      /\ dfa' = dfa /\ inclusive' = inclusive /\ usable' = usable /\ len' = len /\ acc' = acc
      /\ CachedTable' = CachedTable /\ below' = below
      /\ n' = n /\ q' = q /\ cursor' = cursor /\ pos' = pos /\ c' = c /\ word' = word
      /\ rank' = rank /\ op' = op /\ asked' = asked /\ trail' = trail
      /\ indices' = indices /\ final_state_loop' = final_state_loop
  BY DEF UnrankReturn, lang, building, spelling
<1>2. Built /\ WalkType /\ UnrankInv
  BY <1>1 DEF WalkInv, Built
<1>3. WalkType'
  BY <1>1, <1>2 DEF WalkType, Positions, States, Symbols
<1>4. /\ n \in 1 .. MaxLen /\ pos = n + 1 /\ n - pos + 1 = 0 /\ pos - 1 = n
      /\ q \in States(dfa) /\ c \in Nat /\ cursor = 0
      /\ trail[pos].c = c + below[q][0][0] /\ trail[pos].c < CachedTable[q][0]
      /\ below[q][0][0] = 0
  <2>1. pos = n + 1 /\ n - pos + 1 = 0 /\ pos - 1 = n
    BY <1>1, UnrankFacts
  <2>2. QED
    BY <1>1, <2>1, UnrankFacts
<1>5. CachedTable[q][0] = IF q \in FinalStates(dfa) THEN 1 ELSE 0
  BY <1>2, <1>4, TableFacts
<1>6. q \in FinalStates(dfa) /\ trail[pos].c = 0
  BY <1>4, <1>5
<1>7. op = "Unrank" /\ Walked(n) /\ trail[pos].q = q
  BY <1>1, <1>2, <1>4 DEF UnrankInv
<1>8. Unranked
  BY <1>4, <1>6, <1>7 DEF Unranked
<1>9. asked \in Nat /\ InLanguage(asked)
  BY <1>7 DEF Walked
<1>10. Unranked' /\ InLanguage(asked)'
  BY <1>1, <1>8, <1>9 DEF Unranked, Walked, InLanguage, Hop, Delta, Symbols, FinalStates
<1>11. ret' = IF IsFinal(trail[n + 1].q)' THEN "true" ELSE "false"
  <2>1. trail'[n' + 1].q = q
    BY <1>1, <1>4, <1>7
  <2>2. IsFinal(q)' = IsFinal(q) /\ q' = q
    BY <1>1, SameDfa
  <2>3. IsFinal(trail[n + 1].q)' = IsFinal(q)
    BY <1>1, <2>1, <2>2 DEF IsFinal
  <2>4. QED
    BY <1>1, <2>3
<1>12. UnrankReturned'
  BY <1>1, <1>9, <1>10, <1>11 DEF UnrankReturned
<1>13. Spelled'
  BY <1>1, <1>7, SameDfa DEF WalkInv, Spelled
<1>14. QED
  BY <1>1, <1>3, <1>7, <1>12, <1>13 DEF WalkInv, SliceInv, UnrankInv, RankInv, Ranked, Built
-----------------------------------------------------------------------------
LEMMA CallRankWalkInv ==
  ASSUME BuildInv, WalkInv, NEW w \in Words \cup {word}, CallRank(w)
  PROVE  WalkInv'
<1>1. /\ pc = "idle" /\ pc' = "rank" /\ word' = w /\ n' = Len(w) /\ rank' = 0 /\ c' = 0
      /\ indices' = Indices(w) /\ final_state_loop' = FALSE
      /\ pos' = 1 /\ q' = dfa.start /\ cursor' = 0
      /\ op' = "Rank" /\ ret' = "none"
      /\ dfa' = dfa /\ inclusive' = inclusive /\ usable' = usable /\ len' = len /\ acc' = acc
      /\ CachedTable' = CachedTable /\ below' = below
  BY DEF CallRank, lang, building
<1>2. \/ op = "Unrank" /\ ret = "true" /\ w = word /\ asked' = asked /\ trail' = trail
      \/ asked' = NoRank /\ trail' = << >>
  BY DEF CallRank, JustUnranked
<1>3. BuildType /\ Built /\ WalkType /\ UnrankReturned /\ Spelled
  BY <1>1 DEF BuildInv, WalkInv, Built
<1>4. w \in Seq(0 .. Base - 1) /\ Len(w) <= MaxLen + 2 /\ Len(w) \in Nat
  BY <1>3, CallerAssumption DEF WalkType
<1>5. dfa.start \in States(dfa) /\ 0 \in Symbols(dfa)
  BY <1>3, DfaFacts
<1>6. Indices(w) \in Seq(0 .. Base) /\ Len(Indices(w)) = Len(w)
  BY <1>3, <1>4, IndicesType
<1>7. WalkType'
  <2>1. Positions' = Positions /\ States(dfa)' = States(dfa) /\ Symbols(dfa)' = Symbols(dfa)
    BY <1>1, SameDfa
  <2>2. trail' \in Seq(Positions) /\ asked' \in Nat \cup {NoRank}
    <3>1. << >> \in Seq(Positions)
      OBVIOUS
    <3>2. trail \in Seq(Positions) /\ asked \in Nat \cup {NoRank}
      BY <1>3 DEF WalkType
    <3>3. QED
      BY <1>2, <3>1, <3>2
  <2>3. QED
    BY <1>1, <1>3, <1>4, <1>5, <1>6, <2>1, <2>2 DEF WalkType
<1>8. ASSUME asked' # NoRank, OneToOne
      PROVE  /\ Unranked' /\ IsFinal(trail[n + 1].q)' /\ q' = trail'[1].q
             /\ rank' + trail'[1].c = trail'[1].c + below'[q'][n'][0]
  <2>1. op = "Unrank" /\ ret = "true" /\ w = word /\ asked' = asked /\ trail' = trail
    BY <1>8, <1>2
  <2>2. Unranked /\ IsFinal(trail[n + 1].q)
    BY <1>1, <1>3, <2>1 DEF UnrankReturned
  <2>3. n' = n /\ word' = word /\ n \in Nat
    BY <1>1, <2>1, <2>2 DEF Unranked, Walked
  <2>4. indices' = indices
    <3>1. \A i \in 1 .. Len(word) : indices[i] \in Symbols(dfa)
      BY <2>2 DEF Unranked, Walked, Hop
    <3>2. \A i \in 1 .. Len(word) : word[i] = dfa.sigma[indices[i]]
      BY <1>3, <1>8, <2>1 DEF Spelled
    <3>3. Indices(word) = indices
      BY <1>3, <1>8, <3>1, <3>2, IndicesOf
    <3>4. QED
      BY <1>1, <2>1, <3>3
  <2>5. Unranked'
    BY <1>1, <2>1, <2>2, <2>3, <2>4
    DEF Unranked, Walked, InLanguage, Hop, Delta, Symbols, FinalStates
  <2>6. n \in Lens /\ trail[1].q = dfa.start /\ trail \in Seq(Positions) /\ 1 \in 1 .. Len(trail)
    BY <1>3, <2>2, BoundAssumption DEF Unranked, Walked, WalkType
  <2>7. trail[1] \in Positions
    BY <2>6
  <2>8. below[dfa.start][n][0] = 0 /\ trail[1].c \in Nat
    BY <1>3, <1>5, <2>6, <2>7, TableFacts DEF Positions
  <2>9. IsFinal(trail[n + 1].q)'
    BY <1>1, <2>1, <2>2, <2>3 DEF IsFinal, FinalStates
  <2>10. QED
    BY <1>1, <2>1, <2>3, <2>5, <2>6, <2>8, <2>9
<1>9. RankInv'
  <2>1. n' - pos' + 1 = n' /\ pos' \in 1 .. n' + 1
    BY <1>1, <1>4
  <2>2. OneToOne' = OneToOne
    BY <1>1, SameDfa
  <2>3. QED
    BY <1>1, <1>8, <2>1, <2>2 DEF RankInv
<1>10. Spelled'
  BY <1>1, SameDfa DEF Spelled
<1>11. QED
  BY <1>1, <1>7, <1>9, <1>10
  DEF WalkInv, SliceInv, UnrankInv, UnrankReturned, Ranked, Built

(* Where Rank is when it follows a trail.                                  *)
LEMMA RankFacts ==
  ASSUME BuildInv, WalkInv, pc = "rank"
  PROVE  /\ n \in Nat /\ n <= MaxLen + 2 /\ MaxLen \in Nat /\ pos \in 1 .. n + 1 /\ n = Len(word)
         /\ q \in States(dfa) /\ rank \in Nat /\ op = "Rank"
         /\ cursor = 0 \/ (pos <= n /\ cursor <= indices[pos] /\ ~Dense(q))
         /\ cursor \in Symbols(dfa)
         /\ final_state_loop => FinalStateLoop(q)
         /\ pos <= n => word[pos] \in 0 .. Base - 1
         /\ asked # NoRank /\ OneToOne =>
              /\ n \in 1 .. MaxLen
              /\ n - pos + 1 \in Lens
              /\ pos <= n => n - pos + 1 \in 1 .. MaxLen
              /\ trail[pos] \in Positions /\ trail[1] \in Positions
              /\ q = trail[pos].q
              /\ rank + trail[pos].c = trail[1].c + below[q][n - pos + 1][cursor]
              /\ pos <= n => Hop(pos) /\ trail[pos + 1] \in Positions
<1>1. WalkType /\ RankInv /\ Built
  BY DEF WalkInv, Built
<1>2. /\ n \in Nat /\ n <= MaxLen + 2 /\ MaxLen \in Nat /\ pos \in 1 .. n + 1 /\ n = Len(word)
      /\ q \in States(dfa) /\ rank \in Nat /\ op = "Rank"
      /\ cursor = 0 \/ (pos <= n /\ cursor <= indices[pos] /\ ~Dense(q))
      /\ cursor \in Symbols(dfa)
  BY <1>1, BoundAssumption DEF WalkType, RankInv
<1>3. final_state_loop => FinalStateLoop(q)
  BY <1>1 DEF RankInv
<1>4. pos <= n => word[pos] \in 0 .. Base - 1
  <2> DEFINE Bytes == 0 .. Base - 1
  <2>1. word \in Seq(Bytes)
    BY <1>1 DEF WalkType
  <2>2. \A i \in 1 .. Len(word) : word[i] \in Bytes
    <3> HIDE DEF Bytes
    <3> QED
      BY <2>1
  <2>3. pos <= n => pos \in 1 .. Len(word)
    BY <1>2
  <2>4. QED
    BY <2>2, <2>3
<1>5. ASSUME asked # NoRank, OneToOne
      PROVE  /\ n \in 1 .. MaxLen
             /\ n - pos + 1 \in Lens
             /\ pos <= n => n - pos + 1 \in 1 .. MaxLen
             /\ trail[pos] \in Positions /\ trail[1] \in Positions
             /\ q = trail[pos].q
             /\ rank + trail[pos].c = trail[1].c + below[q][n - pos + 1][cursor]
             /\ pos <= n => Hop(pos) /\ trail[pos + 1] \in Positions
  <2>1. /\ Walked(n) /\ q = trail[pos].q
        /\ rank + trail[pos].c = trail[1].c + below[q][n - pos + 1][cursor]
    BY <1>1, <1>5 DEF RankInv, Unranked
  <2>2. n \in 1 .. MaxLen /\ Len(trail) = n + 1 /\ trail \in Seq(Positions)
        /\ \A j \in 1 .. n : Hop(j)
    BY <1>1, <2>1 DEF Walked, WalkType
  <2>3. \A j \in 1 .. n + 1 : trail[j] \in Positions
    BY <1>2, <2>2
  <2>4. pos <= n => Hop(pos) /\ trail[pos + 1] \in Positions
    <3>1. pos <= n => pos \in 1 .. n /\ pos + 1 \in 1 .. n + 1
      BY <1>2
    <3>2. QED
      BY <2>2, <2>3, <3>1
  <2>5. /\ n - pos + 1 \in Lens
        /\ pos <= n => n - pos + 1 \in 1 .. MaxLen
        /\ 1 \in 1 .. n + 1
    BY <1>2, <2>2
  <2>6. QED
    BY <1>2, <2>1, <2>2, <2>3, <2>4, <2>5
<1>6. QED
  BY <1>2, <1>3, <1>4, <1>5

(* Rank goes on to the state s with the sum r; in a state with a shortcut  *)
(* it stays.                                                               *)
RankOn(s, r) ==
  /\ pc' = "rank" /\ rank' = r /\ q' = s /\ pos' = pos + 1 /\ cursor' = 0
  /\ final_state_loop' \in BOOLEAN /\ (final_state_loop' => FinalStateLoop(s))
  /\ UNCHANGED <<lang, building, n, c, word, indices, ret, op, asked, trail>>

LEMMA RankOnWalkInv ==
  ASSUME BuildInv, WalkInv, pc = "rank", pos <= n,
         NEW r \in Nat, NEW s \in States(dfa), RankOn(s, r),
         asked # NoRank /\ OneToOne =>
           /\ indices[pos] \in Symbols(dfa) /\ s = Delta(q, indices[pos])
           /\ r + trail[pos].c = trail[1].c + below[q][n - pos + 1][indices[pos]]
  PROVE  WalkInv'
<1>1. /\ pc' = "rank" /\ rank' = r /\ q' = s /\ pos' = pos + 1 /\ cursor' = 0
      /\ dfa' = dfa /\ inclusive' = inclusive /\ usable' = usable /\ len' = len /\ acc' = acc
      /\ CachedTable' = CachedTable /\ below' = below
      /\ n' = n /\ c' = c /\ word' = word /\ ret' = ret /\ op' = op /\ asked' = asked
      /\ trail' = trail /\ indices' = indices /\ final_state_loop' \in BOOLEAN
      /\ final_state_loop' => FinalStateLoop(s)
  BY DEF RankOn, lang, building
<1>2. BuildType /\ Built /\ WalkType /\ RankInv
  BY DEF BuildInv, WalkInv, Built
<1>3. /\ n \in Nat /\ n = Len(word) /\ pos \in 1 .. n /\ pos + 1 \in 1 .. n + 1
      /\ q \in States(dfa) /\ op = "Rank"
  BY RankFacts
<1>4. 0 \in Symbols(dfa)
  BY <1>2, DfaFacts
<1>5. WalkType'
  <2>1. Positions' = Positions /\ States(dfa)' = States(dfa) /\ Symbols(dfa)' = Symbols(dfa)
    BY <1>1, SameDfa
  <2>2. pos' \in Nat
    BY <1>1, <1>3
  <2>3. QED
    BY <1>1, <1>2, <1>4, <2>1, <2>2 DEF WalkType
<1>6. ASSUME asked # NoRank, OneToOne
      PROVE  /\ Unranked' /\ IsFinal(trail[n + 1].q)' /\ q' = trail'[pos'].q
             /\ rank' + trail'[pos'].c = trail'[1].c + below'[q'][n' - pos' + 1][cursor']
  <2>1. /\ n \in 1 .. MaxLen /\ trail[1] \in Positions /\ trail[pos] \in Positions
        /\ trail[pos + 1] \in Positions /\ Hop(pos)
        /\ q = trail[pos].q /\ n - pos + 1 \in Lens /\ MaxLen \in Nat
    BY <1>3, <1>6, RankFacts
  <2>2. Unranked /\ IsFinal(trail[n + 1].q)
    BY <1>2, <1>6 DEF RankInv
  <2>3. Unranked' /\ IsFinal(trail[n + 1].q)'
    BY <1>1, <2>2
    DEF Unranked, Walked, InLanguage, Hop, Delta, Symbols, IsFinal, FinalStates
  <2>3a. s = Delta(q, indices[pos]) /\ indices[pos] \in Symbols(dfa)
    BY <1>6
  <2>4. /\ trail[pos].c = below[q][n - pos + 1][indices[pos]] + trail[pos + 1].c
        /\ trail[pos + 1].q = s
    BY <2>1, <2>3a DEF Hop
  <2>5. n' - pos' + 1 = n - pos /\ n - pos \in Lens
    BY <1>1, <1>3, <2>1
  <2>6. below[s][n - pos][0] = 0
    BY <1>2, <2>5, TableFacts
  <2>7. indices[pos] \in 0 .. dfa.symbols
    BY <1>2, <2>3a, DfaFacts DEF Symbols
  <2>8. below[q][n - pos + 1][indices[pos]] \in Nat
    BY <1>2, <1>3, <2>1, <2>7, TableFacts
  <2>9. trail[1].c \in Nat /\ trail[pos].c \in Nat /\ trail[pos + 1].c \in Nat
    BY <2>1 DEF Positions
  <2>10. r + trail[pos + 1].c = trail[1].c + 0
    BY <1>6, <2>4, <2>8, <2>9
  <2>11. QED
    BY <1>1, <2>3, <2>4, <2>5, <2>6, <2>10
<1>7. RankInv'
  <2>1. OneToOne' = OneToOne /\ FinalStateLoop(s)' = FinalStateLoop(s)
    BY <1>1, SameDfa
  <2>2. final_state_loop' => FinalStateLoop(q)'
    BY <1>1, <2>1 DEF FinalStateLoop, IsFinal, Dense, Delta, FinalStates, Symbols
  <2>3. pos' \in 1 .. n' + 1
    BY <1>1, <1>3
  <2>4. QED
    BY <1>1, <1>3, <1>6, <2>1, <2>2, <2>3 DEF RankInv
<1>8. Spelled'
  BY <1>1, <1>3, SameDfa DEF WalkInv, Spelled
<1>9. QED
  BY <1>1, <1>5, <1>7, <1>8 DEF WalkInv, SliceInv, UnrankInv, UnrankReturned, Ranked, Built

LEMMA RankMoveOn ==
  ASSUME BuildInv, WalkInv, pc = "rank", ~FinalStateLoop(q), NEW r, RankMove(r)
  PROVE  RankOn(Delta(q, indices[pos]), r)
<1>1. ~final_state_loop
  BY RankFacts
<1>2. final_state_loop' = final_state_loop
  BY DEF RankMove, spelling
<1>3. final_state_loop' \in BOOLEAN
  BY <1>2, Zenon DEF WalkInv, WalkType
<1>4. ~final_state_loop'
  BY <1>1, <1>2, Zenon
<1>5. QED
  BY <1>3, <1>4 DEF RankMove, RankOn, spelling

LEMMA RankMoveWalkInv ==
  ASSUME BuildInv, WalkInv, pc = "rank", pos <= n, indices[pos] \in Symbols(dfa),
         ~FinalStateLoop(q), NEW r \in Nat, RankMove(r),
         asked # NoRank /\ OneToOne =>
           r + trail[pos].c = trail[1].c + below[q][n - pos + 1][indices[pos]]
  PROVE  WalkInv'
<1>1. q \in States(dfa)
  BY RankFacts
<1>2. Delta(q, indices[pos]) \in States(dfa)
  BY <1>1, DfaFacts DEF BuildInv
<1>3. RankOn(Delta(q, indices[pos]), r)
  BY RankMoveOn
<1>4. QED
  BY <1>2, <1>3, RankOnWalkInv

LEMMA RankTailWalkInv ==
  ASSUME BuildInv, WalkInv, RankTail
  PROVE  WalkInv'
<1> DEFINE k == n - pos
           d == word[pos]
           r == rank + d * Weight[k]
<1>1. /\ pc = "rank" /\ pos <= n /\ FinalStateLoop(q) /\ TailMove(r)
      /\ Dense(q) /\ Delta(q, 0) = q /\ dfa.symbols = Base
  BY DEF RankTail, InTail, FinalStateLoop
<1>2. BuildType /\ Built
  BY <1>1 DEF BuildInv, Built
<1>3. /\ MaxLen \in Nat /\ k \in 0 .. MaxLen + 1 /\ q \in States(dfa) /\ rank \in Nat
      /\ cursor = 0 /\ d \in 0 .. Base - 1
  BY <1>1, RankFacts
<1>4. Weight[k] \in Nat /\ d \in Nat /\ d \in 0 .. dfa.symbols /\ Base \in Nat
  <2>1. Weight[k] \in Nat
    BY <1>3, WeightFacts
  <2>2. QED
    BY <1>1, <1>3, <2>1, BoundAssumption
<1>5. r \in Nat
  BY <1>3, <1>4
<1>6. RankOn(q, r)
  <2>1. pc' = "rank" /\ rank' = r /\ q' = q /\ pos' = pos + 1 /\ cursor' = 0
        /\ final_state_loop' = TRUE
        /\ UNCHANGED <<lang, building, n, c, word, indices, ret, op, asked, trail>>
    BY <1>1 DEF TailMove
  <2>2. QED
    BY <1>1, <2>1 DEF RankOn
<1>7. ASSUME asked # NoRank, OneToOne
      PROVE  /\ indices[pos] \in Symbols(dfa) /\ q = Delta(q, indices[pos])
             /\ r + trail[pos].c = trail[1].c + below[q][k + 1][indices[pos]]
  <2>1. indices[pos] = d /\ d \in Symbols(dfa)
    <3>1. indices = Indices(word) /\ pos \in 1 .. Len(word)
      BY <1>1, RankFacts DEF WalkInv, Spelled
    <3>2. d \in DOMAIN dfa.reverse /\ dfa.reverse[d] = d /\ d \in Symbols(dfa)
      BY <1>1, <1>2, <1>3, <1>7, OneToOneFacts
    <3>3. QED
      BY <3>1, <3>2 DEF Indices
  <2>2. q = Delta(q, d)
    BY <1>1, <2>1 DEF Dense
  <2>3. /\ k + 1 \in 1 .. MaxLen /\ k + 1 \in Lens /\ k \in Lens /\ (k + 1) - 1 = k
        /\ trail[pos].c \in Nat /\ trail[1].c \in Nat
        /\ rank + trail[pos].c = trail[1].c + below[q][k + 1][0]
    BY <1>1, <1>3, <1>7, RankFacts DEF Positions
  <2>4. below[q][k + 1][0] = 0 /\ CachedTable[q][k] = Weight[k]
    BY <1>1, <1>2, <1>3, <2>3, TableFacts
  <2>5. below[q][k + 1][d] = d * CachedTable[Delta(q, 0)][(k + 1) - 1]
    BY <1>1, <1>2, <1>3, <1>4, <2>3, TableFacts
  <2>6. below[q][k + 1][d] = d * Weight[k]
    BY <1>1, <2>3, <2>4, <2>5
  <2>7. d * Weight[k] \in Nat
    BY <1>4
  <2>8. r + trail[pos].c = trail[1].c + below[q][k + 1][d]
    BY <1>3, <2>3, <2>4, <2>6, <2>7
  <2>9. QED
    BY <2>1, <2>2, <2>8
<1>8. QED
  BY <1>1, <1>3, <1>5, <1>6, <1>7, RankOnWalkInv

LEMMA RankDenseWalkInv ==
  ASSUME BuildInv, WalkInv, RankDense
  PROVE  WalkInv'
<1> DEFINE k == n - pos
           d == indices[pos]
           t == CachedTable[Delta(q, 0)][k]
           r == rank + t * d
<1>1. /\ pc = "rank" /\ pos <= n /\ d \in Symbols(dfa) /\ Dense(q) /\ k <= MaxLen
      /\ ~FinalStateLoop(q) /\ RankMove(r)
  BY DEF RankDense
<1>2. BuildType /\ Built
  BY <1>1 DEF BuildInv, Built
<1>3. /\ MaxLen \in Nat /\ k \in Lens /\ q \in States(dfa) /\ rank \in Nat /\ cursor = 0
  BY <1>1, RankFacts
<1>4. Delta(q, 0) \in States(dfa) /\ d \in Nat /\ d \in 0 .. dfa.symbols
  BY <1>1, <1>2, <1>3, DfaFacts DEF Symbols
<1>5. t \in Nat
  BY <1>2, <1>3, <1>4, TableFacts
<1>6. r \in Nat /\ t * d \in Nat /\ t * d = d * t
  BY <1>3, <1>4, <1>5
<1>7. ASSUME asked # NoRank, OneToOne
      PROVE  r + trail[pos].c = trail[1].c + below[q][k + 1][d]
  <2>1. /\ k + 1 \in 1 .. MaxLen /\ k + 1 \in Lens /\ (k + 1) - 1 = k
        /\ trail[pos].c \in Nat /\ trail[1].c \in Nat
        /\ rank + trail[pos].c = trail[1].c + below[q][k + 1][0]
    BY <1>1, <1>3, <1>7, RankFacts DEF Positions
  <2>2. below[q][k + 1][0] = 0
    BY <1>2, <1>3, <2>1, TableFacts
  <2>3. below[q][k + 1][d] = d * CachedTable[Delta(q, 0)][(k + 1) - 1]
    BY <1>1, <1>2, <1>3, <1>4, <2>1, TableFacts
  <2>4. below[q][k + 1][d] = t * d
    BY <1>6, <2>1, <2>3
  <2>5. QED
    BY <1>3, <1>6, <2>1, <2>2, <2>4
<1>8. QED
  BY <1>1, <1>6, <1>7, RankMoveWalkInv

LEMMA RankNextWalkInv ==
  ASSUME BuildInv, WalkInv, RankNext
  PROVE  WalkInv'
<1>1. /\ pc = "rank" /\ pos <= n /\ indices[pos] \in Symbols(dfa) /\ cursor = indices[pos]
      /\ ~FinalStateLoop(q) /\ RankMove(rank)
  BY DEF RankNext, FinalStateLoop
<1>2. rank \in Nat
  BY <1>1, RankFacts
<1>3. asked # NoRank /\ OneToOne =>
        rank + trail[pos].c = trail[1].c + below[q][n - pos + 1][indices[pos]]
  BY <1>1, RankFacts
<1>4. QED
  BY <1>1, <1>2, <1>3, RankMoveWalkInv

LEMMA RankAddWalkInv ==
  ASSUME BuildInv, WalkInv, RankAdd
  PROVE  WalkInv'
<1> DEFINE k == n - pos
           t == CachedTable[Delta(q, cursor)][k]
<1>1. /\ pc = "rank" /\ pos <= n /\ indices[pos] \in Symbols(dfa) /\ ~Dense(q) /\ k <= MaxLen
      /\ cursor < indices[pos] /\ rank' = rank + t /\ cursor' = cursor + 1
      /\ pc' = pc /\ dfa' = dfa /\ inclusive' = inclusive /\ usable' = usable /\ len' = len
      /\ acc' = acc /\ CachedTable' = CachedTable /\ below' = below
      /\ n' = n /\ q' = q /\ pos' = pos /\ c' = c /\ word' = word /\ ret' = ret /\ op' = op
      /\ asked' = asked /\ trail' = trail /\ indices' = indices
      /\ final_state_loop' = final_state_loop
  BY DEF RankAdd, Continuations, lang, building, spelling
<1>2. BuildType /\ Built /\ WalkType /\ RankInv
  BY <1>1 DEF BuildInv, WalkInv, Built
<1>3. /\ MaxLen \in Nat /\ k \in Lens /\ q \in States(dfa) /\ rank \in Nat
      /\ n = Len(word) /\ pos \in 1 .. n + 1 /\ op = "Rank" /\ cursor \in Symbols(dfa)
      /\ final_state_loop => FinalStateLoop(q)
  BY <1>1, RankFacts
<1>4. Delta(q, cursor) \in States(dfa) /\ cursor \in 0 .. dfa.symbols /\ indices[pos] \in Nat
      /\ cursor \in Nat /\ cursor + 1 <= indices[pos] /\ cursor + 1 \in Symbols(dfa)
  <2>1. dfa.symbols \in Nat /\ Delta(q, cursor) \in States(dfa)
    BY <1>2, <1>3, DfaFacts
  <2>2. cursor \in 0 .. dfa.symbols - 1 /\ indices[pos] \in 0 .. dfa.symbols - 1
    BY <1>1, <1>3 DEF Symbols
  <2>3. QED
    BY <1>1, <2>1, <2>2 DEF Symbols
<1>5. t \in Nat
  BY <1>2, <1>3, <1>4, TableFacts
<1>6. rank' \in Nat
  BY <1>1, <1>3, <1>5
<1>7. WalkType'
  BY <1>1, <1>2, <1>4, <1>6 DEF WalkType, Positions, States, Symbols
<1>8. ASSUME asked # NoRank, OneToOne
      PROVE  /\ Unranked' /\ IsFinal(trail[n + 1].q)' /\ q' = trail'[pos'].q
             /\ rank' + trail'[pos'].c = trail'[1].c + below'[q'][n' - pos' + 1][cursor']
  <2>1. /\ k + 1 \in 1 .. MaxLen /\ k + 1 \in Lens /\ (k + 1) - 1 = k
        /\ trail[pos].c \in Nat /\ trail[1].c \in Nat /\ q = trail[pos].q
        /\ rank + trail[pos].c = trail[1].c + below[q][k + 1][cursor]
    BY <1>1, <1>3, <1>8, RankFacts DEF Positions
  <2>1a. Unranked /\ IsFinal(trail[n + 1].q)
    BY <1>1, <1>2, <1>8 DEF RankInv
  <2>2. Unranked' /\ IsFinal(trail[n + 1].q)'
    BY <1>1, <2>1a
    DEF Unranked, Walked, InLanguage, Hop, Delta, Symbols, IsFinal, FinalStates
  <2>3. below[q][k + 1][cursor] \in Nat
    BY <1>2, <1>3, <1>4, <2>1, TableFacts
  <2>4. below[q][k + 1][cursor + 1] = below[q][k + 1][cursor] + t
    BY <1>2, <1>3, <2>1, TableFacts
  <2>5. (rank + t) + trail[pos].c = trail[1].c + below[q][k + 1][cursor + 1]
    <3> DEFINE x == below[q][k + 1][cursor]
               y == below[q][k + 1][cursor + 1]
               u == trail[pos].c
               v == trail[1].c
    <3>1. /\ u \in Nat /\ v \in Nat /\ x \in Nat /\ t \in Nat /\ rank \in Nat
          /\ rank + u = v + x /\ y = x + t
      BY <1>3, <1>5, <2>1, <2>3, <2>4
    <3> HIDE DEF t, x, y, u, v
    <3>2. (rank + t) + u = v + y
      BY <3>1
    <3>3. QED
      BY <3>2 DEF u, v, y
  <2>6. QED
    BY <1>1, <2>1, <2>2, <2>5
<1>9. ~Dense(q)' /\ pos' <= n' /\ cursor' <= indices'[pos']
  BY <1>1, <1>4 DEF Dense, Delta, Symbols
<1>10. RankInv'
  <2>1. OneToOne' = OneToOne
    BY <1>1, SameDfa
  <2>2. ~final_state_loop'
    BY <1>1, <1>3 DEF FinalStateLoop
  <2>3. QED
    BY <1>1, <1>3, <1>8, <1>9, <2>1, <2>2 DEF RankInv
<1>11. Spelled'
  BY <1>1, <1>3, SameDfa DEF WalkInv, Spelled
<1>12. QED
  BY <1>1, <1>7, <1>10, <1>11 DEF WalkInv, SliceInv, UnrankInv, UnrankReturned, Ranked, Built

(* Rank of a word that has just been unranked can end only by accepting it.*)
LEMMA RankEndsWalkInv ==
  ASSUME BuildInv, WalkInv, pc = "rank",
         NEW result \in {"true", "false", "threw"}, NEW r \in Nat, RankEnds(result, r),
         asked # NoRank /\ OneToOne => result = "true" /\ r = asked
  PROVE  WalkInv'
<1>1. /\ pc' = "idle" /\ ret' = result /\ rank' = r
      /\ dfa' = dfa /\ usable' = usable /\ len' = len /\ acc' = acc
      /\ n' = n /\ q' = q /\ cursor' = cursor /\ pos' = pos /\ c' = c /\ word' = word
      /\ op' = op /\ asked' = asked /\ trail' = trail
      /\ indices' = indices /\ final_state_loop' = final_state_loop
  BY DEF RankEnds, lang, building, spelling
<1>2. WalkType /\ op = "Rank" /\ Spelled
  BY RankFacts DEF WalkInv
<1>3. WalkType'
  BY <1>1, <1>2 DEF WalkType, Positions, States, Symbols
<1>4. Ranked' /\ Spelled'
  BY <1>1, <1>2, SameDfa DEF Ranked, Spelled
<1>5. QED
  BY <1>1, <1>2, <1>3, <1>4 DEF WalkInv, SliceInv, UnrankInv, UnrankReturned, RankInv, Built

LEMMA RankRefusalWalkInv ==
  ASSUME BuildInv, WalkInv,
         RankUnknownSymbol \/ RankBeyondTable \/ RankRejects \/ RankBeyondCount
  PROVE  WalkInv'
<1>1. /\ pc = "rank" /\ rank \in Nat /\ MaxLen \in Nat /\ n \in Nat /\ pos \in 1 .. n + 1
  <2>1. pc = "rank"
    BY DEF RankUnknownSymbol, RankBeyondTable, RankRejects, RankBeyondCount
  <2>2. QED
    BY <2>1, RankFacts
<1>2. ASSUME asked # NoRank, OneToOne
      PROVE  FALSE
  <2>1. /\ n \in 1 .. MaxLen /\ q = trail[pos].q
        /\ pos <= n => indices[pos] \in Symbols(dfa)
    BY <1>1, <1>2, RankFacts DEF Hop
  <2>2. IsFinal(trail[n + 1].q)
    BY <1>1, <1>2 DEF WalkInv, RankInv, Unranked
  <2>3. n - pos <= MaxLen /\ n - 1 \in Lens /\ (pos > n => pos = n + 1)
    BY <1>1, <2>1
  <2>4. pos > n => IsFinal(q)
    BY <2>1, <2>2, <2>3
  <2>5. ~RankUnknownSymbol
    BY <2>1 DEF RankUnknownSymbol
  <2>6. ~RankBeyondTable
    BY <1>1, <2>3 DEF RankBeyondTable
  <2>7. ~RankRejects /\ ~RankBeyondCount
    BY <2>3, <2>4 DEF RankRejects, RankBeyondCount
  <2>8. QED
    BY <2>5, <2>6, <2>7
<1>3. PICK result \in {"false", "threw"} : RankEnds(result, rank)
  BY DEF RankUnknownSymbol, RankBeyondTable, RankRejects, RankBeyondCount
<1>4. QED
  BY <1>1, <1>2, <1>3, RankEndsWalkInv

LEMMA RankAcceptsWalkInv ==
  ASSUME BuildInv, WalkInv, RankAccepts
  PROVE  WalkInv'
<1>1. /\ pc = "rank" /\ pos > n /\ n - 1 \in Lens /\ RankEnds("true", rank + inclusive[n - 1])
  BY DEF RankAccepts
<1>2. /\ Built /\ rank \in Nat /\ n \in Nat /\ pos = n + 1 /\ n - pos + 1 = 0 /\ cursor = 0
      /\ q \in States(dfa)
  <2>1. Built /\ rank \in Nat /\ n \in Nat /\ pos \in 1 .. n + 1 /\ cursor = 0
        /\ q \in States(dfa)
    BY <1>1, RankFacts DEF Built
  <2>2. QED
    BY <1>1, <2>1
<1>3. inclusive[n - 1] \in Nat
  BY <1>1, <1>2, CountFacts
<1>4. ASSUME asked # NoRank, OneToOne
      PROVE  rank + inclusive[n - 1] = asked
  <2>1. Unranked
    BY <1>1, <1>4 DEF WalkInv, RankInv
  <2>2. /\ trail[pos].c = 0 /\ trail[1].c = asked - inclusive[n - 1] /\ asked \in Nat
    BY <1>2, <2>1 DEF Unranked, Walked
  <2>3. rank + trail[pos].c = trail[1].c + below[q][0][0]
    BY <1>1, <1>2, <1>4, RankFacts
  <2>4. below[q][0][0] = 0
    BY <1>2, BoundAssumption, TableFacts
  <2>5. QED
    BY <1>2, <1>3, <2>2, <2>3, <2>4
<1>5. QED
  BY <1>1, <1>2, <1>3, <1>4, RankEndsWalkInv

(* SetLanguage runs before the first call of Unrank or Rank.               *)
LEMMA BuildWalkInv ==
  ASSUME BuildInv, WalkInv, Build
  PROVE  WalkInv'
<1>1. /\ dfa' = dfa /\ n' = n /\ c' = c /\ word' = word /\ rank' = rank
      /\ indices' = indices /\ final_state_loop' = final_state_loop
      /\ op' = op /\ ret' = ret /\ asked' = asked /\ trail' = trail /\ ~Built
  BY DEF Build, SetLanguage, FillEntry, FillDone, CountWords, StoreCount, SetLanguageReturn,
         lang, building, spelling, Built
<1>2. WalkType /\ BuildType /\ op = "none" /\ MaxLen \in Nat
  BY <1>1, BoundAssumption DEF WalkInv, BuildInv
<1>3. 0 \in States(dfa) /\ 0 \in Symbols(dfa)
  BY <1>2, DfaFacts
<1>4. /\ usable' \in BOOLEAN /\ len' \in 0 .. MaxLen + 1 /\ q' \in States(dfa)
      /\ cursor' \in Symbols(dfa) /\ acc' \in Nat /\ pos' \in Nat
      /\ pc' \in {"fill", "count", "idle"}
  <2>1. CASE SetLanguage
    BY <1>2, <1>3, <2>1 DEF SetLanguage, WalkType
  <2>2. CASE FillEntry
    <3>1. /\ pc' = "fill" /\ len <= MaxLen /\ pc = "fill" /\ NextEntry
          /\ usable' = usable /\ acc' = acc /\ pos' = pos
      BY <1>2, <2>2 DEF FillEntry, BuildType
    <3>2. len' \in 1 .. MaxLen + 1 /\ q' \in States(dfa) /\ cursor' \in Symbols(dfa)
      BY <1>2, <3>1, NextEntryFacts
    <3>3. QED
      BY <1>2, <3>1, <3>2 DEF WalkType
  <2>3. CASE FillDone
    BY <1>2, <2>3 DEF FillDone, WalkType
  <2>4. CASE CountWords
    <3>1. BuildInv'
      BY <2>4, CountWordsBuildInv
    <3>2. pc = "count" /\ pc' = "count" /\ usable' = usable /\ len' = len /\ q' = q
          /\ cursor' = cursor /\ pos' = pos + 1
      BY <2>4 DEF CountWords, lang
    <3>3. acc' \in Nat
      BY <3>1, <3>2 DEF BuildInv, BuildType
    <3>4. QED
      BY <1>2, <3>2, <3>3 DEF WalkType
  <2>5. CASE StoreCount
    BY <1>2, <2>5 DEF StoreCount, WalkType
  <2>6. CASE SetLanguageReturn
    BY <1>2, <2>6 DEF SetLanguageReturn, WalkType, building
  <2>7. QED
    BY <2>1, <2>2, <2>3, <2>4, <2>5, <2>6 DEF Build
<1>5. WalkType'
  BY <1>1, <1>2, <1>4 DEF WalkType, Positions, States, Symbols
<1>6. QED
  BY <1>1, <1>2, <1>4, <1>5
  DEF WalkInv, SliceInv, UnrankInv, UnrankReturned, RankInv, Ranked, Spelled

LEMMA InitWalkInv ==
  ASSUME Init
  PROVE  WalkInv
<1>1. /\ BuildType /\ pc = "new" /\ op = "none"
  BY DEF Init, BuildType
<1>2. 0 \in States(dfa) /\ 0 \in Symbols(dfa) /\ MaxLen \in Nat /\ Base \in Nat
  BY <1>1, DfaFacts, BoundAssumption
<1>3. WalkType
  <2>1. /\ << >> \in Seq(0 .. Base - 1) /\ << >> \in Seq(0 .. Base)
        /\ << >> \in Seq(Positions) /\ Len(<< >>) = 0
    OBVIOUS
  <2>2. /\ usable = FALSE /\ len = 0 /\ q = 0 /\ cursor = 0 /\ acc = 0 /\ n = 0 /\ pos = 0
        /\ c = 0 /\ rank = 0 /\ word = << >> /\ indices = << >> /\ final_state_loop = FALSE
        /\ trail = << >> /\ ret = "none" /\ op = "none" /\ asked = NoRank
    BY DEF Init
  <2>3. /\ word \in Seq(0 .. Base - 1) /\ trail \in Seq(Positions) /\ Len(word) <= MaxLen + 2
        /\ indices \in Seq(0 .. Base) /\ Len(indices) = Len(word)
    BY <1>2, <2>1, <2>2
  <2>4. /\ len \in 0 .. MaxLen + 1 /\ q \in States(dfa) /\ cursor \in Symbols(dfa)
        /\ asked \in Nat \cup {NoRank}
    BY <1>2, <2>2
  <2>5. usable \in BOOLEAN /\ final_state_loop \in BOOLEAN
    BY <2>2, Zenon
  <2>6. QED
    BY <2>2, <2>3, <2>4, <2>5 DEF WalkType
<1>4. QED
  BY <1>1, <1>3 DEF WalkInv, SliceInv, UnrankInv, UnrankReturned, RankInv, Ranked, Spelled

LEMMA StutterWalkInv ==
  ASSUME WalkInv, UNCHANGED vars
  PROVE  WalkInv'
<1>1. WalkType' /\ SliceInv' /\ Spelled' /\ (~Built' => op' = "none")
  BY DEF vars, WalkInv, WalkType, SliceInv, Spelled, Built, Positions, States, Symbols, OneToOne,
         Indices
<1>2. UnrankInv'
  BY DEF vars, WalkInv, UnrankInv, Walked, Hop, InLanguage, Symbols, Dense, Delta
<1>3. /\ OneToOne' = OneToOne /\ IsFinal(trail[n + 1].q)' = IsFinal(trail[n + 1].q)
      /\ FinalStateLoop(q)' = FinalStateLoop(q) /\ Dense(q)' = Dense(q) /\ Unranked' = Unranked
  BY DEF vars, OneToOne, IsFinal, FinalStateLoop, Dense, Delta, FinalStates, Symbols, Unranked,
         Walked, Hop, InLanguage
<1>4. UnrankReturned' /\ RankInv' /\ Ranked'
  BY <1>3 DEF vars, WalkInv, UnrankReturned, RankInv, Ranked, InLanguage
<1>5. QED
  BY <1>1, <1>2, <1>4 DEF WalkInv

(* What the walks keep true, for every automaton and every call.           *)
THEOREM WalksKeep == Spec => []WalkInv
<1>1. Init => WalkInv
  BY InitWalkInv
<1>2. BuildInv /\ WalkInv /\ [Next]_vars => WalkInv'
  <2> SUFFICES ASSUME BuildInv, WalkInv, [Next]_vars
               PROVE  WalkInv'
    OBVIOUS
  <2>1. CASE Build
    BY <2>1, BuildWalkInv
  <2>2. CASE UnrankStep
    BY <2>2, NextSliceWalkInv, SliceThrowsWalkInv, FoundSliceWalkInv, UnrankTailWalkInv,
       UnrankDenseWalkInv, UnrankSkipWalkInv, UnrankChooseWalkInv, UnrankReturnWalkInv
    DEF UnrankStep
  <2>3. CASE RankStep
    BY <2>3, RankRefusalWalkInv, RankTailWalkInv, RankDenseWalkInv, RankAddWalkInv,
       RankNextWalkInv, RankAcceptsWalkInv DEF RankStep
  <2>4. ASSUME NEW r \in Ranks, CallUnrank(r)
        PROVE  WalkInv'
    BY <2>4, CallUnrankWalkInv
  <2>5. ASSUME NEW w \in Words \cup {word}, CallRank(w)
        PROVE  WalkInv'
    BY <2>5, CallRankWalkInv
  <2>6. CASE UNCHANGED vars
    BY <2>6, StutterWalkInv
  <2>7. QED
    BY <2>1, <2>2, <2>3, <2>4, <2>5, <2>6 DEF Next, Step
<1>3. QED
  BY <1>1, <1>2, TablesBuilt, PTL DEF Spec
-----------------------------------------------------------------------------
(* Every variable keeps its type.                                          *)
THEOREM TypeCorrect == Spec => []TypeOK
<1>1. BuildInv /\ WalkInv => TypeOK
  BY DfaFacts DEF BuildInv, BuildType, WalkInv, WalkType, TypeOK
<1>2. QED
  BY <1>1, TablesBuilt, WalksKeep, PTL

(* Unrank never leaves the table's row nor divides by zero, whatever the   *)
(* automaton (dfa_ranker.cc:260-310).                                      *)
THEOREM UnrankStaysInRange == Spec => []UnrankInRange
<1>1. BuildInv /\ WalkInv => UnrankInRange
  <2> SUFFICES ASSUME BuildInv, WalkInv, pc = "unrank"
               PROVE  /\ n \in 1 .. MaxLen
                      /\ pos \in 1 .. n + 1
                      /\ c + below[q][n - pos + 1][cursor] < CachedTable[q][n - pos + 1]
                      /\ pos <= n /\ Dense(q) => CachedTable[Delta(q, 0)][n - pos] > 0
    BY DEF UnrankInRange
  <2>1. /\ n \in 1 .. MaxLen /\ pos \in 1 .. n + 1
        /\ c + below[q][n - pos + 1][cursor] < CachedTable[q][n - pos + 1]
    <3>1. /\ n \in 1 .. MaxLen /\ pos \in 1 .. n + 1
          /\ trail[pos].c = c + below[q][n - pos + 1][cursor]
          /\ trail[pos].c < CachedTable[q][n - pos + 1]
      BY UnrankFacts
    <3>2. QED
      BY <3>1
  <2>2. pos <= n /\ Dense(q) => CachedTable[Delta(q, 0)][n - pos] > 0
    BY DenseFacts
  <2>3. QED
    BY <2>1, <2>2
<1>2. QED
  BY <1>1, TablesBuilt, WalksKeep, PTL

(* Unrank throws on exactly the integers that are the rank of no non-empty *)
(* word, and returns true on the others if the final states were sorted.   *)
THEOREM UnrankOutcome == Spec => []UnrankSucceeds
<1>1. BuildInv /\ WalkInv => UnrankSucceeds
  <2> SUFFICES ASSUME BuildInv, WalkInv, pc = "idle", op = "Unrank"
               PROVE  /\ (ret = "threw") <=> ~InLanguage(asked)
                      /\ usable => ret # "false"
    BY DEF UnrankSucceeds, InLanguage
  <2>1. UnrankReturned /\ WalkType /\ BuildType
    BY DEF WalkInv, BuildInv
  <2>2. ASSUME InLanguage(asked)
        PROVE  ret # "threw" /\ (usable => ret # "false")
    <3>1. Unranked /\ ret = IF IsFinal(trail[n + 1].q) THEN "true" ELSE "false"
      BY <2>1, <2>2 DEF UnrankReturned
    <3>2. trail[n + 1].q \in FinalStates(dfa) /\ FinalStates(dfa) \subseteq States(dfa)
      BY <2>1, <3>1, DfaFacts DEF Unranked, IsDfa, FinalStates, Range
    <3>3. usable => IsFinal(trail[n + 1].q)
      BY <2>1, <3>2, IsFinalFacts
    <3>4. QED
      BY <3>1, <3>3
  <2>3. QED
    BY <2>1, <2>2 DEF UnrankReturned
<1>2. QED
  BY <1>1, TablesBuilt, WalksKeep, PTL

(* Rank is the inverse of Unrank, for every length and rank and every      *)
(* automaton whose symbols and bytes are one to one.                       *)
THEOREM RankIsInverse == Spec => []RankInvertsUnrank
<1>1. WalkInv => RankInvertsUnrank
  BY DEF WalkInv, Ranked, RankInvertsUnrank
<1>2. QED
  BY <1>1, WalksKeep, PTL
=============================================================================
