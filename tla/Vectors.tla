------------------------------- MODULE Vectors -------------------------------
(***************************************************************************)
(* What the C++ library does with a vector of integers: std::sort, and     *)
(* std::binary_search, which expects a sorted vector and is not told when  *)
(* it is given another one.                                                *)
(***************************************************************************)
EXTENDS Integers, Sequences, FiniteSets, Functions

(* The place of a in the ascending order of S.                             *)
Position(S, a) == Cardinality({b \in S : b < a})

(* The elements of S in that order: what sorting a vector of them leaves,  *)
(* if it has each of them once.                                            *)
InOrder(S) == [k \in 1 .. Cardinality(S) |-> CHOOSE a \in S : Position(S, a) = k - 1]

(* One turn of std::lower_bound: the middle of the range decides which     *)
(* half is searched on.                                                    *)
Halved(v, s, r) ==
  LET half == r.len \div 2
  IN  IF r.len = 0 THEN r
      ELSE IF v[r.first + half] < s
        THEN [first |-> r.first + half + 1, len |-> r.len - half - 1]
      ELSE [first |-> r.first, len |-> half]

(* The range after k turns; after Len(v) of them it is empty.              *)
Ranges(v, s) ==
  LET range[k \in 0 .. Len(v)] ==
        IF k = 0 THEN [first |-> 1, len |-> Len(v)] ELSE Halved(v, s, range[k - 1])
  IN  range

BinarySearch(v, s) ==
  LET found == Ranges(v, s)[Len(v)].first
  IN  found <= Len(v) /\ ~(s < v[found])
=============================================================================
