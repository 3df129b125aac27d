------------------------------ MODULE ProofLemmas -----------------------------
(***************************************************************************)
(* Induction over the natural numbers, functions defined by recursion,     *)
(* products and quotients, and sizes of sets.  A property is a set here,   *)
(* not an operator: what the library says of operators the provers cannot  *)
(* instantiate.                                                            *)
(***************************************************************************)
EXTENDS Powers, FiniteSetTheorems, FunctionTheorems, TLAPS

(* A set of natural numbers has a smallest element, since the intervals    *)
(* from 0 to its elements are well-founded by inclusion.                   *)
LEMMA SmallestOf ==
  ASSUME NEW S \in SUBSET Nat, S # {}
  PROVE  \E n \in S : \A m \in S : n <= m
<1> DEFINE R == StrictSubsetOrdering(Nat)
           T == {0 .. n : n \in S}
<1>1. IsWellFoundedOn(R, FiniteSubsetsOf(Nat))
  BY FS_StrictSubsetOrderingWellFounded
<1>2. T \subseteq FiniteSubsetsOf(Nat)
  <2>1. SUFFICES ASSUME NEW n \in S
                 PROVE  0 .. n \in FiniteSubsetsOf(Nat)
    OBVIOUS
  <2>2. 0 .. n \in SUBSET Nat
    OBVIOUS
  <2>3. IsFiniteSet(0 .. n)
    BY FS_Interval
  <2>4. QED
    BY <2>2, <2>3 DEF FiniteSubsetsOf
<1>3. T # {}
  OBVIOUS
<1>4. PICK t \in T : \A u \in T : <<u, t>> \notin R
  <2> HIDE DEF R, T
  <2> QED
    BY <1>1, <1>2, <1>3, WFMin
<1>5. PICK n \in S : t = 0 .. n
  OBVIOUS
<1>6. ASSUME NEW m \in S, m < n
      PROVE  FALSE
  <2>1. <<0 .. m, t>> \notin R
    BY <1>4
  <2>2. 0 .. m \in SUBSET Nat /\ t \in SUBSET Nat
    BY <1>5
  <2>3. 0 .. m \subseteq t /\ n \in t /\ n \notin 0 .. m
    BY <1>5, <1>6
  <2>4. QED
    BY <2>1, <2>2, <2>3, Zenon DEF StrictSubsetOrdering
<1>7. QED
  BY <1>6

LEMMA Induction ==
  ASSUME NEW S, 0 \in S, \A n \in Nat : n \in S => n + 1 \in S
  PROVE  \A n \in Nat : n \in S
<1>1. SUFFICES ASSUME Nat \ S # {}
               PROVE  FALSE
  OBVIOUS
<1>2. PICK n \in Nat \ S : \A m \in Nat \ S : n <= m
  BY <1>1, SmallestOf
<1>3. n # 0 /\ n - 1 \in Nat
  BY <1>2
<1>4. n - 1 \in S
  BY <1>2, <1>3
<1>5. QED
  BY <1>2, <1>3, <1>4

(* Up to a bound.                                                          *)
LEMMA InductionUpTo ==
  ASSUME NEW N \in Nat, NEW S, 0 \in S, \A n \in 0 .. N - 1 : n \in S => n + 1 \in S
  PROVE  \A n \in 0 .. N : n \in S
<1> DEFINE T == {n \in Nat : n \in S \/ n > N}
<1>1. 0 \in T
  OBVIOUS
<1>2. \A n \in Nat : n \in T => n + 1 \in T
  OBVIOUS
<1>3. \A n \in Nat : n \in T
  <2> HIDE DEF T
  <2> QED
    BY <1>1, <1>2, Induction
<1>4. QED
  BY <1>3
-----------------------------------------------------------------------------
(* f starts at s, and from i - 1 to i makes the step G[i], up to N.        *)
Follows(f, s, G, N) == f[0] = s /\ \A i \in 1 .. N : f[i] = G[i][f[i - 1]]

LEMMA RecursionUpTo ==
  ASSUME NEW S, NEW s \in S, NEW N \in Nat, NEW G \in [1 .. N -> [S -> S]]
  PROVE  \E f \in [0 .. N -> S] : Follows(f, s, G, N)
<1> DEFINE T == {n \in 0 .. N : \E f \in [0 .. n -> S] : Follows(f, s, G, n)}
<1>1. 0 \in T
  <2>1. [i \in 0 .. 0 |-> s] \in [0 .. 0 -> S]
    OBVIOUS
  <2>2. Follows([i \in 0 .. 0 |-> s], s, G, 0)
    BY DEF Follows
  <2>3. QED
    BY <2>1, <2>2
<1>2. ASSUME NEW n \in 0 .. N - 1, n \in T
      PROVE  n + 1 \in T
  <2>1. PICK f \in [0 .. n -> S] : Follows(f, s, G, n)
    BY <1>2
  <2>2. PICK g : g = [i \in 0 .. n + 1 |-> IF i = n + 1 THEN G[n + 1][f[n]] ELSE f[i]]
    OBVIOUS
  <2>3. G[n + 1][f[n]] \in S
    OBVIOUS
  <2>4. g \in [0 .. n + 1 -> S]
    BY <2>2, <2>3
  <2>5. \A i \in 0 .. n : g[i] = f[i]
    BY <2>2
  <2>6. Follows(g, s, G, n + 1)
    <3>1. g[0] = s
      BY <2>1, <2>5 DEF Follows
    <3>2. ASSUME NEW i \in 1 .. n + 1
          PROVE  g[i] = G[i][g[i - 1]]
      <4>1. CASE i = n + 1
        BY <4>1, <2>2, <2>5
      <4>2. CASE i # n + 1
        <5>1. i \in 1 .. n /\ i \in 0 .. n /\ i - 1 \in 0 .. n
          BY <4>2
        <5>2. QED
          BY <5>1, <2>1, <2>5 DEF Follows
      <4>3. QED
        BY <4>1, <4>2
    <3>3. QED
      BY <3>1, <3>2 DEF Follows
  <2>7. QED
    BY <2>4, <2>6
<1>3. \A n \in 0 .. N : n \in T
  <2> HIDE DEF T
  <2> QED
    BY <1>1, <1>2, InductionUpTo
<1>4. QED
  BY <1>3

LEMMA SameUpTo ==
  ASSUME NEW S, NEW s \in S, NEW G \in [Nat \ {0} -> [S -> S]], NEW M \in Nat, NEW N \in Nat,
         M <= N, NEW f, NEW g, Follows(f, s, G, M), Follows(g, s, G, N)
  PROVE  \A i \in 0 .. M : f[i] = g[i]
<1> DEFINE T == {i \in 0 .. M : f[i] = g[i]}
<1>1. 0 \in T
  BY DEF Follows
<1>2. ASSUME NEW i \in 0 .. M - 1, i \in T
      PROVE  i + 1 \in T
  <2>1. i + 1 \in 1 .. M /\ i + 1 \in 1 .. N /\ (i + 1) - 1 = i
    OBVIOUS
  <2>2. f[i + 1] = G[i + 1][f[i]] /\ g[i + 1] = G[i + 1][g[i]]
    BY <2>1 DEF Follows
  <2>3. QED
    BY <1>2, <2>1, <2>2
<1>3. \A i \in 0 .. M : i \in T
  <2> HIDE DEF T
  <2> QED
    BY <1>1, <1>2, InductionUpTo
<1>4. QED
  BY <1>3

(* Without a bound.                                                        *)
FollowsAlways(f, s, G) == f[0] = s /\ \A i \in Nat \ {0} : f[i] = G[i][f[i - 1]]

(* A function defined by recursion on Nat exists.                          *)
LEMMA Recursion ==
  ASSUME NEW S, NEW s \in S, NEW G \in [Nat \ {0} -> [S -> S]]
  PROVE  \E f \in [Nat -> S] : FollowsAlways(f, s, G)
<1> DEFINE part(n) == CHOOSE f \in [0 .. n -> S] : Follows(f, s, G, n)
<1>1. \A n \in Nat : part(n) \in [0 .. n -> S] /\ Follows(part(n), s, G, n)
  <2>1. SUFFICES ASSUME NEW n \in Nat
                 PROVE  \E f \in [0 .. n -> S] : Follows(f, s, G, n)
    OBVIOUS
  <2>2. PICK H \in [1 .. n -> [S -> S]] : \A i \in 1 .. n : H[i] = G[i]
    <3>1. [i \in 1 .. n |-> G[i]] \in [1 .. n -> [S -> S]]
      OBVIOUS
    <3>2. QED
      BY <3>1
  <2>3. PICK f \in [0 .. n -> S] : Follows(f, s, H, n)
    BY RecursionUpTo
  <2>4. QED
    BY <2>2, <2>3 DEF Follows
<1> HIDE DEF part
<1>2. PICK f : f = [n \in Nat |-> part(n)[n]]
  OBVIOUS
<1>3. f \in [Nat -> S]
  BY <1>1, <1>2
<1>4. f[0] = s
  BY <1>1, <1>2 DEF Follows
<1>5. ASSUME NEW i \in Nat \ {0}
      PROVE  f[i] = G[i][f[i - 1]]
  <2>1. i - 1 \in Nat /\ i - 1 <= i /\ i \in Nat /\ i \in 1 .. i /\ i - 1 \in 0 .. i - 1
    OBVIOUS
  <2>2. Follows(part(i), s, G, i) /\ Follows(part(i - 1), s, G, i - 1)
    BY <1>1, <2>1
  <2>3. part(i - 1)[i - 1] = part(i)[i - 1]
    BY <2>1, <2>2, SameUpTo
  <2>4. part(i)[i] = G[i][part(i)[i - 1]]
    BY <2>1, <2>2 DEF Follows
  <2>5. QED
    BY <1>2, <2>1, <2>3, <2>4
<1>6. QED
  BY <1>3, <1>4, <1>5 DEF FollowsAlways
-----------------------------------------------------------------------------
LEMMA ProductMonotone ==
  ASSUME NEW a \in Int, NEW b \in Int, NEW c \in Nat, a <= b
  PROVE  a * c <= b * c /\ c * a <= c * b
OBVIOUS

LEMMA ProductPositive == \A a, b \in Nat \ {0} : a * b \in Nat \ {0}
OBVIOUS

LEMMA ProductInNat == \A a, b \in Nat : a * b \in Nat
OBVIOUS

LEMMA ProductAssociates == \A a, b, c \in Int : (a * b) * c = a * (b * c)
OBVIOUS

LEMMA ProductDistributes ==
  \A a, b, c \in Int : (a + b) * c = a * c + b * c /\ (a - b) * c = a * c - b * c
OBVIOUS

LEMMA Division ==
  ASSUME NEW a \in Int, NEW d \in Nat \ {0}
  PROVE  /\ a \div d \in Int /\ a % d \in 0 .. d - 1
         /\ a = (a \div d) * d + (a % d)
OBVIOUS

LEMMA QuotientUnique ==
  ASSUME NEW a \in Int, NEW d \in Nat \ {0}, NEW q \in Int, q * d <= a, a < (q + 1) * d
  PROVE  a \div d = q
<1>1. a \div d \in Int /\ a % d \in 0 .. d - 1 /\ a = (a \div d) * d + (a % d)
  BY Division
<1>2. CASE a \div d < q
  <2>1. (a \div d + 1) * d <= q * d
    BY <1>1, <1>2, ProductMonotone
  <2>2. QED
    BY <1>1, <2>1, ProductDistributes
<1>3. CASE q < a \div d
  <2>1. (q + 1) * d <= (a \div d) * d
    BY <1>1, <1>3, ProductMonotone
  <2>2. QED
    BY <1>1, <2>1
<1>4. QED
  BY <1>1, <1>2, <1>3

(* Division by a product, one factor after the other.                      *)
LEMMA QuotientOfQuotient ==
  ASSUME NEW a \in Int, NEW d \in Nat \ {0}, NEW e \in Nat \ {0}
  PROVE  (a \div d) \div e = a \div (d * e)
<1> DEFINE q == a \div d
           p == q \div e
<1>1. q \in Int /\ p \in Int /\ d * e \in Nat \ {0}
  BY Division, ProductPositive
<1>2. q * d <= a /\ a < (q + 1) * d
  BY Division, ProductDistributes
<1>3. p * e <= q /\ q + 1 <= (p + 1) * e
  BY <1>1, Division, ProductDistributes
<1> HIDE DEF q, p
<1>4. (p * e) * d <= q * d /\ (q + 1) * d <= ((p + 1) * e) * d
  BY <1>1, <1>3, ProductMonotone
<1>5. (p * e) * d = p * (d * e) /\ ((p + 1) * e) * d = (p + 1) * (d * e)
  BY <1>1, ProductAssociates
<1>6. a \div (d * e) = p
  BY <1>1, <1>2, <1>4, <1>5, QuotientUnique
<1>7. QED
  BY <1>6 DEF p, q

LEMMA RemainderUnique ==
  ASSUME NEW a \in Int, NEW d \in Nat \ {0}, NEW q \in Int, NEW r \in 0 .. d - 1, a = q * d + r
  PROVE  a \div d = q /\ a % d = r
<1>1. PICK m \in Int : m = q * d
  OBVIOUS
<1>2. (q + 1) * d = m + d /\ q * d = m /\ a = m + r
  BY <1>1, ProductDistributes
<1>3. q * d <= a /\ a < (q + 1) * d
  BY <1>1, <1>2
<1>4. a \div d = q
  BY <1>3, QuotientUnique
<1>5. PICK s \in Int : s = a % d /\ a = q * d + s
  BY <1>4, Division
<1>6. QED
  BY <1>1, <1>2, <1>4, <1>5

(* A number of which t is the part below p, to the modulus m * p.          *)
LEMMA ResidueOfSum ==
  ASSUME NEW a \in Nat, NEW p \in Nat \ {0}, NEW m \in Nat \ {0}, NEW t \in 0 .. p - 1
  PROVE  (a * p + t) % (m * p) = (a % m) * p + t
<1>1. PICK q \in Int, s \in 0 .. m - 1 : a = q * m + s /\ s = a % m
  <2>1. a \in Int
    OBVIOUS
  <2>2. a \div m \in Int /\ a % m \in 0 .. m - 1 /\ a = (a \div m) * m + (a % m)
    BY <2>1, Division
  <2>3. QED
    BY <2>2, Zenon
<1>2. PICK M \in Nat \ {0} : M = m * p
  BY ProductPositive
<1>3. a * p = (q * m) * p + s * p
  BY <1>1, ProductDistributes
<1>4. (q * m) * p = q * M
  BY <1>2, ProductAssociates
<1>5. s + 1 <= m /\ s + 1 \in Nat /\ s \in Nat
  BY <1>1
<1>6. (s + 1) * p <= m * p /\ (s + 1) * p = s * p + p /\ s * p \in Nat
  BY <1>5, ProductMonotone, ProductDistributes, ProductInNat
<1>7. s * p + t \in 0 .. M - 1
  BY <1>2, <1>6
<1>8. a * p + t = q * M + (s * p + t)
  <2>1. PICK x \in Int, y \in Nat : x = q * M /\ y = s * p
    BY <1>2, <1>6
  <2>2. QED
    BY <1>3, <1>4, <2>1
<1>9. a * p + t \in Int
  BY ProductInNat
<1>10. (a * p + t) % M = s * p + t
  BY <1>2, <1>7, <1>8, <1>9, RemainderUnique
<1>11. QED
  BY <1>1, <1>2, <1>10
-----------------------------------------------------------------------------
HasSize(S, m) == IsFiniteSet(S) /\ Cardinality(S) = m

LEMMA SizeIsNat ==
  ASSUME NEW S, NEW m, HasSize(S, m)
  PROVE  m \in Nat
BY FS_CardinalityType DEF HasSize

LEMMA SizeOfEmpty == HasSize({}, 0)
BY FS_EmptySet DEF HasSize

LEMMA SizeOfUnion ==
  ASSUME NEW S, NEW T, NEW a, NEW b, HasSize(S, a), HasSize(T, b), S \cap T = {}
  PROVE  HasSize(S \cup T, a + b)
<1>1. /\ IsFiniteSet(S \cup T)
      /\ Cardinality(S \cup T) = Cardinality(S) + Cardinality(T) - Cardinality(S \cap T)
  BY FS_Union DEF HasSize
<1>2. Cardinality(S \cap T) = 0
  BY FS_EmptySet
<1>3. a \in Nat /\ b \in Nat /\ Cardinality(S) = a /\ Cardinality(T) = b
  BY SizeIsNat DEF HasSize
<1>4. QED
  BY <1>1, <1>2, <1>3 DEF HasSize

LEMMA SizeOfImage ==
  ASSUME NEW S, NEW T, NEW m, HasSize(S, m), NEW f \in [S -> T],
         \A x, y \in S : f[x] = f[y] => x = y,
         \A y \in T : \E x \in S : f[x] = y
  PROVE  HasSize(T, m)
<1>1. f \in Bijection(S, T)
  BY Fun_IsBij
<1>2. ExistsBijection(S, T)
  BY <1>1, Fun_ExistsBij
<1>3. QED
  BY <1>2, FS_Bijection DEF HasSize
(* The elements of S that R puts before w.                                 *)
Lower(S, R, w) == {v \in S : <<v, w>> \in R}

(* A strict total order.                                                   *)
Orders(R, S) ==
  /\ \A v \in S : <<v, v>> \notin R
  /\ \A u, v, w \in S : <<u, v>> \in R /\ <<v, w>> \in R => <<u, w>> \in R
  /\ \A v, w \in S : v # w => <<v, w>> \in R \/ <<w, v>> \in R

(* From 0 to the last one.                                                 *)
Placed(R, S) ==
  /\ \A w \in S : Cardinality(Lower(S, R, w)) \in 0 .. Cardinality(S) - 1
  /\ \A v, w \in S : <<v, w>> \in R => Cardinality(Lower(S, R, v)) < Cardinality(Lower(S, R, w))
  /\ \A v, w \in S : Cardinality(Lower(S, R, v)) = Cardinality(Lower(S, R, w)) => v = w
  /\ \A j \in 0 .. Cardinality(S) - 1 : \E w \in S : Cardinality(Lower(S, R, w)) = j

(* In a finite set with a strict total order every element has its place.  *)
LEMMA PlacesInOrder ==
  ASSUME NEW S, IsFiniteSet(S), NEW R, Orders(R, S)
  PROVE  Placed(R, S)
<1> DEFINE K == Cardinality(S)
           Place(w) == Cardinality(Lower(S, R, w))
           f == [w \in S |-> Place(w)]
           P == {f[w] : w \in S}
<1>1. K \in Nat
  BY FS_CardinalityType
<1>2. ASSUME NEW T \in SUBSET S, NEW U \in SUBSET T, T # U
      PROVE  /\ IsFiniteSet(T) /\ Cardinality(T) \in Nat /\ Cardinality(U) \in Nat
             /\ Cardinality(U) < Cardinality(T)
  <2>1. IsFiniteSet(T) /\ Cardinality(T) \in Nat
    BY FS_Subset, FS_CardinalityType
  <2>2. IsFiniteSet(U) /\ Cardinality(U) <= Cardinality(T)
        /\ (Cardinality(T) = Cardinality(U) => T = U)
    BY <2>1, FS_Subset, Zenon
  <2>3. Cardinality(U) \in Nat
    BY <2>2, FS_CardinalityType
  <2>4. Cardinality(T) # Cardinality(U)
    BY <1>2, <2>2
  <2>5. QED
    BY <2>1, <2>2, <2>3, <2>4
<1>3. \A w \in S : Lower(S, R, w) \in SUBSET S /\ w \notin Lower(S, R, w)
  BY DEF Lower, Orders
<1>4. \A w \in S : Place(w) \in Nat /\ Place(w) < K
  <2>1. SUFFICES ASSUME NEW w \in S
                 PROVE  Place(w) \in Nat /\ Place(w) < K
    OBVIOUS
  <2>2. Lower(S, R, w) \in SUBSET S /\ S # Lower(S, R, w) /\ S \in SUBSET S
    BY <1>3
  <2>3. QED
    BY <1>2, <2>2
<1>5. ASSUME NEW v \in S, NEW w \in S, <<v, w>> \in R
      PROVE  Place(v) < Place(w)
  <2>1. Lower(S, R, v) \in SUBSET Lower(S, R, w) /\ v \in Lower(S, R, w)
    BY <1>5 DEF Lower, Orders
  <2>2. Lower(S, R, w) \in SUBSET S /\ Lower(S, R, w) # Lower(S, R, v)
    BY <1>3, <2>1
  <2>3. QED
    BY <1>2, <2>1, <2>2
<1> HIDE DEF Place
<1>6. ASSUME NEW v \in S, NEW w \in S, Place(v) = Place(w)
      PROVE  v = w
  <2>1. Place(v) \in Nat /\ Place(w) \in Nat
    BY <1>4
  <2>2. ~ Place(v) < Place(w) /\ ~ Place(w) < Place(v)
    BY <1>6, <2>1
  <2>3. QED
    BY <1>5, <2>2 DEF Orders
<1>7. HasSize(P, K)
  <2>1. HasSize(S, K)
    BY DEF HasSize
  <2>2. f \in [S -> P] /\ \A y \in P : \E w \in S : f[w] = y
    OBVIOUS
  <2>3. \A v, w \in S : f[v] = f[w] => v = w
    BY <1>6
  <2> HIDE DEF f, P, K
  <2>4. QED
    BY <2>1, <2>2, <2>3, SizeOfImage
<1>8. P \subseteq 0 .. K - 1
  <2>1. \A w \in S : Place(w) \in 0 .. K - 1
    <3> HIDE DEF K
    <3> QED
      BY <1>1, <1>4
  <2>2. QED
    BY <2>1
<1>9. IsFiniteSet(0 .. K - 1) /\ Cardinality(0 .. K - 1) = K
  <2> HIDE DEF K
  <2>1. 0 \in Int /\ K - 1 \in Int
    BY <1>1
  <2>2. IsFiniteSet(0 .. K - 1) /\ Cardinality(0 .. K - 1) = IF 0 > K - 1 THEN 0 ELSE (K - 1) - 0 + 1
    BY <2>1, FS_Interval, Zenon
  <2>3. QED
    BY <1>1, <2>2
<1>10. P = 0 .. K - 1
  <2> HIDE DEF P, K
  <2>1. P \in SUBSET (0 .. K - 1) /\ Cardinality(P) = K
    BY <1>7, <1>8 DEF HasSize
  <2>2. Cardinality(0 .. K - 1) = Cardinality(P) => 0 .. K - 1 = P
    BY <1>9, <2>1, FS_Subset, Zenon
  <2>3. QED
    BY <1>9, <2>1, <2>2
<1>11. \A w \in S : Place(w) \in 0 .. K - 1
  <2> HIDE DEF K
  <2> QED
    BY <1>1, <1>4
<1>12. \A j \in 0 .. K - 1 : \E w \in S : Place(w) = j
  BY <1>10
<1>13. QED
  BY <1>5, <1>6, <1>11, <1>12 DEF Place, Placed
-----------------------------------------------------------------------------
(* p[k] is b to the power k.                                               *)
IsPowers(p, b) ==
  /\ p \in [Nat -> Nat \ {0}]
  /\ p[0] = 1
  /\ \A k \in Nat \ {0} : p[k] = b * p[k - 1]

LEMMA PowersSteps ==
  ASSUME NEW b \in Nat \ {0}
  PROVE  IsPowers(PowersOf(b), b)
<1> DEFINE p == PowersOf(b)
           S == Nat \ {0}
           G == [i \in Nat \ {0} |-> [x \in Nat |-> b * x]]
<1>1. 1 \in S /\ b \in S
  OBVIOUS
<1>2. G \in [Nat \ {0} -> [Nat -> Nat]]
  BY <1>1, ProductInNat
<1>3. PICK f \in [Nat -> Nat] : FollowsAlways(f, 1, G)
  <2> HIDE DEF G
  <2> QED
    BY <1>2, Recursion
<1>4. \A k \in Nat \ {0} : f[k] = b * f[k - 1]
  <2>1. SUFFICES ASSUME NEW k \in Nat \ {0}
                 PROVE  f[k] = b * f[k - 1]
    OBVIOUS
  <2>2. k - 1 \in Nat
    OBVIOUS
  <2>3. f[k] = G[k][f[k - 1]]
    <3> HIDE DEF G
    <3> QED
      BY <1>3 DEF FollowsAlways
  <2>4. f[k - 1] \in Nat
    BY <2>2
  <2>5. QED
    BY <2>3, <2>4
<1>5. f = [k \in Nat |-> IF k = 0 THEN 1 ELSE b * f[k - 1]]
  BY <1>3, <1>4 DEF FollowsAlways
<1>6. p = [k \in Nat |-> IF k = 0 THEN 1 ELSE b * p[k - 1]]
  BY <1>5 DEF PowersOf
<1>7. \A k \in Nat : p[k] \in S
  <2> DEFINE T == {k \in Nat : p[k] \in S}
  <2>1. 0 \in T
    BY <1>6
  <2>2. ASSUME NEW k \in Nat, k \in T
        PROVE  k + 1 \in T
    <3>1. p[k + 1] = b * p[k]
      BY <1>6
    <3>2. QED
      BY <3>1, <2>2, <1>1, ProductPositive
  <2>3. \A k \in Nat : k \in T
    <3> HIDE DEF T
    <3> QED
      BY <2>1, <2>2, Induction
  <2>4. QED
    BY <2>3
<1> HIDE DEF p
<1>8. p \in [Nat -> S]
  BY <1>6, <1>7
<1>9. \A k \in Nat \ {0} : p[k] = b * p[k - 1]
  BY <1>6
<1>10. p[0] = 1
  BY <1>6
<1>11. QED
  BY <1>8, <1>9, <1>10 DEF IsPowers, p

LEMMA PowersAdd ==
  ASSUME NEW b \in Nat \ {0}, NEW p, IsPowers(p, b)
  PROVE  \A i, j \in Nat : p[i + j] = p[i] * p[j]
<1>1. SUFFICES ASSUME NEW i \in Nat
               PROVE  \A j \in Nat : p[i + j] = p[i] * p[j]
  OBVIOUS
<1> DEFINE T == {j \in Nat : p[i + j] = p[i] * p[j]}
<1>2. 0 \in T
  BY DEF IsPowers
<1>3. ASSUME NEW j \in Nat, j \in T
      PROVE  j + 1 \in T
  <2>1. p[j + 1] = b * p[j] /\ p[i + (j + 1)] = b * p[i + j]
    BY DEF IsPowers
  <2>2. p[i] \in Nat /\ p[j] \in Nat /\ b \in Nat
    BY DEF IsPowers
  <2>3. b * (p[i] * p[j]) = p[i] * (b * p[j])
    BY <2>2
  <2>4. QED
    BY <1>3, <2>1, <2>3
<1>4. \A j \in Nat : j \in T
  <2> HIDE DEF T
  <2> QED
    BY <1>2, <1>3, Induction
<1>5. QED
  BY <1>4

(* Powers of a power.                                                      *)
LEMMA PowersOfPower ==
  ASSUME NEW b \in Nat \ {0}, NEW p, IsPowers(p, b), NEW c \in Nat, NEW q, IsPowers(q, p[c])
  PROVE  \A k \in Nat : c * k \in Nat /\ q[k] = p[c * k]
<1> DEFINE T == {k \in Nat : c * k \in Nat /\ q[k] = p[c * k]}
<1>1. 0 \in T
  BY DEF IsPowers
<1>2. ASSUME NEW k \in Nat, k \in T
      PROVE  k + 1 \in T
  <2>1. q[k + 1] = p[c] * q[k]
    BY DEF IsPowers
  <2>2. PICK d \in Nat : d = c * k
    BY ProductInNat
  <2>3. p[c + d] = p[c] * p[d]
    BY <2>2, PowersAdd
  <2>4. c * (k + 1) = c + d
    BY <2>2
  <2>5. QED
    BY <1>2, <2>1, <2>2, <2>3, <2>4
<1>3. \A k \in Nat : k \in T
  <2> HIDE DEF T
  <2> QED
    BY <1>1, <1>2, Induction
<1>4. QED
  BY <1>3

(* Powers grow, and faster than their exponents.                           *)
LEMMA PowersGrow ==
  ASSUME NEW b \in Nat \ {0, 1}, NEW p, IsPowers(p, b)
  PROVE  /\ \A k \in Nat : k < p[k] /\ 2 * p[k] <= p[k + 1]
         /\ \A i, j \in Nat : i <= j => p[i] <= p[j]
<1>1. \A k \in Nat : 2 * p[k] <= p[k + 1]
  <2>1. SUFFICES ASSUME NEW k \in Nat
                 PROVE  2 * p[k] <= p[k + 1]
    OBVIOUS
  <2>2. p[k + 1] = b * p[k] /\ p[k] \in Nat
    BY DEF IsPowers
  <2>3. QED
    BY <2>2, ProductMonotone
<1>2. \A k \in Nat : k < p[k]
  <2> DEFINE T == {k \in Nat : k < p[k]}
  <2>1. 0 \in T
    BY DEF IsPowers
  <2>2. ASSUME NEW k \in Nat, k \in T
        PROVE  k + 1 \in T
    BY <1>1, <2>2 DEF IsPowers
  <2>3. \A k \in Nat : k \in T
    <3> HIDE DEF T
    <3> QED
      BY <2>1, <2>2, Induction
  <2>4. QED
    BY <2>3
<1>3. \A i, j \in Nat : i <= j => p[i] <= p[j]
  <2>1. SUFFICES ASSUME NEW i \in Nat, NEW j \in Nat, i <= j
                 PROVE  p[i] <= p[j]
    OBVIOUS
  <2>2. p[i + (j - i)] = p[i] * p[j - i]
    BY <2>1, PowersAdd
  <2>3. p[j - i] \in Nat \ {0} /\ p[i] \in Nat
    BY <2>1 DEF IsPowers
  <2>4. p[i] * 1 <= p[i] * p[j - i]
    BY <2>3, ProductMonotone
  <2>5. QED
    BY <2>2, <2>3, <2>4
<1>4. QED
  BY <1>1, <1>2, <1>3

(* The number of digits is the one length whose integers r is among.    *)
LEMMA SizeInBaseIs ==
  ASSUME NEW b \in Nat \ {0, 1}, NEW p, p = PowersOf(b), NEW r \in Nat,
         NEW k \in Nat \ {0}, k > 1 => p[k - 1] <= r, r < p[k]
  PROVE  SizeInBase(b, r) = k
<1>0. p = PowersOf(b) /\ IsPowers(p, b)
  BY PowersSteps
<1>a. p \in [Nat -> Nat \ {0}]
  BY <1>0 DEF IsPowers
<1>b. /\ \A j \in Nat : j < p[j] /\ 2 * p[j] <= p[j + 1]
      /\ \A i, j \in Nat : i <= j => p[i] <= p[j]
  BY <1>0, PowersGrow
<1> DEFINE P(j) == r < p[j] /\ (j > 1 => p[j - 1] <= r)
<1>1. k \in 1 .. r + 1
  <2>1. CASE k = 1
    BY <2>1
  <2>2. CASE k > 1
    BY <2>2, <1>a, <1>b
  <2>3. QED
    BY <2>1, <2>2
<1>2. ASSUME NEW j \in 1 .. r + 1, P(j)
      PROVE  j = k
  <2>1. CASE j < k
    <3>1. p[j] <= p[k - 1]
      BY <2>1, <1>b
    <3>2. QED
      BY <3>1, <2>1, <1>2, <1>a
  <2>2. CASE k < j
    <3>1. p[k] <= p[j - 1]
      BY <2>2, <1>b
    <3>2. QED
      BY <3>1, <2>2, <1>2, <1>a
  <2>3. QED
    BY <2>1, <2>2
<1>3. P(k)
  OBVIOUS
<1>4. QED
  BY <1>0, <1>1, <1>2, <1>3 DEF SizeInBase

LEMMA SizeInBaseExists ==
  ASSUME NEW b \in Nat \ {0, 1}, NEW p, p = PowersOf(b), NEW r \in Nat
  PROVE  /\ SizeInBase(b, r) \in Nat \ {0}
         /\ r < p[SizeInBase(b, r)]
         /\ SizeInBase(b, r) > 1 => p[SizeInBase(b, r) - 1] <= r
<1>0. p = PowersOf(b) /\ IsPowers(p, b)
  BY PowersSteps
<1>a. p \in [Nat -> Nat \ {0}]
  BY <1>0 DEF IsPowers
<1>b. /\ \A j \in Nat : j < p[j] /\ 2 * p[j] <= p[j + 1]
      /\ \A i, j \in Nat : i <= j => p[i] <= p[j]
  BY <1>0, PowersGrow
<1> DEFINE S == {k \in Nat \ {0} : r < p[k]}
<1>1. r + 1 \in S
  <2>1. r + 1 \in Nat
    OBVIOUS
  <2>2. r + 1 < p[r + 1]
    BY <2>1, <1>b
  <2>3. p[r + 1] \in Nat
    BY <2>1, <1>a
  <2>4. QED
    BY <2>1, <2>2, <2>3
<1>2. PICK k \in S : \A j \in S : k <= j
  BY <1>1, SmallestOf
<1>3. k > 1 => p[k - 1] <= r
  BY <1>2, <1>a
<1>4. SizeInBase(b, r) = k
  BY <1>2, <1>3, SizeInBaseIs
<1>5. QED
  BY <1>2, <1>3, <1>4
=============================================================================
