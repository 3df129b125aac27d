------------------------------ MODULE FfxProofs ------------------------------
(***************************************************************************)
(* Theorems of Ffx, for every set of lengths, every family of round        *)
(* functions and every even number of rounds.  The argument follows one    *)
(* Encrypt through its rounds: trail holds the halves before each of them, *)
(* Decrypt goes back along it, and a second Encrypt is compared with it.   *)
(***************************************************************************)
EXTENDS Ffx, ProofLemmas

(* With k for keyed and f for drawn: what the round function adds for an   *)
(* argument, and that it is known, without a key or once it was drawn.     *)
Added(k, f, arg) == IF k THEN f[arg] ELSE 0

Known(k, f, arg) == k => arg \in DOMAIN f

Draws(f) == \A arg \in DOMAIN f : f[arg] \in Values(arg[1], arg[2])

(* What is known stays as it is.                                           *)
Keeps(k, f, g) ==
  \A arg : Known(k, f, arg) => Known(k, g, arg) /\ Added(k, g, arg) = Added(k, f, arg)

(* Round r of a trail for length len.                                      *)
Hop(k, f, t, len, r) ==
  /\ Known(k, f, <<len, r, t[r].B>>)
  /\ t[r + 1].A = t[r].B
  /\ t[r + 1].B = (t[r].A + Added(k, f, <<len, r, t[r].B>>)) % Two[Width(len, r)]

(* The halves before round r have the widths that the round gives them.    *)
Fits(t, len, r) == t[r].A < Two[Width(len, r)] /\ t[r].B < Two[Width(len, r + 1)]

(* The first rounds of an Encrypt of v.                                    *)
Rounded(k, f, t, v, len, rounds) ==
  /\ t[0] = [A |-> HighBits(v, len), B |-> LowBits(v, len)]
  /\ \A r \in 0 .. rounds - 1 : Hop(k, f, t, len, r)
  /\ \A r \in 0 .. rounds : Fits(t, len, r)

Halves == [A : Nat, B : Nat]

Trails == [0 .. Rounds -> Halves]

FfxType ==
  /\ pc \in {"idle", "encrypt", "decrypt"}
  /\ keyed \in BOOLEAN
  /\ Draws(drawn)
  /\ n \in Lengths \cup {1}
  /\ i \in -1 .. Rounds
  /\ A \in Nat /\ B \in Nat
  /\ in \in Nat /\ out \in Nat
  /\ op \in {"none", "SetKey", "Encrypt", "Decrypt"}
  /\ pair \in [n : Lengths \cup {0}, in : Nat, out : Nat]
  /\ trail \in Trails
  /\ made \in Trails
  /\ calls \in 0 .. MaxCalls
  /\ pc # "idle" => n \in Lengths
  /\ pc = "encrypt" => op = "Encrypt" /\ i \in 0 .. Rounds
  /\ pc = "decrypt" => op = "Decrypt" /\ i \in -1 .. Rounds - 1
  /\ pair # NoPair => pair.n \in Lengths

EncryptInv ==
  pc = "encrypt" =>
    Rounded(keyed, drawn, trail, in, n, i) /\ trail[i] = [A |-> A, B |-> B]

PairInv ==
  pair # NoPair =>
    /\ Rounded(keyed, drawn, made, pair.in, pair.n, Rounds)
    /\ pair.out = Join(made[Rounds].A, made[Rounds].B, pair.n)

(* Decrypt has the widths of the round it undoes, and of the last          *)
(* ciphertext the halves that Encrypt had.                                 *)
DecryptInv ==
  pc = "decrypt" =>
    /\ A < Two[Width(n, i + 1)] /\ B < Two[Width(n, i)]
    /\ pair # NoPair /\ in = pair.out /\ n = pair.n =>
         made[i + 1] = [A |-> A, B |-> B]

(* Two Encrypts have equal halves before one round exactly when they have  *)
(* them before every other.                                                *)
SameInv ==
  pc = "encrypt" /\ pair # NoPair /\ n = pair.n =>
    ((trail[i] = made[i]) <=> (in % Two[n] = pair.in % Two[n]))

FfxInv ==
  /\ FfxType
  /\ EncryptInv
  /\ PairInv
  /\ DecryptInv
  /\ SameInv
  /\ DecryptInverts
-----------------------------------------------------------------------------
(* Arithmetic: a product splits a number into a quotient and a remainder.  *)
LEMMA SplitFacts ==
  ASSUME NEW v \in Nat, NEW H \in Nat \ {0}, NEW L \in Nat \ {0}
  PROVE  /\ (v \div L) % H \in 0 .. H - 1
         /\ v % L \in 0 .. L - 1
         /\ ((v \div L) % H) * L + (v % L) = v % (H * L)
<1> DEFINE q == v \div L
           l == v % L
           p == q \div H
           h == q % H
<1>1. q \in Nat /\ l \in 0 .. L - 1 /\ v = q * L + l
  OBVIOUS
<1>2. p \in Nat /\ h \in 0 .. H - 1 /\ q = p * H + h
  BY <1>1
<1> HIDE DEF q, l, p, h
<1>3. v = p * (H * L) + (h * L + l)
  BY <1>1, <1>2
<1>4. h * L + l \in 0 .. H * L - 1
  <2>1. h * L <= (H - 1) * L
    BY <1>2
  <2>2. (H - 1) * L = H * L - L
    OBVIOUS
  <2>3. h * L \in Nat /\ H * L \in Nat
    BY <1>2
  <2>4. QED
    BY <1>1, <2>1, <2>2, <2>3
<1>5. v % (H * L) = h * L + l
  <2> DEFINE M == H * L
             s == h * L + l
  <2>1. M \in Nat \ {0} /\ s \in 0 .. M - 1 /\ v = p * M + s
    BY <1>3, <1>4
  <2> HIDE DEF M, s
  <2>2. v % M = s
    BY <1>2, <2>1
  <2>3. QED
    BY <2>2 DEF M, s
<1>6. h \in 0 .. H - 1 /\ l \in 0 .. L - 1 /\ h * L + l = v % (H * L)
  BY <1>1, <1>2, <1>5
<1>7. QED
  BY <1>6 DEF q, l, h

LEMMA TwoPowers == IsPowers(Two, 2)
BY PowersSteps DEF Two

LEMMA SameTwo == Interface!Two = Two
BY DEF Two, PowersOf, Interface!Two, Interface!PowersOf

LEMMA TwoSplits ==
  ASSUME NEW len \in Lengths
  PROVE  /\ Two[High(len)] \in Nat \ {0} /\ Two[Low(len)] \in Nat \ {0}
         /\ Two[len] = Two[High(len)] * Two[Low(len)]
<1>1. High(len) \in Nat /\ Low(len) \in Nat /\ High(len) + Low(len) = len
  BY LengthAssumption DEF High, Low
<1>2. \A a, b \in Nat : Two[a + b] = Two[a] * Two[b]
  BY TwoPowers, PowersAdd
<1>3. Two[High(len)] \in Nat \ {0} /\ Two[Low(len)] \in Nat \ {0}
  BY <1>1, TwoPowers DEF IsPowers
<1>4. QED
  BY <1>1, <1>2, <1>3

(* Two halves that fit, put together and split again.                      *)
Splits(H, L, a, b) ==
  /\ a * L + b \in Nat
  /\ (a * L + b) % (H * L) = a * L + b
  /\ (a * L + b) \div L = a /\ (a * L + b) % L = b /\ a % H = a

LEMMA JoinFacts ==
  ASSUME NEW H \in Nat, NEW L \in Nat, NEW a \in Nat, NEW b \in Nat, a < H, b < L
  PROVE  Splits(H, L, a, b)
<1>1. PICK s \in Int : s = a * L + b
  OBVIOUS
<1>2. s \in 0 .. H * L - 1 /\ H * L \in Nat
  <2>1. a * L <= (H - 1) * L
    OBVIOUS
  <2>2. (H - 1) * L = H * L - L
    OBVIOUS
  <2>3. a * L \in Nat /\ H * L \in Nat
    OBVIOUS
  <2>4. QED
    BY <1>1, <2>1, <2>2, <2>3
<1>3. PICK M \in Nat : M = H * L
  BY <1>2
<1>4. s \in Nat /\ s % M = s
  BY <1>2, <1>3
<1>5. s \div L = a /\ s % L = b /\ a % H = a
  BY <1>1
<1>6. QED
  BY <1>1, <1>3, <1>4, <1>5, Zenon DEF Splits

(* Adding modulo M is undone by subtracting.                               *)
LEMMA ModFacts ==
  ASSUME NEW M \in Nat \ {0}, NEW a \in 0 .. M - 1, NEW d \in 0 .. M - 1,
         NEW c, c = (a + d) % M
  PROVE  c \in 0 .. M - 1 /\ (c - d) % M = a
<1>1. (a + d) % M = IF a + d < M THEN a + d ELSE a + d - M
  OBVIOUS
<1>2. \A w \in 0 .. M - 1 : (w - d) % M = IF w - d >= 0 THEN w - d ELSE w - d + M
  OBVIOUS
<1>3. QED
  BY <1>1, <1>2

(* The two widths alternate.                                               *)
LEMMA WidthFacts ==
  ASSUME NEW len \in Lengths, NEW r \in Int
  PROVE  /\ Width(len, r) = IF r % 2 = 0 THEN High(len) ELSE Low(len)
         /\ Width(len, r + 1) = IF r % 2 = 0 THEN Low(len) ELSE High(len)
         /\ Width(len, r + 2) = Width(len, r)
         /\ Width(len, r - 1) = Width(len, r + 1)
         /\ Two[Width(len, r)] \in Nat \ {0}
         /\ Values(len, r) = 0 .. Two[Width(len, r)] - 1
<1>1. len \in Nat
  BY LengthAssumption
<1>2. (len + 1) \div 2 = len - (len \div 2)
  BY <1>1
<1>3. /\ (r + 1) % 2 = 0 <=> r % 2 # 0
      /\ (r - 1) % 2 = 0 <=> r % 2 # 0
      /\ (r + 2) % 2 = 0 <=> r % 2 = 0
  OBVIOUS
<1>4. \A k \in Int : Width(len, k) = IF k % 2 = 0 THEN High(len) ELSE Low(len)
  BY <1>2 DEF Width, High, Low
<1>5. r + 1 \in Int /\ r - 1 \in Int /\ r + 2 \in Int
  OBVIOUS
<1>6. Two[High(len)] \in Nat \ {0} /\ Two[Low(len)] \in Nat \ {0}
  BY TwoSplits
<1>7. QED
  BY <1>3, <1>4, <1>5, <1>6 DEF Values

LEMMA WidthModulus ==
  ASSUME NEW len \in Lengths, NEW r \in Int
  PROVE  \E M \in Nat \ {0} : M = Two[Width(len, r)] /\ Values(len, r) = 0 .. M - 1
<1>1. Two[Width(len, r)] \in Nat \ {0}
  BY WidthFacts
<1>2. QED
  BY <1>1 DEF Values

(* The halves of an integer are those of its low bits, and no other.       *)
LEMMA HalfFacts ==
  ASSUME NEW len \in Lengths, NEW v \in Nat
  PROVE  /\ HighBits(v, len) \in 0 .. Two[High(len)] - 1
         /\ LowBits(v, len) \in 0 .. Two[Low(len)] - 1
         /\ Join(HighBits(v, len), LowBits(v, len), len) = v % Two[len]
<1>1. PICK H \in Nat \ {0}, L \in Nat \ {0} :
        H = Two[High(len)] /\ L = Two[Low(len)] /\ H * L = Two[len]
  BY TwoSplits
<1>2. PICK h, l : h = (v \div L) % H /\ l = v % L
  OBVIOUS
<1>3. HighBits(v, len) = h /\ LowBits(v, len) = l
  BY <1>1, <1>2 DEF HighBits, LowBits
<1>4. h \in 0 .. H - 1 /\ l \in 0 .. L - 1 /\ h * L + l = v % (H * L)
  BY <1>2, SplitFacts
<1>5. Splits(H, L, h, l)
  <2>1. H \in Nat /\ L \in Nat /\ h \in Nat /\ h < H /\ l \in Nat /\ l < L
    BY <1>4
  <2>2. QED
    BY <2>1, JoinFacts, Zenon
<1>6. Join(h, l, len) = v % Two[len]
  BY <1>1, <1>4, <1>5, Zenon DEF Join, Splits
<1>7. QED
  BY <1>1, <1>3, <1>4, <1>6

LEMMA JoinSplit ==
  ASSUME NEW len \in Lengths, NEW a \in 0 .. Two[High(len)] - 1, NEW b \in 0 .. Two[Low(len)] - 1
  PROVE  /\ Join(a, b, len) \in Nat
         /\ HighBits(Join(a, b, len), len) = a
         /\ LowBits(Join(a, b, len), len) = b
<1>1. PICK H \in Nat \ {0}, L \in Nat \ {0} :
        H = Two[High(len)] /\ L = Two[Low(len)] /\ Two[len] = H * L
  BY TwoSplits
<1>2. Splits(H, L, a, b)
  <2>1. H \in Nat /\ L \in Nat /\ a \in Nat /\ a < H /\ b \in Nat /\ b < L
    BY <1>1
  <2>2. QED
    BY <2>1, JoinFacts, Zenon
<1>3. Join(a, b, len) = a * L + b
  BY <1>1, <1>2, Zenon DEF Join, Splits
<1>4. HighBits(a * L + b, len) = a /\ LowBits(a * L + b, len) = b
  BY <1>1, <1>2, Zenon DEF HighBits, LowBits, Splits
<1>5. QED
  BY <1>2, <1>3, <1>4, Zenon DEF Splits

(* Equal halves are equal low bits.                                        *)
LEMMA SameHalves ==
  ASSUME NEW len \in Lengths, NEW v \in Nat, NEW w \in Nat
  PROVE  (HighBits(v, len) = HighBits(w, len) /\ LowBits(v, len) = LowBits(w, len))
           <=> (v % Two[len] = w % Two[len])
<1>1. ASSUME v % Two[len] = w % Two[len]
      PROVE  HighBits(v, len) = HighBits(w, len) /\ LowBits(v, len) = LowBits(w, len)
  <2> DEFINE join(u) == Join(HighBits(u, len), LowBits(u, len), len)
  <2>1. \A u \in Nat : HighBits(join(u), len) = HighBits(u, len)
                         /\ LowBits(join(u), len) = LowBits(u, len)
    BY HalfFacts, JoinSplit
  <2>2. join(v) = v % Two[len] /\ join(w) = w % Two[len]
    BY HalfFacts
  <2>3. join(v) = join(w)
    BY <1>1, <2>2
  <2> HIDE DEF join
  <2>4. QED
    BY <2>1, <2>3
<1>2. ASSUME HighBits(v, len) = HighBits(w, len), LowBits(v, len) = LowBits(w, len)
      PROVE  v % Two[len] = w % Two[len]
  BY <1>2, HalfFacts
<1>3. QED
  BY <1>1, <1>2

(* The result of a call is a number.                                       *)
LEMMA JoinType ==
  ASSUME NEW len \in Lengths, NEW a \in Nat, NEW b \in Nat
  PROVE  Join(a, b, len) \in Nat
<1>1. PICK L \in Nat \ {0}, H \in Nat \ {0} :
        L = Two[Low(len)] /\ Two[len] = H * L
  BY TwoSplits
<1>2. PICK M \in Nat \ {0} : M = Two[len]
  BY <1>1
<1>3. PICK s \in Nat : s = a * L + b
  OBVIOUS
<1>4. s % M \in Nat
  OBVIOUS
<1>5. QED
  BY <1>1, <1>2, <1>3, <1>4, Zenon DEF Join
-----------------------------------------------------------------------------
(* The round function repeats itself.                                      *)
LEMMA RoundFacts ==
  ASSUME FfxType, keyed' = keyed,
         NEW len, NEW r, NEW b, NEW d \in Values(len, r), RoundFunction(<<len, r, b>>, d)
  PROVE  /\ Known(keyed, drawn', <<len, r, b>>)
         /\ Added(keyed, drawn', <<len, r, b>>) = d
         /\ Keeps(keyed, drawn, drawn')
         /\ Draws(drawn')
<1> DEFINE arg == <<len, r, b>>
<1>1. arg[1] = len /\ arg[2] = r
  OBVIOUS
<1>2. keyed \in BOOLEAN /\ Draws(drawn)
  BY DEF FfxType
<1> HIDE DEF arg
<1>3. RoundFunction(arg, d)
  BY DEF arg
<1>4. CASE UNCHANGED drawn
  BY <1>2, <1>3, <1>4 DEF RoundFunction, Known, Added, Keeps, Draws, arg
<1>5. CASE ~UNCHANGED drawn
  <2>1. keyed /\ arg \notin DOMAIN drawn
          /\ drawn' = [a \in DOMAIN drawn \cup {arg} |-> IF a = arg THEN d ELSE drawn[a]]
    BY <1>3, <1>5 DEF RoundFunction
  <2>2. DOMAIN drawn' = DOMAIN drawn \cup {arg}
    BY <2>1
  <2>3. drawn'[arg] = d /\ \A a \in DOMAIN drawn : drawn'[a] = drawn[a]
    BY <2>1
  <2>4. Draws(drawn')
    BY <1>1, <1>2, <2>2, <2>3 DEF Draws
  <2>5. Known(keyed, drawn', arg) /\ Added(keyed, drawn', arg) = d
          /\ Keeps(keyed, drawn, drawn')
    BY <2>1, <2>2, <2>3 DEF Known, Added, Keeps
  <2>6. QED
    BY <2>4, <2>5 DEF arg
<1>6. QED
  BY <1>4, <1>5

LEMMA RoundedKept ==
  ASSUME NEW k, NEW f, NEW g, NEW t, NEW v, NEW len, NEW rounds,
         Keeps(k, f, g), Rounded(k, f, t, v, len, rounds)
  PROVE  Rounded(k, g, t, v, len, rounds)
<1>1. ASSUME NEW r, Hop(k, f, t, len, r)
      PROVE  Hop(k, g, t, len, r)
  BY <1>1, Zenon DEF Hop, Keeps
<1>2. QED
  BY <1>1, Zenon DEF Rounded

(* What is known of the round function has the width of the round.         *)
LEMMA AddedType ==
  ASSUME NEW k \in BOOLEAN, NEW f, Draws(f), NEW len \in Lengths, NEW r \in Int, NEW b,
         Known(k, f, <<len, r, b>>)
  PROVE  Added(k, f, <<len, r, b>>) \in Values(len, r)
<1>1. 0 \in Values(len, r)
  <2>1. PICK M \in Nat \ {0} : Values(len, r) = 0 .. M - 1
    BY WidthFacts
  <2>2. QED
    BY <2>1
<1>2. <<len, r, b>>[1] = len /\ <<len, r, b>>[2] = r
  OBVIOUS
<1>3. CASE k
  BY <1>2, <1>3 DEF Known, Added, Draws
<1>4. CASE ~k
  BY <1>1, <1>4 DEF Added
<1>5. QED
  BY <1>3, <1>4

(* A round of Encrypt extends the trail.                                   *)
LEMMA Forward ==
  ASSUME NEW k, NEW f, NEW t \in Trails, NEW v, NEW len \in Lengths,
         NEW r \in 0 .. Rounds - 1, Rounded(k, f, t, v, len, r),
         NEW d \in Values(len, r),
         Known(k, f, <<len, r, t[r].B>>), Added(k, f, <<len, r, t[r].B>>) = d,
         NEW u, u = [t EXCEPT ![r + 1] =
                       [A |-> t[r].B, B |-> (t[r].A + d) % Two[Width(len, r)]]]
  PROVE  Rounded(k, f, u, v, len, r + 1)
<1>1. Rounds \in Nat
  BY RoundAssumption
<1>2. PICK M \in Nat \ {0} : M = Two[Width(len, r)] /\ Values(len, r) = 0 .. M - 1
  <2>1. r \in Int
    BY RoundAssumption
  <2>2. QED
    BY <2>1, WidthModulus, Zenon
<1>3. t[r] \in Halves
  BY <1>1 DEF Trails
<1>4. PICK c : c = (t[r].A + d) % M
  OBVIOUS
<1>5. c \in 0 .. M - 1
  BY <1>2, <1>3, <1>4 DEF Halves
<1>6. u[r + 1] = [A |-> t[r].B, B |-> c]
  BY <1>1, <1>2, <1>4 DEF Trails
<1>7. \A q \in 0 .. r : u[q] = t[q]
  BY <1>1 DEF Trails
<1>8. Hop(k, f, u, len, r)
  BY <1>2, <1>4, <1>6, <1>7 DEF Hop
<1>9. \A q \in 0 .. r - 1 : Hop(k, f, u, len, q)
  BY <1>7 DEF Hop, Rounded
<1>10. \A q \in 0 .. r : Fits(u, len, q)
  BY <1>7 DEF Fits, Rounded
<1>11. Fits(u, len, r + 1)
  <2>1. Fits(t, len, r)
    BY DEF Rounded
  <2>2. Two[Width(len, r + 2)] = M
    BY <1>2, WidthFacts
  <2>3. u[r + 1].A = t[r].B /\ u[r + 1].B = c
    BY <1>6
  <2>4. u[r + 1].B < M
    BY <1>5, <2>3
  <2>5. (r + 1) + 1 = r + 2
    OBVIOUS
  <2>6. QED
    BY <2>1, <2>2, <2>3, <2>4, <2>5 DEF Fits
<1>12. u[0] = t[0] /\ t[0] = [A |-> HighBits(v, len), B |-> LowBits(v, len)]
  BY <1>7 DEF Rounded
<1>13. \A q \in 0 .. r + 1 : q \in 0 .. r \/ q = r + 1
  OBVIOUS
<1>14. \A q \in 0 .. (r + 1) - 1 : q \in 0 .. r - 1 \/ q = r
  OBVIOUS
<1>15. QED
  BY <1>8, <1>9, <1>10, <1>11, <1>12, <1>13, <1>14 DEF Rounded

(* A round of Decrypt goes back along it.                                  *)
LEMMA Backward ==
  ASSUME NEW k \in BOOLEAN, NEW f, Draws(f), NEW t \in Trails, NEW v, NEW len \in Lengths,
         NEW r \in 0 .. Rounds - 1, Rounded(k, f, t, v, len, Rounds),
         NEW d, Added(k, f, <<len, r, t[r + 1].A>>) = d
  PROVE  /\ t[r].A = (t[r + 1].B - d) % Two[Width(len, r)]
         /\ t[r].B = t[r + 1].A
<1>1. Hop(k, f, t, len, r) /\ Fits(t, len, r)
  BY RoundAssumption DEF Rounded
<1>2. PICK M \in Nat \ {0} : M = Two[Width(len, r)] /\ Values(len, r) = 0 .. M - 1
  <2>1. r \in Int
    BY RoundAssumption
  <2>2. QED
    BY <2>1, WidthModulus, Zenon
<1>3. d \in 0 .. M - 1
  BY <1>1, <1>2, AddedType DEF Hop
<1>4. t[r] \in Halves
  BY RoundAssumption DEF Trails
<1>5. PICK a \in 0 .. M - 1 : a = t[r].A
  BY <1>1, <1>2, <1>4 DEF Fits, Halves
<1>6. PICK c \in Nat : c = (a + d) % M
  BY <1>3
<1>7. (c - d) % M = a
  BY <1>3, <1>6, ModFacts
<1>8. t[r + 1].B = c /\ t[r].B = t[r + 1].A
  BY <1>1, <1>2, <1>5, <1>6 DEF Hop
<1>9. QED
  BY <1>2, <1>5, <1>7, <1>8

(* Two trails meet after a round only if they met before it.               *)
LEMMA Alongside ==
  ASSUME NEW k \in BOOLEAN, NEW f, Draws(f), NEW t \in Trails, NEW u \in Trails,
         NEW len \in Lengths, NEW r \in 0 .. Rounds - 1,
         Hop(k, f, t, len, r), Fits(t, len, r), Hop(k, f, u, len, r), Fits(u, len, r)
  PROVE  t[r + 1] = u[r + 1] <=> t[r] = u[r]
<1>1. t[r] \in Halves /\ u[r] \in Halves /\ t[r + 1] \in Halves /\ u[r + 1] \in Halves
  BY RoundAssumption DEF Trails
<1>2. PICK M \in Nat \ {0} : M = Two[Width(len, r)] /\ Values(len, r) = 0 .. M - 1
  <2>1. r \in Int
    BY RoundAssumption
  <2>2. QED
    BY <2>1, WidthModulus, Zenon
<1>3. \A h, g \in Halves : h = g <=> h.A = g.A /\ h.B = g.B
  BY DEF Halves
<1>4. t[r + 1].A = t[r].B /\ u[r + 1].A = u[r].B
  BY DEF Hop
<1>5. ASSUME t[r].B = u[r].B
      PROVE  t[r + 1].B = u[r + 1].B <=> t[r].A = u[r].A
  <2>1. PICK d \in 0 .. M - 1 : d = Added(k, f, <<len, r, t[r].B>>)
    BY <1>2, AddedType DEF Hop
  <2>2. PICK a \in 0 .. M - 1, b \in 0 .. M - 1 : a = t[r].A /\ b = u[r].A
    BY <1>1, <1>2 DEF Fits, Halves
  <2>3. t[r + 1].B = (a + d) % M /\ u[r + 1].B = (b + d) % M
    BY <1>2, <1>5, <2>1, <2>2 DEF Hop
  <2>4. (a + d) % M = (b + d) % M <=> a = b
    <3>1. PICK c : c = (a + d) % M
      OBVIOUS
    <3>2. PICK e : e = (b + d) % M
      OBVIOUS
    <3>3. (c - d) % M = a
      BY <2>1, <3>1, ModFacts
    <3>4. (e - d) % M = b
      BY <2>1, <3>2, ModFacts
    <3>5. QED
      BY <3>1, <3>2, <3>3, <3>4
  <2>5. QED
    BY <2>2, <2>3, <2>4
<1>6. QED
  BY <1>1, <1>3, <1>4, <1>5
-----------------------------------------------------------------------------
LEMMA TypeInit == Init => FfxType
<1>1. Rounds \in Nat \ {0} /\ MaxCalls \in Nat
  BY RoundAssumption, CallAssumption
<1>2. NoTrail \in Trails
  BY DEF NoTrail, Trails, Halves
<1>3. NoPair \in [n : Lengths \cup {0}, in : Nat, out : Nat]
  BY DEF NoPair
<1>4. Init => Draws(drawn)
  BY DEF Init, Draws
<1>5. Init => pair = NoPair /\ trail = NoTrail /\ made = NoTrail /\ keyed \in BOOLEAN
  BY DEF Init
<1>6. Init => pc = "idle" /\ op = "none" /\ n = 1 /\ i = 0 /\ A = 0 /\ B = 0
                /\ in = 0 /\ out = 0 /\ calls = 0
  BY DEF Init
<1>7. QED
  BY <1>1, <1>2, <1>3, <1>4, <1>5, <1>6 DEF FfxType

(* A round writes numbers.                                                 *)
LEMMA RoundType ==
  ASSUME NEW len \in Lengths, NEW r \in Int, NEW d \in Values(len, r), NEW a \in Nat
  PROVE  (a + d) % Two[Width(len, r)] \in Nat /\ (a - d) % Two[Width(len, r)] \in Nat
<1>1. PICK M \in Nat \ {0} : M = Two[Width(len, r)] /\ Values(len, r) = 0 .. M - 1
  <2>1. r \in Int
    BY RoundAssumption
  <2>2. QED
    BY <2>1, WidthModulus, Zenon
<1>2. d \in Nat
  BY <1>1
<1>3. (a + d) % M \in Nat /\ (a - d) % M \in Nat
  BY <1>2
<1>4. QED
  BY <1>1, <1>3

LEMMA TypeStep ==
  ASSUME FfxType, [Next]_vars
  PROVE  FfxType'
<1>1. Rounds \in Nat \ {0} /\ MaxCalls \in Nat
  BY RoundAssumption, CallAssumption
<1>2. NoTrail \in Trails /\ NoPair \in [n : Lengths \cup {0}, in : Nat, out : Nat]
  BY DEF NoTrail, Trails, Halves, NoPair
<1>3. \A len \in Lengths, v \in Nat : HighBits(v, len) \in Nat /\ LowBits(v, len) \in Nat
  BY HalfFacts, TwoSplits
<1>4. CASE SetKey
  <2>1. Draws(<< >>)
    BY DEF Draws
  <2>2. QED
    BY <1>1, <1>2, <1>4, <2>1 DEF SetKey, FfxType
<1>5. ASSUME NEW len \in Lengths, NEW v \in Nat, CallEncrypt(v, len)
      PROVE  FfxType'
  <2>1. PICK h \in Halves : h = [A |-> HighBits(v, len), B |-> LowBits(v, len)]
    BY <1>3 DEF Halves
  <2>2. trail' = [trail EXCEPT ![0] = h] /\ trail \in Trails
    BY <1>5, <2>1 DEF CallEncrypt, FfxType
  <2>3. trail' \in Trails
    BY <1>1, <2>2 DEF Trails
  <2>4. QED
    BY <1>1, <1>3, <1>5, <2>3 DEF CallEncrypt, Split, FfxType
<1>6. ASSUME NEW len \in Lengths, NEW v \in Nat, CallDecrypt(v, len)
      PROVE  FfxType'
  BY <1>1, <1>3, <1>6 DEF CallDecrypt, Split, FfxType
<1>7. CASE EncryptRound
  <2>1. n \in Lengths /\ i \in 0 .. Rounds - 1 /\ A \in Nat /\ B \in Nat /\ keyed' = keyed
    BY <1>1, <1>7 DEF EncryptRound, FfxType
  <2>2. PICK d \in Values(n, i) :
          /\ RoundFunction(<<n, i, B>>, d)
          /\ A' = B
          /\ B' = (A + d) % Two[Width(n, i)]
          /\ trail' = [trail EXCEPT ![i + 1] = [A |-> B, B |-> (A + d) % Two[Width(n, i)]]]
    BY <1>7 DEF EncryptRound
  <2>3. B' \in Nat
    BY <2>1, <2>2, RoundType
  <2>4. trail' \in Trails
    <3>1. PICK h \in Halves : h = [A |-> B, B |-> (A + d) % Two[Width(n, i)]]
      BY <2>1, <2>2, <2>3 DEF Halves
    <3>2. trail' = [trail EXCEPT ![i + 1] = h] /\ trail \in Trails /\ i + 1 \in 0 .. Rounds
      BY <1>1, <2>1, <2>2, <3>1 DEF FfxType
    <3>3. QED
      BY <3>2 DEF Trails
  <2>5. Draws(drawn')
    BY <2>1, <2>2, RoundFacts
  <2>6. QED
    BY <1>1, <1>7, <2>1, <2>2, <2>3, <2>4, <2>5 DEF EncryptRound, FfxType
<1>8. CASE EncryptReturn
  <2>1. n \in Lengths /\ n \in Nat
    BY <1>8, LengthAssumption DEF EncryptReturn, FfxType
  <2>2. out' \in Nat
    BY <1>8, <2>1, JoinType DEF EncryptReturn, FfxType
  <2>3. pair' \in [n : Lengths \cup {0}, in : Nat, out : Nat] /\ pair'.n = n
    BY <1>8, <2>1, <2>2 DEF EncryptReturn, FfxType
  <2>4. QED
    BY <1>1, <1>2, <1>8, <2>1, <2>2, <2>3 DEF EncryptReturn, FfxType
<1>9. CASE DecryptRound
  <2>1. n \in Lengths /\ i \in 0 .. Rounds - 1 /\ A \in Nat /\ B \in Nat /\ keyed' = keyed
    BY <1>1, <1>9 DEF DecryptRound, FfxType
  <2>2. PICK d \in Values(n, i) :
          /\ RoundFunction(<<n, i, A>>, d)
          /\ A' = (B - d) % Two[Width(n, i)]
          /\ B' = A
    BY <1>9 DEF DecryptRound
  <2>3. A' \in Nat
    BY <2>1, <2>2, RoundType
  <2>4. Draws(drawn')
    BY <2>1, <2>2, RoundFacts
  <2>5. QED
    BY <1>1, <1>9, <2>1, <2>2, <2>3, <2>4 DEF DecryptRound, FfxType
<1>10. CASE DecryptReturn
  <2>1. n \in Lengths
    BY <1>10 DEF DecryptReturn, FfxType
  <2>2. out' \in Nat
    BY <1>10, <2>1, JoinType DEF DecryptReturn, FfxType
  <2>3. QED
    BY <1>1, <1>10, <2>1, <2>2 DEF DecryptReturn, FfxType
<1>11. CASE UNCHANGED vars
  BY <1>11 DEF FfxType, vars
<1>12. CASE pair # NoPair /\ CallDecrypt(pair.out, pair.n)
  <2>1. pair.out \in Nat /\ pair.n \in Lengths
    BY <1>12 DEF FfxType
  <2>2. QED
    BY <1>6, <1>12, <2>1
<1>13. CASE \E len \in Lengths, v \in Inputs : CallEncrypt(v, len) \/ CallDecrypt(v, len)
  BY <1>5, <1>6, <1>13, InputAssumption
<1>14. QED
  BY <1>4, <1>7, <1>8, <1>9, <1>10, <1>11, <1>12, <1>13 DEF Next, Step

(* Every variable keeps its type, for every number of rounds.              *)
THEOREM TypeCorrect == Spec => []TypeOK
<1>1. FfxType => TypeOK
  BY DEF FfxType, TypeOK, Draws, Trails, Halves
<1>2. QED
  BY <1>1, TypeInit, TypeStep, PTL DEF Spec
-----------------------------------------------------------------------------
(* What one action does to everything but the types.                       *)
Trailed ==
  /\ EncryptInv
  /\ PairInv
  /\ DecryptInv
  /\ SameInv
  /\ DecryptInverts

LEMMA SetKeyStep == FfxInv /\ SetKey => Trailed'
  BY DEF FfxInv, SetKey, Trailed, EncryptInv, PairInv, DecryptInv, SameInv, DecryptInverts

LEMMA CallEncryptStep ==
  ASSUME FfxInv, NEW len \in Lengths, NEW v \in Nat, CallEncrypt(v, len)
  PROVE  Trailed'
<1>1. /\ pc' = "encrypt" /\ n' = len /\ i' = 0 /\ in' = v
      /\ A' = HighBits(v, len) /\ B' = LowBits(v, len)
      /\ UNCHANGED <<keyed, drawn, pair, made>>
  BY DEF CallEncrypt, Split
<1>2. PICK h : h = [A |-> HighBits(v, len), B |-> LowBits(v, len)]
  OBVIOUS
<1>3. trail'[0] = h
  BY <1>2, RoundAssumption DEF CallEncrypt, FfxInv, FfxType, Trails
<1>4. Fits(trail', len, 0)
  <2>1. Width(len, 0) = High(len) /\ Width(len, 0 + 1) = Low(len)
    BY WidthFacts
  <2>2. PICK H \in Nat, L \in Nat : H = Two[High(len)] /\ L = Two[Low(len)]
    BY TwoSplits
  <2>3. HighBits(v, len) \in 0 .. H - 1 /\ LowBits(v, len) \in 0 .. L - 1
    BY <2>2, HalfFacts
  <2>4. HighBits(v, len) < H /\ LowBits(v, len) < L
    BY <2>3
  <2>5. trail'[0].A = HighBits(v, len) /\ trail'[0].B = LowBits(v, len)
    BY <1>2, <1>3
  <2>6. QED
    BY <2>1, <2>2, <2>4, <2>5 DEF Fits
<1>5. Rounded(keyed, drawn, trail', v, len, 0)
  BY <1>2, <1>3, <1>4 DEF Rounded
<1>6. EncryptInv'
  BY <1>1, <1>2, <1>3, <1>5 DEF EncryptInv
<1>7. PairInv' /\ DecryptInv' /\ DecryptInverts'
  BY <1>1 DEF FfxInv, PairInv, DecryptInv, DecryptInverts
<1>8. SameInv'
  <2>1. SUFFICES ASSUME pair # NoPair, len = pair.n
                 PROVE  (trail'[0] = made[0]) <=> (v % Two[len] = pair.in % Two[len])
    BY <1>1 DEF SameInv
  <2>2. made[0] = [A |-> HighBits(pair.in, len), B |-> LowBits(pair.in, len)]
    BY <2>1 DEF FfxInv, PairInv, Rounded
  <2>3. pair.in \in Nat
    BY DEF FfxInv, FfxType
  <2>4. trail'[0] = made[0]
          <=> HighBits(v, len) = HighBits(pair.in, len) /\ LowBits(v, len) = LowBits(pair.in, len)
    BY <1>2, <1>3, <2>2
  <2>5. QED
    BY <2>3, <2>4, SameHalves
<1>9. QED
  BY <1>6, <1>7, <1>8 DEF Trailed

(* The last round of Encrypt leaves halves of the first widths: the rounds *)
(* are even in number, or the two halves have one width.                   *)
HalvesReturn == Rounds % 2 = 0 \/ \A len \in Lengths : len % 2 = 0

LEMMA LastWidths ==
  ASSUME HalvesReturn, NEW len \in Lengths
  PROVE  /\ Width(len, Rounds) = High(len) /\ Width(len, Rounds + 1) = Low(len)
         /\ Width(len, Rounds - 1) = Low(len)
<1>1. PICK R \in Nat : R = Rounds
  BY RoundAssumption
<1>2. R % 2 = 0 \/ High(len) = Low(len)
  <2>1. ASSUME len % 2 = 0
        PROVE  High(len) = Low(len)
    <3>1. PICK l \in Nat : l = len
      BY LengthAssumption
    <3>2. l - (l \div 2) = l \div 2
      BY <2>1, <3>1
    <3>3. QED
      BY <3>1, <3>2 DEF High, Low
  <2>2. R % 2 = 0 \/ len % 2 = 0
    BY <1>1, Zenon DEF HalvesReturn
  <2>3. QED
    BY <2>1, <2>2
<1>3. /\ Width(len, R) = High(len) /\ Width(len, R + 1) = Low(len)
      /\ Width(len, R - 1) = Low(len)
  <2>1. R \in Int
    OBVIOUS
  <2>2. /\ Width(len, R) = IF R % 2 = 0 THEN High(len) ELSE Low(len)
        /\ Width(len, R + 1) = IF R % 2 = 0 THEN Low(len) ELSE High(len)
        /\ Width(len, R - 1) = Width(len, R + 1)
    BY <2>1, WidthFacts, Zenon
  <2>3. QED
    BY <1>2, <2>2
<1>4. QED
  BY <1>1, <1>3, Zenon

(* The last halves of an Encrypt are those of its result.                  *)
LEMMA LastHalves ==
  ASSUME HalvesReturn, NEW k, NEW f, NEW t \in Trails, NEW v, NEW len \in Lengths,
         Rounded(k, f, t, v, len, Rounds)
  PROVE  /\ HighBits(Join(t[Rounds].A, t[Rounds].B, len), len) = t[Rounds].A
         /\ LowBits(Join(t[Rounds].A, t[Rounds].B, len), len) = t[Rounds].B
<1>1. Rounds \in Nat
  BY RoundAssumption
<1>2. Width(len, Rounds) = High(len) /\ Width(len, Rounds + 1) = Low(len)
  BY LastWidths
<1>3. PICK H \in Nat, L \in Nat : H = Two[High(len)] /\ L = Two[Low(len)]
  BY TwoSplits
<1>4. t[Rounds].A \in Nat /\ t[Rounds].B \in Nat
  BY <1>1 DEF Trails, Halves
<1>5. t[Rounds].A < H /\ t[Rounds].B < L
  BY <1>1, <1>2, <1>3 DEF Rounded, Fits
<1>6. t[Rounds].A \in 0 .. H - 1 /\ t[Rounds].B \in 0 .. L - 1
  BY <1>4, <1>5
<1>7. QED
  BY <1>3, <1>6, JoinSplit

LEMMA CallDecryptStep ==
  ASSUME HalvesReturn, FfxInv, NEW len \in Lengths, NEW v \in Nat, CallDecrypt(v, len)
  PROVE  Trailed'
<1>1. /\ pc' = "decrypt" /\ n' = len /\ i' = Rounds - 1 /\ in' = v
      /\ A' = HighBits(v, len) /\ B' = LowBits(v, len)
      /\ UNCHANGED <<keyed, drawn, pair, made>>
  BY DEF CallDecrypt, Split
<1>2. EncryptInv' /\ PairInv' /\ SameInv' /\ DecryptInverts'
  BY <1>1 DEF FfxInv, PairInv, EncryptInv, SameInv, DecryptInverts
<1>3. Rounds \in Nat /\ Rounds - 1 \in Int /\ (Rounds - 1) + 1 = Rounds
  BY RoundAssumption
<1>4. A' < Two[Width(len, Rounds)] /\ B' < Two[Width(len, Rounds - 1)]
  <2>1. Width(len, Rounds) = High(len) /\ Width(len, Rounds - 1) = Low(len)
    BY LastWidths
  <2>2. PICK H \in Nat, L \in Nat : H = Two[High(len)] /\ L = Two[Low(len)]
    BY TwoSplits
  <2>3. HighBits(v, len) \in 0 .. H - 1 /\ LowBits(v, len) \in 0 .. L - 1
    BY <2>2, HalfFacts
  <2>4. HighBits(v, len) < H /\ LowBits(v, len) < L
    BY <2>3
  <2>5. QED
    BY <1>1, <2>1, <2>2, <2>4
<1>5. ASSUME pair # NoPair, v = pair.out, len = pair.n
      PROVE  made[Rounds] = [A |-> A', B |-> B']
  <2>1. made[Rounds] \in Halves /\ made \in Trails
    BY <1>3 DEF FfxInv, FfxType, Trails
  <2>2. Rounded(keyed, drawn, made, pair.in, len, Rounds)
          /\ v = Join(made[Rounds].A, made[Rounds].B, len)
    BY <1>5 DEF FfxInv, PairInv
  <2>3. A' = made[Rounds].A /\ B' = made[Rounds].B
    BY <1>1, <2>1, <2>2, LastHalves
  <2>4. QED
    BY <2>1, <2>3 DEF Halves
<1>6. DecryptInv'
  BY <1>1, <1>3, <1>4, <1>5 DEF DecryptInv
<1>7. QED
  BY <1>2, <1>6 DEF Trailed

LEMMA EncryptRoundStep == FfxInv /\ EncryptRound => Trailed'
<1>1. SUFFICES ASSUME FfxInv, EncryptRound
               PROVE  Trailed'
  OBVIOUS
<1>2. /\ n \in Lengths /\ i \in 0 .. Rounds - 1 /\ keyed \in BOOLEAN
      /\ trail \in Trails /\ made \in Trails
      /\ pc = "encrypt" /\ Rounded(keyed, drawn, trail, in, n, i)
      /\ trail[i] = [A |-> A, B |-> B]
  BY <1>1, RoundAssumption DEF EncryptRound, FfxInv, FfxType, EncryptInv
<1>3. /\ i' = i + 1 /\ n' = n /\ keyed' = keyed /\ pc' = pc /\ in' = in
      /\ pair' = pair /\ made' = made
  BY <1>1 DEF EncryptRound
<1>4. PICK d \in Values(n, i) :
        /\ RoundFunction(<<n, i, B>>, d)
        /\ A' = B
        /\ B' = (A + d) % Two[Width(n, i)]
        /\ trail' = [trail EXCEPT ![i + 1] = [A |-> B, B |-> (A + d) % Two[Width(n, i)]]]
  BY <1>1 DEF EncryptRound
<1>5. /\ Known(keyed, drawn', <<n, i, B>>) /\ Added(keyed, drawn', <<n, i, B>>) = d
      /\ Keeps(keyed, drawn, drawn') /\ Draws(drawn')
  BY <1>1, <1>3, <1>4, RoundFacts DEF FfxInv
<1>6. trail[i].A = A /\ trail[i].B = B
  BY <1>2
<1>7. Rounded(keyed, drawn', trail, in, n, i)
  BY <1>2, <1>5, RoundedKept
<1>8. Rounded(keyed, drawn', trail', in, n, i + 1)
  BY <1>2, <1>4, <1>5, <1>6, <1>7, Forward
<1>9. trail' \in Trails /\ trail'[i + 1] = [A |-> A', B |-> B'] /\ trail'[i] = trail[i]
  <2>1. trail' \in Trails
    BY <1>1, TypeStep DEF FfxInv, FfxType, Next, Step
  <2>2. QED
    BY <1>2, <1>4, <2>1, RoundAssumption DEF Trails
<1>10. EncryptInv'
  BY <1>2, <1>3, <1>8, <1>9 DEF EncryptInv
<1>11. PairInv'
  <2>1. ASSUME pair # NoPair
        PROVE  Rounded(keyed, drawn', made, pair.in, pair.n, Rounds)
    BY <1>1, <1>5, <2>1, RoundedKept DEF FfxInv, PairInv
  <2>2. QED
    BY <1>1, <1>3, <2>1 DEF FfxInv, PairInv
<1>12. DecryptInv' /\ DecryptInverts'
  BY <1>2, <1>3 DEF DecryptInv, DecryptInverts
<1>13. SameInv'
  <2>1. SUFFICES ASSUME pair # NoPair, n = pair.n
                 PROVE  trail'[i + 1] = made[i + 1] <=> trail'[i] = made[i]
    BY <1>1, <1>2, <1>3, <1>9 DEF SameInv, FfxInv
  <2>2. Hop(keyed, drawn', made, n, i) /\ Fits(made, n, i)
    BY <1>2, <1>3, <1>11, <2>1, RoundAssumption DEF PairInv, Rounded
  <2>3. Hop(keyed, drawn', trail', n, i) /\ Fits(trail', n, i)
    BY <1>2, <1>8 DEF Rounded
  <2>4. QED
    BY <1>2, <1>5, <1>9, <2>2, <2>3, Alongside
<1>14. QED
  BY <1>10, <1>11, <1>12, <1>13 DEF Trailed

LEMMA EncryptReturnStep == FfxInv /\ EncryptReturn => Trailed'
<1>1. SUFFICES ASSUME FfxInv, EncryptReturn
               PROVE  Trailed'
  OBVIOUS
<1>2. /\ i = Rounds /\ trail \in Trails /\ n \in Lengths /\ op = "Encrypt"
      /\ Rounded(keyed, drawn, trail, in, n, Rounds)
      /\ trail[Rounds] = [A |-> A, B |-> B]
  BY <1>1, RoundAssumption DEF EncryptReturn, FfxInv, FfxType, EncryptInv
<1>3. /\ pc' = "idle" /\ op' = op /\ UNCHANGED <<keyed, drawn>>
      /\ pair' = [n |-> n, in |-> in, out |-> Join(A, B, n)]
      /\ made' = trail
  BY <1>1 DEF EncryptReturn
<1>4. pair'.n = n /\ pair'.in = in /\ pair'.out = Join(A, B, n)
  BY <1>3
<1>5. trail[Rounds].A = A /\ trail[Rounds].B = B
  BY <1>2
<1>6. PairInv'
  BY <1>2, <1>3, <1>4, <1>5 DEF PairInv
<1>7. EncryptInv' /\ DecryptInv' /\ SameInv' /\ DecryptInverts'
  BY <1>2, <1>3 DEF EncryptInv, DecryptInv, SameInv, DecryptInverts
<1>8. QED
  BY <1>6, <1>7 DEF Trailed

LEMMA DecryptRoundStep == FfxInv /\ DecryptRound => Trailed'
<1>1. SUFFICES ASSUME FfxInv, DecryptRound
               PROVE  Trailed'
  OBVIOUS
<1>2. /\ n \in Lengths /\ i \in 0 .. Rounds - 1 /\ keyed \in BOOLEAN
      /\ A \in Nat /\ B \in Nat /\ made \in Trails /\ pc = "decrypt"
      /\ A < Two[Width(n, i + 1)]
  BY <1>1 DEF DecryptRound, FfxInv, FfxType, DecryptInv
<1>3. /\ i' = i - 1 /\ n' = n /\ keyed' = keyed /\ pc' = pc /\ in' = in
      /\ pair' = pair /\ made' = made
  BY <1>1 DEF DecryptRound
<1>4. PICK d \in Values(n, i) :
        /\ RoundFunction(<<n, i, A>>, d)
        /\ A' = (B - d) % Two[Width(n, i)]
        /\ B' = A
  BY <1>1 DEF DecryptRound
<1>5. /\ Added(keyed, drawn', <<n, i, A>>) = d
      /\ Keeps(keyed, drawn, drawn') /\ Draws(drawn')
  BY <1>1, <1>3, <1>4, RoundFacts DEF FfxInv
<1>6. PairInv'
  <2>1. ASSUME pair # NoPair
        PROVE  Rounded(keyed, drawn', made, pair.in, pair.n, Rounds)
    BY <1>1, <1>5, <2>1, RoundedKept DEF FfxInv, PairInv
  <2>2. QED
    BY <1>1, <1>3, <2>1 DEF FfxInv, PairInv
<1>7. A' < Two[Width(n, i)] /\ B' < Two[Width(n, i - 1)]
  <2>1. i \in Int
    BY <1>2
  <2>2. PICK M \in Nat \ {0} : M = Two[Width(n, i)] /\ Values(n, i) = 0 .. M - 1
    BY <1>2, <2>1, WidthFacts
  <2>3. Width(n, i - 1) = Width(n, i + 1)
    BY <1>2, <2>1, WidthFacts
  <2>4. d \in Nat
    BY <2>2
  <2>5. (B - d) % M < M
    BY <1>2, <2>4
  <2>6. QED
    BY <1>2, <1>4, <2>2, <2>3, <2>5
<1>8. ASSUME pair # NoPair, in = pair.out, n = pair.n
      PROVE  made[i] = [A |-> A', B |-> B']
  <2>1. made[i + 1] = [A |-> A, B |-> B]
    BY <1>1, <1>2, <1>8 DEF FfxInv, DecryptInv
  <2>2. made[i + 1].A = A /\ made[i + 1].B = B
    BY <2>1
  <2>3. Rounded(keyed, drawn', made, pair.in, n, Rounds)
    BY <1>3, <1>6, <1>8 DEF PairInv
  <2>4. made[i].A = A' /\ made[i].B = B'
    BY <1>2, <1>4, <1>5, <2>2, <2>3, Backward
  <2>5. made[i] \in Halves
    BY <1>2, RoundAssumption DEF Trails
  <2>6. QED
    BY <2>4, <2>5 DEF Halves
<1>9. (i - 1) + 1 = i
  BY <1>2
<1>10. DecryptInv'
  BY <1>3, <1>7, <1>8, <1>9 DEF DecryptInv
<1>11. EncryptInv' /\ SameInv' /\ DecryptInverts'
  BY <1>2, <1>3 DEF EncryptInv, SameInv, DecryptInverts
<1>12. QED
  BY <1>6, <1>10, <1>11 DEF Trailed

LEMMA DecryptReturnStep == FfxInv /\ DecryptReturn => Trailed'
<1>1. SUFFICES ASSUME FfxInv, DecryptReturn
               PROVE  Trailed'
  OBVIOUS
<1>2. i = -1 /\ n \in Lengths /\ pair.in \in Nat /\ pc = "decrypt"
  BY <1>1 DEF DecryptReturn, FfxInv, FfxType
<1>3. /\ pc' = "idle" /\ out' = Join(A, B, n)
      /\ UNCHANGED <<keyed, drawn, n, in, pair, made>>
  BY <1>1 DEF DecryptReturn
<1>4. ASSUME pair # NoPair, in = pair.out, n = pair.n
      PROVE  Join(A, B, n) = pair.in % Two[n]
  <2>1. made[0] = [A |-> A, B |-> B]
    BY <1>1, <1>2, <1>4 DEF FfxInv, DecryptInv
  <2>2. made[0] = [A |-> HighBits(pair.in, n), B |-> LowBits(pair.in, n)]
    BY <1>1, <1>4 DEF FfxInv, PairInv, Rounded
  <2>3. A = HighBits(pair.in, n) /\ B = LowBits(pair.in, n)
    BY <2>1, <2>2
  <2>4. QED
    BY <1>2, <2>3, HalfFacts
<1>5. DecryptInverts'
  BY <1>3, <1>4 DEF DecryptInverts
<1>6. EncryptInv' /\ DecryptInv' /\ SameInv' /\ PairInv'
  BY <1>1, <1>3 DEF FfxInv, EncryptInv, DecryptInv, SameInv, PairInv
<1>7. QED
  BY <1>5, <1>6 DEF Trailed
-----------------------------------------------------------------------------
LEMMA InvInit == Init => FfxInv
  BY TypeInit DEF Init, FfxInv, EncryptInv, PairInv, DecryptInv, SameInv, DecryptInverts

LEMMA InvStep ==
  ASSUME HalvesReturn, FfxInv, [Next]_vars
  PROVE  FfxInv'
<1>1. FfxType'
  BY TypeStep DEF FfxInv
<1>2. ASSUME UNCHANGED vars
      PROVE  Trailed'
  BY <1>2 DEF vars, FfxInv, Trailed, EncryptInv, PairInv, DecryptInv, SameInv, DecryptInverts,
              NoPair
<1>3. ASSUME pair # NoPair, CallDecrypt(pair.out, pair.n)
      PROVE  Trailed'
  <2>1. pair.out \in Nat /\ pair.n \in Lengths
    BY <1>3 DEF FfxInv, FfxType
  <2>2. QED
    BY <1>3, <2>1, CallDecryptStep
<1>4. ASSUME NEW len \in Lengths, NEW v \in Inputs, CallEncrypt(v, len) \/ CallDecrypt(v, len)
      PROVE  Trailed'
  BY <1>4, InputAssumption, CallEncryptStep, CallDecryptStep
<1>5. Trailed'
  BY <1>2, <1>3, <1>4, SetKeyStep, EncryptRoundStep, EncryptReturnStep, DecryptRoundStep,
     DecryptReturnStep DEF Next, Step
<1>6. QED
  BY <1>1, <1>5 DEF FfxInv, Trailed

LEMMA Invariance == HalvesReturn => (Spec => []FfxInv)
<1>1. HalvesReturn /\ FfxInv /\ [Next]_vars => FfxInv'
  BY InvStep
<1>2. SUFFICES ASSUME HalvesReturn
               PROVE  Spec => []FfxInv
  OBVIOUS
<1>3. FfxInv /\ [Next]_vars => FfxInv'
  BY <1>1, <1>2
<1>4. QED
  BY <1>3, InvInit, PTL DEF Spec

(* Before each round of either loop the halves have the widths that the    *)
(* round works with, when the number of rounds is even.                    *)
THEOREM WidthsKept == HalvesReturn => (Spec => []HalvesFit)
<1>1. FfxInv => HalvesFit
  BY RoundAssumption DEF FfxInv, FfxType, EncryptInv, DecryptInv, Rounded, Fits, HalvesFit
<1>2. QED
  BY <1>1, Invariance, PTL

(* Decrypt inverts Encrypt: for every length, every integer and every      *)
(* round function, with any calls between the two but a new key.           *)
THEOREM RoundTrips == HalvesReturn => (Spec => []DecryptInverts)
<1>1. FfxInv => DecryptInverts
  BY DEF FfxInv
<1>2. QED
  BY <1>1, Invariance, PTL

(* Encrypt is injective on the integers of n bits.                         *)
THEOREM NothingLost == HalvesReturn => (Spec => []EncryptInjective)
<1>1. ASSUME HalvesReturn, FfxInv
      PROVE  EncryptInjective
  <2>1. SUFFICES ASSUME pc = "encrypt", i > Rounds - 1, pair # NoPair, n = pair.n
                 PROVE  (Join(A, B, n) = pair.out) <=> (in % Two[n] = pair.in % Two[n])
    BY DEF EncryptInjective
  <2>2. /\ i = Rounds /\ n \in Lengths /\ trail \in Trails /\ made \in Trails
        /\ trail[Rounds] \in Halves /\ made[Rounds] \in Halves
    BY <1>1, <2>1, RoundAssumption DEF FfxInv, FfxType, Trails
  <2>3. Rounded(keyed, drawn, trail, in, n, Rounds) /\ trail[Rounds] = [A |-> A, B |-> B]
    BY <1>1, <2>1, <2>2 DEF FfxInv, EncryptInv
  <2>4. Rounded(keyed, drawn, made, pair.in, n, Rounds)
          /\ pair.out = Join(made[Rounds].A, made[Rounds].B, n)
    BY <1>1, <2>1 DEF FfxInv, PairInv
  <2>5. trail[Rounds].A = A /\ trail[Rounds].B = B
    BY <2>3
  <2>6. HighBits(Join(A, B, n), n) = A /\ LowBits(Join(A, B, n), n) = B
    BY <1>1, <2>2, <2>3, <2>5, LastHalves
  <2>7. HighBits(pair.out, n) = made[Rounds].A /\ LowBits(pair.out, n) = made[Rounds].B
    BY <1>1, <2>2, <2>4, LastHalves
  <2>8. trail[Rounds] = made[Rounds] <=> A = made[Rounds].A /\ B = made[Rounds].B
    BY <2>2, <2>5 DEF Halves
  <2>9. trail[Rounds] = made[Rounds] <=> in % Two[n] = pair.in % Two[n]
    BY <1>1, <2>1, <2>2 DEF FfxInv, SameInv
  <2>10. QED
    BY <2>4, <2>6, <2>7, <2>8, <2>9
<1>2. HalvesReturn /\ FfxInv => EncryptInjective
  BY <1>1
<1>3. SUFFICES ASSUME HalvesReturn
               PROVE  Spec => []EncryptInjective
  OBVIOUS
<1>4. FfxInv => EncryptInjective
  BY <1>2, <1>3
<1>5. QED
  BY <1>3, <1>4, Invariance, PTL

(* What the invariant says of a result.                                    *)
LEMMA ResultFacts ==
  ASSUME FfxType, pc # "idle"
  PROVE  Join(A, B, n) \in Interface!Residues(n) /\ n # 0
<1>1. n \in Lengths /\ A \in Nat /\ B \in Nat
  BY DEF FfxType
<1>2. PICK L \in Nat \ {0}, H \in Nat \ {0} :
        L = Two[Low(n)] /\ Two[n] = H * L
  BY <1>1, TwoSplits
<1>3. PICK M \in Nat \ {0} : M = Two[n]
  BY <1>2
<1>4. PICK s \in Nat : s = A * L + B
  BY <1>1
<1>5. s % M \in 0 .. M - 1
  OBVIOUS
<1>6. Join(A, B, n) \in 0 .. M - 1
  BY <1>2, <1>3, <1>4, <1>5, Zenon DEF Join
<1>7. n # 0
  BY <1>1, LengthAssumption
<1>8. QED
  BY <1>3, <1>6, <1>7, SameTwo DEF Interface!Residues

LEMMA CallImplements ==
  ASSUME NEW function, NEW loop, NEW v \in Nat, NEW len \in Lengths, NEW round,
         Split(function, loop, v, len, round)
  PROVE  Interface!Call(function, loop)
BY LengthAssumption DEF Split, Interface!Call

(* Each step of Ffx is one of the interface, or changes nothing of it.     *)
LEMMA StepImplements ==
  ASSUME HalvesReturn, FfxInv, EncryptInjective, [Next]_vars
  PROVE  [Interface!Next]_(Interface!vars)
<1>1. CASE UNCHANGED vars \/ EncryptRound \/ DecryptRound
  BY <1>1 DEF vars, EncryptRound, DecryptRound, Interface!vars
<1>2. CASE SetKey
  BY <1>2 DEF SetKey, NoPair, Interface!Next, Interface!SetKey, Interface!NoPair
<1>3. ASSUME NEW len \in Lengths, NEW v \in Nat, CallEncrypt(v, len) \/ CallDecrypt(v, len)
      PROVE  Interface!Next
  BY <1>3, CallImplements DEF CallEncrypt, CallDecrypt, Interface!Next
<1>4. CASE EncryptReturn
  <2>1. /\ pc = "encrypt" /\ i > Rounds - 1
        /\ pc' = "idle" /\ out' = Join(A, B, n)
        /\ pair' = [n |-> n, in |-> in, out |-> Join(A, B, n)]
        /\ UNCHANGED <<n, in, op>>
    BY <1>4 DEF EncryptReturn
  <2>2. Join(A, B, n) \in Interface!Residues(n) /\ n # 0
    BY <2>1, ResultFacts DEF FfxInv
  <2>3. pair.n = n => pair # NoPair
    BY <2>2 DEF NoPair
  <2>4. pair.n = n => (out' = pair.out <=> in % Two[n] = pair.in % Two[n])
    BY <2>1, <2>3 DEF EncryptInjective
  <2>5. QED
    BY <2>1, <2>2, <2>4, SameTwo DEF Interface!Next, Interface!EncryptReturns, Interface!Returns
<1>5. CASE DecryptReturn
  <2>1. /\ pc = "decrypt" /\ pc' = "idle" /\ out' = Join(A, B, n)
        /\ UNCHANGED <<n, in, op, pair>>
    BY <1>5 DEF DecryptReturn
  <2>2. Join(A, B, n) \in Interface!Residues(n) /\ n # 0
    BY <2>1, ResultFacts DEF FfxInv
  <2>3. pair.n = n => pair # NoPair
    BY <2>2 DEF NoPair
  <2>4. DecryptInverts'
    BY <1>5, DecryptReturnStep DEF Trailed
  <2>5. op = "Decrypt"
    BY <2>1 DEF FfxInv, FfxType
  <2>6. pair.n = n /\ in = pair.out => out' = pair.in % Two[n]
    BY <2>1, <2>3, <2>4, <2>5 DEF DecryptInverts, NoPair
  <2>7. QED
    BY <2>1, <2>2, <2>6, SameTwo DEF Interface!Next, Interface!DecryptReturns, Interface!Returns
<1>6. CASE pair # NoPair /\ CallDecrypt(pair.out, pair.n)
  <2>1. pair.out \in Nat /\ pair.n \in Lengths
    BY <1>6 DEF FfxInv, FfxType
  <2>2. QED
    BY <1>3, <1>6, <2>1
<1>7. QED
  BY <1>1, <1>2, <1>3, <1>4, <1>5, <1>6, InputAssumption DEF Next, Step

(* Ffx implements the interface: its specification implies Encrypter's,    *)
(* the round function, the rounds and the halves being hidden.             *)
THEOREM ImplementsEncrypter == HalvesReturn => (Spec => IsEncrypter)
<1>1. SUFFICES ASSUME HalvesReturn
               PROVE  Spec => IsEncrypter
  OBVIOUS
<1>2. Init => Interface!Init
  BY DEF Init, NoPair, Interface!Init, Interface!NoPair
<1>3. FfxInv /\ EncryptInjective /\ [Next]_vars => [Interface!Next]_(Interface!vars)
  BY <1>1, StepImplements
<1>4. QED
  BY <1>1, <1>2, <1>3, Invariance, NothingLost, PTL DEF Spec, IsEncrypter, Interface!Spec
=============================================================================
