---------------------------- MODULE DotWordsProofs ----------------------------
(***************************************************************************)
(* What the conversions between words and integers compute, for every      *)
(* Base: a word of n bytes is an integer below Power[n], its first byte    *)
(* the most significant.                                                   *)
(***************************************************************************)
EXTENDS DotWords, ProofLemmas

Byte == 0 .. Base - 1

WordsOf(n) == [1 .. n -> Byte]

LEMMA PowerSteps ==
  /\ Power \in [Nat -> Nat \ {0}]
  /\ Power[0] = 1
  /\ \A k \in Nat \ {0} : Power[k] = Base * Power[k - 1]
BY PowersSteps, BaseAssumption DEF Power, IsPowers

LEMMA PowerAdd == \A i, j \in Nat : Power[i + j] = Power[i] * Power[j]
BY PowersSteps, PowersAdd, BaseAssumption DEF Power

LEMMA PowerGrows ==
  /\ \A k \in Nat : k < Power[k] /\ 2 * Power[k] <= Power[k + 1]
  /\ \A i, j \in Nat : i <= j => Power[i] <= Power[j]
BY PowersSteps, PowersGrow, BaseAssumption DEF Power

LEMMA SizeOf ==
  ASSUME NEW r \in Nat, NEW k \in Nat \ {0}, k > 1 => Power[k - 1] <= r, r < Power[k]
  PROVE  SizeInBase(Base, r) = k
BY SizeInBaseIs, BaseAssumption DEF Power

LEMMA SizeExists ==
  ASSUME NEW r \in Nat
  PROVE  /\ SizeInBase(Base, r) \in Nat \ {0}
         /\ r < Power[SizeInBase(Base, r)]
         /\ SizeInBase(Base, r) > 1 => Power[SizeInBase(Base, r) - 1] <= r
BY SizeInBaseExists, BaseAssumption DEF Power
-----------------------------------------------------------------------------
(* value[i] is the integer of the first i bytes of w.                      *)
Values(value, w) ==
  /\ value \in [0 .. Len(w) -> Nat]
  /\ value[0] = 0
  /\ \A i \in 1 .. Len(w) : value[i] = value[i - 1] * Base + w[i]

LEMMA WordLen ==
  ASSUME NEW n \in Nat, NEW w \in WordsOf(n)
  PROVE  Len(w) = n /\ w \in Seq(Byte)
BY DEF WordsOf

LEMMA FromBytesValue ==
  ASSUME NEW n \in Nat, NEW w \in WordsOf(n)
  PROVE  \E value : Values(value, w) /\ FromBytes(w) = value[n]
<1> DEFINE f == CHOOSE value : value = [i \in 0 .. Len(w) |->
                  IF i = 0 THEN 0 ELSE value[i - 1] * Base + w[i]]
           G == [i \in 1 .. n |-> [x \in Nat |-> x * Base + w[i]]]
<1>1. Len(w) = n /\ Base \in Nat /\ \A i \in 1 .. n : w[i] \in Nat
  BY WordLen, BaseAssumption DEF WordsOf, Byte
<1>2. G \in [1 .. n -> [Nat -> Nat]]
  BY <1>1, ProductInNat
<1>3. PICK g \in [0 .. n -> Nat] : Follows(g, 0, G, n)
  <2> HIDE DEF G
  <2> QED
    BY <1>2, RecursionUpTo
<1>4. g[0] = 0 /\ \A i \in 1 .. n : g[i] = g[i - 1] * Base + w[i]
  <2>1. \A i \in 1 .. n : g[i - 1] \in Nat
    OBVIOUS
  <2>2. QED
    BY <1>3, <2>1 DEF Follows
<1>5. g = [i \in 0 .. Len(w) |-> IF i = 0 THEN 0 ELSE g[i - 1] * Base + w[i]]
  BY <1>1, <1>4
<1>6. f = [i \in 0 .. Len(w) |-> IF i = 0 THEN 0 ELSE f[i - 1] * Base + w[i]]
  BY <1>5
<1>7. FromBytes(w) = f[n]
  BY <1>1 DEF FromBytes
<1> HIDE DEF f
<1>8. \A i \in 0 .. n : f[i] \in Nat
  <2> DEFINE T == {i \in 0 .. n : f[i] \in Nat}
  <2>1. 0 \in T
    BY <1>1, <1>6
  <2>2. ASSUME NEW i \in 0 .. n - 1, i \in T
        PROVE  i + 1 \in T
    <3>1. f[i + 1] = f[i] * Base + w[i + 1]
      BY <1>1, <1>6
    <3>2. f[i] * Base \in Nat /\ w[i + 1] \in Nat
      BY <2>2, <1>1, ProductInNat
    <3>3. QED
      BY <3>1, <3>2
  <2>3. \A i \in 0 .. n : i \in T
    <3> HIDE DEF T
    <3> QED
      BY <2>1, <2>2, InductionUpTo
  <2>4. QED
    BY <2>3
<1>9. Values(f, w)
  <2>1. f \in [0 .. n -> Nat]
    BY <1>1, <1>6, <1>8
  <2>2. f[0] = 0
    BY <1>1, <1>6
  <2>3. ASSUME NEW i \in 1 .. n
        PROVE  f[i] = f[i - 1] * Base + w[i]
    <3>1. i \in 0 .. Len(w) /\ i # 0
      BY <1>1
    <3>2. QED
      BY <3>1, <1>6
  <2>4. QED
    BY <1>1, <2>1, <2>2, <2>3 DEF Values
<1>10. QED
  BY <1>7, <1>9

(* The bytes after the first i leave the value in a window of that width.  *)
LEMMA Window ==
  ASSUME NEW n \in Nat, NEW w \in WordsOf(n), NEW value, Values(value, w),
         NEW i \in 0 .. n, NEW j \in i .. n
  PROVE  /\ value[i] * Power[j - i] <= value[j]
         /\ value[j] < (value[i] + 1) * Power[j - i]
<1> DEFINE In(k) == /\ value[i] * Power[k] <= value[i + k]
                    /\ value[i + k] < (value[i] + 1) * Power[k]
           T == {k \in 0 .. n - i : In(k)}
<1>1. Len(w) = n /\ Base \in Nat /\ value[i] \in Nat
  BY WordLen, BaseAssumption DEF Values
<1>2. 0 \in T
  <2>1. Power[0] = 1 /\ i + 0 = i
    BY PowerSteps
  <2>2. QED
    BY <1>1, <2>1
<1>3. ASSUME NEW k \in 0 .. (n - i) - 1, k \in T
      PROVE  k + 1 \in T
  <2>1. /\ value[i + k] \in Nat /\ w[i + (k + 1)] \in 0 .. Base - 1
        /\ value[i + (k + 1)] = value[i + k] * Base + w[i + (k + 1)]
    BY <1>1 DEF Values, WordsOf, Byte
  <2>2. Power[k + 1] = Base * Power[k] /\ Power[k] \in Nat
    BY PowerSteps
  <2>3. /\ value[i] * Power[k + 1] = (value[i] * Power[k]) * Base
        /\ (value[i] + 1) * Power[k + 1] = ((value[i] + 1) * Power[k]) * Base
    BY <1>1, <2>2
  <2> DEFINE a == value[i + k]
             b == value[i] * Power[k]
             c == (value[i] + 1) * Power[k]
  <2>4. a \in Nat /\ b \in Nat /\ c \in Nat /\ b <= a /\ a + 1 <= c
    <3>1. a \in Nat /\ b \in Nat /\ c \in Nat
      <4>1. a \in Nat /\ value[i] \in Nat /\ value[i] + 1 \in Nat /\ Power[k] \in Nat
        BY <1>1, <2>1, <2>2
      <4>2. QED
        BY <4>1, ProductInNat, Zenon
    <3>2. b <= a /\ a < c
      BY <1>3
    <3> HIDE DEF a, b, c
    <3>3. QED
      BY <3>1, <3>2
  <2>5. b * Base <= a * Base + w[i + (k + 1)] /\ a * Base + w[i + (k + 1)] < c * Base
    <3> HIDE DEF a, b, c
    <3>1. b * Base <= a * Base /\ (a + 1) * Base <= c * Base
      BY <1>1, <2>4, ProductMonotone
    <3>2. (a + 1) * Base = a * Base + Base
      BY <1>1, <2>4
    <3>3. a * Base \in Nat /\ b * Base \in Nat /\ c * Base \in Nat
      BY <1>1, <2>4, ProductInNat
    <3>4. QED
      BY <3>1, <3>2, <3>3, <2>1, <1>1
  <2>6. QED
    BY <2>1, <2>3, <2>5
<1>4. \A k \in 0 .. n - i : k \in T
  <2> HIDE DEF T
  <2> QED
    BY <1>2, <1>3, InductionUpTo
<1>5. j - i \in 0 .. n - i /\ i + (j - i) = j
  OBVIOUS
<1>6. QED
  BY <1>4, <1>5
-----------------------------------------------------------------------------
LEMMA FromBytesRange ==
  ASSUME NEW n \in Nat, NEW w \in WordsOf(n)
  PROVE  FromBytes(w) \in 0 .. Power[n] - 1
<1>1. PICK value : Values(value, w) /\ FromBytes(w) = value[n]
  BY FromBytesValue
<1>2. value[0] = 0 /\ value[n] \in Nat /\ Power[n] \in Nat
  BY <1>1, WordLen, PowerSteps DEF Values
<1>3. value[n] < (value[0] + 1) * Power[n - 0]
  BY <1>1, Window
<1>4. QED
  BY <1>1, <1>2, <1>3

(* The first byte alone.                                                   *)
LEMMA FirstByteWindow ==
  ASSUME NEW n \in Nat \ {0}, NEW w \in WordsOf(n)
  PROVE  /\ w[1] * Power[n - 1] <= FromBytes(w)
         /\ FromBytes(w) < (w[1] + 1) * Power[n - 1]
<1>1. PICK value : Values(value, w) /\ FromBytes(w) = value[n]
  BY FromBytesValue
<1>2. value[1] = w[1]
  <2>1. value[0] = 0 /\ value[1] = value[0] * Base + w[1] /\ w[1] \in Nat /\ Base \in Nat
    BY <1>1, WordLen, BaseAssumption DEF Values, WordsOf, Byte
  <2>2. QED
    BY <2>1
<1>3. QED
  BY <1>1, <1>2, Window

LEMMA ToBytesIsWord ==
  ASSUME NEW n \in Nat, NEW v \in Int
  PROVE  ToBytes(v, n) \in WordsOf(n)
<1>1. AbsVal(v) \in Nat
  BY DEF AbsVal
<1>2. ASSUME NEW i \in 1 .. n
      PROVE  (AbsVal(v) \div Power[n - i]) % Base \in Byte
  <2>1. Power[n - i] \in Nat \ {0}
    BY PowerSteps
  <2>2. AbsVal(v) \div Power[n - i] \in Int
    BY <1>1, <2>1, Division
  <2>3. QED
    BY <2>2, BaseAssumption, Division DEF Byte
<1>3. QED
  BY <1>2 DEF ToBytes, WordsOf

(* The word written for the integer of a word is the word.                 *)
LEMMA WordRecovered ==
  ASSUME NEW n \in Nat, NEW w \in WordsOf(n)
  PROVE  ToBytes(FromBytes(w), n) = w
<1>1. PICK value : Values(value, w) /\ FromBytes(w) = value[n]
  BY FromBytesValue
<1>2. value[n] \in Nat /\ Base \in Nat \ {0, 1} /\ Len(w) = n
  BY <1>1, WordLen, BaseAssumption DEF Values
<1>3. ASSUME NEW i \in 1 .. n
      PROVE  (value[n] \div Power[n - i]) % Base = w[i]
  <2>1. /\ value[i] \in Nat /\ value[i - 1] \in Nat /\ w[i] \in 0 .. Base - 1
        /\ value[i] = value[i - 1] * Base + w[i]
    BY <1>1, <1>2 DEF Values, WordsOf, Byte
  <2>2. Power[n - i] \in Nat \ {0}
    BY PowerSteps
  <2>3. value[i] * Power[n - i] <= value[n] /\ value[n] < (value[i] + 1) * Power[n - i]
    BY <1>1, Window
  <2>4. value[n] \div Power[n - i] = value[i]
    <3>1. value[n] \in Int /\ value[i] \in Int
      BY <1>2, <2>1
    <3>2. QED
      BY <3>1, <2>2, <2>3, QuotientUnique, Zenon
  <2>5. /\ value[i] \in Int /\ value[i - 1] \in Int /\ Base \in Nat \ {0}
        /\ value[i - 1] * Base <= value[i] /\ value[i] < (value[i - 1] + 1) * Base
    <3>1. value[i - 1] * Base \in Nat
      BY <1>2, <2>1, ProductInNat
    <3>2. (value[i - 1] + 1) * Base = value[i - 1] * Base + Base
      BY <1>2, <2>1
    <3>3. Base \in Nat \ {0}
      BY <1>2
    <3>4. value[i] \in Int /\ value[i - 1] \in Int /\ w[i] \in Int /\ 0 <= w[i] /\ w[i] < Base
      BY <2>1, <3>3
    <3>5. value[i - 1] * Base <= value[i] /\ value[i] < (value[i - 1] + 1) * Base
      BY <2>1, <3>1, <3>2, <3>3, <3>4
    <3>6. QED
      BY <3>3, <3>4, <3>5
  <2>6. value[i] \div Base = value[i - 1]
    BY <2>5, QuotientUnique, Zenon
  <2>7. value[i] = (value[i] \div Base) * Base + (value[i] % Base) /\ value[i] % Base \in 0 .. Base - 1
    BY <2>5, Division, Zenon
  <2>8. value[i] % Base = w[i]
    <3>1. value[i - 1] * Base \in Int /\ w[i] \in Int /\ value[i] % Base \in Int
      BY <1>2, <2>1, <2>7
    <3>2. QED
      BY <2>1, <2>6, <2>7, <3>1
  <2>9. QED
    BY <2>4, <2>8
<1>4. ToBytes(FromBytes(w), n) = [i \in 1 .. n |-> (value[n] \div Power[n - i]) % Base]
  BY <1>1, <1>2 DEF ToBytes, AbsVal
<1>5. w = [i \in 1 .. n |-> w[i]]
  BY DEF WordsOf
<1>6. QED
  BY <1>3, <1>4, <1>5

(* The integer of the word written for it is the integer, if it fits.      *)
LEMMA IntegerRecovered ==
  ASSUME NEW n \in Nat, NEW v \in 0 .. Power[n] - 1
  PROVE  FromBytes(ToBytes(v, n)) = v
<1> DEFINE w == ToBytes(v, n)
<1>1. w \in WordsOf(n) /\ Len(w) = n /\ v \in Nat
  BY ToBytesIsWord, WordLen, PowerSteps
<1>2. PICK value : Values(value, w) /\ FromBytes(w) = value[n]
  BY <1>1, FromBytesValue
<1> DEFINE T == {i \in 0 .. n : value[i] = v \div Power[n - i]}
<1>3. 0 \in T
  <2>1. Power[n] \in Nat \ {0} /\ v \in Int /\ 0 \in Int
    BY <1>1, PowerSteps
  <2>2. 0 * Power[n] <= v /\ v < (0 + 1) * Power[n]
    BY <1>1, <2>1
  <2>3. v \div Power[n] = 0
    BY <2>1, <2>2, QuotientUnique, Zenon
  <2>4. QED
    BY <1>2, <2>3 DEF Values
<1>4. ASSUME NEW i \in 0 .. n - 1, i \in T
      PROVE  i + 1 \in T
  <2> DEFINE d == Power[n - (i + 1)]
  <2>1. d \in Nat \ {0} /\ Power[n - i] = d * Base /\ Base \in Nat \ {0}
    <3>1. n - i \in Nat \ {0} /\ (n - i) - 1 = n - (i + 1)
      OBVIOUS
    <3>2. Power[n - i] = Base * d /\ d \in Nat \ {0}
      BY <3>1, PowerSteps
    <3>3. QED
      BY <3>2, BaseAssumption
  <2>2. value[i + 1] = value[i] * Base + w[i + 1]
    BY <1>1, <1>2 DEF Values
  <2>3. w[i + 1] = (v \div d) % Base
    BY <1>1 DEF ToBytes, AbsVal
  <2>4. value[i] = (v \div d) \div Base
    <3> HIDE DEF d
    <3>1. v \in Int
      BY <1>1
    <3>2. (v \div d) \div Base = v \div (d * Base)
      BY <3>1, <2>1, QuotientOfQuotient, Zenon
    <3>3. value[i] = v \div Power[n - i]
      BY <1>4
    <3>4. QED
      BY <2>1, <3>2, <3>3
  <2>5. v \div d \in Int
    <3> HIDE DEF d
    <3>1. v \in Int
      BY <1>1
    <3>2. QED
      BY <3>1, <2>1, Division, Zenon
  <2>6. v \div d = ((v \div d) \div Base) * Base + ((v \div d) % Base)
    BY <2>1, <2>5, Division, Zenon
  <2>7. QED
    BY <2>2, <2>3, <2>4, <2>6
<1>5. \A i \in 0 .. n : i \in T
  <2> HIDE DEF T
  <2> QED
    BY <1>3, <1>4, InductionUpTo
<1>6. value[n] = v \div 1
  BY <1>5, PowerSteps
<1>7. QED
  BY <1>1, <1>2, <1>6

(* An integer below Power[n] is its first byte and the rest of the bytes.  *)
LEMMA DigitsOfSum ==
  ASSUME NEW n \in Nat \ {0}, NEW a \in Byte, NEW t \in 0 .. Power[n - 1] - 1
  PROVE  /\ a * Power[n - 1] + t \in 0 .. Power[n] - 1
         /\ ToBytes(a * Power[n - 1] + t, n)[1] = a
         /\ \A i \in 2 .. n :
              ToBytes(a * Power[n - 1] + t, n)[i] = (t \div Power[n - i]) % Base
<1> DEFINE P == Power[n - 1]
           y == a * P + t
<1>1. n - 1 \in Nat /\ P \in Nat \ {0} /\ Base \in Nat \ {0} /\ Power[n] = Base * P
  BY PowerSteps, BaseAssumption
<1>2. a \in Nat /\ a + 1 <= Base /\ a + 1 \in Nat /\ t \in Nat /\ t < P
  BY <1>1 DEF Byte
<1>3. (a + 1) * P = a * P + P /\ (a + 1) * P <= Base * P /\ a * P \in Nat
  BY <1>1, <1>2, ProductDistributes, ProductMonotone, ProductInNat
<1>4. y \in 0 .. Power[n] - 1 /\ y \in Nat
  <2>1. PICK x \in Nat, M \in Nat : x = a * P /\ M = Base * P
    BY <1>1, <1>3
  <2>2. P \in Nat /\ t \in Nat /\ t < P /\ x + P <= M
    BY <1>1, <1>2, <1>3, <2>1
  <2>3. x + t \in 0 .. M - 1
    BY <2>2
  <2>4. QED
    BY <1>1, <2>1, <2>3
<1>5. \A i \in 1 .. n : ToBytes(y, n)[i] = (y \div Power[n - i]) % Base
  BY <1>4 DEF ToBytes, AbsVal
<1>6. y \div P = a
  <2> HIDE DEF P
  <2>1. y \in Int /\ a \in Int /\ t \in 0 .. P - 1
    BY <1>1, <1>2, <1>4
  <2>2. QED
    BY <1>1, <2>1, RemainderUnique
<1>7. ASSUME NEW i \in 2 .. n
      PROVE  (y \div Power[n - i]) % Base = (t \div Power[n - i]) % Base
  <2>1. n - i \in Nat /\ i - 2 \in Nat /\ (n - i) + 1 \in Nat
    OBVIOUS
  <2>2. PICK Q \in Nat \ {0}, S \in Nat \ {0} : Q = Power[n - i] /\ S = Power[i - 2]
    BY <2>1, PowerSteps
  <2>3. P = S * (Base * Q)
    <3>1. Power[(n - i) + 1] = Base * Q
      BY <2>1, <2>2, PowerSteps
    <3>2. Power[(i - 2) + ((n - i) + 1)] = S * Power[(n - i) + 1]
      BY <2>1, <2>2, PowerAdd
    <3>3. (i - 2) + ((n - i) + 1) = n - 1
      OBVIOUS
    <3>4. QED
      BY <3>1, <3>2, <3>3
  <2> HIDE DEF P
  <2>4. PICK z \in Nat : z = a * S
    BY <1>2, <2>2
  <2>5. a * P = (z * Base) * Q
    <3>1. a * (S * (Base * Q)) = (a * S) * (Base * Q)
      BY <1>1, <1>2, <2>2
    <3>2. z * (Base * Q) = (z * Base) * Q
      BY <1>1, <2>2, <2>4
    <3>3. QED
      BY <2>3, <2>4, <3>1, <3>2
  <2>6. PICK q \in Int, r \in 0 .. Q - 1 : q = t \div Q /\ t = q * Q + r
    <3>1. t \in Int
      BY <1>2
    <3>2. t \div Q \in Int /\ t % Q \in 0 .. Q - 1 /\ t = (t \div Q) * Q + (t % Q)
      BY <2>2, <3>1, Division
    <3>3. QED
      BY <3>2, Zenon
  <2>7. PICK x \in Nat : x = z * Base
    BY <1>1, <2>4
  <2>8. y = (x + q) * Q + r
    <3>1. (x + q) * Q = x * Q + q * Q
      BY <2>2, <2>6, <2>7, ProductDistributes
    <3>2. x * Q \in Int /\ q * Q \in Int
      BY <2>2, <2>6, <2>7
    <3>3. QED
      BY <2>5, <2>6, <2>7, <3>1, <3>2
  <2>9. y \div Q = x + q
    <3>1. y \in Int /\ x + q \in Int
      BY <1>4
    <3>2. QED
      BY <2>2, <2>6, <2>8, <3>1, RemainderUnique
  <2>10. (x + q) % Base = q % Base
    <3>1. PICK d \in Int, s \in 0 .. Base - 1 : s = q % Base /\ q = d * Base + s
      <4>1. q \div Base \in Int /\ q % Base \in 0 .. Base - 1
            /\ q = (q \div Base) * Base + (q % Base)
        BY <1>1, Division
      <4>2. QED
        BY <4>1, Zenon
    <3>2. x + q = (z + d) * Base + s
      <4>1. (z + d) * Base = z * Base + d * Base
        BY <1>1, ProductDistributes
      <4>2. d * Base \in Int
        BY <1>1
      <4>3. QED
        BY <2>7, <3>1, <4>1, <4>2
    <3>3. x + q \in Int /\ z + d \in Int
      OBVIOUS
    <3>4. QED
      BY <1>1, <3>1, <3>2, <3>3, RemainderUnique
  <2>11. QED
    BY <2>2, <2>6, <2>9, <2>10
<1>8. a % Base = a
  BY <1>1, <1>2
<1>9. ToBytes(y, n)[1] = a
  BY <1>5, <1>6, <1>8
<1>10. ASSUME NEW i \in 2 .. n
       PROVE  ToBytes(y, n)[i] = (t \div Power[n - i]) % Base
  BY <1>5, <1>7
<1>11. QED
  BY <1>4, <1>9, <1>10

(* A word of n bytes likewise.                                             *)
LEMMA WordSplits ==
  ASSUME NEW n \in Nat \ {0}, NEW w \in WordsOf(n)
  PROVE  \E t \in 0 .. Power[n - 1] - 1 :
           /\ FromBytes(w) = w[1] * Power[n - 1] + t
           /\ \A i \in 2 .. n : w[i] = (t \div Power[n - i]) % Base
<1>1. PICK P \in Nat \ {0} : P = Power[n - 1]
  BY PowerSteps
<1>2. PICK f \in Nat : f = FromBytes(w)
  BY FromBytesRange
<1>3. PICK a \in Byte : a = w[1]
  BY DEF WordsOf
<1>4. a \in Nat
  BY BaseAssumption DEF Byte
<1>5. a * P <= f /\ f < (a + 1) * P
  BY <1>1, <1>2, <1>3, FirstByteWindow
<1>6. PICK x \in Nat : x = a * P
  BY <1>1, <1>4
<1>7. (a + 1) * P = x + P
  BY <1>1, <1>4, <1>6, ProductDistributes
<1>8. PICK t \in 0 .. P - 1 : f = a * P + t
  <2>1. f - x \in 0 .. P - 1 /\ f = x + (f - x)
    BY <1>5, <1>6, <1>7
  <2>2. QED
    BY <1>6, <2>1
<1>9. ToBytes(f, n) = w
  BY <1>2, WordRecovered
<1>10. \A i \in 2 .. n : ToBytes(a * P + t, n)[i] = (t \div Power[n - i]) % Base
  BY <1>1, DigitsOfSum
<1>11. QED
  BY <1>1, <1>2, <1>3, <1>8, <1>9, <1>10

(* Two words are equal to a modulus of whole bytes and a part of the first *)
(* one exactly when they agree in that part and in the other bytes.        *)
LEMMA ResidueOfWords ==
  ASSUME NEW n \in Nat \ {0}, NEW v \in WordsOf(n), NEW w \in WordsOf(n), NEW m \in Nat \ {0}
  PROVE  FromBytes(v) % (m * Power[n - 1]) = FromBytes(w) % (m * Power[n - 1])
           <=> v[1] % m = w[1] % m /\ \A i \in 2 .. n : v[i] = w[i]
<1>1. PICK P \in Nat \ {0} : P = Power[n - 1]
  BY PowerSteps
<1>2. PICK s \in 0 .. P - 1 : FromBytes(v) = v[1] * P + s
                             /\ \A i \in 2 .. n : v[i] = (s \div Power[n - i]) % Base
  BY <1>1, WordSplits
<1>3. PICK t \in 0 .. P - 1 : FromBytes(w) = w[1] * P + t
                             /\ \A i \in 2 .. n : w[i] = (t \div Power[n - i]) % Base
  BY <1>1, WordSplits
<1>4. PICK a \in Nat, b \in Byte : a = v[1] /\ b = w[1] /\ b \in Nat
  BY BaseAssumption DEF WordsOf, Byte
<1>5. PICK c \in Nat, d \in Nat : c = a % m /\ d = b % m
  BY <1>4
<1>6. FromBytes(v) % (m * P) = c * P + s /\ FromBytes(w) % (m * P) = d * P + t
  <2>1. b \in Nat
    BY <1>4
  <2>2. (a * P + s) % (m * P) = (a % m) * P + s
    BY ResidueOfSum
  <2>3. (b * P + t) % (m * P) = (b % m) * P + t
    BY <2>1, ResidueOfSum
  <2>4. QED
    BY <1>2, <1>3, <1>4, <1>5, <2>2, <2>3
<1>7. c * P + s = d * P + t <=> c = d /\ s = t
  <2>1. ASSUME c * P + s = d * P + t
        PROVE  c = d /\ s = t
    <3>1. PICK y \in Int : y = c * P + s /\ y = d * P + t
      <4>1. c * P \in Int
        OBVIOUS
      <4>2. QED
        BY <2>1, <4>1
    <3>2. c \in Int /\ d \in Int
      OBVIOUS
    <3>3. y \div P = c /\ y % P = s
      BY <3>1, <3>2, RemainderUnique
    <3>4. y \div P = d /\ y % P = t
      BY <3>1, <3>2, RemainderUnique
    <3>5. QED
      BY <3>3, <3>4
  <2>2. QED
    BY <2>1
<1>8. ASSUME \A i \in 2 .. n : v[i] = w[i]
      PROVE  s = t
  <2>1. PICK y : y = b * P + s
    OBVIOUS
  <2>2. /\ y \in 0 .. Power[n] - 1
        /\ ToBytes(y, n)[1] = b
        /\ \A i \in 2 .. n : ToBytes(y, n)[i] = (s \div Power[n - i]) % Base
    BY <1>1, <1>4, <2>1, DigitsOfSum
  <2>3. n \in Nat /\ y \in Int
    BY <2>2
  <2>4. ToBytes(y, n) \in WordsOf(n)
    BY <2>3, ToBytesIsWord
  <2>5. \A i \in 1 .. n : ToBytes(y, n)[i] = w[i]
    <3>1. SUFFICES ASSUME NEW i \in 1 .. n
                   PROVE  ToBytes(y, n)[i] = w[i]
      OBVIOUS
    <3>2. CASE i = 1
      BY <1>4, <2>2, <3>2
    <3>3. CASE i \in 2 .. n
      BY <1>2, <1>8, <2>2, <3>3
    <3>4. QED
      BY <3>2, <3>3
  <2>6. ToBytes(y, n) = w
    BY <2>4, <2>5 DEF WordsOf
  <2>7. FromBytes(w) = y
    BY <2>2, <2>3, <2>6, IntegerRecovered
  <2>8. PICK z \in Int : z = b * P
    BY <1>4
  <2>9. QED
    BY <1>3, <1>4, <2>1, <2>7, <2>8
<1>9. s = t => \A i \in 2 .. n : v[i] = w[i]
  BY <1>2, <1>3
<1>10. QED
  BY <1>1, <1>4, <1>5, <1>6, <1>7, <1>8, <1>9

(* The order of the integers of two words is decided by the first byte     *)
(* they differ in.                                                         *)
LEMMA IntegersFollowWords ==
  ASSUME NEW n \in Nat, NEW v \in WordsOf(n), NEW w \in WordsOf(n), NEW i \in 1 .. n,
         v[i] < w[i], \A j \in 1 .. i - 1 : v[j] = w[j]
  PROVE  FromBytes(v) < FromBytes(w)
<1>1. PICK f : Values(f, v) /\ FromBytes(v) = f[n]
  BY FromBytesValue
<1>2. PICK g : Values(g, w) /\ FromBytes(w) = g[n]
  BY FromBytesValue
<1>3. /\ f \in [0 .. n -> Nat] /\ g \in [0 .. n -> Nat] /\ f[0] = 0 /\ g[0] = 0
      /\ \A j \in 1 .. n : /\ f[j] = f[j - 1] * Base + v[j] /\ g[j] = g[j - 1] * Base + w[j]
                           /\ v[j] \in 0 .. Base - 1 /\ w[j] \in 0 .. Base - 1
      /\ Base \in Nat
  BY <1>1, <1>2, WordLen, BaseAssumption DEF Values, WordsOf, Byte
<1>4. f[i - 1] = g[i - 1]
  <2> DEFINE T == {j \in 0 .. i - 1 : f[j] = g[j]}
  <2>1. 0 \in T
    BY <1>3
  <2>2. ASSUME NEW j \in 0 .. (i - 1) - 1, j \in T
        PROVE  j + 1 \in T
    <3>1. j + 1 \in 1 .. n /\ j + 1 \in 1 .. i - 1 /\ (j + 1) - 1 = j
      OBVIOUS
    <3>2. f[j + 1] = f[j] * Base + v[j + 1] /\ g[j + 1] = g[j] * Base + w[j + 1]
      BY <1>3, <3>1
    <3>3. v[j + 1] = w[j + 1]
      BY <3>1
    <3>4. QED
      BY <2>2, <3>1, <3>2, <3>3
  <2>3. \A j \in 0 .. i - 1 : j \in T
    <3> HIDE DEF T
    <3> QED
      BY <2>1, <2>2, InductionUpTo
  <2>4. QED
    BY <2>3
<1> DEFINE U == {k \in 0 .. n - i : f[i + k] < g[i + k]}
<1>5. 0 \in U
  <2>1. f[i] = f[i - 1] * Base + v[i] /\ g[i] = g[i - 1] * Base + w[i]
    BY <1>3
  <2>2. v[i] \in Nat /\ w[i] \in Nat /\ f[i - 1] \in Nat /\ Base \in Nat
    <3>1. v[i] \in 0 .. Base - 1 /\ w[i] \in 0 .. Base - 1
      BY <1>3
    <3>2. i - 1 \in 0 .. n
      OBVIOUS
    <3>3. QED
      BY <1>3, <3>1, <3>2
  <2>3. i + 0 = i
    OBVIOUS
  <2>4. f[i] < g[i]
    <3>1. f[i - 1] * Base \in Nat
      BY <2>2, ProductInNat, Zenon
    <3>2. QED
      BY <1>4, <2>1, <2>2, <3>1
  <2>5. QED
    BY <2>3, <2>4
<1>6. ASSUME NEW k \in 0 .. (n - i) - 1, k \in U
      PROVE  k + 1 \in U
  <2> DEFINE j == i + (k + 1)
             a == f[i + k]
             b == g[i + k]
  <2>1. j \in 1 .. n /\ j - 1 = i + k /\ a \in Nat /\ b \in Nat /\ a + 1 <= b
    BY <1>3, <1>6
  <2>2. f[j] = a * Base + v[j] /\ g[j] = b * Base + w[j]
    BY <1>3, <2>1
  <2>3. v[j] \in 0 .. Base - 1 /\ w[j] \in 0 .. Base - 1
    <3> HIDE DEF j
    <3> QED
      BY <1>3, <2>1
  <2>4. a * Base + v[j] < b * Base + w[j]
    <3> HIDE DEF a, b, j
    <3>1. a \in Nat /\ b \in Nat /\ Base \in Nat /\ a + 1 <= b
      BY <2>1, BaseAssumption
    <3>2. (a + 1) * Base <= b * Base /\ (a + 1) * Base = a * Base + Base
      BY <3>1, ProductMonotone
    <3>3. a * Base \in Nat /\ b * Base \in Nat
      BY <3>1, ProductInNat
    <3>4. QED
      BY <2>3, <3>1, <3>2, <3>3
  <2>5. QED
    BY <2>2, <2>4
<1>7. \A k \in 0 .. n - i : k \in U
  <2> HIDE DEF U
  <2> QED
    BY <1>5, <1>6, InductionUpTo
<1>8. n - i \in 0 .. n - i /\ i + (n - i) = n
  OBVIOUS
<1>9. QED
  BY <1>1, <1>2, <1>7, <1>8
-----------------------------------------------------------------------------
(* total[k] is the number of words of up to k bytes, added to what words   *)
(* held.                                                                   *)
LEMMA CountTotals ==
  ASSUME NEW max \in Nat, NEW words \in Nat
  PROVE  \E total \in [0 .. max -> Nat] :
           /\ DotPlusWords(0, max, words) = total[max]
           /\ total[0] = words + 1
           /\ \A k \in 1 .. max : total[k] = total[k - 1] + Power[k]
<1> DEFINE f == CHOOSE total : total = [k \in 0 .. max |->
                  (IF k = 0 THEN words ELSE total[k - 1]) + Power[k]]
           G == [k \in 1 .. max |-> [x \in Nat |-> x + Power[k]]]
<1>1. G \in [1 .. max -> [Nat -> Nat]]
  BY PowerSteps
<1>2. words + 1 \in Nat
  OBVIOUS
<1>3. PICK g \in [0 .. max -> Nat] : Follows(g, words + 1, G, max)
  <2> DEFINE s == words + 1
  <2>1. s \in Nat
    OBVIOUS
  <2> HIDE DEF G, s
  <2>2. \E g \in [0 .. max -> Nat] : Follows(g, s, G, max)
    BY <1>1, <2>1, RecursionUpTo
  <2>3. QED
    BY <2>2 DEF s
<1>4. g[0] = words + Power[0] /\ \A k \in 1 .. max : g[k] = g[k - 1] + Power[k]
  <2>1. \A k \in 1 .. max : g[k - 1] \in Nat
    OBVIOUS
  <2>2. QED
    BY <1>3, <2>1, PowerSteps DEF Follows
<1>5. g = [k \in 0 .. max |-> (IF k = 0 THEN words ELSE g[k - 1]) + Power[k]]
  <2>1. \A k \in 0 .. max : g[k] = (IF k = 0 THEN words ELSE g[k - 1]) + Power[k]
    BY <1>4
  <2>2. QED
    BY <2>1
<1>6. f = [k \in 0 .. max |-> (IF k = 0 THEN words ELSE f[k - 1]) + Power[k]]
  BY <1>5
<1>7. DotPlusWords(0, max, words) = f[max]
  BY DEF DotPlusWords
<1> HIDE DEF f
<1>8. f[0] = words + 1 /\ \A k \in 1 .. max : f[k] = f[k - 1] + Power[k]
  <2>1. f[0] = words + Power[0]
    BY <1>6
  <2>2. ASSUME NEW k \in 1 .. max
        PROVE  f[k] = f[k - 1] + Power[k]
    <3>1. k \in 0 .. max /\ k # 0
      OBVIOUS
    <3>2. QED
      BY <1>6, <3>1
  <2>3. QED
    BY <2>1, <2>2, PowerSteps
<1>9. \A k \in 0 .. max : f[k] \in Nat
  <2> DEFINE T == {k \in 0 .. max : f[k] \in Nat}
  <2>1. 0 \in T
    BY <1>8
  <2>2. ASSUME NEW k \in 0 .. max - 1, k \in T
        PROVE  k + 1 \in T
    <3>1. k + 1 \in 1 .. max /\ (k + 1) - 1 = k
      OBVIOUS
    <3>2. f[k + 1] = f[k] + Power[k + 1]
      BY <1>8, <3>1
    <3>3. f[k] \in Nat
      BY <2>2
    <3>4. Power[k + 1] \in Nat
      <4>1. k + 1 \in Nat
        BY <3>1
      <4>2. QED
        BY <4>1, PowerSteps
    <3>5. QED
      BY <3>1, <3>2, <3>3, <3>4
  <2>3. \A k \in 0 .. max : k \in T
    <3> HIDE DEF T
    <3> QED
      BY <2>1, <2>2, InductionUpTo
  <2>4. QED
    BY <2>3
<1>10. f \in [0 .. max -> Nat]
  BY <1>6, <1>9
<1>11. QED
  BY <1>7, <1>8, <1>10

(* A fresh count has one digit more than the maximum length, and covers    *)
(* the ranks of every length up to it.                                     *)
LEMMA CountBetweenPowers ==
  ASSUME NEW max \in Nat
  PROVE  /\ DotPlusWords(0, max, 0) \in Nat \ {0}
         /\ DotPlusWords(0, max, 0) < Power[max + 1]
         /\ \A n \in 1 .. max : Power[n - 1] + Power[n] <= DotPlusWords(0, max, 0)
<1>1. PICK total \in [0 .. max -> Nat] :
        /\ DotPlusWords(0, max, 0) = total[max]
        /\ total[0] = 0 + 1
        /\ \A k \in 1 .. max : total[k] = total[k - 1] + Power[k]
  <2>1. 0 \in Nat
    OBVIOUS
  <2>2. QED
    BY <2>1, CountTotals, Zenon
<1>2. \A k \in Nat : Power[k] \in Nat \ {0}
  BY PowerSteps
<1> DEFINE T == {k \in 0 .. max : Power[k] <= total[k] /\ total[k] < Power[k + 1]}
<1>3. 0 \in T
  <2>1. Power[0] = 1 /\ 2 * Power[0] <= Power[0 + 1] /\ Power[0 + 1] \in Nat
    BY PowerSteps, PowerGrows
  <2>2. QED
    BY <1>1, <2>1
<1>4. ASSUME NEW k \in 0 .. max - 1, k \in T
      PROVE  k + 1 \in T
  <2>1. k + 1 \in 1 .. max /\ (k + 1) - 1 = k /\ k + 1 \in Nat
    OBVIOUS
  <2>2. total[k + 1] = total[k] + Power[k + 1] /\ total[k] \in Nat
    BY <1>1, <2>1
  <2>3. 2 * Power[k + 1] <= Power[(k + 1) + 1]
    BY <2>1, PowerGrows
  <2>4. Power[k + 1] \in Nat /\ Power[(k + 1) + 1] \in Nat
    BY <1>2
  <2>5. total[k] < Power[k + 1]
    BY <1>4
  <2>6. QED
    BY <2>1, <2>2, <2>3, <2>4, <2>5
<1>5. \A k \in 0 .. max : k \in T
  <2> HIDE DEF T
  <2> QED
    BY <1>3, <1>4, InductionUpTo
<1>6. ASSUME NEW n \in 1 .. max
      PROVE  Power[n - 1] + Power[n] <= total[max]
  <2>1. CASE n = max
    <3>1. Power[n - 1] <= total[n - 1] /\ total[n] = total[n - 1] + Power[n]
      BY <1>1, <1>5
    <3>2. Power[n - 1] \in Nat /\ Power[n] \in Nat /\ total[n - 1] \in Nat
      BY <1>2
    <3>3. QED
      BY <2>1, <3>1, <3>2
  <2>2. CASE n < max
    <3>1. n - 1 \in Nat /\ n \in Nat /\ n + 1 <= max /\ (n - 1) + 1 = n
      BY <2>2
    <3>2. 2 * Power[n] <= Power[n + 1] /\ Power[n + 1] <= Power[max] /\ Power[n - 1] <= Power[n]
      <4>1. 2 * Power[n] <= Power[n + 1]
        BY <3>1, PowerGrows
      <4>2. Power[n + 1] <= Power[max]
        <5>1. n + 1 \in Nat /\ max \in Nat /\ n + 1 <= max
          BY <3>1
        <5>2. QED
          BY <5>1, PowerGrows, Zenon
      <4>3. Power[n - 1] <= Power[n]
        <5>1. n - 1 \in Nat /\ n \in Nat /\ n - 1 <= n
          BY <3>1
        <5>2. QED
          BY <5>1, PowerGrows, Zenon
      <4>4. QED
        BY <4>1, <4>2, <4>3
    <3>3. Power[max] <= total[max]
      BY <1>5
    <3>4. /\ Power[n] \in Nat /\ Power[n - 1] \in Nat /\ Power[n + 1] \in Nat
          /\ Power[max] \in Nat /\ total[max] \in Nat
      BY <1>2, <3>1
    <3>5. QED
      BY <3>2, <3>3, <3>4
  <2>3. QED
    BY <2>1, <2>2
<1>7. total[max] \in Nat \ {0} /\ total[max] < Power[max + 1]
  BY <1>2, <1>5
<1>8. QED
  BY <1>1, <1>6, <1>7
-----------------------------------------------------------------------------
(* The rank of a word of n bytes lies between the powers of n - 1 and      *)
(* n + 1, and below the power of n unless the first byte is the last one.  *)
LEMMA DotPlusRankRange ==
  ASSUME NEW n \in Nat \ {0}, NEW w \in WordsOf(n)
  PROVE  /\ DotPlusRank(w) \in Nat
         /\ Power[n - 1] <= DotPlusRank(w)
         /\ DotPlusRank(w) < Power[n - 1] + Power[n]
         /\ DotPlusRank(w) < Power[n] <=> w[1] # Base - 1
<1> DEFINE v == FromBytes(w)
           p == Power[n - 1]
<1>1. DotPlusRank(w) = p + v /\ Len(w) = n
  BY WordLen DEF DotPlusRank
<1>2. v \in 0 .. Power[n] - 1 /\ p \in Nat \ {0} /\ Power[n] = Base * p /\ Power[n] \in Nat
  BY FromBytesRange, PowerSteps
<1>3. w[1] * p <= v /\ v < (w[1] + 1) * p
  BY FirstByteWindow
<1>4. w[1] \in 0 .. Base - 1 /\ Base \in Nat
  BY BaseAssumption DEF WordsOf, Byte
<1>5. v \in Nat /\ v < Power[n]
  BY <1>2
<1> HIDE DEF v, p
<1>6. CASE w[1] = Base - 1
  <2>1. (Base - 1) * p = Base * p - p
    BY <1>2, <1>4
  <2>2. QED
    BY <1>1, <1>2, <1>3, <1>5, <1>6, <2>1 DEF p
<1>7. CASE w[1] # Base - 1
  <2>1. (w[1] + 1) * p <= (Base - 1) * p
    <3>1. w[1] + 1 \in Int /\ Base - 1 \in Int /\ w[1] + 1 <= Base - 1 /\ p \in Nat
      BY <1>2, <1>4, <1>7
    <3>2. QED
      BY <3>1, ProductMonotone, Zenon
  <2>2. (Base - 1) * p = Base * p - p
    BY <1>2, <1>4
  <2>3. (w[1] + 1) * p \in Int
    BY <1>2, <1>4
  <2>4. v < Power[n] - p
    BY <1>2, <1>3, <1>5, <2>1, <2>2, <2>3
  <2>5. QED
    BY <1>1, <1>2, <1>5, <1>7, <2>4 DEF p
<1>8. QED
  BY <1>6, <1>7

(* Rank maps the word Unrank writes back, from 1 on.                       *)
LEMMA DotPlusRankInverts ==
  ASSUME NEW r \in Nat
  PROVE  \E n \in Nat \ {0} :
           /\ n = SizeInBase(Base, r)
           /\ DotPlusUnrank(r) \in WordsOf(n)
           /\ r > 0 => DotPlusRank(DotPlusUnrank(r)) = r
<1> DEFINE n == SizeInBase(Base, r)
           c == r - Power[n - 1]
<1>1. n \in Nat \ {0} /\ r < Power[n] /\ (n > 1 => Power[n - 1] <= r)
  BY SizeExists
<1>2. Power[n - 1] \in Nat \ {0} /\ Power[n] \in Nat /\ c \in Int
  BY <1>1, PowerSteps
<1>3. DotPlusUnrank(r) = ToBytes(c, n)
  BY DEF DotPlusUnrank
<1> HIDE DEF n
<1>4. ToBytes(c, n) \in WordsOf(n)
  BY <1>1, <1>2, ToBytesIsWord
<1>5. ASSUME r > 0
      PROVE  DotPlusRank(DotPlusUnrank(r)) = r
  <2>1. Power[n - 1] <= r
    <3>1. CASE n = 1
      BY <1>5, <3>1, PowerSteps
    <3>2. QED
      BY <1>1, <3>1
  <2>2. c \in 0 .. Power[n] - 1
    BY <1>1, <1>2, <2>1
  <2>3. FromBytes(ToBytes(c, n)) = c
    BY <1>1, <2>2, IntegerRecovered
  <2>4. Len(ToBytes(c, n)) = n
    BY <1>1, <1>4, WordLen
  <2>5. DotPlusRank(ToBytes(c, n)) = Power[n - 1] + c
    BY <2>3, <2>4 DEF DotPlusRank
  <2>6. QED
    BY <1>2, <1>3, <2>5
<1>6. QED
  BY <1>1, <1>3, <1>4, <1>5 DEF n

(* Unrank gives a word back exactly when its first byte is not the last.   *)
LEMMA DotPlusUnrankInverts ==
  ASSUME NEW n \in Nat \ {0}, NEW w \in WordsOf(n)
  PROVE  DotPlusUnrank(DotPlusRank(w)) = w <=> w[1] # Base - 1
<1> DEFINE r == DotPlusRank(w)
<1>1. /\ r \in Nat /\ Power[n - 1] <= r
      /\ r < Power[n] <=> w[1] # Base - 1
  BY DotPlusRankRange
<1>2. Len(w) = n
  BY WordLen
<1>3. ASSUME r < Power[n]
      PROVE  DotPlusUnrank(r) = w
  <2>1. SizeInBase(Base, r) = n
    BY <1>1, <1>3, SizeOf
  <2>2. r - Power[n - 1] = FromBytes(w)
    <3>1. FromBytes(w) \in 0 .. Power[n] - 1 /\ Power[n - 1] \in Nat
      BY FromBytesRange, PowerSteps
    <3>2. FromBytes(w) \in Int
      BY <3>1
    <3>3. QED
      BY <3>1, <3>2, <1>2 DEF DotPlusRank
  <2>3. QED
    BY <2>1, <2>2, WordRecovered DEF DotPlusUnrank
<1>4. ASSUME ~ r < Power[n], DotPlusUnrank(r) = w
      PROVE  FALSE
  <2>1. PICK k \in Nat \ {0} : k = SizeInBase(Base, r) /\ DotPlusUnrank(r) \in WordsOf(k)
    BY <1>1, DotPlusRankInverts
  <2>2. k = n
    BY <1>2, <1>4, <2>1, WordLen
  <2>3. r < Power[n]
    BY <1>1, <2>1, <2>2, SizeExists
  <2>4. QED
    BY <1>4, <2>3
<1>5. QED
  BY <1>1, <1>3, <1>4
=============================================================================
