----------------------------- MODULE RabbitProofs -----------------------------
(***************************************************************************)
(* Theorems of RabbitCryptor and Rabbit, for every set of keys, vectors,   *)
(* messages and ways to cut them into calls.  The argument is that the     *)
(* working context of a message is always the one that lies as many steps  *)
(* behind ivsetup as blocks have been written, whatever the object did     *)
(* before; what does not end with a block is the end of the message.       *)
(***************************************************************************)
EXTENDS Rabbit, ProofLemmas

(* What the conversions between integers and bytes compute.                *)
Conversions == INSTANCE DotWordsProofs WITH Base <- B

WordRange == 0 .. Words - 1

(* The powers of the byte, and the number of words of which Half is the    *)
(* square root.                                                            *)
LEMMA WordPowers ==
  /\ B \in Nat /\ B >= 2 /\ Half \in Nat /\ Half >= 4 /\ Words \in Nat /\ Words >= 16
  /\ B * Half \in Nat /\ B * Half >= 8
  /\ Place[1] = 1 /\ Place[2] = B /\ Place[3] = Half /\ Place[4] = B * Half /\ Words = B * (B * Half)
  /\ Words = Half * Half
<1>1. B \in Nat /\ B >= 2
  BY ByteAssumption
<1>2. \A a, b \in Nat : a * b \in Nat /\ (a >= 2 /\ b >= 1 => a * b >= 2 * b)
  OBVIOUS
<1>3. B * B \in Nat /\ B * B >= 4
  BY <1>1, <1>2
<1>4. B * (B * B) \in Nat /\ B * (B * B) >= 8
  BY <1>1, <1>2, <1>3
<1>5. B * (B * (B * B)) \in Nat /\ B * (B * (B * B)) >= 16
  BY <1>1, <1>2, <1>4
<1>6. \A a, b, c \in Nat : (a * b) * c = a * (b * c)
  OBVIOUS
<1>7. B * B * B = B * (B * B) /\ B * B * B * B = B * (B * (B * B))
  BY <1>1, <1>3, <1>6
<1>8. B * (B * (B * B)) = (B * B) * (B * B)
  BY <1>1, <1>3, <1>6
<1>9. QED
  BY <1>1, <1>3, <1>4, <1>5, <1>7, <1>8 DEF Half, Words, Place

LEMMA DigitType ==
  ASSUME NEW w \in Nat, NEW i \in 0 .. 3
  PROVE  Digit(w, i) \in Byte
<1>1. PICK m \in Nat \ {0} : m = Place[i + 1]
  <2>1. i = 0 \/ i = 1 \/ i = 2 \/ i = 3
    OBVIOUS
  <2>2. Place[i + 1] \in Nat \ {0}
    BY <2>1, WordPowers
  <2>3. QED
    BY <2>2
<1>2. w \div m \in Nat
  BY <1>1
<1>3. (w \div m) % B \in 0 .. B - 1
  BY <1>2, WordPowers
<1>4. QED
  BY <1>1, <1>3 DEF Digit, Byte

(* Four bytes make a word.                                                 *)
LEMMA FourBytes ==
  ASSUME NEW d0 \in Byte, NEW d1 \in Byte, NEW d2 \in Byte, NEW d3 \in Byte
  PROVE  d0 * Place[1] + d1 * Place[2] + d2 * Place[3] + d3 * Place[4] \in WordRange
<1>1. \A d, m \in Nat : d < B => d * m \in Nat /\ d * m <= B * m - m
  <2>1. SUFFICES ASSUME NEW d \in Nat, NEW m \in Nat, d < B
                 PROVE  d * m \in Nat /\ d * m <= B * m - m
    OBVIOUS
  <2>2. B \in Nat
    BY WordPowers
  <2>3. d <= B - 1
    BY <2>1, <2>2
  <2>4. d * m <= (B - 1) * m
    BY <2>2, <2>3
  <2>5. (B - 1) * m = B * m - m
    BY <2>2
  <2>6. QED
    BY <2>4, <2>5
<1>2. /\ d0 \in Nat /\ d1 \in Nat /\ d2 \in Nat /\ d3 \in Nat
      /\ d0 < B /\ d1 < B /\ d2 < B /\ d3 < B
  BY WordPowers DEF Byte
<1>3. PICK h \in Nat, k \in Nat : h = Half /\ k = B * Half
  BY WordPowers
<1>4. /\ d1 * B \in Nat /\ d1 * B <= B * B - B
      /\ d2 * h \in Nat /\ d2 * h <= B * h - h
      /\ d3 * k \in Nat /\ d3 * k <= B * k - k
  BY <1>1, <1>2, WordPowers
<1>5. B * B = h /\ B * h = k /\ B * k = Words
  BY <1>3, WordPowers DEF Half
<1>6. d0 + d1 * B + d2 * h + d3 * k \in 0 .. Words - 1
  BY <1>2, <1>4, <1>5, WordPowers
<1>7. d0 * Place[1] + d1 * Place[2] + d2 * Place[3] + d3 * Place[4] = d0 + d1 * B + d2 * h + d3 * k
  BY <1>2, <1>3, WordPowers
<1>8. QED
  BY <1>6, <1>7 DEF WordRange

LEMMA XorByte ==
  ASSUME NEW a \in Byte, NEW b \in Byte
  PROVE  Xor[a][b] \in Byte /\ Xor[Xor[a][b]][b] = a
BY XorAssumption

LEMMA XorWordType ==
  ASSUME NEW v \in Nat, NEW w \in Nat
  PROVE  XorWord(v, w) \in WordRange
<1>1. \A i \in 0 .. 3 : Xor[Digit(v, i)][Digit(w, i)] \in Byte
  BY DigitType, XorByte
<1>2. PICK d \in [0 .. 3 -> Byte] : d = [i \in 0 .. 3 |-> Xor[Digit(v, i)][Digit(w, i)]]
  BY <1>1
<1>3. d[0] * Place[1] + d[1] * Place[2] + d[2] * Place[3] + d[3] * Place[4] \in WordRange
  BY FourBytes, <1>2
<1>4. XorWord(v, w) = d[0] * Place[1] + d[1] * Place[2] + d[2] * Place[3] + d[3] * Place[4]
  BY <1>2 DEF XorWord
<1>5. QED
  BY <1>3, <1>4

(* The shifts and rotations of a word are natural numbers.                 *)
LEMMA ShiftTypes ==
  ASSUME NEW w \in Nat
  PROVE  /\ Shl(w) \in Nat /\ Shr(w) \in Nat /\ High(w) \in Nat /\ Low(w) \in Nat
         /\ Rotl16(w) \in Nat /\ Rotl8(w) \in Nat
<1>1. PICK h \in Nat : h = Half /\ h >= 4
  BY WordPowers
<1>2. PICK k \in Nat : k = B * Half /\ k >= 8
  BY WordPowers
<1>3. w % h \in Nat /\ w \div h \in Nat /\ w % k \in Nat /\ w \div k \in Nat
  BY <1>1, <1>2
<1>4. \A a, b \in Nat : a * b \in Nat
  OBVIOUS
<1>5. (w % h) * h \in Nat /\ (w \div h) * h \in Nat /\ (w % k) * B \in Nat
  BY <1>1, <1>3, <1>4, WordPowers
<1>6. Shl(w) \in Nat /\ Shr(w) \in Nat /\ High(w) \in Nat /\ Low(w) \in Nat
  BY <1>1, <1>3, <1>5 DEF Shl, Shr, High, Low
<1>7. Rotl16(w) \in Nat
  BY <1>6 DEF Rotl16
<1>8. Rotl8(w) \in Nat
  BY <1>2, <1>3, <1>5 DEF Rotl8
<1>9. QED
  BY <1>6, <1>7, <1>8

LEMMA GType ==
  ASSUME NEW x \in Nat
  PROVE  G(x) \in WordRange
<1>1. PICK h \in Nat : h = Half /\ h >= 4
  BY WordPowers
<1>2. PICK a \in Nat, b \in Nat : a = x % h /\ b = x \div h
  BY <1>1
<1>3. \A u, v \in Nat : u * v \in Nat
  OBVIOUS
<1>4. a * a \in Nat /\ a * b \in Nat /\ b * b \in Nat /\ x * x \in Nat
  BY <1>2, <1>3
<1>5. PICK aa \in Nat, ab \in Nat, bb \in Nat, xx \in Nat :
        aa = a * a /\ ab = a * b /\ bb = b * b /\ xx = x * x
  BY <1>4
<1>6. aa \div (2 * h) \in Nat /\ h \div 2 \in Nat \ {0}
  BY <1>1
<1>7. (aa \div (2 * h) + ab) \div (h \div 2) + bb \in Nat
  BY <1>6
<1>8. xx % Words \in Nat
  BY WordPowers
<1>9. XorWord((aa \div (2 * h) + ab) \div (h \div 2) + bb, xx % Words) \in WordRange
  BY <1>7, <1>8, XorWordType
<1>10. QED
  BY <1>1, <1>2, <1>5, <1>9 DEF G
LEMMA WordType ==
  ASSUME NEW S, NEW f \in [1 .. 8 -> S], NEW j \in Nat
  PROVE  Word(f, j) \in S
<1>1. (j % 8) + 1 \in 1 .. 8
  OBVIOUS
<1>2. QED
  BY <1>1 DEF Word

(* One addition: the carry is read off the wrapped sum correctly, since    *)
(* the constant leaves room for the carry that comes in.                   *)
LEMMA OneSum ==
  ASSUME NEW c \in WordRange, NEW a \in 0 .. Words - 2, NEW k \in {0, 1}
  PROVE  LET new == (c + a + k) % Words
         IN  /\ new \in WordRange
             /\ Carry(new, c) \in {0, 1}
             /\ new + Carry(new, c) * Words = c + a + k
<1>1. PICK W \in Nat : W = Words /\ W >= 16
  BY WordPowers
<1>2. PICK t \in Nat : t = c + a + k
  BY <1>1 DEF WordRange
<1>3. t < 2 * W /\ (t >= W => t - W < c) /\ t >= c
  BY <1>1, <1>2 DEF WordRange
<1>4. CASE t < W
  <2>1. t % W = t
    BY <1>1, <1>4
  <2>2. Carry(t, c) = 0
    BY <1>3, <1>1 DEF Carry, WordRange
  <2>3. QED
    BY <1>1, <1>2, <1>4, <2>1, <2>2 DEF WordRange
<1>5. CASE t >= W
  <2>1. t % W = t - W
    BY <1>1, <1>3, <1>5
  <2>2. Carry(t - W, c) = 1
    BY <1>3, <1>5 DEF Carry
  <2>3. t - W \in 0 .. W - 1
    BY <1>1, <1>3, <1>5
  <2>4. QED
    BY <1>1, <1>2, <2>1, <2>2, <2>3 DEF WordRange
<1>6. QED
  BY <1>1, <1>4, <1>5

(* The eight additions of a step, with the carries between them.           *)
LEMMA CountersFacts ==
  ASSUME NEW s \in Context
  PROVE  /\ Counters(s) \in [1 .. 8 -> WordRange]
         /\ s.carry \in {0, 1} =>
              /\ Carry(Word(Counters(s), 7), Word(s.c, 7)) \in {0, 1}
              /\ \A j \in 0 .. 7 :
                   LET new(i) == Word(Counters(s), i)
                       cin(i) == IF i = 0 THEN s.carry ELSE Carry(new(i - 1), Word(s.c, i - 1))
                   IN  /\ cin(j) \in {0, 1}
                       /\ new(j) = (Word(s.c, j) + Word(Add, j) + cin(j)) % Words
                       /\ new(j) + Carry(new(j), Word(s.c, j)) * Words
                            = Word(s.c, j) + Word(Add, j) + cin(j)
<1> DEFINE old(j) == Word(s.c, j)
           Sum(j, carry) == (old(j) + Word(Add, j) + carry) % Words
<1>1. \A j \in 0 .. 7 : old(j) \in WordRange /\ Word(Add, j) \in 0 .. Words - 2
  <2>1. s.c \in [1 .. 8 -> 0 .. Words - 1] /\ Add \in [1 .. 8 -> 0 .. Words - 2]
    BY ContextAssumption DEF Context
  <2>2. \A j \in 0 .. 7 : (j % 8) + 1 \in 1 .. 8
    OBVIOUS
  <2>3. QED
    BY <2>1, <2>2 DEF Word, WordRange
<1>2. \A j \in 0 .. 7 : \A k \in Nat : Sum(j, k) \in WordRange
  <2>1. \A j \in 0 .. 7 : \A k \in Nat : old(j) + Word(Add, j) + k \in Nat
    BY <1>1, WordPowers DEF WordRange
  <2>2. \A t \in Nat : t % Words \in 0 .. Words - 1
    BY WordPowers
  <2>3. QED
    BY <2>1, <2>2 DEF WordRange
<1>3. \A u, v : Carry(u, v) \in {0, 1}
  BY DEF Carry
<1>4. s.carry \in Nat
  BY WordPowers DEF Context
<1>5. PICK c0 \in WordRange : c0 = Sum(0, s.carry)
  BY <1>2, <1>4
<1>6. PICK c1 \in WordRange : c1 = Sum(1, Carry(c0, old(0)))
  BY <1>2, <1>3
<1>7. PICK c2 \in WordRange : c2 = Sum(2, Carry(c1, old(1)))
  BY <1>2, <1>3
<1>8. PICK c3 \in WordRange : c3 = Sum(3, Carry(c2, old(2)))
  BY <1>2, <1>3
<1>9. PICK c4 \in WordRange : c4 = Sum(4, Carry(c3, old(3)))
  BY <1>2, <1>3
<1>10. PICK c5 \in WordRange : c5 = Sum(5, Carry(c4, old(4)))
  BY <1>2, <1>3
<1>11. PICK c6 \in WordRange : c6 = Sum(6, Carry(c5, old(5)))
  BY <1>2, <1>3
<1>12. PICK c7 \in WordRange : c7 = Sum(7, Carry(c6, old(6)))
  BY <1>2, <1>3
<1>13. Counters(s) = <<c0, c1, c2, c3, c4, c5, c6, c7>>
  BY <1>5, <1>6, <1>7, <1>8, <1>9, <1>10, <1>11, <1>12 DEF Counters
<1>14. /\ Counters(s) \in [1 .. 8 -> WordRange]
       /\ Word(Counters(s), 0) = c0 /\ Word(Counters(s), 1) = c1 /\ Word(Counters(s), 2) = c2
       /\ Word(Counters(s), 3) = c3 /\ Word(Counters(s), 4) = c4 /\ Word(Counters(s), 5) = c5
       /\ Word(Counters(s), 6) = c6 /\ Word(Counters(s), 7) = c7
  <2>1. Counters(s) \in [1 .. 8 -> WordRange]
    BY <1>13
  <2>2. QED
    BY <1>13, <2>1 DEF Word
<1> DEFINE new(i) == Word(Counters(s), i)
           cin(i) == IF i = 0 THEN s.carry ELSE Carry(new(i - 1), old(i - 1))
<1>15. \A j \in 0 .. 7 : new(j) = Sum(j, cin(j))
  <2> HIDE DEF Sum, old
  <2>1. /\ cin(0) = s.carry /\ cin(1) = Carry(c0, old(0)) /\ cin(2) = Carry(c1, old(1))
        /\ cin(3) = Carry(c2, old(2)) /\ cin(4) = Carry(c3, old(3)) /\ cin(5) = Carry(c4, old(4))
        /\ cin(6) = Carry(c5, old(5)) /\ cin(7) = Carry(c6, old(6))
    BY <1>14
  <2> HIDE DEF cin
  <2>2. /\ new(0) = Sum(0, cin(0)) /\ new(1) = Sum(1, cin(1)) /\ new(2) = Sum(2, cin(2))
        /\ new(3) = Sum(3, cin(3)) /\ new(4) = Sum(4, cin(4)) /\ new(5) = Sum(5, cin(5))
        /\ new(6) = Sum(6, cin(6)) /\ new(7) = Sum(7, cin(7))
    BY <1>5, <1>6, <1>7, <1>8, <1>9, <1>10, <1>11, <1>12, <1>14, <2>1
  <2> HIDE DEF new
  <2>3. \A j \in 0 .. 7 : j = 0 \/ j = 1 \/ j = 2 \/ j = 3 \/ j = 4 \/ j = 5 \/ j = 6 \/ j = 7
    OBVIOUS
  <2>4. QED
    BY <2>2, <2>3
<1>16. ASSUME s.carry \in {0, 1}, NEW j \in 0 .. 7
       PROVE  /\ cin(j) \in {0, 1} /\ new(j) = Sum(j, cin(j))
              /\ new(j) + Carry(new(j), old(j)) * Words = old(j) + Word(Add, j) + cin(j)
  <2>1. cin(j) \in {0, 1}
    BY <1>3, <1>16
  <2>2. old(j) \in WordRange /\ Word(Add, j) \in 0 .. Words - 2
    BY <1>1
  <2>3. new(j) = Sum(j, cin(j))
    BY <1>15
  <2>4. Sum(j, cin(j)) + Carry(Sum(j, cin(j)), old(j)) * Words = old(j) + Word(Add, j) + cin(j)
    BY <2>1, <2>2, OneSum
  <2>5. QED
    BY <2>1, <2>3, <2>4
<1>17. QED
  BY <1>3, <1>14, <1>16

LEMMA CarryType == \A u, v : Carry(u, v) \in {0, 1}
BY DEF Carry

LEMMA WrapType == \A t \in Nat : t % Words \in WordRange
BY WordPowers DEF WordRange

(* A step leads from a context to a context, whose carry is a bit.         *)
LEMMA NextStateFacts ==
  ASSUME NEW s \in Context
  PROVE  /\ NextState(s) \in Context
         /\ NextState(s).c = Counters(s)
         /\ NextState(s).carry = Carry(Word(Counters(s), 7), Word(s.c, 7))
         /\ NextState(s).carry \in {0, 1}
<1> DEFINE g == Eight([j \in 0 .. 7 |-> G((Word(s.x, j) + Word(Counters(s), j)) % Words)])
           Mix(j) ==
             IF j % 2 = 0
               THEN Word(g, j) + Rotl16(Word(g, j + 7)) + Rotl16(Word(g, j + 6))
               ELSE Word(g, j) + Rotl8(Word(g, j + 7)) + Word(g, j + 6)
           x == Eight([j \in 0 .. 7 |-> Mix(j) % Words])
           carry == Carry(Word(Counters(s), 7), Word(s.c, 7))
<1>1. NextState(s) = [x |-> x, c |-> Counters(s), carry |-> carry]
  BY DEF NextState, Advanced, Mixed
<1>2. Counters(s) \in [1 .. 8 -> WordRange]
  BY CountersFacts
<1>3. \A n1, n2 \in WordRange : G((n1 + n2) % Words) \in WordRange
  <2>1. \A n1, n2 \in WordRange : n1 + n2 \in Nat
    BY WordPowers DEF WordRange
  <2>2. \A n1, n2 \in WordRange : (n1 + n2) % Words \in WordRange
    BY <2>1, WrapType
  <2>3. \A t \in WordRange : G(t) \in WordRange
    BY GType, WordPowers DEF WordRange
  <2>4. QED
    BY <2>2, <2>3
<1>4. g \in [1 .. 8 -> WordRange]
  <2>1. s.x \in [1 .. 8 -> WordRange]
    BY DEF Context, WordRange
  <2>2. \A j \in 0 .. 7 : Word(s.x, j) \in WordRange /\ Word(Counters(s), j) \in WordRange
    <3>1. \A j \in 0 .. 7 : (j % 8) + 1 \in 1 .. 8
      OBVIOUS
    <3>2. QED
      BY <1>2, <2>1, <3>1 DEF Word
  <2>3. \A j \in 0 .. 7 : G((Word(s.x, j) + Word(Counters(s), j)) % Words) \in WordRange
    BY <1>3, <2>2
  <2>4. QED
    BY <2>3 DEF Eight
<1> HIDE DEF g
<1>5. \A j \in Nat : Word(g, j) \in Nat
  <2>1. \A j \in Nat : (j % 8) + 1 \in 1 .. 8
    OBVIOUS
  <2>2. \A t \in WordRange : t \in Nat
    BY WordPowers DEF WordRange
  <2>3. QED
    BY <1>4, <2>1, <2>2 DEF Word
<1>6. \A j \in 0 .. 7 : Mix(j) \in Nat
  <2>1. SUFFICES ASSUME NEW j \in 0 .. 7
                 PROVE  Mix(j) \in Nat
    OBVIOUS
  <2>2. Word(g, j) \in Nat /\ Word(g, j + 7) \in Nat /\ Word(g, j + 6) \in Nat
    BY <1>5
  <2>3. Rotl16(Word(g, j + 7)) \in Nat /\ Rotl16(Word(g, j + 6)) \in Nat /\ Rotl8(Word(g, j + 7)) \in Nat
    BY <2>2, ShiftTypes
  <2>4. QED
    BY <2>2, <2>3
<1> HIDE DEF Mix
<1>7. \A j \in 0 .. 7 : Mix(j) % Words \in WordRange
  BY <1>6, WrapType
<1>8. x \in [1 .. 8 -> WordRange]
  BY <1>7 DEF Eight
<1>9. carry \in {0, 1} /\ carry \in 0 .. Words - 1
  BY CarryType, WordPowers
<1> HIDE DEF x, carry
<1>10. [x |-> x, c |-> Counters(s), carry |-> carry] \in Context
  BY <1>2, <1>8, <1>9 DEF Context, WordRange
<1>11. QED
  BY <1>1, <1>9, <1>10 DEF carry

LEMMA IteratedFacts ==
  ASSUME NEW s \in Context
  PROVE  Iterated(s) \in Context /\ Iterated(s).carry \in {0, 1}
BY NextStateFacts DEF Iterated

(* A step of the system adds to the long counter.                          *)
LEMMA CounterStep ==
  ASSUME NEW s \in Context, s.carry \in {0, 1}
  PROVE  LET carry(j) == IF j = 8 THEN NextState(s).carry
                         ELSE (Word(NextState(s).c, j) - Word(s.c, j) - Word(Add, j)) % Words
         IN  /\ carry(0) = s.carry
             /\ \A j \in 0 .. 7 :
                  Word(NextState(s).c, j) + carry(j + 1) * Words
                    = Word(s.c, j) + Word(Add, j) + carry(j)
<1> DEFINE new(j) == Word(Counters(s), j)
           old(j) == Word(s.c, j)
           cin(j) == IF j = 0 THEN s.carry ELSE Carry(new(j - 1), old(j - 1))
           gone(j) == (new(j) - old(j) - Word(Add, j)) % Words
           carry(j) == IF j = 8 THEN NextState(s).carry ELSE gone(j)
<1>1. NextState(s).c = Counters(s) /\ NextState(s).carry = Carry(new(7), old(7))
  BY NextStateFacts
<1>2. \A j \in 0 .. 7 : cin(j) \in {0, 1} /\ new(j) + Carry(new(j), old(j)) * Words
                                               = old(j) + Word(Add, j) + cin(j)
  BY CountersFacts
<1>3. \A j \in 0 .. 7 : new(j) \in Nat /\ old(j) \in Nat /\ Word(Add, j) \in Nat
  <2>1. \A j \in 0 .. 7 : (j % 8) + 1 \in 1 .. 8
    OBVIOUS
  <2>2. /\ Counters(s) \in [1 .. 8 -> WordRange] /\ s.c \in [1 .. 8 -> 0 .. Words - 1]
        /\ Add \in [1 .. 8 -> 0 .. Words - 2]
    BY CountersFacts, ContextAssumption DEF Context
  <2>3. QED
    BY <2>1, <2>2, WordPowers DEF Word, WordRange
<1>4. \A a, b, d \in Nat : \A k, c \in {0, 1} :
        a + c * Words = b + d + k => (a - b - d) % Words = k
  <2>1. PICK W \in Nat : W = Words /\ W >= 16
    BY WordPowers
  <2>2. SUFFICES ASSUME NEW a \in Nat, NEW b \in Nat, NEW d \in Nat,
                        NEW k \in {0, 1}, NEW c \in {0, 1}, a + c * W = b + d + k
                 PROVE  (a - b - d) % W = k
    BY <2>1
  <2>3. a - b - d = k \/ a - b - d = k - W
    BY <2>2
  <2>4. k % W = k /\ (k - W) % W = k
    BY <2>1
  <2>5. QED
    BY <2>3, <2>4
<1> HIDE DEF new, old, cin
<1>5. \A j \in 0 .. 7 : gone(j) = cin(j)
  BY <1>2, <1>3, <1>4, CarryType
<1>6. \A j \in 0 .. 7 : carry(j) = cin(j) /\ carry(j + 1) = Carry(new(j), old(j))
  <2>1. SUFFICES ASSUME NEW j \in 0 .. 7
                 PROVE  carry(j) = cin(j) /\ carry(j + 1) = Carry(new(j), old(j))
    OBVIOUS
  <2>2. carry(j) = cin(j)
    BY <1>5
  <2>3. CASE j = 7
    BY <1>1, <2>2, <2>3
  <2>4. CASE j # 7
    <3>1. j + 1 \in 0 .. 7 /\ j + 1 # 0 /\ j + 1 # 8 /\ j + 1 - 1 = j
      BY <2>4
    <3>2. carry(j + 1) = cin(j + 1)
      BY <1>5, <3>1
    <3>3. cin(j + 1) = Carry(new(j), old(j))
      BY <3>1 DEF cin
    <3>4. QED
      BY <2>2, <3>2, <3>3
  <2>5. QED
    BY <2>3, <2>4
<1> HIDE DEF gone, carry
<1>7. carry(0) = s.carry
  BY <1>6 DEF cin
<1>8. \A j \in 0 .. 7 : new(j) + carry(j + 1) * Words = old(j) + Word(Add, j) + carry(j)
  BY <1>2, <1>6
<1>9. \A j : carry(j) = IF j = 8 THEN NextState(s).carry
                        ELSE (Word(NextState(s).c, j) - Word(s.c, j) - Word(Add, j)) % Words
  BY <1>1 DEF carry, gone, new, old
<1>10. \A j \in 0 .. 7 : Word(NextState(s).c, j) + carry(j + 1) * Words
                            = Word(s.c, j) + Word(Add, j) + carry(j)
  BY <1>1, <1>8 DEF new, old
<1>11. QED
  BY <1>7, <1>9, <1>10, Zenon

LEMMA ContextWords ==
  ASSUME NEW s \in Context, NEW j \in Nat
  PROVE  Word(s.c, j) \in Nat /\ Word(s.x, j) \in Nat
<1>1. s.c \in [1 .. 8 -> 0 .. Words - 1] /\ s.x \in [1 .. 8 -> 0 .. Words - 1]
  BY DEF Context
<1>2. (j % 8) + 1 \in 1 .. 8
  OBVIOUS
<1>3. QED
  BY <1>1, <1>2, WordPowers DEF Word

(* What is put together from two halves of words is a word.                *)
LEMMA HalvesPair ==
  ASSUME NEW v \in WordRange, NEW w \in WordRange
  PROVE  /\ Shl(v) + Shr(w) \in WordRange
         /\ High(v) + Low(w) \in WordRange
         /\ Rotl16(v) \in WordRange
<1>1. PICK h \in Nat : h = Half /\ h >= 4 /\ h * h = Words
  BY WordPowers
<1>2. v \in Nat /\ w \in Nat /\ v < h * h /\ w < h * h
  BY <1>1, WordPowers DEF WordRange
<1>3. \A t \in Nat : t < h * h => t \div h \in 0 .. h - 1 /\ t % h \in 0 .. h - 1
  <2>1. SUFFICES ASSUME NEW t \in Nat, t < h * h
                 PROVE  t \div h \in 0 .. h - 1 /\ t % h \in 0 .. h - 1
    OBVIOUS
  <2>2. PICK q \in Nat, r \in 0 .. h - 1 : q = t \div h /\ r = t % h /\ t = h * q + r
    BY <1>1
  <2>3. q < h
    <3>1. SUFFICES ASSUME q >= h
                   PROVE  FALSE
      BY <1>1
    <3>2. h * q >= h * h
      BY <1>1, <3>1
    <3>3. QED
      BY <1>1, <2>1, <2>2, <3>2
  <2>4. QED
    BY <1>1, <2>2, <2>3
<1>4. \A a, b \in 0 .. h - 1 : a * h + b \in WordRange
  <2>1. SUFFICES ASSUME NEW a \in 0 .. h - 1, NEW b \in 0 .. h - 1
                 PROVE  a * h + b \in WordRange
    OBVIOUS
  <2>2. a * h \in Nat /\ a * h <= (h - 1) * h /\ (h - 1) * h = h * h - h /\ h * h \in Nat
    BY <1>1
  <2>3. QED
    BY <1>1, <2>2 DEF WordRange
<1>5. PICK a \in 0 .. h - 1, b \in 0 .. h - 1, c \in 0 .. h - 1, d \in 0 .. h - 1 :
        a = v \div h /\ b = v % h /\ c = w \div h /\ d = w % h
  BY <1>2, <1>3
<1>6. Shl(v) = b * h /\ Shr(w) = c /\ Shr(v) = a /\ High(v) = a * h /\ Low(w) = d
  <2>1. /\ Shl(v) = (v % h) * h /\ Shr(w) = w \div h /\ Shr(v) = v \div h
        /\ High(v) = (v \div h) * h /\ Low(w) = w % h
    BY <1>1, Zenon DEF Shl, Shr, High, Low
  <2>2. a = v \div h /\ b = v % h /\ c = w \div h /\ d = w % h
    BY <1>5
  <2>3. QED
    BY <2>1, <2>2, Zenon
<1>7. b * h + c \in WordRange /\ a * h + d \in WordRange /\ b * h + a \in WordRange
  BY <1>4, <1>5
<1>8. Rotl16(v) = Shl(v) + Shr(v)
  BY DEF Rotl16
<1>9. QED
  BY <1>6, <1>7, <1>8, Zenon

(* What is set up from a key and a vector are contexts, too.               *)
LEMMA MasterFacts ==
  ASSUME NEW k \in Keys
  PROVE  Master(k) \in Context /\ Master(k).carry \in {0, 1}
<1> DEFINE K(i) == k[(i % 4) + 1]
           X(j) == LET i == j \div 2 IN
                   IF j % 2 = 0 THEN K(i) ELSE Shl(K(i + 3)) + Shr(K(i + 2))
           C(j) == LET i == j \div 2 IN
                   IF j % 2 = 0 THEN Rotl16(K(i + 2)) ELSE High(K(i)) + Low(K(i + 1))
           s0 == [x |-> Eight([j \in 0 .. 7 |-> X(j)]),
                  c |-> Eight([j \in 0 .. 7 |-> C(j)]), carry |-> 0]
           s == Iterated(s0)
<1>1. \A i \in Nat : K(i) \in WordRange
  <2>1. k \in [1 .. 4 -> 0 .. Words - 1]
    BY ContextAssumption
  <2>2. \A i \in Nat : (i % 4) + 1 \in 1 .. 4
    OBVIOUS
  <2>3. QED
    BY <2>1, <2>2 DEF WordRange
<1> HIDE DEF K
<1>2. \A j \in 0 .. 7 : X(j) \in WordRange /\ C(j) \in WordRange
  <2>1. SUFFICES ASSUME NEW j \in 0 .. 7
                 PROVE  X(j) \in WordRange /\ C(j) \in WordRange
    OBVIOUS
  <2>2. PICK i \in Nat : i = j \div 2
    OBVIOUS
  <2>3. /\ K(i) \in WordRange /\ K(i + 1) \in WordRange
        /\ K(i + 2) \in WordRange /\ K(i + 3) \in WordRange
    BY <1>1
  <2>4. /\ Shl(K(i + 3)) + Shr(K(i + 2)) \in WordRange
        /\ High(K(i)) + Low(K(i + 1)) \in WordRange
        /\ Rotl16(K(i + 2)) \in WordRange
    BY <2>3, HalvesPair
  <2>5. QED
    BY <2>2, <2>3, <2>4
<1> HIDE DEF X, C
<1>3. s0 \in Context
  <2>1. /\ Eight([j \in 0 .. 7 |-> X(j)]) \in [1 .. 8 -> WordRange]
        /\ Eight([j \in 0 .. 7 |-> C(j)]) \in [1 .. 8 -> WordRange]
    BY <1>2 DEF Eight
  <2>2. QED
    BY <2>1, WordPowers DEF Context, WordRange
<1>4. s \in Context /\ s.carry \in {0, 1}
  BY <1>3, IteratedFacts
<1>5. Master(k) = [s EXCEPT !.c = Eight([j \in 0 .. 7 |-> XorWord(Word(s.c, j), Word(s.x, j + 4))])]
  BY DEF Master, Hidden, K, X, C
<1> HIDE DEF s, s0
<1>6. Eight([j \in 0 .. 7 |-> XorWord(Word(s.c, j), Word(s.x, j + 4))]) \in [1 .. 8 -> WordRange]
  <2>1. \A j \in Nat : Word(s.c, j) \in Nat /\ Word(s.x, j) \in Nat
    BY <1>4, ContextWords
  <2>2. \A j \in 0 .. 7 : XorWord(Word(s.c, j), Word(s.x, j + 4)) \in WordRange
    BY <2>1, XorWordType
  <2>3. QED
    BY <2>2 DEF Eight
<1>7. PICK c \in [1 .. 8 -> WordRange] : Master(k) = [s EXCEPT !.c = c]
  BY <1>5, <1>6
<1>8. [s EXCEPT !.c = c] \in Context /\ [s EXCEPT !.c = c].carry = s.carry
  BY <1>4, <1>7 DEF Context, WordRange
<1>9. QED
  BY <1>4, <1>7, <1>8

LEMMA AfterIvFacts ==
  ASSUME NEW m \in Context, NEW w, NEW v \in Ivs
  PROVE  AfterIv(m, w, v) \in Context /\ AfterIv(m, w, v).carry \in {0, 1}
<1> DEFINE part == <<v[1], Shr(v[1]) + High(v[2]), v[2], Shl(v[2]) + Low(v[1])>>
<1>1. v[1] \in Nat /\ v[2] \in Nat
  <2>1. v \in [1 .. 2 -> 0 .. Words - 1]
    BY ContextAssumption
  <2>2. QED
    BY <2>1, WordPowers
<1>2. /\ Shr(v[1]) \in Nat /\ High(v[2]) \in Nat /\ Shl(v[2]) \in Nat /\ Low(v[1]) \in Nat
  BY <1>1, ShiftTypes
<1>3. part \in [1 .. 4 -> Nat]
  BY <1>1, <1>2
<1> HIDE DEF part
<1>4. \A j \in 0 .. 7 : XorWord(Word(m.c, j), part[(j % 4) + 1]) \in WordRange
  <2>1. \A j \in 0 .. 7 : (j % 4) + 1 \in 1 .. 4 /\ j \in Nat
    OBVIOUS
  <2>2. \A j \in 0 .. 7 : part[(j % 4) + 1] \in Nat /\ Word(m.c, j) \in Nat
    BY <1>3, <2>1, ContextWords
  <2>3. QED
    BY <2>2, XorWordType
<1>5. WithIv(m, v) = Eight([j \in 0 .. 7 |-> XorWord(Word(m.c, j), part[(j % 4) + 1])])
  BY DEF WithIv, part
<1>6. WithIv(m, v) \in [1 .. 8 -> WordRange]
  BY <1>4, <1>5 DEF Eight
<1>7. [x |-> m.x, c |-> WithIv(m, v), carry |-> m.carry] \in Context
  BY <1>6 DEF Context, WordRange
<1>8. QED
  BY <1>7, IteratedFacts DEF AfterIv

(* A context gives bytes.                                                  *)
LEMMA BlockType ==
  ASSUME NEW s \in Context
  PROVE  Block(s) \in [1 .. BLOCKLENGTH -> Byte]
<1> DEFINE Out(i) == XorWord(XorWord(Word(s.x, 2 * i), Shr(Word(s.x, 2 * i + 5))),
                             Shl(Word(s.x, 2 * i + 3)))
           word == <<Out(0), Out(1), Out(2), Out(3)>>
<1>1. \A i \in 0 .. 3 : Out(i) \in Nat
  <2>1. SUFFICES ASSUME NEW i \in 0 .. 3
                 PROVE  Out(i) \in Nat
    OBVIOUS
  <2>2. /\ Word(s.x, 2 * i) \in Nat /\ Word(s.x, 2 * i + 5) \in Nat
        /\ Word(s.x, 2 * i + 3) \in Nat
    BY ContextWords
  <2>3. Shr(Word(s.x, 2 * i + 5)) \in Nat /\ Shl(Word(s.x, 2 * i + 3)) \in Nat
    BY <2>2, ShiftTypes
  <2>4. \A t \in WordRange : t \in Nat
    BY WordPowers DEF WordRange
  <2>5. XorWord(Word(s.x, 2 * i), Shr(Word(s.x, 2 * i + 5))) \in Nat
    BY <2>2, <2>3, <2>4, XorWordType
  <2>6. QED
    BY <2>3, <2>4, <2>5, XorWordType
<1> HIDE DEF Out
<1>2. word \in [1 .. 4 -> Nat]
  BY <1>1
<1> HIDE DEF word
<1>3. \A p \in 1 .. 16 : ((p - 1) \div 4) + 1 \in 1 .. 4 /\ (p - 1) % 4 \in 0 .. 3
  OBVIOUS
<1>4. \A p \in 1 .. 16 : word[((p - 1) \div 4) + 1] \in Nat
  BY <1>2, <1>3
<1>5. \A p \in 1 .. 16 : Digit(word[((p - 1) \div 4) + 1], (p - 1) % 4) \in Byte
  BY <1>3, <1>4, DigitType
<1>6. Block(s) = [p \in 1 .. 16 |-> Digit(word[((p - 1) \div 4) + 1], (p - 1) % 4)]
  BY DEF Block, word, Out, BLOCKLENGTH
<1>7. QED
  BY <1>5, <1>6 DEF BLOCKLENGTH

-----------------------------------------------------------------------------
Messages == [key : Keys \cup {NoKey}, iv : Ivs \cup {NoKey}, cipher : Seq(Byte)]

(* What the cryptor's variables hold, and how far a message has come.      *)
CryptorType ==
  /\ key \in Keys \cup {NoKey}
  /\ iv \in Ivs \cup {NoKey}
  /\ pc \in {"idle", "process_bytes", "process_blocks", "keystream_bytes"}
  /\ mode \in {"none", "encrypt", "decrypt", "keystream"}
  /\ open \in BOOLEAN
  /\ made \in Messages
  /\ Len(made.cipher) <= Len(Plain)
  /\ left \in Nat
  /\ source \in Seq(Byte) /\ Len(source) <= MaxBytes
  /\ output \in Seq(Byte) /\ Len(output) + left <= Len(source)
  /\ pc = "idle" => left = 0
  /\ master \in Context /\ work \in Context
  /\ key # NoKey => work.carry \in {0, 1}

(* The calls that the protocol allows.                                     *)
Protocol ==
  /\ pc = "process_blocks" => left % BLOCKLENGTH = 0
  /\ pc \in {"process_bytes", "keystream_bytes"} => ~open
  /\ pc # "idle" => ((pc = "keystream_bytes") <=> (mode = "keystream"))
  /\ open \/ pc # "idle" => iv \in Ivs
  /\ open \/ mode # "none" => key # NoKey

(* The working context is in step with the message.                        *)
InStep ==
  /\ key # NoKey => master = Master(key)
  /\ key # NoKey /\ (open \/ left > 0) =>
       /\ Len(output) % BLOCKLENGTH = 0
       /\ work = Stream[key][iv][Len(output) \div BLOCKLENGTH]

(* The message that was encrypted last is that of its key and vector.      *)
Recorded ==
  /\ made.key # NoKey =>
       /\ made.iv \in Ivs
       /\ \A p \in 1 .. Len(made.cipher) :
            made.cipher[p] = Xor[Plain[p]][Keystream[made.key][made.iv][p]]
  /\ made.key = NoKey => made.cipher = << >>
  /\ mode # "none" => iv \in Ivs
  /\ mode = "encrypt" =>
       source = Plain /\ made.cipher = output /\ made.key = key /\ made.iv = iv
  /\ mode = "decrypt" => source = made.cipher

CryptorInv ==
  CryptorType /\ Protocol /\ InStep /\ KeystreamInOrder /\ Recorded
-----------------------------------------------------------------------------
(* The contexts of a message are contexts.                                 *)
LEMMA StreamContexts ==
  ASSUME NEW k \in Keys, NEW v \in Ivs
  PROVE  \A t \in 0 .. MaxBytes \div BLOCKLENGTH + 1 : Stream[k][v][t] \in Context
<1> DEFINE T == {t \in 0 .. MaxBytes \div BLOCKLENGTH + 1 : Stream[k][v][t] \in Context}
<1>1. PICK N \in Nat : N = MaxBytes \div BLOCKLENGTH + 1
  BY CallerAssumption DEF BLOCKLENGTH
<1>2. 0 \in T
  <2>1. Stream[k][v][0] \in Context
    BY StreamAssumption, MasterFacts, AfterIvFacts
  <2>2. QED
    BY <1>1, <2>1
<1>3. ASSUME NEW t \in 0 .. N - 1, t \in T
      PROVE  t + 1 \in T
  <2>1. t \in 0 .. MaxBytes \div BLOCKLENGTH /\ t + 1 \in 0 .. N
    <3>1. PICK d \in Int : d = MaxBytes \div BLOCKLENGTH
      BY CallerAssumption DEF BLOCKLENGTH
    <3>2. N = d + 1
      BY <1>1, <3>1
    <3>3. QED
      BY <3>1, <3>2
  <2>2. Stream[k][v][t + 1] = NextState(Stream[k][v][t])
    BY <2>1, StreamAssumption
  <2>3. Stream[k][v][t + 1] \in Context
    BY <1>3, <2>2, NextStateFacts
  <2>4. QED
    BY <1>1, <2>1, <2>3
<1>4. \A t \in 0 .. N : t \in T
  <2> HIDE DEF T
  <2> QED
    BY <1>2, <1>3, InductionUpTo
<1>5. QED
  BY <1>1, <1>4

LEMMA StreamBlocks ==
  ASSUME NEW k \in Keys, NEW v \in Ivs, NEW t \in 0 .. MaxBytes \div BLOCKLENGTH
  PROVE  Block(Stream[k][v][t + 1]) \in [1 .. BLOCKLENGTH -> Byte]
<1>1. PICK d \in Int : d = MaxBytes \div BLOCKLENGTH
  BY CallerAssumption DEF BLOCKLENGTH
<1>2. t + 1 \in 0 .. d + 1
  BY <1>1
<1>3. Stream[k][v][t + 1] \in Context
  BY <1>1, <1>2, StreamContexts
<1>4. QED
  BY <1>3, BlockType

(* The keystream is made of bytes.                                         *)
LEMMA KeystreamBytes ==
  ASSUME NEW k \in Keys, NEW v \in Ivs, NEW p \in 1 .. MaxBytes
  PROVE  /\ Keystream[k][v][p] = Block(Stream[k][v][(p - 1) \div BLOCKLENGTH + 1])
                                   [((p - 1) % BLOCKLENGTH) + 1]
         /\ Keystream[k][v][p] \in Byte
<1>1. MaxBytes \in Nat
  BY CallerAssumption
<1>2. (p - 1) \div 16 \in 0 .. MaxBytes \div 16 /\ ((p - 1) % 16) + 1 \in 1 .. 16
  BY <1>1
<1>3. Block(Stream[k][v][(p - 1) \div 16 + 1]) \in [1 .. 16 -> Byte]
  BY <1>2, StreamBlocks DEF BLOCKLENGTH
<1>4. Block(Stream[k][v][(p - 1) \div 16 + 1])[((p - 1) % 16) + 1] \in Byte
  BY <1>2, <1>3
<1>5. QED
  BY <1>4 DEF Keystream, BLOCKLENGTH

(* One block further, the next bytes of the keystream are those of the     *)
(* block.                                                                  *)
LEMMA NextBlock ==
  ASSUME NEW k \in Keys, NEW v \in Ivs, NEW q \in 0 .. MaxBytes \div BLOCKLENGTH
  PROVE  /\ NextState(Stream[k][v][q]) = Stream[k][v][q + 1]
         /\ Block(Stream[k][v][q + 1]) \in [1 .. BLOCKLENGTH -> Byte]
         /\ \A p \in 1 .. BLOCKLENGTH : q * BLOCKLENGTH + p <= MaxBytes =>
              Keystream[k][v][q * BLOCKLENGTH + p] = Block(Stream[k][v][q + 1])[p]
<1>1. MaxBytes \in Nat /\ q \in Nat
  BY CallerAssumption DEF BLOCKLENGTH
<1>2. ASSUME NEW p \in 1 .. 16, q * 16 + p <= MaxBytes
      PROVE  Keystream[k][v][q * 16 + p] = Block(Stream[k][v][q + 1])[p]
  <2>1. q * 16 + p \in 1 .. MaxBytes
    BY <1>1, <1>2
  <2>2. (q * 16 + p - 1) \div 16 = q /\ (q * 16 + p - 1) % 16 = p - 1
    BY <1>1
  <2>3. Keystream[k][v][q * 16 + p]
          = Block(Stream[k][v][(q * 16 + p - 1) \div 16 + 1])[((q * 16 + p - 1) % 16) + 1]
    BY <2>1, KeystreamBytes DEF BLOCKLENGTH
  <2>4. QED
    BY <2>2, <2>3
<1>3. QED
  BY <1>2, StreamAssumption, StreamBlocks DEF BLOCKLENGTH

LEMMA CryptorInit ==
  ASSUME Init
  PROVE  CryptorInv
<1>1. << >> \in Seq(Byte) /\ Len(<< >>) = 0 /\ MaxBytes \in Nat /\ Len(Plain) \in Nat
  BY CallerAssumption
<1>2. made = NoMessage /\ NoMessage \in Messages
  BY <1>1 DEF Init, NoMessage, Messages
<1>3. made.cipher = << >> /\ made.key = NoKey
  BY <1>2 DEF NoMessage
<1>4. /\ key = NoKey /\ iv = NoKey /\ pc = "idle" /\ mode = "none" /\ open = FALSE
      /\ left = 0 /\ source = << >> /\ output = << >>
  BY DEF Init
<1>5. Len(source) = 0 /\ Len(output) = 0 /\ Len(made.cipher) = 0
  BY <1>1, <1>3, <1>4
<1>6. source \in Seq(Byte) /\ output \in Seq(Byte)
  BY <1>1, <1>4
<1>7. Len(made.cipher) <= Len(Plain) /\ Len(source) <= MaxBytes /\ Len(output) + left <= Len(source)
  BY <1>1, <1>4, <1>5
<1>8. CryptorType
  <2>1. master \in Context /\ work \in Context
    BY ContextAssumption DEF Init
  <2>2. QED
    BY <1>2, <1>4, <1>6, <1>7, <2>1 DEF CryptorType
<1>9. Protocol /\ InStep /\ KeystreamInOrder
  BY <1>4 DEF Protocol, InStep, KeystreamInOrder
<1>10. Recorded
  BY <1>3, <1>4 DEF Recorded
<1>11. QED
  BY <1>8, <1>9, <1>10 DEF CryptorInv
-----------------------------------------------------------------------------
(* A pass of the loop that writes as many bytes as a block has, or the     *)
(* rest of the call.                                                       *)
LEMMA EmitStep ==
  ASSUME CryptorInv, pc # "idle",
         NEW bytes \in 1 .. BLOCKLENGTH, bytes <= left, Emit(bytes),
         bytes = BLOCKLENGTH \/ bytes = left
  PROVE  CryptorInv' /\ Len(output') + left' = Len(output) + left
<1> DEFINE o == Len(output)
           q == o \div 16
           block == Block(work')
           new == [p \in 1 .. bytes |-> IF pc = "keystream_bytes" THEN block[p]
                                         ELSE Xor[source[o + p]][block[p]]]
<1>1. /\ CryptorType /\ Protocol /\ InStep /\ KeystreamInOrder /\ Recorded
      /\ bytes \in 1 .. 16 /\ bytes \in Nat /\ left \in Nat /\ o \in Nat /\ MaxBytes \in Nat
      /\ Len(source) \in Nat
  BY CallerAssumption DEF CryptorInv, CryptorType, BLOCKLENGTH
<1>2. o + bytes <= Len(source) /\ Len(source) <= MaxBytes
  BY <1>1 DEF CryptorType
<1>3. ASSUME key # NoKey
      PROVE  /\ key \in Keys /\ iv \in Ivs
             /\ o % 16 = 0 /\ o = q * 16 /\ q \in 0 .. MaxBytes \div 16
             /\ work = Stream[key][iv][q]
  <2>1. key \in Keys /\ iv \in Ivs
    BY <1>1, <1>3 DEF CryptorType, Protocol
  <2>2. left > 0
    BY <1>1
  <2>3. o % 16 = 0 /\ work = Stream[key][iv][q]
    BY <1>1, <1>3, <2>2 DEF InStep, BLOCKLENGTH
  <2>4. QED
    BY <1>1, <1>2, <2>1, <2>3
<1>4. /\ work' \in Context /\ work'.carry \in {0, 1}
      /\ block \in [1 .. 16 -> Byte]
  <2>1. work \in Context /\ work' = NextState(work)
    BY <1>1 DEF CryptorType, Emit
  <2>2. work' \in Context /\ work'.carry \in {0, 1}
    BY <2>1, NextStateFacts
  <2>3. QED
    BY <2>2, BlockType DEF BLOCKLENGTH
<1>15. ASSUME key # NoKey
      PROVE  /\ work' = Stream[key][iv][q + 1]
             /\ \A p \in 1 .. 16 : o + p <= MaxBytes => Keystream[key][iv][o + p] = block[p]
  <2>1. work' = NextState(Stream[key][iv][q])
    BY <1>3, <1>15 DEF Emit
  <2>2. /\ NextState(Stream[key][iv][q]) = Stream[key][iv][q + 1]
        /\ \A p \in 1 .. 16 : q * 16 + p <= MaxBytes =>
             Keystream[key][iv][q * 16 + p] = Block(Stream[key][iv][q + 1])[p]
    BY <1>3, <1>15, NextBlock DEF BLOCKLENGTH
  <2>3. QED
    BY <1>3, <1>15, <2>1, <2>2
<1>5. new \in Seq(Byte) /\ Len(new) = bytes
  <2>1. \A p \in 1 .. bytes : block[p] \in Byte /\ source[o + p] \in Byte
    <3>1. \A p \in 1 .. bytes : p \in 1 .. 16 /\ o + p \in 1 .. Len(source)
      BY <1>1, <1>2
    <3>2. source \in Seq(Byte)
      BY <1>1 DEF CryptorType
    <3>3. block \in [1 .. 16 -> Byte]
      BY <1>4
    <3>4. ASSUME NEW p \in 1 .. bytes
          PROVE  block[p] \in Byte /\ source[o + p] \in Byte
      <4>1. p \in 1 .. 16 /\ o + p \in 1 .. Len(source)
        BY <3>1
      <4>2. block[p] \in Byte
        BY <3>3, <4>1
      <4>3. source[o + p] \in Byte
        BY <3>2, <4>1
      <4>4. QED
        BY <4>2, <4>3
    <3>5. QED
      BY <3>4
  <2>2. \A p \in 1 .. bytes : new[p] \in Byte
    BY <2>1, XorByte
  <2>3. new \in [1 .. bytes -> Byte]
    BY <2>2
  <2>4. QED
    BY <1>1, <2>3
<1>6. output' = output \o new /\ left' = left - bytes
  BY DEF Emit
<1>7. /\ output' \in Seq(Byte) /\ Len(output') = o + bytes
      /\ \A p \in 1 .. o : output'[p] = output[p]
      /\ \A p \in 1 .. bytes : output'[o + p] = new[p]
  BY <1>1, <1>5, <1>6 DEF CryptorType
<1>8. /\ UNCHANGED <<master, pc, source, key, iv, mode, open>>
      /\ made' = IF mode = "encrypt" THEN [made EXCEPT !.cipher = output'] ELSE made
  BY DEF Emit
<1>9. /\ made' \in Messages
      /\ made'.key = made.key /\ made'.iv = made.iv
      /\ made'.cipher = IF mode = "encrypt" THEN output' ELSE made.cipher
  BY <1>1, <1>7, <1>8 DEF CryptorType, Messages
<1>10. CryptorType'
  <2>1. Len(made'.cipher) <= Len(Plain)
    <3>1. CASE mode = "encrypt"
      BY <1>1, <1>2, <1>7, <1>9, <3>1, CallerAssumption DEF Recorded, CryptorType
    <3>2. CASE mode # "encrypt"
      BY <1>1, <1>9, <3>2 DEF CryptorType
    <3>3. QED
      BY <3>1, <3>2
  <2>2. left' \in Nat /\ Len(output') + left' <= Len(source)
    BY <1>1, <1>6, <1>7 DEF CryptorType
  <2>3. QED
    BY <1>1, <1>4, <1>7, <1>8, <1>9, <2>1, <2>2 DEF CryptorType
<1>11. Protocol'
  <2>1. pc = "process_blocks" => left' % 16 = 0
    <3>1. bytes = 16 \/ bytes = left
      BY DEF BLOCKLENGTH
    <3>2. pc = "process_blocks" => left % 16 = 0
      BY <1>1 DEF Protocol, BLOCKLENGTH
    <3>3. left % 16 = 0 => (left - bytes) % 16 = 0
      <4>1. CASE bytes = 16
        BY <1>1, <4>1
      <4>2. CASE bytes = left
        BY <1>1, <4>2
      <4>3. QED
        BY <3>1, <4>1, <4>2
    <3>4. QED
      BY <1>6, <3>2, <3>3
  <2>2. QED
    BY <1>1, <1>8, <2>1 DEF Protocol, BLOCKLENGTH
<1>12. InStep'
  <2>1. SUFFICES ASSUME key # NoKey, open \/ left' > 0
                 PROVE  Len(output') % 16 = 0 /\ work' = Stream[key][iv][Len(output') \div 16]
    BY <1>1, <1>8 DEF InStep, BLOCKLENGTH
  <2>2. bytes = 16
    <3>1. CASE left' > 0
      BY <1>1, <1>6, <3>1 DEF BLOCKLENGTH
    <3>2. CASE open
      <4>1. pc = "process_blocks"
        BY <1>1, <3>2 DEF Protocol, CryptorType
      <4>2. left % 16 = 0
        BY <1>1, <4>1 DEF Protocol, BLOCKLENGTH
      <4>3. QED
        BY <1>1, <4>2 DEF BLOCKLENGTH
    <3>3. QED
      BY <2>1, <3>1, <3>2
  <2>3. Len(output') % 16 = 0 /\ Len(output') \div 16 = q + 1
    BY <1>1, <1>3, <1>7, <2>1, <2>2
  <2>4. QED
    BY <1>15, <2>1, <2>3
<1>13. KeystreamInOrder'
  <2>1. SUFFICES ASSUME key # NoKey, NEW p \in 1 .. Len(output')
                 PROVE  output'[p] = IF mode = "keystream" THEN Keystream[key][iv][p]
                                     ELSE Xor[source[p]][Keystream[key][iv][p]]
    BY <1>8 DEF KeystreamInOrder, Keystream
  <2>2. CASE p \in 1 .. o
    BY <1>1, <1>7, <2>1, <2>2 DEF KeystreamInOrder
  <2>3. CASE p \notin 1 .. o
    <3>1. PICK r \in 1 .. bytes : p = o + r
      <4>1. p - o \in 1 .. bytes /\ p = o + (p - o)
        BY <1>1, <1>7, <2>1, <2>3
      <4>2. QED
        BY <4>1
    <3>2. output'[p] = IF pc = "keystream_bytes" THEN block[r] ELSE Xor[source[p]][block[r]]
      BY <1>7, <3>1
    <3>3. Keystream[key][iv][p] = block[r]
      <4>1. r \in 1 .. 16 /\ o + r <= MaxBytes
        BY <1>1, <1>2
      <4>2. Keystream[key][iv][o + r] = block[r]
        BY <1>15, <2>1, <4>1
      <4>3. QED
        BY <3>1, <4>2
    <3>4. (pc = "keystream_bytes") <=> (mode = "keystream")
      BY <1>1 DEF Protocol
    <3>5. QED
      BY <3>2, <3>3, <3>4
  <2>4. QED
    BY <2>2, <2>3
<1>14. Recorded'
  <2>1. CASE mode = "encrypt"
    <3>1. /\ made'.cipher = output' /\ source = Plain /\ made'.key = key /\ made'.iv = iv
          /\ mode' = "encrypt"
      BY <1>1, <1>8, <1>9, <2>1 DEF Recorded
    <3>2. \A p \in 1 .. Len(output') : output'[p] = Xor[Plain[p]][Keystream[key][iv][p]]
      <4>1. key # NoKey
        BY <1>1, <2>1 DEF Protocol
      <4>2. QED
        BY <1>8, <1>13, <2>1, <3>1, <4>1 DEF KeystreamInOrder, Keystream
    <3>3. iv \in Ivs /\ key # NoKey
      BY <1>1, <2>1 DEF Protocol, Recorded
    <3>4. QED
      BY <1>8, <3>1, <3>2, <3>3 DEF Recorded, Keystream
  <2>2. CASE mode # "encrypt"
    BY <1>1, <1>8, <2>2 DEF Recorded, Keystream
  <2>3. QED
    BY <2>1, <2>2
<1>16. Len(output') + left' = Len(output) + left
  BY <1>1, <1>6, <1>7
<1>17. QED
  BY <1>10, <1>11, <1>12, <1>13, <1>14, <1>16 DEF CryptorInv
(* The other steps.                                                        *)
LEMMA LoopStep ==
  ASSUME CryptorInv, Loop
  PROVE  CryptorInv'
<1>1. CASE FullBlock
  <2>1. left \in Nat /\ BLOCKLENGTH \in 1 .. BLOCKLENGTH
    BY DEF CryptorInv, CryptorType, BLOCKLENGTH
  <2>2. QED
    BY <1>1, <2>1, EmitStep DEF FullBlock
<1>2. CASE Remainder
  <2>1. left \in 1 .. BLOCKLENGTH /\ left <= left
    BY <1>2 DEF Remainder, BLOCKLENGTH
  <2>2. QED
    BY <1>2, <2>1, EmitStep DEF Remainder
<1>3. CASE Return
  <2>1. UNCHANGED <<master, work, left, source, output, key, iv, mode, open, made>>
    BY <1>3 DEF Return
  <2>2. left = 0 /\ pc' = "idle"
    BY <1>3 DEF Return
  <2>3. CryptorType /\ Protocol /\ InStep /\ KeystreamInOrder /\ Recorded
    BY DEF CryptorInv
  <2>4. CryptorType'
    BY <2>1, <2>2, <2>3 DEF CryptorType
  <2>5. Protocol'
    BY <2>1, <2>2, <2>3 DEF Protocol
  <2>6. InStep'
    BY <2>1, <2>2, <2>3 DEF InStep
  <2>7. KeystreamInOrder'
    BY <2>1, <2>3 DEF KeystreamInOrder, Keystream
  <2>8. Recorded'
    BY <2>1, <2>3 DEF Recorded, Keystream
  <2>9. QED
    BY <2>4, <2>5, <2>6, <2>7, <2>8 DEF CryptorInv
<1>4. QED
  BY <1>1, <1>2, <1>3 DEF Loop

LEMMA KeysetupStep ==
  ASSUME CryptorInv, NEW k \in Keys, keysetup(k)
  PROVE  CryptorInv'
<1>1. CryptorType /\ Protocol /\ Recorded /\ pc = "idle"
  BY DEF CryptorInv, keysetup
<1>2. /\ key' = k /\ mode' = "none" /\ open' = FALSE /\ source' = << >> /\ output' = << >>
      /\ master' = Master(k) /\ work' = Master(k)
      /\ UNCHANGED <<pc, left, iv, made>>
  BY DEF keysetup
<1>3. << >> \in Seq(Byte) /\ Len(<< >>) = 0 /\ MaxBytes \in Nat
  BY CallerAssumption
<1>4. Master(k) \in Context /\ Master(k).carry \in {0, 1}
  BY MasterFacts
<1>5. k # NoKey
  BY CallerAssumption
<1>6. left = 0
  BY <1>1 DEF CryptorType
<1>7. CryptorType'
  <2>1. /\ key' \in Keys \cup {NoKey} /\ mode' \in {"none", "encrypt", "decrypt", "keystream"}
        /\ open' \in BOOLEAN
    BY <1>2
  <2>2. /\ source' \in Seq(Byte) /\ Len(source') <= MaxBytes
        /\ output' \in Seq(Byte) /\ Len(output') + left' <= Len(source')
    <3>1. Len(source') = 0 /\ Len(output') = 0 /\ left' = 0
      BY <1>2, <1>3, <1>6
    <3>2. QED
      BY <1>2, <1>3, <3>1
  <2>3. master' \in Context /\ work' \in Context /\ work'.carry \in {0, 1}
    BY <1>2, <1>4
  <2>4. QED
    BY <1>1, <1>2, <2>1, <2>2, <2>3 DEF CryptorType
<1>8. Protocol'
  BY <1>1, <1>2 DEF Protocol
<1>9. InStep'
  BY <1>2, <1>6 DEF InStep
<1>10. KeystreamInOrder'
  BY <1>2, <1>3 DEF KeystreamInOrder
<1>11. Recorded'
  BY <1>1, <1>2 DEF Recorded, Keystream
<1>12. QED
  BY <1>7, <1>8, <1>9, <1>10, <1>11 DEF CryptorInv

(* A message starts: what counts is that the context is that of a new one. *)
LEMMA MessageStarts ==
  ASSUME CryptorInv, NEW v \in Ivs, work' = AfterIv(master, work, v), iv' = v,
         UNCHANGED <<master, key>>
  PROVE  /\ work' \in Context /\ work'.carry \in {0, 1}
         /\ key # NoKey => work' = Stream[key][iv'][0]
<1>1. CryptorType /\ InStep
  BY DEF CryptorInv
<1>2. work' \in Context /\ work'.carry \in {0, 1}
  BY <1>1, AfterIvFacts DEF CryptorType
<1>3. ASSUME key # NoKey
      PROVE  work' = Stream[key][iv'][0]
  <2>1. key \in Keys /\ master = Master(key)
    BY <1>1, <1>3 DEF CryptorType, InStep
  <2>2. AfterIv(master, work, v) = AfterIv(Master(key), Master(key), v)
    BY <2>1 DEF AfterIv
  <2>3. QED
    BY <2>1, <2>2, StreamAssumption
<1>4. QED
  BY <1>2, <1>3

LEMMA IvsetupStep ==
  ASSUME CryptorInv, key # NoKey, NEW v \in Ivs, NEW m \in {"encrypt", "decrypt", "keystream"},
         NEW bytes \in Seq(Byte), ivsetup(v, m, bytes),
         made' \in Messages, Len(made'.cipher) <= Len(Plain), Len(bytes) <= MaxBytes,
         Recorded'
  PROVE  CryptorInv'
<1>1. CryptorType /\ Protocol /\ InStep /\ pc = "idle"
  BY DEF CryptorInv, ivsetup
<1>2. /\ work' = AfterIv(master, work, v) /\ iv' = v /\ mode' = m
      /\ source' = bytes /\ output' = << >> /\ open' = TRUE
      /\ UNCHANGED <<master, pc, left, key>>
  BY DEF ivsetup
<1>3. << >> \in Seq(Byte) /\ Len(<< >>) = 0 /\ MaxBytes \in Nat /\ left = 0 /\ Len(bytes) \in Nat
  BY <1>1, CallerAssumption DEF CryptorType
<1>4. work' \in Context /\ work'.carry \in {0, 1} /\ work' = Stream[key][iv'][0]
  BY <1>2, MessageStarts
<1>5. CryptorType'
  BY <1>1, <1>2, <1>3, <1>4 DEF CryptorType
<1>6. Protocol'
  BY <1>1, <1>2 DEF Protocol
<1>7. InStep'
  <2>1. Len(output') % 16 = 0 /\ Len(output') \div 16 = 0
    BY <1>2, <1>3
  <2>2. QED
    BY <1>1, <1>2, <1>4, <2>1 DEF InStep, BLOCKLENGTH
<1>8. KeystreamInOrder'
  BY <1>2, <1>3 DEF KeystreamInOrder
<1>9. QED
  BY <1>5, <1>6, <1>7, <1>8 DEF CryptorInv

LEMMA NewMessageStep ==
  ASSUME CryptorInv, NewMessage
  PROVE  CryptorInv'
<1>1. CryptorType /\ Recorded /\ key # NoKey /\ key \in Keys
  BY DEF CryptorInv, NewMessage, CryptorType
<1>2. PICK v \in Ivs :
        \/ ivsetup(v, "encrypt", Plain) /\ made' = [key |-> key, iv |-> v, cipher |-> << >>]
        \/ ivsetup(v, "decrypt", made.cipher) /\ UNCHANGED made
        \/ ivsetup(v, "keystream", Plain) /\ UNCHANGED made
  BY DEF NewMessage
<1>3. /\ Plain \in Seq(Byte) /\ Len(Plain) <= MaxBytes /\ MaxBytes \in Nat /\ Len(Plain) \in Nat
      /\ << >> \in Seq(Byte) /\ Len(<< >>) = 0
  BY CallerAssumption
<1>4. made \in Messages /\ made.cipher \in Seq(Byte) /\ Len(made.cipher) <= Len(Plain)
  BY <1>1 DEF CryptorType, Messages
<1>5. CASE ivsetup(v, "encrypt", Plain) /\ made' = [key |-> key, iv |-> v, cipher |-> << >>]
  <2>1. /\ iv' = v /\ mode' = "encrypt" /\ source' = Plain /\ output' = << >> /\ key' = key
    BY <1>5 DEF ivsetup
  <2>2. made' \in Messages /\ made'.key = key /\ made'.iv = v /\ made'.cipher = << >>
    BY <1>1, <1>3, <1>5 DEF Messages
  <2>3. Recorded'
    BY <1>1, <1>3, <2>1, <2>2 DEF Recorded
  <2>4. QED
    BY <1>1, <1>3, <1>5, <2>2, <2>3, IvsetupStep
<1>6. CASE ivsetup(v, "decrypt", made.cipher) /\ UNCHANGED made
  <2>1. /\ iv' = v /\ mode' = "decrypt" /\ source' = made.cipher /\ output' = << >> /\ key' = key
    BY <1>6 DEF ivsetup
  <2>2. Recorded'
    BY <1>1, <1>6, <2>1 DEF Recorded, Keystream
  <2>3. Len(made.cipher) <= MaxBytes
    BY <1>3, <1>4
  <2>4. QED
    BY <1>1, <1>4, <1>6, <2>2, <2>3, IvsetupStep
<1>7. CASE ivsetup(v, "keystream", Plain) /\ UNCHANGED made
  <2>1. /\ iv' = v /\ mode' = "keystream" /\ source' = Plain /\ output' = << >> /\ key' = key
    BY <1>7 DEF ivsetup
  <2>2. Recorded'
    BY <1>1, <1>7, <2>1 DEF Recorded, Keystream
  <2>3. QED
    BY <1>1, <1>3, <1>4, <1>7, <2>2, IvsetupStep
<1>8. QED
  BY <1>2, <1>5, <1>6, <1>7

LEMMA NewCallStep ==
  ASSUME CryptorInv, NewCall
  PROVE  CryptorInv'
<1>1. PICK bytes \in Lengths :
        /\ Fits(bytes)
        /\ \/ mode = "keystream" /\ Start("keystream_bytes", bytes)
           \/ mode \in {"encrypt", "decrypt"} /\ Start("process_bytes", bytes)
           \/ /\ mode \in {"encrypt", "decrypt"}
              /\ bytes % BLOCKLENGTH = 0
              /\ Start("process_blocks", (bytes \div BLOCKLENGTH) * BLOCKLENGTH)
  BY DEF NewCall, keystream_bytes, process_bytes, process_blocks
<1>2. bytes \in Nat /\ (bytes % 16 = 0 => (bytes \div 16) * 16 = bytes)
  BY CallerAssumption
<1>3. PICK function \in {"process_bytes", "process_blocks", "keystream_bytes"} :
        /\ Start(function, bytes)
        /\ mode # "none"
        /\ (function = "keystream_bytes") <=> (mode = "keystream")
        /\ function = "process_blocks" => bytes % 16 = 0
  BY <1>1, <1>2 DEF BLOCKLENGTH
<1>4. CryptorType /\ Protocol /\ InStep /\ KeystreamInOrder /\ Recorded /\ pc = "idle" /\ open
  BY <1>3 DEF CryptorInv, Start
<1>5. /\ pc' = function /\ left' = bytes /\ open' = (function = "process_blocks")
      /\ UNCHANGED <<master, work, source, output, key, iv, mode, made>>
  BY <1>3 DEF Start
<1>6. Len(output) + bytes <= Len(source)
  BY <1>1 DEF Fits
<1>7. CryptorType'
  BY <1>2, <1>4, <1>5, <1>6 DEF CryptorType
<1>8. Protocol'
  BY <1>3, <1>4, <1>5 DEF Protocol, BLOCKLENGTH
<1>9. InStep'
  BY <1>4, <1>5 DEF InStep
<1>10. KeystreamInOrder'
  BY <1>4, <1>5 DEF KeystreamInOrder, Keystream
<1>11. Recorded'
  BY <1>4, <1>5 DEF Recorded, Keystream
<1>12. QED
  BY <1>7, <1>8, <1>9, <1>10, <1>11 DEF CryptorInv

LEMMA CallerStep ==
  ASSUME CryptorInv, Next
  PROVE  CryptorInv'
BY LoopStep, KeysetupStep, NewMessageStep, NewCallStep DEF Next
-----------------------------------------------------------------------------
(* The object that owns the cryptor: between its calls, and within one.    *)
ObjectInv ==
  /\ owner \in {"rabbit", "caller"}
  /\ doing \in {"idle", "encrypt", "decrypt"}
  /\ owner = "caller" => doing = "idle"
  /\ owner = "rabbit" => mode = "none" /\ ~open /\ (doing = "idle" <=> pc = "idle")
  /\ doing # "idle" => n \in BitLengths /\ Len(output) + left = MsgLen(n)
  /\ pair # NoPair => pair.n \in BitLengths /\ pair.out \in Nat

RabbitInv == CryptorInv /\ ObjectInv

LEMMA TwoPowers == IsPowers(Two, 2)
BY PowersSteps DEF Two

LEMMA MessageBytes ==
  ASSUME NEW bits \in BitLengths
  PROVE  MsgLen(bits) \in 1 .. MaxBytes
<1>1. bits \in Nat \ {0} /\ ByteBits \in Nat \ {0} /\ MsgLen(bits) <= MaxBytes
  BY MessageAssumption, BitAssumption
<1>2. PICK q : q = (bits + ByteBits - 1) \div ByteBits
  OBVIOUS
<1>3. PICK x \in Nat : x = bits + ByteBits - 1
  BY <1>1
<1>4. q \in Nat /\ x < (q + 1) * ByteBits
  BY <1>1, <1>2, <1>3
<1>5. q # 0
  BY <1>1, <1>3, <1>4
<1>6. QED
  BY <1>1, <1>2, <1>4, <1>5, CallerAssumption DEF MsgLen

(* The words that the conversions are about are words of bytes.            *)
LEMMA SameWords ==
  /\ Conversions!Byte = Byte
  /\ \A len : Conversions!WordsOf(len) = [1 .. len -> Byte]
  /\ Conversions!Power = Convert!Power
  /\ \A v, len : Conversions!ToBytes(v, len) = Convert!ToBytes(v, len)
  /\ \A w : Conversions!FromBytes(w) = Convert!FromBytes(w)
BY DEF Conversions!Byte, Byte, Conversions!WordsOf, Conversions!Power, Convert!Power,
   Conversions!ToBytes, Convert!ToBytes, Conversions!AbsVal, Convert!AbsVal,
   Conversions!FromBytes, Convert!FromBytes, Conversions!PowersOf, Convert!PowersOf

LEMMA BytesOfInteger ==
  ASSUME NEW v \in Nat, NEW bits \in BitLengths
  PROVE  /\ MsgLen(bits) \in 0 .. MaxBytes
         /\ Convert!ToBytes(v, MsgLen(bits)) \in Seq(Byte)
         /\ Len(Convert!ToBytes(v, MsgLen(bits))) = MsgLen(bits)
<1>1. PICK len \in 1 .. MaxBytes : len = MsgLen(bits)
  BY MessageBytes
<1>2. len \in Nat /\ v \in Int
  BY CallerAssumption
<1>3. Convert!ToBytes(v, len) \in [1 .. len -> Byte]
  BY <1>2, SameWords, ByteAssumption, Conversions!ToBytesIsWord
<1>4. QED
  BY <1>1, <1>2, <1>3

LEMMA BytesInteger ==
  ASSUME NEW bits \in BitLengths, NEW w \in [1 .. MsgLen(bits) -> Byte]
  PROVE  Convert!FromBytes(w) \in Nat
<1>1. PICK len \in Nat : len = MsgLen(bits)
  BY MessageBytes, CallerAssumption
<1>2. w \in Conversions!WordsOf(len)
  BY <1>1, SameWords
<1>3. Conversions!FromBytes(w) \in 0 .. Conversions!Power[len] - 1
  BY <1>2, ByteAssumption, Conversions!FromBytesRange
<1>4. QED
  BY <1>3, SameWords

(* Encrypt and Decrypt start a message with a vector of zeros.             *)
LEMMA CallStep ==
  ASSUME RabbitInv, owner = "rabbit", owner' = owner,
         NEW function, NEW loop \in {"encrypt", "decrypt"},
         NEW v \in Nat, NEW bits \in BitLengths, Call(function, loop, v, bits)
  PROVE  RabbitInv'
<1>1. /\ CryptorType /\ Protocol /\ InStep /\ Recorded /\ ObjectInv
      /\ mode = "none" /\ ~open /\ pc = "idle"
  BY DEF RabbitInv, CryptorInv, ObjectInv, Call
<1>2. /\ doing' = loop /\ n' = bits
      /\ pc' = "process_bytes" /\ left' = MsgLen(bits)
      /\ work' = AfterIv(master, work, ZeroIv) /\ iv' = ZeroIv
      /\ source' = Convert!ToBytes(v, MsgLen(bits)) /\ output' = << >>
      /\ UNCHANGED <<master, key, mode, open, made, pair>>
  BY DEF Call
<1>3. /\ left' \in Nat /\ left' <= MaxBytes /\ source' \in Seq(Byte) /\ Len(source') = left'
      /\ output' \in Seq(Byte) /\ Len(output') = 0
  BY <1>2, BytesOfInteger, CallerAssumption
<1>4. ZeroIv \in Ivs
  BY MessageAssumption
<1>5. /\ work' \in Context /\ work'.carry \in {0, 1}
      /\ key # NoKey => work' = Stream[key][iv'][0]
  BY <1>2, <1>4, MessageStarts DEF RabbitInv
<1>6. CryptorType'
  <2>1. Len(output') + left' <= Len(source') /\ Len(source') <= MaxBytes
    <3>1. Len(output') = 0 /\ Len(source') = left' /\ left' \in Nat /\ left' <= MaxBytes
      BY <1>3
    <3>2. \A x \in Nat : 0 + x <= x
      OBVIOUS
    <3>3. QED
      BY <3>1, <3>2, Zenon
  <2>2. pc' = "process_bytes" /\ iv' \in Ivs
    BY <1>2, <1>4
  <2>3. QED
    BY <1>1, <1>2, <1>3, <1>5, <2>1, <2>2 DEF CryptorType
<1>7. Protocol'
  BY <1>1, <1>2, <1>4 DEF Protocol
<1>8. InStep'
  <2>1. Len(output') % 16 = 0 /\ Len(output') \div 16 = 0
    BY <1>3
  <2>2. QED
    BY <1>1, <1>2, <1>5, <2>1 DEF InStep, BLOCKLENGTH
<1>9. KeystreamInOrder'
  BY <1>3 DEF KeystreamInOrder
<1>10. Recorded'
  BY <1>1, <1>2 DEF Recorded, Keystream
<1>11. ObjectInv'
  <2>1. Len(output') + left' = MsgLen(n')
    BY <1>2, <1>3
  <2>2. doing' \in {"encrypt", "decrypt"} /\ doing' # "idle" /\ pc' # "idle" /\ n' \in BitLengths
    BY <1>2
  <2>3. QED
    BY <1>1, <1>2, <2>1, <2>2 DEF ObjectInv
<1>12. QED
  BY <1>6, <1>7, <1>8, <1>9, <1>10, <1>11 DEF RabbitInv, CryptorInv

LEMMA CallReturnsStep ==
  ASSUME RabbitInv, owner = "rabbit", owner' = owner, CallReturns
  PROVE  RabbitInv'
<1>1. CryptorInv'
  BY LoopStep DEF RabbitInv, CallReturns, Loop
<1>2. /\ CryptorType /\ ObjectInv /\ mode = "none" /\ ~open
      /\ pc # "idle" /\ left = 0 /\ pc' = "idle" /\ doing' = "idle"
      /\ UNCHANGED <<output, left, mode, open>>
  BY DEF RabbitInv, CryptorInv, ObjectInv, CallReturns, Return
<1>3. n \in BitLengths /\ Len(output) = MsgLen(n) /\ output \in Seq(Byte)
  <2>1. n \in BitLengths /\ Len(output) + left = MsgLen(n)
    BY <1>2 DEF ObjectInv
  <2>2. output \in Seq(Byte) /\ Len(output) \in Nat
    BY <1>2 DEF CryptorType
  <2>3. QED
    BY <1>2, <2>1, <2>2
<1>4. Result \in Nat
  <2>1. output \in [1 .. MsgLen(n) -> Byte]
    BY <1>3
  <2>2. Convert!FromBytes(output) \in Nat
    BY <1>3, <2>1, BytesInteger
  <2>3. PICK m \in Nat \ {0} : m = Two[n]
    BY <1>3, MessageAssumption, TwoPowers DEF IsPowers
  <2>4. \A f \in Nat : f % m \in Nat
    BY <2>3
  <2>5. QED
    BY <2>2, <2>3, <2>4 DEF Result
<1>5. pair' # NoPair => pair'.n \in BitLengths /\ pair'.out \in Nat
  <2>1. CASE doing = "encrypt"
    <3>1. pair' = [n |-> n, in |-> in, out |-> Result]
      BY <2>1 DEF CallReturns
    <3>2. pair'.n = n /\ pair'.out = Result
      BY <3>1
    <3>3. QED
      BY <1>3, <1>4, <3>2
  <2>2. CASE doing # "encrypt"
    <3>1. pair' = pair
      BY <2>2 DEF CallReturns
    <3>2. QED
      BY <1>2, <3>1 DEF ObjectInv
  <2>3. QED
    BY <2>1, <2>2
<1>6. ObjectInv'
  BY <1>2, <1>5 DEF ObjectInv
<1>7. QED
  BY <1>1, <1>6 DEF RabbitInv

LEMMA SetKeyStep ==
  ASSUME RabbitInv, owner = "rabbit", owner' = owner, NEW k \in Keys, SetKey(k)
  PROVE  RabbitInv'
<1>1. keysetup(k) /\ doing = "idle" /\ pair' = NoPair /\ doing' = doing
  BY DEF SetKey
<1>2. CryptorInv'
  BY <1>1, KeysetupStep DEF RabbitInv
<1>3. mode' = "none" /\ open' = FALSE /\ pc' = pc
  BY <1>1 DEF keysetup
<1>4. ObjectInv'
  BY <1>1, <1>3 DEF RabbitInv, ObjectInv
<1>5. QED
  BY <1>2, <1>4 DEF RabbitInv

(* A pass of the loop, within a call of the object.                        *)
LEMMA PassStep ==
  ASSUME RabbitInv, owner = "rabbit", owner' = owner, FullBlock \/ Remainder, UNCHANGED object
  PROVE  RabbitInv'
<1>1. CryptorType /\ ObjectInv
  BY DEF RabbitInv, CryptorInv
<1>2. left \in Nat
  BY <1>1 DEF CryptorType
<1>3. PICK bytes \in 1 .. BLOCKLENGTH :
        /\ bytes <= left /\ Emit(bytes) /\ pc # "idle"
        /\ bytes = BLOCKLENGTH \/ bytes = left
  <2>1. CASE FullBlock
    BY <1>2, <2>1 DEF FullBlock, BLOCKLENGTH
  <2>2. CASE Remainder
    <3>1. left \in 1 .. BLOCKLENGTH /\ left <= left
      BY <2>2 DEF Remainder, BLOCKLENGTH
    <3>2. QED
      BY <2>2, <3>1 DEF Remainder
  <2>3. QED
    BY <2>1, <2>2
<1>4. CryptorInv' /\ Len(output') + left' = Len(output) + left
  BY <1>3, EmitStep DEF RabbitInv
<1>5. UNCHANGED <<pc, mode, open, doing, n, pair>>
  BY <1>3 DEF Emit, object
<1>6. ObjectInv'
  BY <1>1, <1>4, <1>5 DEF ObjectInv
<1>7. QED
  BY <1>4, <1>6 DEF RabbitInv
-----------------------------------------------------------------------------
LEMMA RabbitInvInit ==
  ASSUME RabbitInit
  PROVE  RabbitInv
<1>1. CryptorInv
  BY CryptorInit DEF RabbitInit
<1>2. ObjectInv
  BY DEF RabbitInit, Init, ObjectInv
<1>3. QED
  BY <1>1, <1>2 DEF RabbitInv

LEMMA RabbitInvStep ==
  ASSUME RabbitInv, [OwnerNext]_vars
  PROVE  RabbitInv'
<1>1. CASE owner = "rabbit" /\ RabbitNext /\ UNCHANGED owner
  <2>1. CASE (FullBlock \/ Remainder) /\ UNCHANGED object
    BY <1>1, <2>1, PassStep
  <2>2. CASE CallReturns
    BY <1>1, <2>2, CallReturnsStep
  <2>3. CASE \E k \in Keys : SetKey(k)
    BY <1>1, <2>3, SetKeyStep
  <2>4. ASSUME NEW bits \in BitLengths, NEW v \in Inputs,
               Call("Encrypt", "encrypt", v, bits) \/ Call("Decrypt", "decrypt", v, bits)
        PROVE  RabbitInv'
    <3>1. v \in Nat
      BY MessageAssumption
    <3>2. QED
      BY <1>1, <2>4, <3>1, CallStep
  <2>5. CASE pair # NoPair /\ Call("Decrypt", "decrypt", pair.out, pair.n)
    <3>1. pair.n \in BitLengths /\ pair.out \in Nat
      BY <2>5 DEF RabbitInv, ObjectInv
    <3>2. QED
      BY <1>1, <2>5, <3>1, CallStep
  <2>6. QED
    BY <1>1, <2>1, <2>2, <2>3, <2>4, <2>5 DEF RabbitNext
<1>2. CASE owner = "caller" /\ Next /\ UNCHANGED object /\ UNCHANGED owner
  <2>1. CryptorInv'
    BY <1>2, CallerStep DEF RabbitInv
  <2>2. ObjectInv'
    BY <1>2 DEF RabbitInv, ObjectInv, object
  <2>3. QED
    BY <2>1, <2>2 DEF RabbitInv
<1>3. CASE UNCHANGED vars
  <2>1. /\ UNCHANGED <<master, work, pc, left, source, output, key, iv, mode, open, made>>
        /\ UNCHANGED <<owner, doing, n, pair>>
    BY <1>3 DEF vars, cryptor, object
  <2>2. CryptorType /\ Protocol /\ InStep /\ KeystreamInOrder /\ Recorded /\ ObjectInv
    BY DEF RabbitInv, CryptorInv
  <2>3. CryptorType'
    BY <2>1, <2>2 DEF CryptorType
  <2>4. Protocol'
    BY <2>1, <2>2 DEF Protocol
  <2>5. InStep'
    BY <2>1, <2>2 DEF InStep
  <2>6. KeystreamInOrder'
    BY <2>1, <2>2 DEF KeystreamInOrder, Keystream
  <2>7. Recorded'
    BY <2>1, <2>2 DEF Recorded, Keystream
  <2>8. ObjectInv'
    BY <2>1, <2>2 DEF ObjectInv
  <2>9. QED
    BY <2>3, <2>4, <2>5, <2>6, <2>7, <2>8 DEF RabbitInv, CryptorInv
<1>4. QED
  BY <1>1, <1>2, <1>3 DEF OwnerNext

LEMMA InvariantHolds == RabbitSpec => []RabbitInv
<1>1. RabbitInit => RabbitInv
  BY RabbitInvInit
<1>2. RabbitInv /\ [OwnerNext]_vars => RabbitInv'
  BY RabbitInvStep
<1>3. QED
  BY <1>1, <1>2, PTL DEF RabbitSpec

(* Type correctness: what is left of a call is never more than the message *)
(* still has, so that no call reads or writes past it.                     *)
THEOREM TypeCorrect == RabbitSpec => []TypeOK
<1>1. RabbitInv => TypeOK
  <2>1. SUFFICES ASSUME RabbitInv
                 PROVE  TypeOK
    OBVIOUS
  <2>2. CryptorType /\ ObjectInv
    BY <2>1 DEF RabbitInv, CryptorInv
  <2>3. owner = "rabbit" => (doing = "idle") = (pc = "idle")
    BY <2>2 DEF ObjectInv
  <2>4. QED
    BY <2>2, <2>3 DEF TypeOK, CryptorType, ObjectInv
<1>2. QED
  BY <1>1, InvariantHolds, PTL

(* Byte p of a message meets byte p of the keystream of its key and        *)
(* vector, however the message is cut into calls and whatever the object   *)
(* did before it.                                                          *)
THEOREM KeystreamKept == RabbitSpec => []KeystreamInOrder
<1>1. RabbitInv => KeystreamInOrder
  BY DEF RabbitInv, CryptorInv
<1>2. QED
  BY <1>1, InvariantHolds, PTL

(* Decrypting with the same key and vector gives back what was encrypted,  *)
(* though the two sides cut the message into different calls.              *)
THEOREM Recovered == RabbitSpec => []MessageRecovered
<1>1. ASSUME RabbitInv, mode = "decrypt", made.key = key, made.iv = iv,
             NEW p \in 1 .. Len(output)
      PROVE  output[p] = Plain[p]
  <2>1. CryptorType /\ Protocol /\ KeystreamInOrder /\ Recorded
    BY <1>1 DEF RabbitInv, CryptorInv
  <2>2. key # NoKey /\ key \in Keys /\ iv \in Ivs /\ source = made.cipher
    BY <1>1, <2>1 DEF CryptorType, Protocol, Recorded
  <2>3. p \in 1 .. Len(made.cipher) /\ p \in 1 .. Len(Plain) /\ p \in 1 .. MaxBytes
    <3>1. /\ Len(output) \in Nat /\ left \in Nat /\ Len(source) \in Nat /\ Len(Plain) \in Nat
          /\ Len(output) + left <= Len(source) /\ Len(source) <= Len(Plain) /\ MaxBytes \in Nat
          /\ Len(Plain) <= MaxBytes
      BY <2>1, <2>2, CallerAssumption DEF CryptorType
    <3>2. QED
      BY <2>2, <3>1
  <2>4. output[p] = Xor[made.cipher[p]][Keystream[key][iv][p]]
    BY <1>1, <2>1, <2>2 DEF KeystreamInOrder
  <2>5. made.cipher[p] = Xor[Plain[p]][Keystream[key][iv][p]]
    BY <1>1, <2>1, <2>2, <2>3 DEF Recorded
  <2>6. Plain[p] \in Byte /\ Keystream[key][iv][p] \in Byte
    BY <2>2, <2>3, KeystreamBytes, CallerAssumption
  <2>7. QED
    BY <2>4, <2>5, <2>6, XorByte
<1>2. RabbitInv => MessageRecovered
  BY <1>1 DEF MessageRecovered
<1>3. QED
  BY <1>2, InvariantHolds, PTL

(* Each step of the system is an exact addition to one long counter, which *)
(* rabbit_impl.cc:52-67 gets from wrapped sums.                            *)
THEOREM CountersExact == RabbitSpec => CountersAdd
<1> DEFINE A == key # NoKey /\ left > 0 /\ left' < left =>
                  LET carry(j) == IF j = 8 THEN work'.carry
                                  ELSE (Word(work'.c, j) - Word(work.c, j) - Word(Add, j)) % Words
                  IN  /\ carry(0) = work.carry
                      /\ \A j \in 0 .. 7 :
                           Word(work'.c, j) + carry(j + 1) * Words
                             = Word(work.c, j) + Word(Add, j) + carry(j)
<1>1. RabbitInv /\ [OwnerNext]_vars => [A]_cryptor
  <2>1. SUFFICES ASSUME RabbitInv, [OwnerNext]_vars, key # NoKey, left > 0, left' < left
                 PROVE  A
    OBVIOUS
  <2>2. left \in Nat /\ work \in Context /\ work.carry \in {0, 1} /\ pc # "idle"
    BY <2>1 DEF RabbitInv, CryptorInv, CryptorType
  <2>3. work' = NextState(work)
    <3>1. CASE FullBlock \/ Remainder
      BY <3>1 DEF FullBlock, Remainder, Emit
    <3>2. CASE ~(FullBlock \/ Remainder)
      <4>1. UNCHANGED vars \/ Return \/ pc = "idle"
        BY <2>1, <3>2 DEF OwnerNext, RabbitNext, Next, Loop, CallReturns, SetKey, keysetup,
             Call, NewMessage, ivsetup, NewCall, Start, process_blocks, process_bytes,
             keystream_bytes, RabbitInv, ObjectInv
      <4>2. QED
        BY <2>1, <2>2, <4>1 DEF Return, vars, cryptor
    <3>3. QED
      BY <3>1, <3>2
  <2>4. QED
    BY <2>2, <2>3, CounterStep
<1>2. QED
  BY <1>1, InvariantHolds, PTL DEF RabbitSpec, CountersAdd
-----------------------------------------------------------------------------
(* The keystream of a Rabbit object: that of its master context and a      *)
(* vector of zeros, also when no key has been set up.                      *)
Follow(f, m) ==
  /\ f \in [Nat -> Context]
  /\ f[0] = AfterIv(m, m, ZeroIv)
  /\ \A t \in Nat : f[t + 1] = NextState(f[t])

ContextsOf(m) == CHOOSE f : Follow(f, m)

Pad(m) ==
  [p \in 1 .. MaxBytes |->
     Block(ContextsOf(m)[(p - 1) \div BLOCKLENGTH + 1])[((p - 1) % BLOCKLENGTH) + 1]]

Ciphered(m, w) == [p \in 1 .. Len(w) |-> Xor[w[p]][Pad(m)[p]]]

(* What Encrypt returns, and Decrypt: the result of both is this.          *)
Cipher(m, bits, v) ==
  Convert!FromBytes(Ciphered(m, Convert!ToBytes(v, MsgLen(bits)))) % Two[bits]

LEMMA ContextsFollow ==
  ASSUME NEW m \in Context
  PROVE  Follow(ContextsOf(m), m)
<1> DEFINE Step == [t \in Nat \ {0} |-> [s \in Context |-> NextState(s)]]
<1>1. ZeroIv \in Ivs
  BY MessageAssumption
<1>2. AfterIv(m, m, ZeroIv) \in Context
  BY <1>1, AfterIvFacts
<1>3. \A s \in Context : NextState(s) \in Context
  BY NextStateFacts
<1>4. Step \in [Nat \ {0} -> [Context -> Context]]
  BY <1>3
<1>5. PICK f \in [Nat -> Context] : FollowsAlways(f, AfterIv(m, m, ZeroIv), Step)
  <2> HIDE DEF Step
  <2> QED
    BY <1>2, <1>4, Recursion
<1>6. ASSUME NEW t \in Nat
      PROVE  f[t + 1] = NextState(f[t])
  <2>1. t + 1 \in Nat \ {0} /\ (t + 1) - 1 = t /\ f[t] \in Context
    OBVIOUS
  <2>2. f[t + 1] = Step[t + 1][f[(t + 1) - 1]]
    <3> HIDE DEF Step
    <3> QED
      BY <1>5, <2>1 DEF FollowsAlways
  <2>3. QED
    BY <2>1, <2>2
<1>7. Follow(f, m)
  BY <1>5, <1>6, Zenon DEF Follow, FollowsAlways
<1>8. QED
  BY <1>7 DEF ContextsOf

LEMMA PadBytes ==
  ASSUME NEW m \in Context, NEW p \in 1 .. MaxBytes
  PROVE  Pad(m)[p] \in Byte
<1>1. MaxBytes \in Nat
  BY CallerAssumption
<1>2. (p - 1) \div 16 + 1 \in Nat /\ ((p - 1) % 16) + 1 \in 1 .. 16
  BY <1>1
<1>3. ContextsOf(m)[(p - 1) \div 16 + 1] \in Context
  BY <1>2, ContextsFollow DEF Follow
<1>4. Block(ContextsOf(m)[(p - 1) \div 16 + 1]) \in [1 .. 16 -> Byte]
  BY <1>3, BlockType DEF BLOCKLENGTH
<1>5. Block(ContextsOf(m)[(p - 1) \div 16 + 1])[((p - 1) % 16) + 1] \in Byte
  BY <1>2, <1>4
<1>6. QED
  BY <1>5 DEF Pad, BLOCKLENGTH

(* The next bytes of the keystream are those of the next block.            *)
LEMMA PadBlock ==
  ASSUME NEW m \in Context, NEW q \in Nat, NEW p \in 1 .. BLOCKLENGTH,
         q * BLOCKLENGTH + p <= MaxBytes
  PROVE  Pad(m)[q * BLOCKLENGTH + p] = Block(ContextsOf(m)[q + 1])[p]
<1>1. p \in 1 .. 16 /\ MaxBytes \in Nat /\ q * 16 + p <= MaxBytes
  BY CallerAssumption DEF BLOCKLENGTH
<1>2. q * 16 + p \in 1 .. MaxBytes
  BY <1>1
<1>3. (q * 16 + p - 1) \div 16 = q /\ (q * 16 + p - 1) % 16 = p - 1
  BY <1>1
<1>4. Pad(m)[q * 16 + p]
        = Block(ContextsOf(m)[(q * 16 + p - 1) \div 16 + 1])[((q * 16 + p - 1) % 16) + 1]
  BY <1>2 DEF Pad, BLOCKLENGTH
<1>5. QED
  BY <1>1, <1>3, <1>4 DEF BLOCKLENGTH

LEMMA ConvertPower == IsPowers(Convert!Power, B)
<1>1. B \in Nat \ {0} /\ Convert!Power = PowersOf(B)
  BY ByteAssumption DEF Convert!Power, Convert!PowersOf, PowersOf
<1>2. QED
  BY <1>1, PowersSteps

(* The bits of a message are whole bytes and a part of the first one.      *)
LEMMA MessageModulus ==
  ASSUME NEW bits \in BitLengths
  PROVE  \E r \in 1 .. ByteBits :
           /\ Two[r] \in Nat \ {0} /\ Two[r] <= B
           /\ Two[bits] = Two[r] * Convert!Power[MsgLen(bits) - 1]
<1>1. PICK len \in Nat \ {0} : len = MsgLen(bits)
  BY MessageBytes, CallerAssumption
<1>2. /\ bits \in Nat \ {0} /\ ByteBits \in Nat \ {0} /\ B = Two[ByteBits]
      /\ len = (bits + ByteBits - 1) \div ByteBits
  BY <1>1, MessageAssumption, BitAssumption DEF MsgLen
<1>3. PICK y \in Nat : y = ByteBits * (len - 1)
  <2>1. len - 1 \in Nat /\ ByteBits \in Nat
    BY <1>2
  <2>2. QED
    BY <2>1, ProductInNat
<1>4. bits - y \in 1 .. ByteBits
  <2>1. PICK x \in Int : x = bits + ByteBits - 1
    BY <1>2
  <2>2. len * ByteBits <= x /\ x < (len + 1) * ByteBits
    BY <1>2, <2>1
  <2>3. len * ByteBits = y + ByteBits /\ (len + 1) * ByteBits = y + ByteBits + ByteBits
    BY <1>2, <1>3
  <2>4. QED
    BY <1>2, <1>3, <2>1, <2>2, <2>3
<1>5. PICK r \in 1 .. ByteBits : r = bits - y
  BY <1>4
<1>6. Two[bits] = Two[r] * Two[y]
  <2>1. \A i, j \in Nat : Two[i + j] = Two[i] * Two[j]
    BY TwoPowers, PowersAdd
  <2>2. r + y = bits /\ r \in Nat
    BY <1>2, <1>5
  <2>3. QED
    BY <2>1, <2>2
<1>7. Convert!Power[len - 1] = Two[y]
  <2>1. IsPowers(Convert!Power, Two[ByteBits])
    BY <1>2, ConvertPower
  <2>2. 2 \in Nat \ {0} /\ ByteBits \in Nat /\ len - 1 \in Nat
    BY <1>1, <1>2
  <2>3. \A k \in Nat : Convert!Power[k] = Two[ByteBits * k]
    BY <2>1, <2>2, TwoPowers, PowersOfPower
  <2>4. QED
    BY <1>3, <2>2, <2>3
<1>8. Two[r] \in Nat \ {0} /\ Two[r] <= B
  <2>1. r \in Nat /\ ByteBits \in Nat /\ r <= ByteBits /\ 2 \in Nat \ {0, 1}
    BY <1>2
  <2>2. \A i, j \in Nat : i <= j => Two[i] <= Two[j]
    BY <2>1, TwoPowers, PowersGrow
  <2>3. QED
    BY <1>2, <2>1, <2>2, TwoPowers DEF IsPowers
<1>9. QED
  BY <1>1, <1>6, <1>7, <1>8

LEMMA IntegerBytes ==
  ASSUME NEW bits \in BitLengths, NEW v \in Nat, v < Convert!Power[MsgLen(bits)]
  PROVE  /\ Convert!ToBytes(v, MsgLen(bits)) \in [1 .. MsgLen(bits) -> Byte]
         /\ Convert!FromBytes(Convert!ToBytes(v, MsgLen(bits))) = v
<1>1. PICK len \in Nat \ {0} : len = MsgLen(bits)
  BY MessageBytes, CallerAssumption
<1>2. Convert!Power[len] \in Nat
  BY <1>1, ConvertPower DEF IsPowers
<1>3. v \in Int /\ v \in 0 .. Conversions!Power[len] - 1 /\ len \in Nat
  BY <1>1, <1>2, SameWords
<1>4. Conversions!ToBytes(v, len) \in Conversions!WordsOf(len)
  BY <1>3, ByteAssumption, Conversions!ToBytesIsWord
<1>5. Conversions!FromBytes(Conversions!ToBytes(v, len)) = v
  BY <1>3, ByteAssumption, Conversions!IntegerRecovered
<1>6. QED
  BY <1>1, <1>4, <1>5, SameWords

LEMMA CipheredBytes ==
  ASSUME NEW m \in Context, NEW len \in 1 .. MaxBytes, NEW w \in [1 .. len -> Byte]
  PROVE  /\ Ciphered(m, w) \in [1 .. len -> Byte]
         /\ \A p \in 1 .. len : Ciphered(m, w)[p] = Xor[w[p]][Pad(m)[p]]
         /\ Ciphered(m, Ciphered(m, w)) = w
<1>1. len \in Nat /\ MaxBytes \in Nat /\ \A p \in 1 .. len : p \in 1 .. MaxBytes
  BY CallerAssumption
<1>2. \A p \in 1 .. len : w[p] \in Byte /\ Pad(m)[p] \in Byte
  BY <1>1, PadBytes
<1>3. ASSUME NEW u \in [1 .. len -> Byte]
      PROVE  /\ Ciphered(m, u) \in [1 .. len -> Byte]
             /\ \A p \in 1 .. len : Ciphered(m, u)[p] = Xor[u[p]][Pad(m)[p]]
  <2>1. Len(u) = len
    BY <1>1
  <2>2. \A p \in 1 .. len : Xor[u[p]][Pad(m)[p]] \in Byte
    BY <1>2, XorByte
  <2>3. QED
    BY <2>1, <2>2 DEF Ciphered
<1>4. PICK x \in [1 .. len -> Byte] : x = Ciphered(m, w)
  BY <1>3
<1>5. \A p \in 1 .. len : Ciphered(m, x)[p] = w[p]
  BY <1>2, <1>3, <1>4, XorByte
<1>6. Ciphered(m, x) = w
  BY <1>3, <1>5
<1>7. QED
  BY <1>3, <1>4, <1>6

(* Two messages are equal in their bits when their ciphertexts are.        *)
LEMMA CipheredResidue ==
  ASSUME NEW m \in Context, NEW bits \in BitLengths,
         NEW v \in [1 .. MsgLen(bits) -> Byte], NEW w \in [1 .. MsgLen(bits) -> Byte]
  PROVE  Convert!FromBytes(Ciphered(m, v)) % Two[bits] = Convert!FromBytes(Ciphered(m, w)) % Two[bits]
           <=> Convert!FromBytes(v) % Two[bits] = Convert!FromBytes(w) % Two[bits]
<1>1. PICK len \in 1 .. MaxBytes : len = MsgLen(bits)
  BY MessageBytes
<1>2. len \in Nat \ {0} /\ 1 \in 1 .. len
  BY <1>1, CallerAssumption
<1>3. PICK r \in 1 .. ByteBits :
        Two[r] \in Nat \ {0} /\ Two[bits] = Two[r] * Convert!Power[len - 1]
  BY <1>1, MessageModulus
<1>4. ASSUME NEW t \in [1 .. len -> Byte], NEW u \in [1 .. len -> Byte]
      PROVE  Convert!FromBytes(t) % Two[bits] = Convert!FromBytes(u) % Two[bits]
               <=> t[1] % Two[r] = u[1] % Two[r] /\ \A i \in 2 .. len : t[i] = u[i]
  <2>1. t \in Conversions!WordsOf(len) /\ u \in Conversions!WordsOf(len)
    BY SameWords
  <2>2. Conversions!FromBytes(t) % (Two[r] * Conversions!Power[len - 1])
          = Conversions!FromBytes(u) % (Two[r] * Conversions!Power[len - 1])
          <=> t[1] % Two[r] = u[1] % Two[r] /\ \A i \in 2 .. len : t[i] = u[i]
    BY <1>2, <1>3, <2>1, ByteAssumption, Conversions!ResidueOfWords
  <2>3. QED
    BY <1>3, <2>2, SameWords
<1>5. v \in [1 .. len -> Byte] /\ w \in [1 .. len -> Byte]
  BY <1>1
<1>6. PICK x \in [1 .. len -> Byte], y \in [1 .. len -> Byte] :
        /\ x = Ciphered(m, v) /\ y = Ciphered(m, w)
        /\ \A p \in 1 .. len : x[p] = Xor[v[p]][Pad(m)[p]] /\ y[p] = Xor[w[p]][Pad(m)[p]]
  BY <1>1, <1>5, CipheredBytes
<1>7. \A p \in 1 .. len : v[p] \in Byte /\ w[p] \in Byte /\ Pad(m)[p] \in Byte
  <2>1. \A p \in 1 .. len : p \in 1 .. MaxBytes
    BY <1>1, CallerAssumption
  <2>2. QED
    BY <1>5, <2>1, PadBytes
<1>8. x[1] % Two[r] = y[1] % Two[r] <=> v[1] % Two[r] = w[1] % Two[r]
  <2>1. r \in 0 .. ByteBits
    BY BitAssumption
  <2>2. \A a, b, c \in Byte :
          (Xor[a][c] % Two[r] = Xor[b][c] % Two[r]) <=> (a % Two[r] = b % Two[r])
    BY <2>1, BitAssumption
  <2>3. QED
    BY <1>2, <1>6, <1>7, <2>2
<1>9. ASSUME NEW p \in 1 .. len
      PROVE  x[p] = y[p] <=> v[p] = w[p]
  BY <1>6, <1>7, XorByte
<1>10. (\A p \in 2 .. len : x[p] = y[p]) <=> (\A p \in 2 .. len : v[p] = w[p])
  BY <1>2, <1>9
<1>11. QED
  BY <1>4, <1>5, <1>6, <1>8, <1>10

(* For a message that the bytes can hold, the low bits are permuted, and   *)
(* ciphering twice gives them back.                                        *)
LEMMA CipherFacts ==
  ASSUME NEW m \in Context, NEW bits \in BitLengths,
         NEW v \in Nat, v < Convert!Power[MsgLen(bits)]
  PROVE  /\ Cipher(m, bits, v) \in 0 .. Two[bits] - 1
         /\ Cipher(m, bits, v) < Convert!Power[MsgLen(bits)]
         /\ \A w \in Nat : w < Convert!Power[MsgLen(bits)] =>
              (Cipher(m, bits, v) = Cipher(m, bits, w) <=> v % Two[bits] = w % Two[bits])
         /\ Cipher(m, bits, Cipher(m, bits, v)) = v % Two[bits]
<1>1. PICK len \in 1 .. MaxBytes : len = MsgLen(bits)
  BY MessageBytes
<1>2. PICK N \in Nat \ {0} : N = Two[bits]
  BY MessageAssumption, TwoPowers DEF IsPowers
<1>3. PICK M \in Nat : M = Convert!Power[len] /\ N <= M
  <2>1. len \in Nat \ {0} /\ len - 1 \in Nat /\ B \in Nat
    BY <1>1, CallerAssumption, ByteAssumption
  <2>2. PICK P \in Nat : P = Convert!Power[len - 1] /\ Convert!Power[len] = B * P
    BY <2>1, ConvertPower DEF IsPowers
  <2>3. PICK r \in 1 .. ByteBits :
          Two[r] \in Nat \ {0} /\ Two[r] <= B /\ Two[bits] = Two[r] * P
    BY <1>1, <2>2, MessageModulus
  <2>4. PICK R \in Nat : R = Two[r]
    BY <2>3
  <2>5. R * P <= B * P /\ B * P \in Nat
    BY <2>1, <2>3, <2>4, ProductMonotone, ProductInNat
  <2>6. QED
    BY <1>2, <2>2, <2>3, <2>4, <2>5
<1> DEFINE bytes(u) == Convert!ToBytes(u, len)
           c == Cipher(m, bits, v)
<1>4. ASSUME NEW u \in Nat, u < M
      PROVE  /\ bytes(u) \in [1 .. len -> Byte]
             /\ Convert!FromBytes(bytes(u)) = u
             /\ Ciphered(m, bytes(u)) \in [1 .. len -> Byte]
             /\ Cipher(m, bits, u) = Convert!FromBytes(Ciphered(m, bytes(u))) % N
             /\ Cipher(m, bits, u) \in 0 .. N - 1
  <2>1. bytes(u) \in [1 .. len -> Byte] /\ Convert!FromBytes(bytes(u)) = u
    BY <1>1, <1>3, <1>4, IntegerBytes
  <2>2. Ciphered(m, bytes(u)) \in [1 .. len -> Byte]
    BY <2>1, CipheredBytes
  <2>3. PICK x \in Nat : x = Convert!FromBytes(Ciphered(m, bytes(u)))
    BY <1>1, <2>2, BytesInteger
  <2>4. Cipher(m, bits, u) = x % N
    BY <1>1, <1>2, <2>3 DEF Cipher
  <2>5. QED
    BY <2>1, <2>2, <2>3, <2>4
<1>5. ASSUME NEW w \in Nat, w < M
      PROVE  Cipher(m, bits, v) = Cipher(m, bits, w) <=> v % N = w % N
  <2>1. bytes(v) \in [1 .. MsgLen(bits) -> Byte] /\ bytes(w) \in [1 .. MsgLen(bits) -> Byte]
    BY <1>1, <1>3, <1>4, <1>5
  <2>2. Convert!FromBytes(Ciphered(m, bytes(v))) % N = Convert!FromBytes(Ciphered(m, bytes(w))) % N
          <=> Convert!FromBytes(bytes(v)) % N = Convert!FromBytes(bytes(w)) % N
    BY <1>2, <2>1, CipheredResidue
  <2>3. QED
    BY <1>1, <1>3, <1>4, <1>5, <2>2
<1>6. c \in 0 .. N - 1 /\ c \in Nat /\ c < M
  <2>1. c \in 0 .. N - 1
    BY <1>1, <1>3, <1>4
  <2>2. QED
    BY <1>3, <2>1
<1>7. Cipher(m, bits, c) = v % N
  <2>1. PICK x \in [1 .. len -> Byte] :
          x = Ciphered(m, bytes(v)) /\ Ciphered(m, x) = bytes(v)
    <3>1. bytes(v) \in [1 .. len -> Byte]
      BY <1>1, <1>3, <1>4
    <3>2. QED
      BY <3>1, CipheredBytes
  <2>2. c = Convert!FromBytes(x) % N
    BY <1>1, <1>3, <1>4, <2>1
  <2>3. PICK z \in [1 .. len -> Byte] : z = bytes(c) /\ Convert!FromBytes(z) = c
    BY <1>4, <1>6
  <2>4. c % N = c
    BY <1>6
  <2>5. Convert!FromBytes(Ciphered(m, x)) % N = Convert!FromBytes(Ciphered(m, z)) % N
    <3>1. x \in [1 .. MsgLen(bits) -> Byte] /\ z \in [1 .. MsgLen(bits) -> Byte]
      BY <1>1
    <3>2. Convert!FromBytes(x) % N = Convert!FromBytes(z) % N
      BY <2>2, <2>3, <2>4
    <3>3. QED
      BY <1>2, <3>1, <3>2, CipheredResidue
  <2>6. Convert!FromBytes(Ciphered(m, x)) = v
    BY <1>1, <1>3, <1>4, <2>1
  <2>7. Cipher(m, bits, c) = Convert!FromBytes(Ciphered(m, z)) % N
    BY <1>4, <1>6, <2>3
  <2>8. QED
    BY <2>5, <2>6, <2>7
<1>8. QED
  BY <1>1, <1>2, <1>3, <1>5, <1>6, <1>7
-----------------------------------------------------------------------------
(* How far the message of the object has come, and what it will return.    *)
CipherInv ==
  /\ owner = "caller" => pair = NoPair
  /\ doing # "idle" =>
       /\ pc = "process_bytes"
       /\ in \in Nat /\ in < Convert!Power[MsgLen(n)]
       /\ source = Convert!ToBytes(in, MsgLen(n))
       /\ left > 0 =>
            Len(output) % BLOCKLENGTH = 0
              /\ work = ContextsOf(master)[Len(output) \div BLOCKLENGTH]
       /\ \A p \in 1 .. Len(output) : output[p] = Xor[source[p]][Pad(master)[p]]
  /\ pair # NoPair =>
       /\ pair.in \in Nat /\ pair.in < Convert!Power[MsgLen(pair.n)]
       /\ pair.out = Cipher(master, pair.n, pair.in)

LEMMA ResultIsCipher ==
  ASSUME RabbitInv, CipherInv, doing # "idle", left = 0
  PROVE  Result = Cipher(master, n, in)
<1>1. /\ CryptorType /\ n \in BitLengths /\ Len(output) + left = MsgLen(n)
  BY DEF RabbitInv, CryptorInv, ObjectInv
<1>2. PICK len \in 1 .. MaxBytes : len = MsgLen(n)
  BY <1>1, MessageBytes
<1>3. output \in Seq(Byte) /\ Len(output) = len
  BY <1>1, <1>2 DEF CryptorType
<1>4. source \in [1 .. len -> Byte] /\ source = Convert!ToBytes(in, len)
  BY <1>1, <1>2, IntegerBytes DEF CipherInv
<1>5. master \in Context
  BY <1>1 DEF CryptorType
<1>6. /\ Ciphered(master, source) \in [1 .. len -> Byte]
      /\ \A p \in 1 .. len : Ciphered(master, source)[p] = Xor[source[p]][Pad(master)[p]]
  BY <1>4, <1>5, CipheredBytes
<1>7. \A p \in 1 .. len : output[p] = Ciphered(master, source)[p]
  BY <1>3, <1>6 DEF CipherInv
<1>8. output = Ciphered(master, source)
  BY <1>3, <1>6, <1>7
<1>9. QED
  BY <1>2, <1>4, <1>8 DEF Result, Cipher

(* The bytes that a pass of the loop of process_bytes appends.             *)
LEMMA EmitBytes ==
  ASSUME CryptorInv, pc = "process_bytes",
         NEW bytes \in 1 .. BLOCKLENGTH, bytes <= left, Emit(bytes)
  PROVE  /\ Len(output) + bytes <= MaxBytes
         /\ Len(output') = Len(output) + bytes
         /\ \A p \in 1 .. Len(output) : output'[p] = output[p]
         /\ \A p \in 1 .. bytes :
              output'[Len(output) + p] = Xor[source[Len(output) + p]][Block(work')[p]]
<1> DEFINE new == [p \in 1 .. bytes |-> Xor[source[Len(output) + p]][Block(work')[p]]]
<1>1. /\ CryptorType /\ bytes \in 1 .. 16 /\ bytes \in Nat /\ left \in Nat
      /\ output \in Seq(Byte) /\ source \in Seq(Byte) /\ Len(output) \in Nat
      /\ Len(source) \in Nat /\ MaxBytes \in Nat
      /\ Len(output) + left <= Len(source) /\ Len(source) <= MaxBytes
  BY CallerAssumption DEF CryptorInv, CryptorType, BLOCKLENGTH
<1>2. Len(output) + bytes <= Len(source) /\ Len(output) + bytes <= MaxBytes
  BY <1>1
<1>3. Block(work') \in [1 .. 16 -> Byte]
  <2>1. work' \in Context
    BY <1>1, NextStateFacts DEF CryptorType, Emit
  <2>2. QED
    BY <2>1, BlockType DEF BLOCKLENGTH
<1>4. ASSUME NEW p \in 1 .. bytes
      PROVE  Xor[source[Len(output) + p]][Block(work')[p]] \in Byte
  <2>1. p \in 1 .. 16 /\ Len(output) + p \in 1 .. Len(source)
    BY <1>1, <1>2
  <2>2. Block(work')[p] \in Byte
    BY <1>3, <2>1
  <2>3. source[Len(output) + p] \in Byte
    BY <1>1, <2>1
  <2>4. QED
    BY <2>2, <2>3, XorByte
<1>5. new \in [1 .. bytes -> Byte]
  BY <1>4
<1>6. new \in Seq(Byte) /\ Len(new) = bytes
  BY <1>1, <1>5
<1>7. output' = output \o new
  BY DEF Emit
<1>8. \A p \in 1 .. bytes : new[p] = Xor[source[Len(output) + p]][Block(work')[p]]
  OBVIOUS
<1> HIDE DEF new
<1>9. /\ Len(output') = Len(output) + bytes
      /\ \A p \in 1 .. Len(output) : output'[p] = output[p]
      /\ \A p \in 1 .. bytes : output'[Len(output) + p] = new[p]
  BY <1>1, <1>6, <1>7
<1>10. QED
  BY <1>2, <1>8, <1>9

LEMMA CipherPass ==
  ASSUME RabbitInv, CipherInv, owner = "rabbit", owner' = owner, FullBlock \/ Remainder,
         UNCHANGED object
  PROVE  CipherInv'
<1>1. /\ CryptorInv /\ CryptorType /\ ObjectInv /\ left \in Nat /\ Len(output) \in Nat
      /\ pc # "idle" /\ doing # "idle" /\ pc = "process_bytes" /\ master \in Context
  BY DEF RabbitInv, CryptorInv, CryptorType, ObjectInv, CipherInv, FullBlock, Remainder
<1>2. PICK bytes \in 1 .. BLOCKLENGTH :
        bytes <= left /\ Emit(bytes) /\ (bytes = BLOCKLENGTH \/ bytes = left)
  <2>1. CASE FullBlock
    BY <1>1, <2>1 DEF FullBlock, BLOCKLENGTH
  <2>2. CASE Remainder
    <3>1. left \in 1 .. BLOCKLENGTH /\ left <= left
      BY <2>2 DEF Remainder, BLOCKLENGTH
    <3>2. QED
      BY <2>2, <3>1 DEF Remainder
  <2>3. QED
    BY <2>1, <2>2
<1>3. bytes \in 1 .. 16 /\ bytes \in Nat /\ (bytes = 16 \/ bytes = left)
  BY <1>2 DEF BLOCKLENGTH
<1>4. PICK o \in Nat, q \in Nat : o = Len(output) /\ o = q * 16 /\ work = ContextsOf(master)[q]
  <2>1. left > 0
    BY <1>1, <1>2, <1>3
  <2>2. Len(output) % 16 = 0 /\ work = ContextsOf(master)[Len(output) \div 16]
    BY <1>1, <2>1 DEF CipherInv, BLOCKLENGTH
  <2>3. QED
    BY <1>1, <2>2
<1>5. work' = ContextsOf(master)[q + 1]
  <2>1. ContextsOf(master)[q + 1] = NextState(ContextsOf(master)[q])
    BY <1>1, ContextsFollow DEF Follow
  <2>2. QED
    BY <1>2, <1>4, <2>1 DEF Emit
<1>6. /\ o + bytes <= MaxBytes /\ Len(output') = o + bytes
      /\ \A p \in 1 .. o : output'[p] = output[p]
      /\ \A p \in 1 .. bytes : output'[o + p] = Xor[source[o + p]][Block(work')[p]]
  BY <1>1, <1>2, <1>4, EmitBytes
<1>7. UNCHANGED <<master, pc, source, doing, n, in, pair>> /\ left' = left - bytes
  BY <1>2 DEF Emit, object
<1>8. ASSUME left' > 0
      PROVE  Len(output') % 16 = 0 /\ work' = ContextsOf(master)[Len(output') \div 16]
  <2>1. bytes = 16
    BY <1>1, <1>3, <1>7, <1>8
  <2>2. Len(output') % 16 = 0 /\ Len(output') \div 16 = q + 1
    BY <1>4, <1>6, <2>1
  <2>3. QED
    BY <1>5, <2>2
<1>9. ASSUME NEW p \in 1 .. o + bytes
      PROVE  output'[p] = Xor[source[p]][Pad(master)[p]]
  <2>1. CASE p \in 1 .. o
    BY <1>1, <1>4, <1>6, <2>1 DEF CipherInv
  <2>2. CASE p \notin 1 .. o
    <3>1. PICK d \in 1 .. bytes : p = o + d
      <4>1. p - o \in 1 .. bytes /\ p = o + (p - o)
        BY <1>3, <2>2
      <4>2. QED
        BY <4>1
    <3>2. d \in 1 .. BLOCKLENGTH /\ q * BLOCKLENGTH + d = p /\ q * BLOCKLENGTH + d <= MaxBytes
      <4>1. d \in 1 .. 16 /\ MaxBytes \in Nat /\ o + d <= o + bytes
        BY <1>3, CallerAssumption
      <4>2. QED
        BY <1>4, <1>6, <3>1, <4>1 DEF BLOCKLENGTH
    <3>3. Pad(master)[p] = Block(work')[d]
      BY <1>1, <1>5, <3>2, PadBlock
    <3>4. QED
      BY <1>6, <3>1, <3>3
  <2>3. QED
    BY <2>1, <2>2
<1>10. QED
  BY <1>1, <1>6, <1>7, <1>8, <1>9 DEF CipherInv, BLOCKLENGTH

LEMMA CipherCall ==
  ASSUME RabbitInv, CipherInv, owner = "rabbit", owner' = owner,
         NEW function, NEW loop \in {"encrypt", "decrypt"},
         NEW v \in Nat, NEW bits \in BitLengths, v < Convert!Power[MsgLen(bits)],
         Call(function, loop, v, bits)
  PROVE  CipherInv'
<1>1. /\ doing' = loop /\ n' = bits /\ in' = v /\ pc' = "process_bytes"
      /\ work' = AfterIv(master, work, ZeroIv)
      /\ source' = Convert!ToBytes(v, MsgLen(bits)) /\ output' = << >>
      /\ UNCHANGED <<master, pair>>
  BY DEF Call
<1>2. Len(output') = 0 /\ 0 % 16 = 0 /\ 0 \div 16 = 0
  BY <1>1
<1>3. work' = ContextsOf(master)[0]
  <2>1. master \in Context
    BY DEF RabbitInv, CryptorInv, CryptorType
  <2>2. AfterIv(master, work, ZeroIv) = AfterIv(master, master, ZeroIv)
    BY DEF AfterIv
  <2>3. QED
    BY <1>1, <2>1, <2>2, ContextsFollow DEF Follow
<1>4. QED
  BY <1>1, <1>2, <1>3 DEF CipherInv, BLOCKLENGTH

LEMMA CipherReturn ==
  ASSUME RabbitInv, CipherInv, owner = "rabbit", owner' = owner, CallReturns
  PROVE  CipherInv'
<1>1. /\ left = 0 /\ pc # "idle" /\ doing' = "idle" /\ master' = master
      /\ pair' = IF doing = "encrypt" THEN [n |-> n, in |-> in, out |-> Result] ELSE pair
  BY DEF CallReturns, Return
<1>2. doing # "idle"
  BY <1>1 DEF RabbitInv, ObjectInv
<1>3. CASE doing = "encrypt"
  <2>1. pair'.n = n /\ pair'.in = in /\ pair'.out = Result
    BY <1>1, <1>3
  <2>2. Result = Cipher(master, n, in)
    BY <1>1, <1>2, ResultIsCipher
  <2>3. in \in Nat /\ in < Convert!Power[MsgLen(n)]
    BY <1>2 DEF CipherInv
  <2>4. QED
    BY <1>1, <2>1, <2>2, <2>3 DEF CipherInv
<1>4. CASE doing # "encrypt"
  BY <1>1, <1>4 DEF CipherInv
<1>5. QED
  BY <1>3, <1>4

LEMMA CipherInit == RabbitInit => CipherInv
<1>1. ASSUME RabbitInit
      PROVE  doing = "idle" /\ pair = NoPair
  BY <1>1 DEF RabbitInit
<1>2. QED
  BY <1>1 DEF CipherInv

(* What the object encrypted is a message that the bytes can hold.         *)
LEMMA PairFits ==
  ASSUME RabbitInv, CipherInv, pair # NoPair
  PROVE  /\ pair.n \in BitLengths /\ pair.out \in Nat
         /\ pair.out < Convert!Power[MsgLen(pair.n)]
         /\ Cipher(master, pair.n, pair.out) = pair.in % Two[pair.n]
<1>1. pair.n \in BitLengths /\ pair.out \in Nat /\ master \in Context
  BY DEF RabbitInv, ObjectInv, CryptorInv, CryptorType
<1>2. /\ pair.in \in Nat /\ pair.in < Convert!Power[MsgLen(pair.n)]
      /\ pair.out = Cipher(master, pair.n, pair.in)
  BY DEF CipherInv
<1>3. QED
  BY <1>1, <1>2, CipherFacts

LEMMA CipherInvStep ==
  ASSUME RabbitInv, CipherInv, [OwnerNext]_vars
  PROVE  CipherInv'
<1>1. CASE owner = "rabbit" /\ RabbitNext /\ UNCHANGED owner
  <2>1. CASE (FullBlock \/ Remainder) /\ UNCHANGED object
    BY <1>1, <2>1, CipherPass
  <2>2. CASE CallReturns
    BY <1>1, <2>2, CipherReturn
  <2>3. ASSUME NEW k \in Keys, SetKey(k)
        PROVE  CipherInv'
    <3>1. doing' = "idle" /\ pair' = NoPair
      BY <2>3 DEF SetKey
    <3>2. QED
      BY <3>1 DEF CipherInv, NoPair
  <2>4. ASSUME NEW bits \in BitLengths, NEW v \in Inputs, v < Convert!Power[MsgLen(bits)],
               Call("Encrypt", "encrypt", v, bits) \/ Call("Decrypt", "decrypt", v, bits)
        PROVE  CipherInv'
    <3>1. v \in Nat
      BY MessageAssumption
    <3>2. QED
      BY <1>1, <2>4, <3>1, CipherCall
  <2>5. CASE pair # NoPair /\ Call("Decrypt", "decrypt", pair.out, pair.n)
    BY <1>1, <2>5, PairFits, CipherCall
  <2>6. QED
    BY <1>1, <2>1, <2>2, <2>3, <2>4, <2>5 DEF RabbitNext
<1>2. CASE owner = "caller" /\ Next /\ UNCHANGED object /\ UNCHANGED owner
  <2>1. doing' = doing /\ pair' = pair /\ doing = "idle" /\ pair = NoPair
    BY <1>2 DEF object, RabbitInv, ObjectInv, CipherInv
  <2>2. QED
    BY <2>1 DEF CipherInv, NoPair
<1>3. CASE UNCHANGED vars
  <2>1. UNCHANGED <<master, work, pc, left, source, output, owner, doing, n, in, pair>>
    BY <1>3 DEF vars, cryptor, object
  <2>2. QED
    BY <2>1 DEF CipherInv
<1>4. QED
  BY <1>1, <1>2, <1>3 DEF OwnerNext

LEMMA CipherHolds == RabbitSpec => [](RabbitInv /\ CipherInv)
<1>1. RabbitInit => RabbitInv /\ CipherInv
  BY RabbitInvInit, CipherInit
<1>2. RabbitInv /\ CipherInv /\ [OwnerNext]_vars => RabbitInv' /\ CipherInv'
  BY RabbitInvStep, CipherInvStep
<1>3. QED
  BY <1>1, <1>2, PTL DEF RabbitSpec
-----------------------------------------------------------------------------
LEMMA SameTwo == Interface!Two = Two
BY DEF Two, PowersOf, Interface!Two, Interface!PowersOf

LEMMA ReturnImplements ==
  ASSUME RabbitInv, CipherInv, owner = "rabbit", CallReturns
  PROVE  Interface!EncryptReturns \/ Interface!DecryptReturns
<1>1. /\ doing \in {"encrypt", "decrypt"} /\ left = 0 /\ doing' = "idle" /\ out' = Result
      /\ pair' = IF doing = "encrypt" THEN [n |-> n, in |-> in, out |-> Result] ELSE pair
      /\ UNCHANGED <<n, in, op>>
  BY DEF CallReturns, Return, RabbitInv, ObjectInv
<1>2. /\ n \in BitLengths /\ n \in Nat \ {0} /\ master \in Context
      /\ in \in Nat /\ in < Convert!Power[MsgLen(n)]
  BY <1>1, MessageAssumption DEF RabbitInv, ObjectInv, CryptorInv, CryptorType, CipherInv
<1>3. out' = Cipher(master, n, in)
  BY <1>1, ResultIsCipher
<1>4. out' \in Interface!Residues(n)
  BY <1>2, <1>3, CipherFacts, SameTwo DEF Interface!Residues
<1>5. Interface!Returns
  BY <1>1, <1>4 DEF Interface!Returns
<1>6. ASSUME pair.n = n
      PROVE  /\ pair # NoPair
             /\ out' = pair.out <=> in % Two[n] = pair.in % Two[n]
             /\ in = pair.out => out' = pair.in % Two[n]
  <2>1. pair # NoPair
    BY <1>2, <1>6 DEF NoPair
  <2>2. /\ pair.in \in Nat /\ pair.in < Convert!Power[MsgLen(n)]
        /\ pair.out = Cipher(master, n, pair.in)
    BY <1>6, <2>1 DEF CipherInv
  <2>3. Cipher(master, n, in) = Cipher(master, n, pair.in) <=> in % Two[n] = pair.in % Two[n]
    BY <1>2, <2>2, CipherFacts
  <2>4. in = pair.out => out' = pair.in % Two[n]
    BY <1>3, <1>6, <2>1, PairFits
  <2>5. QED
    BY <1>3, <2>1, <2>2, <2>3, <2>4
<1>7. CASE doing = "encrypt"
  <2>1. pair' = [n |-> n, in |-> in, out |-> out']
    BY <1>1, <1>7
  <2>2. QED
    BY <1>5, <1>6, <1>7, <2>1, SameTwo DEF Interface!EncryptReturns
<1>8. CASE doing = "decrypt"
  BY <1>1, <1>5, <1>6, <1>8, SameTwo DEF Interface!DecryptReturns
<1>9. QED
  BY <1>1, <1>7, <1>8

LEMMA StepImplements ==
  ASSUME RabbitInv, CipherInv, [OwnerNext]_vars
  PROVE  [Interface!Next]_(Interface!vars)
<1>1. CASE UNCHANGED object
  BY <1>1 DEF object, Interface!vars
<1>2. CASE owner = "rabbit" /\ CallReturns
  BY <1>2, ReturnImplements DEF Interface!Next
<1>3. ASSUME NEW k \in Keys, SetKey(k)
      PROVE  Interface!SetKey
  BY <1>3 DEF SetKey, Interface!SetKey, NoPair, Interface!NoPair
<1>4. ASSUME NEW function, NEW loop, NEW v \in Nat, NEW bits \in BitLengths,
             Call(function, loop, v, bits)
      PROVE  Interface!Call(function, loop)
  BY <1>4, MessageAssumption DEF Call, Interface!Call
<1>5. ASSUME pair # NoPair
      PROVE  pair.n \in BitLengths /\ pair.out \in Nat
  BY <1>5, PairFits
<1>6. \A v \in Inputs : v \in Nat
  BY MessageAssumption
<1>7. CASE owner = "rabbit" /\ RabbitNext
  BY <1>1, <1>2, <1>3, <1>4, <1>5, <1>6, <1>7 DEF RabbitNext, Interface!Next
<1>8. UNCHANGED vars => UNCHANGED object
  BY DEF vars
<1>9. QED
  BY <1>1, <1>7, <1>8 DEF OwnerNext

(* Rabbit implements the interface of the encrypters: whatever the object  *)
(* was asked before, and with a key or without one, the low bits of the    *)
(* integers are permuted and Decrypt recovers what Encrypt was given       *)
(* (rabbit.cc:36, 78).                                                     *)
THEOREM ImplementsEncrypter == RabbitSpec => IsEncrypter
<1>1. RabbitInit => Interface!Init
  BY DEF RabbitInit, NoPair, Interface!Init, Interface!NoPair
<1>2. RabbitInv /\ CipherInv /\ [OwnerNext]_vars => [Interface!Next]_(Interface!vars)
  BY StepImplements
<1>3. QED
  BY <1>1, <1>2, CipherHolds, PTL DEF RabbitSpec, IsEncrypter, Interface!Spec
=============================================================================
