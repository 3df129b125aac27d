------------------------------ MODULE FteProofs ------------------------------
(***************************************************************************)
(* Theorems of Fte, for all automata, keys, permutations and objects.  The *)
(* argument for the round trip is that Encrypt walks along a path of the   *)
(* permutation whose inner points are no ranks of ciphertexts, and since   *)
(* there are at least as many ciphertexts as plaintexts, Decrypt walks     *)
(* back along the whole path and stops where it began.                     *)
(***************************************************************************)
EXTENDS Fte, ProofLemmas

(* No language is .+ or .*, whose rankers are not inverse.                 *)
OnlyAutomata == \A L \in Languages : Lang[L].kind \in {"dfa", "bad"}

(* No two objects share the static AES contexts.                           *)
OwnProcess == \A o, q \in Objects : ProcessOf[o] = ProcessOf[q] => o = q

AllKeys == HexKeys \cup OddKeys \cup BadKeys \cup {EmptyKey}
InUse   == HexKeys \cup {Unset}

Pairs == [p : Automata, c : Automata]

Numbers(L) == 0 .. Two[Bits(Lang[L].count)] - 1

EncrypterFor(a) ==
  IF Bits(Lang[a.p].count) < Bits(Lang[a.c].count) THEN "rabbit" ELSE "ffx"

FteType ==
  [plaintext_ranker : Languages \cup {Nothing}, ciphertext_ranker : Languages \cup {Nothing},
   words_p : Nat, words_c : Nat, capacity_p : Nat, capacity_c : Nat,
   encrypter : {"ffx", "rabbit", Nothing}, rabbit_key : InUse,
   key : AllKeys, key_is_set : BOOLEAN, languages_are_set : BOOLEAN]

(* The languages a of the last SetLanguages that returned true are those   *)
(* of the object, with their encrypter.                                    *)
Agrees(f, a) ==
  /\ a \in Pairs
  /\ f.languages_are_set
  /\ f.plaintext_ranker = a.p /\ f.ciphertext_ranker = a.c
  /\ f.words_p = Lang[a.p].count /\ f.words_c = Lang[a.c].count
  /\ f.words_p <= f.words_c
  /\ f.capacity_p = Bits(Lang[a.p].count) /\ f.capacity_c = Bits(Lang[a.c].count)
  /\ f.encrypter = EncrypterFor(a)

Fine(f, a) ==
  /\ f \in FteType
  /\ f.languages_are_set <=> f.encrypter # Nothing
  /\ f.languages_are_set =>
       /\ f.plaintext_ranker \in Languages /\ f.ciphertext_ranker \in Languages
       /\ \E L \in Automata : f.capacity_p = Bits(Lang[L].count)
  /\ f.key \in HexKeys /\ f.encrypter # Nothing => f.key_is_set
  /\ a # Nothing => Agrees(f, a)

ObjectsInv ==
  /\ fte \in [Objects -> FteType]
  /\ agreed \in [Objects -> Pairs \cup {Nothing}]
  /\ aes \in [Processes -> InUse]
  /\ cipher \in DOMAIN Ciphers
  /\ self \in Objects
  /\ \A o \in Objects : Fine(fte[o], agreed[o])

(* What the loops are about.                                               *)
CallInv ==
  /\ pc \in {"idle", "encrypt", "decrypt"}
  /\ pc # "idle" =>
       /\ Ready(self) /\ ret = "none"
       /\ x \in 0 .. Two[fte[self].capacity_p] - 1
  /\ pc = "encrypt" => op = "Encrypt"
  /\ pc = "decrypt" => op = "Decrypt"

Inv == ObjectsInv /\ CallInv /\ EncryptDelivers

(* The key of f is the one its encrypter has, k if that is in the process. *)
KeyIn(f, k) ==
  f.key \in HexKeys /\ f.encrypter # Nothing =>
    f.key = IF f.encrypter = "ffx" THEN k ELSE f.rabbit_key

KeysIn == \A o \in Objects : KeyIn(fte[o], aes[ProcessOf[o]])
-----------------------------------------------------------------------------
(* A number has the bits it takes to write it, and fewer bits are room for *)
(* at most half as many integers.                                          *)
LEMMA BitsFacts ==
  ASSUME NEW words \in Nat
  PROVE  /\ Bits(words) \in Nat \ {0}
         /\ words < Two[Bits(words)]
         /\ Bits(words) > 1 => Two[Bits(words) - 1] <= words
<1>1. 2 \in Nat \ {0, 1} /\ Two = PowersOf(2)
  BY DEF Two
<1>2. /\ SizeInBase(2, words) \in Nat \ {0}
      /\ words < Two[SizeInBase(2, words)]
      /\ SizeInBase(2, words) > 1 => Two[SizeInBase(2, words) - 1] <= words
  BY <1>1, SizeInBaseExists, Zenon
<1>3. QED
  BY <1>2, Zenon DEF Bits

LEMMA TwoPowers ==
  /\ Two \in [Nat -> Nat \ {0}]
  /\ \A i, j \in Nat : i <= j => Two[i] <= Two[j]
<1>1. 2 \in Nat \ {0, 1} /\ IsPowers(Two, 2)
  BY PowersSteps DEF Two
<1>2. \A i, j \in Nat : i <= j => Two[i] <= Two[j]
  BY <1>1, PowersGrow, Zenon
<1>3. QED
  BY <1>1, <1>2, Zenon DEF IsPowers

LEMMA AutomatonFacts ==
  ASSUME NEW L \in Automata
  PROVE  /\ L \in Languages /\ L # Nothing
         /\ Lang[L].count \in Nat
         /\ Bits(Lang[L].count) \in Nat \ {0} /\ Two[Bits(Lang[L].count)] \in Nat \ {0}
         /\ Lang[L].count < Two[Bits(Lang[L].count)]
         /\ \A w \in DOMAIN Lang[L].rank : Lang[L].rank[w] \in Nat
<1>1. L \in Languages /\ L # Nothing /\ Lang[L].count \in Nat
  BY LanguageAssumption DEF Automata
<1>2. \A w \in DOMAIN Lang[L].rank : Lang[L].rank[w] \in Nat
  BY LanguageAssumption DEF Automata
<1>3. Two[Bits(Lang[L].count)] \in Nat \ {0}
  BY <1>1, BitsFacts, TwoPowers
<1>4. QED
  BY <1>1, <1>2, <1>3, BitsFacts

LEMMA GoodLanguage ==
  ASSUME OnlyAutomata, NEW L \in Languages, ~Bad(L)
  PROVE  L \in Automata
BY DEF OnlyAutomata, Bad, Automata

(* Objects other than o are as they were.                                  *)
LEMMA OneObject ==
  ASSUME ObjectsInv, NEW o \in Objects, NEW f, NEW a, Fine(f, a),
         a \in Pairs \cup {Nothing},
         fte' = [fte EXCEPT ![o] = f], agreed' = [agreed EXCEPT ![o] = a],
         aes' \in [Processes -> InUse], cipher' = cipher, self' = self
  PROVE  ObjectsInv' /\ fte'[o] = f
<1>1. f \in FteType
  BY DEF Fine
<1>2. /\ fte' \in [Objects -> FteType] /\ agreed' \in [Objects -> Pairs \cup {Nothing}]
      /\ fte'[o] = f /\ agreed'[o] = a
      /\ \A q \in Objects : q # o => fte'[q] = fte[q] /\ agreed'[q] = agreed[q]
  BY <1>1 DEF ObjectsInv
<1>3. \A q \in Objects : Fine(fte'[q], agreed'[q])
  <2>1. SUFFICES ASSUME NEW q \in Objects
                 PROVE  Fine(fte'[q], agreed'[q])
    OBVIOUS
  <2>2. CASE q = o
    BY <1>2, <2>2
  <2>3. CASE q # o
    BY <1>2, <2>3 DEF ObjectsInv
  <2>4. QED
    BY <2>2, <2>3
<1>4. QED
  BY <1>2, <1>3 DEF ObjectsInv

(* SetLanguages takes over languages that are automata.                    *)
LEMMA WithLanguages ==
  ASSUME NEW f \in FteType, NEW P \in Automata, NEW C \in Automata
  PROVE  LET g == WithCiphertext(WithPlaintext(f, P), C)
         IN  /\ g \in FteType
             /\ g.plaintext_ranker = P /\ g.ciphertext_ranker = C
             /\ g.words_p = Lang[P].count /\ g.words_c = Lang[C].count
             /\ g.capacity_p = Bits(Lang[P].count) /\ g.capacity_c = Bits(Lang[C].count)
             /\ g.encrypter = f.encrypter /\ g.rabbit_key = f.rabbit_key /\ g.key = f.key
             /\ g.key_is_set = f.key_is_set /\ g.languages_are_set = f.languages_are_set
<1>1. /\ Lang[P].kind = "dfa" /\ Lang[C].kind = "dfa"
      /\ P \in Languages /\ C \in Languages
  BY DEF Automata
<1>2. PICK n \in Nat, b \in Nat : n = Lang[P].count /\ b = Bits(Lang[P].count)
  BY AutomatonFacts
<1>3. PICK m \in Nat, d \in Nat : m = Lang[C].count /\ d = Bits(Lang[C].count)
  BY AutomatonFacts
<1>4. PICK h : h = [f EXCEPT !.plaintext_ranker = P, !.words_p = n, !.capacity_p = b]
  OBVIOUS
<1>5. h = WithPlaintext(f, P)
  BY <1>1, <1>2, <1>4 DEF WithPlaintext, WordsInLanguage
<1>6. /\ h \in FteType
      /\ h.plaintext_ranker = P /\ h.words_p = n /\ h.capacity_p = b
      /\ h.encrypter = f.encrypter /\ h.rabbit_key = f.rabbit_key /\ h.key = f.key
      /\ h.key_is_set = f.key_is_set /\ h.languages_are_set = f.languages_are_set
  BY <1>1, <1>4 DEF FteType
<1>7. PICK g : g = [h EXCEPT !.ciphertext_ranker = C, !.words_c = m, !.capacity_c = d]
  OBVIOUS
<1>8. g = WithCiphertext(h, C)
  BY <1>1, <1>3, <1>7 DEF WithCiphertext, WordsInLanguage
<1>9. /\ g \in FteType
      /\ g.ciphertext_ranker = C /\ g.words_c = m /\ g.capacity_c = d
      /\ g.plaintext_ranker = P /\ g.words_p = n /\ g.capacity_p = b
      /\ g.encrypter = h.encrypter /\ g.rabbit_key = h.rabbit_key /\ g.key = h.key
      /\ g.key_is_set = h.key_is_set /\ g.languages_are_set = h.languages_are_set
  BY <1>1, <1>6, <1>7 DEF FteType
<1>10. QED
  BY <1>2, <1>3, <1>5, <1>6, <1>8, <1>9
-----------------------------------------------------------------------------
(* A call that changes the fields of o.                                    *)
Shape(o) ==
  \E f, a :
    /\ fte' = [fte EXCEPT ![o] = f] /\ agreed' = [agreed EXCEPT ![o] = a]
    /\ a \in Pairs \cup {Nothing}
    /\ Fine(f, a)
    /\ aes' \in [Processes -> InUse]
    /\ \A q \in Processes : q # ProcessOf[o] => aes'[q] = aes[q]
    /\ KeyIn(fte[o], aes[ProcessOf[o]]) => KeyIn(f, aes'[ProcessOf[o]])

LEMMA ObjectFacts ==
  ASSUME ObjectsInv, NEW o \in Objects
  PROVE  /\ fte[o] \in FteType /\ Fine(fte[o], agreed[o])
         /\ agreed[o] \in Pairs \cup {Nothing}
         /\ agreed = [agreed EXCEPT ![o] = agreed[o]]
         /\ ProcessOf[o] \in Processes
BY DEF ObjectsInv, Processes

(* An encrypter is given the key k, and takes it if it has 32 digits.      *)
LEMMA ExpandShape ==
  ASSUME ObjectsInv, NEW o \in Objects, NEW g \in FteType, NEW a \in Pairs \cup {Nothing},
         Fine(g, a), NEW k, g.key = k, g.encrypter # Nothing, Expand(o, g, k),
         agreed' = [agreed EXCEPT ![o] = a]
  PROVE  Shape(o)
<1>1. PICK f : f = IF g.encrypter = "rabbit" /\ k \in HexKeys
                     THEN [g EXCEPT !.rabbit_key = k] ELSE g
  OBVIOUS
<1>2. fte' = [fte EXCEPT ![o] = f]
  BY <1>1 DEF Expand
<1>3. /\ f \in FteType
      /\ f.plaintext_ranker = g.plaintext_ranker /\ f.ciphertext_ranker = g.ciphertext_ranker
      /\ f.words_p = g.words_p /\ f.words_c = g.words_c
      /\ f.capacity_p = g.capacity_p /\ f.capacity_c = g.capacity_c
      /\ f.encrypter = g.encrypter /\ f.key = g.key
      /\ f.key_is_set = g.key_is_set /\ f.languages_are_set = g.languages_are_set
      /\ f.encrypter = "rabbit" /\ k \in HexKeys => f.rabbit_key = k
  <2>1. CASE g.encrypter = "rabbit" /\ k \in HexKeys
    BY <1>1, <2>1 DEF FteType, InUse
  <2>2. CASE ~(g.encrypter = "rabbit" /\ k \in HexKeys)
    BY <1>1, <2>2
  <2>3. QED
    BY <2>1, <2>2
<1>4. Fine(f, a)
  BY <1>3 DEF Fine, Agrees
<1>5. /\ aes' \in [Processes -> InUse]
      /\ \A q \in Processes : q # ProcessOf[o] => aes'[q] = aes[q]
      /\ g.encrypter = "ffx" /\ k \in HexKeys => aes'[ProcessOf[o]] = k
  BY ObjectFacts DEF Expand, ObjectsInv, InUse
<1>6. KeyIn(f, aes'[ProcessOf[o]])
  <2>1. g.encrypter \in {"ffx", "rabbit"}
    BY DEF FteType
  <2>2. QED
    BY <1>3, <1>5, <2>1 DEF KeyIn
<1>7. QED
  BY <1>2, <1>4, <1>5, <1>6 DEF Shape

(* The same, of a call that gives no key to an encrypter.                  *)
LEMMA PlainShape ==
  ASSUME ObjectsInv, NEW o \in Objects, NEW f, NEW a \in Pairs \cup {Nothing},
         Fine(f, a), fte' = [fte EXCEPT ![o] = f], agreed' = [agreed EXCEPT ![o] = a],
         aes' = aes,
         KeyIn(fte[o], aes[ProcessOf[o]]) => KeyIn(f, aes[ProcessOf[o]])
  PROVE  Shape(o)
BY DEF Shape, ObjectsInv

LEMMA SetKeyThrowsShape ==
  ASSUME ObjectsInv, NEW o \in Objects, NEW k \in AllKeys, SetKeyThrows(o, k)
  PROVE  Shape(o)
<1>1. PICK f : f = [fte[o] EXCEPT !.key = k]
  OBVIOUS
<1>2. fte' = [fte EXCEPT ![o] = f] /\ aes' = aes /\ agreed' = agreed /\ k \in OddKeys
  BY <1>1 DEF SetKeyThrows, KeyThrows, Call
<1>3. k \notin HexKeys
  BY <1>2, KeyAssumption
<1>4. /\ f \in FteType /\ f.key = k
      /\ f.plaintext_ranker = fte[o].plaintext_ranker
      /\ f.ciphertext_ranker = fte[o].ciphertext_ranker
      /\ f.words_p = fte[o].words_p /\ f.words_c = fte[o].words_c
      /\ f.capacity_p = fte[o].capacity_p /\ f.capacity_c = fte[o].capacity_c
      /\ f.encrypter = fte[o].encrypter
      /\ f.key_is_set = fte[o].key_is_set /\ f.languages_are_set = fte[o].languages_are_set
  BY <1>1, ObjectFacts DEF FteType
<1>5. Fine(f, agreed[o])
  BY <1>3, <1>4, ObjectFacts DEF Fine, Agrees
<1>6. KeyIn(f, aes[ProcessOf[o]])
  BY <1>3, <1>4 DEF KeyIn
<1>7. QED
  BY <1>2, <1>5, <1>6, ObjectFacts, PlainShape

LEMMA SetKeyShape ==
  ASSUME ObjectsInv, NEW o \in Objects, NEW k \in AllKeys, SetKey(o, k)
  PROVE  Shape(o)
<1>1. PICK f : f = [fte[o] EXCEPT !.key = k]
  OBVIOUS
<1>2. PICK g : g = [f EXCEPT !.key_is_set = TRUE]
  OBVIOUS
<1>3. /\ \/ f.encrypter # Nothing /\ Expand(o, g, k)
         \/ f.encrypter = Nothing /\ fte' = [fte EXCEPT ![o] = f] /\ aes' = aes
      /\ agreed' = agreed
  BY <1>1, <1>2 DEF SetKey
<1>4. /\ f \in FteType /\ f.key = k
      /\ f.plaintext_ranker = fte[o].plaintext_ranker
      /\ f.ciphertext_ranker = fte[o].ciphertext_ranker
      /\ f.words_p = fte[o].words_p /\ f.words_c = fte[o].words_c
      /\ f.capacity_p = fte[o].capacity_p /\ f.capacity_c = fte[o].capacity_c
      /\ f.encrypter = fte[o].encrypter
      /\ f.key_is_set = fte[o].key_is_set /\ f.languages_are_set = fte[o].languages_are_set
  BY <1>1, ObjectFacts DEF FteType
<1>5. CASE f.encrypter = Nothing
  <2>1. fte' = [fte EXCEPT ![o] = f] /\ aes' = aes
    BY <1>3, <1>5
  <2>2. Fine(f, agreed[o])
    BY <1>4, <1>5, ObjectFacts DEF Fine, Agrees
  <2>3. KeyIn(f, aes[ProcessOf[o]])
    BY <1>5 DEF KeyIn
  <2>4. QED
    BY <1>3, <2>1, <2>2, <2>3, ObjectFacts, PlainShape
<1>6. CASE f.encrypter # Nothing
  <2>1. Expand(o, g, k)
    BY <1>3, <1>6
  <2>2. /\ g \in FteType /\ g.key = k /\ g.key_is_set
        /\ g.plaintext_ranker = f.plaintext_ranker /\ g.ciphertext_ranker = f.ciphertext_ranker
        /\ g.words_p = f.words_p /\ g.words_c = f.words_c
        /\ g.capacity_p = f.capacity_p /\ g.capacity_c = f.capacity_c
        /\ g.encrypter = f.encrypter /\ g.languages_are_set = f.languages_are_set
    BY <1>2, <1>4 DEF FteType
  <2>3. Fine(g, agreed[o])
    BY <1>4, <2>2, ObjectFacts DEF Fine, Agrees
  <2>4. agreed' = [agreed EXCEPT ![o] = agreed[o]]
    BY <1>3, ObjectFacts
  <2>5. QED
    BY <1>6, <2>1, <2>2, <2>3, <2>4, ObjectFacts, ExpandShape
<1>7. QED
  BY <1>5, <1>6

LEMMA SetLanguagesThrowsShape ==
  ASSUME OnlyAutomata, ObjectsInv, NEW o \in Objects,
         NEW P \in Languages, NEW C \in Languages, SetLanguagesThrows(o, P, C)
  PROVE  Shape(o)
<1>1. PICK f : f = IF Bad(P) THEN [fte[o] EXCEPT !.plaintext_ranker = P]
                   ELSE [WithPlaintext(fte[o], P) EXCEPT !.ciphertext_ranker = C]
  OBVIOUS
<1>2. /\ fte' = [fte EXCEPT ![o] = f] /\ aes' = aes
      /\ agreed' = [agreed EXCEPT ![o] = Nothing]
  BY <1>1, ObjectFacts DEF SetLanguagesThrows, ObjectsInv
<1>3. /\ f \in FteType
      /\ f.plaintext_ranker \in Languages
      /\ f.ciphertext_ranker \in Languages \cup {fte[o].ciphertext_ranker}
      /\ f.capacity_p = fte[o].capacity_p \/ (\E L \in Automata : f.capacity_p = Bits(Lang[L].count))
      /\ f.encrypter = fte[o].encrypter /\ f.key = fte[o].key /\ f.rabbit_key = fte[o].rabbit_key
      /\ f.key_is_set = fte[o].key_is_set /\ f.languages_are_set = fte[o].languages_are_set
  <2>1. CASE Bad(P)
    BY <1>1, <2>1, ObjectFacts DEF FteType
  <2>2. CASE ~Bad(P)
    <3>1. P \in Automata /\ Lang[P].kind = "dfa"
      BY <2>2, GoodLanguage DEF Automata
    <3>2. PICK n \in Nat, b \in Nat : n = Lang[P].count /\ b = Bits(Lang[P].count)
      BY <3>1, AutomatonFacts
    <3>3. f = [[fte[o] EXCEPT !.plaintext_ranker = P, !.words_p = n, !.capacity_p = b]
                 EXCEPT !.ciphertext_ranker = C]
      BY <1>1, <2>2, <3>1, <3>2 DEF WithPlaintext, WordsInLanguage
    <3>4. /\ f \in FteType /\ f.capacity_p = b
          /\ f.plaintext_ranker = P /\ f.ciphertext_ranker = C
          /\ f.encrypter = fte[o].encrypter /\ f.key = fte[o].key
          /\ f.rabbit_key = fte[o].rabbit_key
          /\ f.key_is_set = fte[o].key_is_set /\ f.languages_are_set = fte[o].languages_are_set
      BY <3>3, ObjectFacts DEF FteType
    <3>5. QED
      BY <3>1, <3>2, <3>4
  <2>3. QED
    BY <2>1, <2>2
<1>4. Fine(f, Nothing)
  BY <1>3, ObjectFacts DEF Fine
<1>5. KeyIn(fte[o], aes[ProcessOf[o]]) => KeyIn(f, aes[ProcessOf[o]])
  BY <1>3 DEF KeyIn
<1>6. QED
  BY <1>2, <1>4, <1>5, PlainShape

LEMMA SetLanguagesRefusesShape ==
  ASSUME OnlyAutomata, ObjectsInv, NEW o \in Objects,
         NEW P \in Languages, NEW C \in Languages, SetLanguagesRefuses(o, P, C)
  PROVE  Shape(o)
<1>1. P \in Automata /\ C \in Automata
  BY GoodLanguage DEF SetLanguagesRefuses
<1>2. PICK f : f = WithCiphertext(WithPlaintext(fte[o], P), C)
  OBVIOUS
<1>3. /\ fte' = [fte EXCEPT ![o] = f] /\ aes' = aes
      /\ agreed' = [agreed EXCEPT ![o] = Nothing]
  BY <1>2 DEF SetLanguagesRefuses
<1>4. /\ f \in FteType
      /\ f.plaintext_ranker = P /\ f.ciphertext_ranker = C
      /\ f.capacity_p = Bits(Lang[P].count)
      /\ f.encrypter = fte[o].encrypter /\ f.key = fte[o].key /\ f.rabbit_key = fte[o].rabbit_key
      /\ f.key_is_set = fte[o].key_is_set /\ f.languages_are_set = fte[o].languages_are_set
  BY <1>1, <1>2, ObjectFacts, WithLanguages
<1>5. Fine(f, Nothing)
  BY <1>1, <1>4, ObjectFacts DEF Fine
<1>6. KeyIn(fte[o], aes[ProcessOf[o]]) => KeyIn(f, aes[ProcessOf[o]])
  BY <1>4 DEF KeyIn
<1>7. QED
  BY <1>3, <1>5, <1>6, PlainShape

(* What SetLanguages has made of the object when it hands the key on.      *)
LEMMA Accepted ==
  ASSUME ObjectsInv, NEW o \in Objects, NEW P \in Automata, NEW C \in Automata,
         NEW f, f = WithCiphertext(WithPlaintext(fte[o], P), C), f.words_p <= f.words_c,
         NEW g, g = WithEncrypter(f)
  PROVE  /\ g \in FteType /\ g.encrypter # Nothing /\ g.key = fte[o].key
         /\ g.key_is_set = fte[o].key_is_set
         /\ [p |-> P, c |-> C] \in Pairs
         /\ Agrees(g, [p |-> P, c |-> C])
<1>1. /\ f \in FteType
      /\ f.plaintext_ranker = P /\ f.ciphertext_ranker = C
      /\ f.words_p = Lang[P].count /\ f.words_c = Lang[C].count
      /\ f.capacity_p = Bits(Lang[P].count) /\ f.capacity_c = Bits(Lang[C].count)
      /\ f.key = fte[o].key /\ f.key_is_set = fte[o].key_is_set
  BY ObjectFacts, WithLanguages
<1>2. PICK e \in {"ffx", "rabbit"} : e = IF UseRabbit(f) THEN "rabbit" ELSE "ffx"
  OBVIOUS
<1>3. g = [f EXCEPT !.languages_are_set = TRUE, !.encrypter = e, !.rabbit_key = Unset]
  BY <1>2 DEF WithEncrypter
<1>4. /\ g \in FteType
      /\ g.plaintext_ranker = P /\ g.ciphertext_ranker = C
      /\ g.words_p = f.words_p /\ g.words_c = f.words_c
      /\ g.capacity_p = f.capacity_p /\ g.capacity_c = f.capacity_c
      /\ g.key = f.key /\ g.key_is_set = f.key_is_set
      /\ g.languages_are_set /\ g.encrypter = e
  BY <1>1, <1>3 DEF FteType, InUse
<1>5. e = EncrypterFor([p |-> P, c |-> C])
  <2>1. Lang[C].kind = "dfa"
    BY DEF Automata
  <2>2. UseRabbit(f) <=> Bits(Lang[P].count) < Bits(Lang[C].count)
    BY <1>1, <2>1 DEF UseRabbit
  <2>3. QED
    BY <1>2, <2>2 DEF EncrypterFor
<1>6. [p |-> P, c |-> C] \in Pairs /\ [p |-> P, c |-> C].p = P /\ [p |-> P, c |-> C].c = C
  BY DEF Pairs
<1>7. Agrees(g, [p |-> P, c |-> C])
  BY <1>1, <1>4, <1>5, <1>6 DEF Agrees
<1>8. g.encrypter # Nothing
  BY <1>2, <1>4, LanguageAssumption
<1>9. QED
  BY <1>1, <1>4, <1>6, <1>7, <1>8

LEMMA SetLanguagesAcceptsShape ==
  ASSUME OnlyAutomata, ObjectsInv, NEW o \in Objects,
         NEW P \in Languages, NEW C \in Languages, SetLanguagesAccepts(o, P, C)
  PROVE  Shape(o)
<1>1. P \in Automata /\ C \in Automata
  BY GoodLanguage DEF SetLanguagesAccepts
<1>2. PICK f : f = WithCiphertext(WithPlaintext(fte[o], P), C)
  OBVIOUS
<1>3. PICK g : g = WithEncrypter(f)
  OBVIOUS
<1>4. PICK h : h = [g EXCEPT !.key_is_set = TRUE]
  OBVIOUS
<1>5. PICK a : a = [p |-> P, c |-> C]
  OBVIOUS
<1>6. /\ f.words_p <= f.words_c
      /\ \/ g.key # EmptyKey /\ Expand(o, h, g.key)
         \/ g.key = EmptyKey /\ fte' = [fte EXCEPT ![o] = g] /\ aes' = aes
      /\ agreed' = [agreed EXCEPT ![o] = a]
  BY <1>2, <1>3, <1>4, <1>5 DEF SetLanguagesAccepts
<1>7. /\ g \in FteType /\ g.encrypter # Nothing /\ a \in Pairs /\ Agrees(g, a)
  BY <1>1, <1>2, <1>3, <1>5, <1>6, Accepted
<1>8. CASE g.key = EmptyKey
  <2>1. g.key \notin HexKeys
    BY <1>8, KeyAssumption
  <2>2. Fine(g, a)
    BY <1>1, <1>7, <2>1 DEF Fine, Agrees, Pairs, Automata
  <2>3. KeyIn(g, aes[ProcessOf[o]])
    BY <2>1 DEF KeyIn
  <2>4. QED
    BY <1>6, <1>7, <1>8, <2>2, <2>3, PlainShape
<1>9. CASE g.key # EmptyKey
  <2>1. /\ h \in FteType /\ h.key = g.key /\ h.key_is_set
        /\ h.plaintext_ranker = g.plaintext_ranker /\ h.ciphertext_ranker = g.ciphertext_ranker
        /\ h.words_p = g.words_p /\ h.words_c = g.words_c
        /\ h.capacity_p = g.capacity_p /\ h.capacity_c = g.capacity_c
        /\ h.encrypter = g.encrypter /\ h.languages_are_set = g.languages_are_set
    BY <1>4, <1>7 DEF FteType
  <2>2. Fine(h, a)
    BY <1>1, <1>7, <2>1 DEF Fine, Agrees, Pairs, Automata
  <2>3. Expand(o, h, g.key) /\ agreed' = [agreed EXCEPT ![o] = a]
    BY <1>6, <1>9
  <2>4. QED
    BY <1>7, <2>1, <2>2, <2>3, ExpandShape
<1>10. QED
  BY <1>8, <1>9

LEMMA SetLanguagesKeyThrowsShape ==
  ASSUME OnlyAutomata, ObjectsInv, NEW o \in Objects,
         NEW P \in Languages, NEW C \in Languages, SetLanguagesKeyThrows(o, P, C)
  PROVE  Shape(o)
<1>1. P \in Automata /\ C \in Automata
  BY GoodLanguage DEF SetLanguagesKeyThrows
<1>2. PICK f : f = WithCiphertext(WithPlaintext(fte[o], P), C)
  OBVIOUS
<1>3. PICK g : g = WithEncrypter(f)
  OBVIOUS
<1>4. /\ f.words_p <= f.words_c /\ KeyThrows(g, g.key)
      /\ fte' = [fte EXCEPT ![o] = g] /\ aes' = aes
      /\ agreed' = [agreed EXCEPT ![o] = Nothing]
  BY <1>2, <1>3 DEF SetLanguagesKeyThrows
<1>5. PICK a : a = [p |-> P, c |-> C]
  OBVIOUS
<1>6. /\ g \in FteType /\ g.encrypter # Nothing /\ a \in Pairs /\ Agrees(g, a)
  BY <1>1, <1>2, <1>3, <1>4, <1>5, Accepted
<1>7. g.key \notin HexKeys
  BY <1>4, KeyAssumption DEF KeyThrows
<1>8. Fine(g, Nothing)
  BY <1>6, <1>7 DEF Fine, Agrees, Pairs, Automata
<1>9. KeyIn(g, aes[ProcessOf[o]])
  BY <1>7 DEF KeyIn
<1>10. QED
  BY <1>4, <1>8, <1>9, PlainShape

(* Every call that configures an object.                                   *)
LEMMA ConfigureShape ==
  ASSUME OnlyAutomata, ObjectsInv, NEW o \in Objects, Configure(o)
  PROVE  /\ Shape(o)
         /\ pc = "idle" /\ pc' = "idle" /\ op' \in {"set_key", "SetLanguages"}
         /\ UNCHANGED <<cipher, self, message>>
<1>1. ASSUME NEW k \in HexKeys \cup OddKeys \cup BadKeys, SetKey(o, k) \/ SetKeyThrows(o, k)
      PROVE  Shape(o)
  BY <1>1, SetKeyShape, SetKeyThrowsShape DEF AllKeys
<1>2. ASSUME NEW P \in Languages, NEW C \in Languages,
             \/ SetLanguagesThrows(o, P, C) \/ SetLanguagesRefuses(o, P, C)
             \/ SetLanguagesAccepts(o, P, C) \/ SetLanguagesKeyThrows(o, P, C)
      PROVE  Shape(o)
  BY <1>2, SetLanguagesThrowsShape, SetLanguagesRefusesShape, SetLanguagesAcceptsShape,
     SetLanguagesKeyThrowsShape
<1>3. Shape(o)
  BY <1>1, <1>2 DEF Configure
<1>4. /\ pc = "idle" /\ pc' = "idle" /\ op' \in {"set_key", "SetLanguages"}
      /\ UNCHANGED <<cipher, self, message>>
  BY DEF Configure, SetKey, SetKeyThrows, SetLanguagesThrows, SetLanguagesRefuses,
         SetLanguagesAccepts, SetLanguagesKeyThrows, Call
<1>5. QED
  BY <1>3, <1>4

LEMMA ConfigureStep ==
  ASSUME OnlyAutomata, ObjectsInv, NEW o \in Objects, Configure(o)
  PROVE  /\ ObjectsInv'
         /\ OwnProcess /\ KeysIn => KeysIn'
<1>1. PICK f, a :
        /\ fte' = [fte EXCEPT ![o] = f] /\ agreed' = [agreed EXCEPT ![o] = a]
        /\ a \in Pairs \cup {Nothing}
        /\ Fine(f, a)
        /\ aes' \in [Processes -> InUse]
        /\ \A q \in Processes : q # ProcessOf[o] => aes'[q] = aes[q]
        /\ KeyIn(fte[o], aes[ProcessOf[o]]) => KeyIn(f, aes'[ProcessOf[o]])
  BY ConfigureShape DEF Shape
<1>2. cipher' = cipher /\ self' = self
  BY ConfigureShape
<1>3. ObjectsInv' /\ fte'[o] = f
  BY <1>1, <1>2, OneObject
<1>4. ASSUME OwnProcess, KeysIn, NEW q \in Objects
      PROVE  KeyIn(fte'[q], aes'[ProcessOf[q]])
  <2>1. CASE q = o
    BY <1>1, <1>3, <1>4, <2>1 DEF KeysIn
  <2>2. CASE q # o
    <3>1. ProcessOf[q] \in Processes /\ ProcessOf[q] # ProcessOf[o]
      BY <1>4, <2>2 DEF OwnProcess, Processes
    <3>2. fte'[q] = fte[q] /\ aes'[ProcessOf[q]] = aes[ProcessOf[q]]
      BY <1>1, <2>2, <3>1 DEF ObjectsInv
    <3>3. QED
      BY <1>4, <3>2 DEF KeysIn
  <2>3. QED
    BY <2>1, <2>2
<1>5. QED
  BY <1>3, <1>4 DEF KeysIn
-----------------------------------------------------------------------------
(* The encrypter of an object that is ready permutes the integers of       *)
(* capacity_p bits.                                                        *)
LEMMA PermutationFacts ==
  ASSUME ObjectsInv, NEW o \in Objects, Ready(o)
  PROVE  LET numbers == 0 .. Two[fte[o].capacity_p] - 1
         IN  /\ Two[fte[o].capacity_p] \in Nat \ {0}
             /\ Permutation(o) \in [numbers -> numbers]
             /\ \A u, v \in numbers : Permutation(o)[u] = Permutation(o)[v] => u = v
             /\ \A v \in Nat : Encipher(o, v) \in numbers /\ Decipher(o, v) \in numbers
             /\ \A v \in numbers :
                  /\ Encipher(o, v) = Permutation(o)[v]
                  /\ Permutation(o)[Decipher(o, v)] = v
<1>1. /\ fte[o] \in FteType /\ fte[o].encrypter # Nothing
      /\ fte[o].rabbit_key \in InUse /\ aes[ProcessOf[o]] \in InUse
  BY ObjectFacts DEF Fine, Ready, FteType, ObjectsInv
<1>2. PICK L \in Automata : fte[o].capacity_p = Bits(Lang[L].count)
  BY ObjectFacts DEF Fine, Ready
<1>3. PICK m \in Nat \ {0} : m = Two[fte[o].capacity_p]
  BY <1>2, AutomatonFacts
<1>4. fte[o].encrypter \in {"ffx", "rabbit"}
  BY <1>1 DEF FteType
<1>5. PICK k \in InUse : k = IF fte[o].encrypter = "ffx" THEN aes[ProcessOf[o]]
                             ELSE fte[o].rabbit_key
  BY <1>1
<1>6. PICK p : p = Ciphers[cipher][fte[o].encrypter][k][fte[o].capacity_p]
  OBVIOUS
<1>7. Permutation(o) = p
  BY <1>5, <1>6 DEF Permutation
<1>8. /\ p \in [0 .. m - 1 -> 0 .. m - 1]
      /\ \A u, v \in 0 .. m - 1 : p[u] = p[v] => u = v
      /\ \A v \in 0 .. m - 1 : \E u \in 0 .. m - 1 : p[u] = v
  <2>1. cipher \in DOMAIN Ciphers
    BY DEF ObjectsInv
  <2>2. PICK e \in {"ffx", "rabbit"} : e = fte[o].encrypter
    BY <1>4
  <2>3. p = Ciphers[cipher][e][k][Bits(Lang[L].count)] /\ m = Two[Bits(Lang[L].count)]
    BY <1>2, <1>3, <1>6, <2>2
  <2>4. k \in HexKeys \cup {Unset}
    BY DEF InUse
  <2>5. IsPermutation(p, 0 .. m - 1)
    BY <2>1, <2>2, <2>3, <2>4, CipherAssumption
  <2>6. QED
    BY <2>5 DEF IsPermutation
<1>9. \A v \in Nat : Reduce(o, v) \in 0 .. m - 1
  BY <1>3 DEF Reduce
<1>10. \A v \in 0 .. m - 1 : Reduce(o, v) = v
  BY <1>3 DEF Reduce
<1>11. DOMAIN p = 0 .. m - 1
  BY <1>8
<1>12. ASSUME NEW v \in Nat
       PROVE  /\ Decipher(o, v) \in 0 .. m - 1
              /\ p[Decipher(o, v)] = Reduce(o, v)
  <2>1. \E u \in DOMAIN p : p[u] = Reduce(o, v)
    BY <1>8, <1>9, <1>11
  <2>2. Decipher(o, v) = CHOOSE u \in DOMAIN p : p[u] = Reduce(o, v)
    BY <1>7 DEF Decipher
  <2>3. QED
    BY <1>11, <2>1, <2>2
<1>13. \A v \in Nat : Encipher(o, v) \in 0 .. m - 1
  BY <1>7, <1>8, <1>9 DEF Encipher
<1>14. \A v \in 0 .. m - 1 : v \in Nat /\ Encipher(o, v) = p[v] /\ p[Decipher(o, v)] = v
  BY <1>7, <1>10, <1>12 DEF Encipher
<1>15. QED
  BY <1>3, <1>7, <1>8, <1>12, <1>13, <1>14

LEMMA ConfFacts ==
  ASSUME ObjectsInv, NEW o \in Objects, Conf(o) # Nothing
  PROVE  /\ Conf(o) = [languages |-> agreed[o], key |-> fte[o].key]
         /\ agreed[o] \in Pairs /\ fte[o].key \in HexKeys
         /\ Agrees(fte[o], agreed[o])
         /\ Ready(o)
<1>1. /\ agreed[o] # Nothing /\ fte[o].key \in HexKeys
      /\ Conf(o) = [languages |-> agreed[o], key |-> fte[o].key]
  BY DEF Conf
<1>2. Agrees(fte[o], agreed[o]) /\ agreed[o] \in Pairs
  BY <1>1, ObjectFacts DEF Fine, Agrees
<1>3. Ready(o)
  BY <1>1, <1>2, ObjectFacts DEF Fine, Agrees, Ready
<1>4. QED
  BY <1>1, <1>2, <1>3

LEMMA InvInit ==
  ASSUME Init
  PROVE  Inv
<1>1. NewFte \in FteType
  BY DEF NewFte, FteType, InUse, AllKeys
<1>2. /\ fte \in [Objects -> FteType] /\ agreed \in [Objects -> Pairs \cup {Nothing}]
      /\ aes \in [Processes -> InUse] /\ cipher \in DOMAIN Ciphers /\ self \in Objects
  BY <1>1 DEF Init, InUse
<1>3. \A o \in Objects : fte[o] = NewFte /\ agreed[o] = Nothing
  BY DEF Init
<1>4. Fine(NewFte, Nothing)
  <2>1. NewFte.encrypter = Nothing /\ NewFte.languages_are_set = FALSE
    BY DEF NewFte
  <2>2. QED
    BY <1>1, <2>1 DEF Fine
<1>5. ObjectsInv
  BY <1>2, <1>3, <1>4 DEF ObjectsInv
<1>6. CallInv /\ EncryptDelivers
  BY DEF Init, CallInv, EncryptDelivers
<1>7. QED
  BY <1>5, <1>6 DEF Inv

(* A call that changes no field of any object.                             *)
LEMMA SameObjects ==
  ASSUME ObjectsInv, UNCHANGED <<fte, aes, cipher, agreed>>, self' \in Objects
  PROVE  /\ ObjectsInv' /\ (KeysIn <=> KeysIn')
         /\ \A o : Conf(o)' = Conf(o) /\ (Ready(o)' <=> Ready(o))
BY DEF ObjectsInv, KeysIn, Conf, Ready

(* A call of Encrypt that throws or returns false.                         *)
LEMMA CallEncryptEnds ==
  ASSUME Inv, NEW o \in Objects,
         \/ NotReady(o, "Encrypt")
         \/ \E w \in Plaintexts(o) : RankThrows(o, "Encrypt", fte[o].plaintext_ranker, w)
  PROVE  Inv'
<1>1. /\ pc' = "idle" /\ self' = o /\ UNCHANGED <<fte, aes, cipher, agreed>>
  BY DEF NotReady, RankThrows, Call, Inv
<1>2. ObjectsInv' /\ CallInv'
  BY <1>1, SameObjects DEF Inv, CallInv
<1>3. ASSUME Conf(o) # Nothing
      PROVE  /\ ret' = "threw"
             /\ << >> \in Lang[agreed[o].p].accepted
  <2>1. Ready(o) /\ Agrees(fte[o], agreed[o]) /\ agreed[o] \in Pairs
    BY <1>3, ConfFacts DEF Inv
  <2>2. PICK w \in Plaintexts(o) : RankThrows(o, "Encrypt", fte[o].plaintext_ranker, w)
    BY <2>1 DEF NotReady
  <2>3. PICK P \in Automata : P = agreed[o].p /\ P = fte[o].plaintext_ranker
    BY <2>1 DEF Agrees, Pairs
  <2>4. w \in Lang[P].accepted /\ w \notin DOMAIN Lang[P].rank /\ ret' = "threw"
    BY <2>2, <2>3 DEF RankThrows, Plaintexts, Words, Call
  <2>5. w = << >>
    BY <2>4, AutomatonAssumption DEF IsRanker
  <2>6. QED
    BY <2>3, <2>4, <2>5
<1>4. Conf(self)' = Conf(o)
  BY <1>1 DEF Conf
<1>5. EncryptDelivers'
  BY <1>1, <1>3, <1>4 DEF EncryptDelivers
<1>6. QED
  BY <1>2, <1>5 DEF Inv

(* The same of Decrypt.                                                    *)
LEMMA CallDecryptEnds ==
  ASSUME Inv, NEW o \in Objects,
         \/ NotReady(o, "Decrypt")
         \/ \E w \in Ciphertexts(o) : RankThrows(o, "Decrypt", fte[o].ciphertext_ranker, w)
  PROVE  Inv'
<1>1. /\ pc' = "idle" /\ self' = o /\ op' = "Decrypt" /\ UNCHANGED <<fte, aes, cipher, agreed>>
  BY DEF NotReady, RankThrows, Call, Inv
<1>2. ObjectsInv' /\ CallInv'
  BY <1>1, SameObjects DEF Inv, CallInv
<1>3. EncryptDelivers'
  BY <1>1 DEF EncryptDelivers
<1>4. QED
  BY <1>2, <1>3 DEF Inv

(* A step of a loop, or the call before it, ends below 2 to the power of   *)
(* the capacity.                                                           *)
LEMMA LoopKeeps ==
  ASSUME Inv, NEW o \in Objects, Ready(o), self' = o,
         UNCHANGED <<fte, aes, cipher, agreed>>, ret' = "none",
         \/ pc' = "encrypt" /\ op' = "Encrypt"
         \/ pc' = "decrypt" /\ op' = "Decrypt",
         NEW v \in Nat, x' = Encipher(o, v) \/ x' = Decipher(o, v)
  PROVE  Inv'
<1>1. ObjectsInv' /\ Ready(o)'
  BY SameObjects DEF Inv
<1>2. x' \in 0 .. Two[fte[o].capacity_p] - 1
  <2>1. ObjectsInv
    BY DEF Inv
  <2>2. /\ Encipher(o, v) \in 0 .. Two[fte[o].capacity_p] - 1
        /\ Decipher(o, v) \in 0 .. Two[fte[o].capacity_p] - 1
    BY <2>1, PermutationFacts
  <2>3. QED
    BY <2>2
<1>3. CallInv'
  <2>1. Ready(self)'
    BY <1>1 DEF Ready
  <2>2. x' \in 0 .. Two[fte'[self'].capacity_p] - 1
    BY <1>2
  <2>3. QED
    BY <2>1, <2>2 DEF CallInv
<1>4. EncryptDelivers'
  BY DEF EncryptDelivers
<1>5. QED
  BY <1>1, <1>3, <1>4 DEF Inv

(* A loop is left.                                                         *)
LEMMA ReturnsKeep ==
  ASSUME Inv, EncryptReturns \/ DecryptReturns
  PROVE  Inv'
<1>1. /\ pc' = "idle" /\ UNCHANGED <<fte, aes, cipher, self, op, x, agreed>>
      /\ pc \in {"encrypt", "decrypt"}
  BY DEF EncryptReturns, DecryptReturns, Unranked, Ends
<1>2. self' \in Objects
  BY <1>1 DEF Inv, ObjectsInv
<1>3. ObjectsInv
  BY DEF Inv
<1>4. ObjectsInv' /\ Conf(self)' = Conf(self)
  BY <1>1, <1>2, <1>3, SameObjects DEF Conf
<1>5. CallInv'
  BY <1>1 DEF CallInv
<1>6. CASE DecryptReturns
  <2>1. op' = "Decrypt"
    BY <1>1, <1>6 DEF Inv, CallInv, DecryptReturns
  <2>2. QED
    BY <1>3, <1>4, <1>5, <2>1 DEF Inv, EncryptDelivers
<1>7. CASE EncryptReturns /\ Conf(self) = Nothing
  BY <1>4, <1>5, <1>7 DEF Inv, EncryptDelivers
<1>8. CASE EncryptReturns /\ Conf(self) # Nothing
  <2>1. self \in Objects /\ Agrees(fte[self], agreed[self])
    BY <1>3, <1>8, ConfFacts DEF ObjectsInv
  <2>2. PICK C \in Automata : C = agreed[self].c /\ C = fte[self].ciphertext_ranker
    BY <2>1 DEF Agrees, Pairs
  <2>3. x < Lang[C].count /\ Unranked(C, x)
    BY <1>8, <2>1, <2>2 DEF EncryptReturns, Agrees
  <2>4. x \in 0 .. Lang[C].count - 1
    <3>1. x \in 0 .. Two[fte[self].capacity_p] - 1
      BY <1>1 DEF Inv, CallInv
    <3>2. Two[fte[self].capacity_p] \in Nat
      BY <1>3, <1>8, <2>1, ConfFacts, PermutationFacts
    <3>3. Lang[C].count \in Nat
      BY AutomatonFacts
    <3>4. QED
      BY <2>3, <3>1, <3>2, <3>3
  <2>5. CASE x \in DOMAIN Lang[C].unrank
    <3>1. ret' = "true" /\ out' = Lang[C].unrank[x]
      BY <2>3, <2>5 DEF Unranked, Ends
    <3>2. out' \in Lang[agreed'[self'].c].accepted
      BY <1>1, <2>2, <2>5, <3>1, AutomatonAssumption DEF IsRanker
    <3>3. EncryptDelivers'
      BY <3>1, <3>2 DEF EncryptDelivers
    <3>4. QED
      BY <1>4, <1>5, <3>3 DEF Inv
  <2>6. CASE x \notin DOMAIN Lang[C].unrank
    <3>1. ret' = "threw"
      BY <2>3, <2>6 DEF Unranked, Ends
    <3>2. << >> \in Lang[agreed'[self'].c].accepted
      BY <1>1, <2>2, <2>4, <2>6, AutomatonAssumption DEF IsRanker
    <3>3. EncryptDelivers'
      BY <3>1, <3>2 DEF EncryptDelivers
    <3>4. QED
      BY <1>4, <1>5, <3>3 DEF Inv
  <2>7. QED
    BY <2>5, <2>6
<1>9. QED
  BY <1>6, <1>7, <1>8


(* Rank gives a number for every word for which it returns.                *)
LEMMA RankNat ==
  ASSUME ObjectsInv, NEW o \in Objects, Ready(o),
         NEW L \in {fte[o].plaintext_ranker, fte[o].ciphertext_ranker},
         NEW w \in DOMAIN Lang[L].rank
  PROVE  Lang[L].rank[w] \in Nat
<1>1. L \in Languages
  BY ObjectFacts DEF Fine, Ready
<1>2. QED
  BY <1>1, LanguageAssumption

LEMMA CallsKeep ==
  ASSUME Inv, NEW o \in Objects, CallEncrypt(o) \/ CallDecrypt(o)
  PROVE  Inv'
<1>1. ObjectsInv
  BY DEF Inv
<1>2. ASSUME NEW w \in Plaintexts(o), Encrypt(o, w)
      PROVE  Inv'
  <2>1. PICK L \in {fte[o].plaintext_ranker, fte[o].ciphertext_ranker} :
          L = fte[o].plaintext_ranker
    OBVIOUS
  <2>2. /\ Start(o, "Encrypt", "encrypt", w, Encipher(o, Lang[L].rank[w])) /\ Ready(o)
        /\ w \in DOMAIN Lang[L].rank
    BY <1>2, <2>1 DEF Encrypt
  <2>3. Lang[L].rank[w] \in Nat
    BY <1>1, <2>2, RankNat
  <2>4. QED
    BY <2>2, <2>3, LoopKeeps DEF Start
<1>3. ASSUME NEW w \in Ciphertexts(o), Decrypt(o, w)
      PROVE  Inv'
  <2>1. PICK L \in {fte[o].plaintext_ranker, fte[o].ciphertext_ranker} :
          L = fte[o].ciphertext_ranker
    OBVIOUS
  <2>2. /\ Start(o, "Decrypt", "decrypt", w, Decipher(o, Lang[L].rank[w])) /\ Ready(o)
        /\ w \in DOMAIN Lang[L].rank
    BY <1>3, <2>1 DEF Decrypt
  <2>3. Lang[L].rank[w] \in Nat
    BY <1>1, <2>2, RankNat
  <2>4. QED
    BY <2>2, <2>3, LoopKeeps DEF Start
<1>4. QED
  BY <1>2, <1>3, CallEncryptEnds, CallDecryptEnds DEF CallEncrypt, CallDecrypt

LEMMA WalksKeep ==
  ASSUME Inv, EncryptWalks \/ DecryptWalks
  PROVE  Inv'
<1>1. /\ self \in Objects /\ Ready(self) /\ ret = "none"
      /\ pc = "encrypt" => op = "Encrypt"
      /\ pc = "decrypt" => op = "Decrypt"
  BY DEF Inv, ObjectsInv, CallInv, EncryptWalks, DecryptWalks
<1>2. x \in Nat
  <2>1. Two[fte[self].capacity_p] \in Nat \ {0} /\ x \in 0 .. Two[fte[self].capacity_p] - 1
    BY <1>1, PermutationFacts DEF Inv, CallInv, EncryptWalks, DecryptWalks
  <2>2. QED
    BY <2>1
<1>3. x' = Encipher(self, x) \/ x' = Decipher(self, x)
  BY DEF EncryptWalks, DecryptWalks
<1>4. /\ UNCHANGED <<fte, aes, cipher, agreed>> /\ self' = self /\ ret' = "none"
      /\ \/ pc' = "encrypt" /\ op' = "Encrypt"
         \/ pc' = "decrypt" /\ op' = "Decrypt"
  BY <1>1 DEF EncryptWalks, DecryptWalks
<1>5. QED
  BY <1>1, <1>2, <1>3, <1>4, LoopKeeps

LEMMA InvStep ==
  ASSUME OnlyAutomata, Inv, [Next]_vars
  PROVE  Inv'
<1>1. ASSUME NEW o \in Objects, Configure(o)
      PROVE  Inv'
  <2>1. ObjectsInv'
    BY <1>1, ConfigureStep DEF Inv
  <2>2. pc' = "idle" /\ op' \in {"set_key", "SetLanguages"}
    BY <1>1, ConfigureShape DEF Inv
  <2>3. QED
    BY <2>1, <2>2 DEF Inv, CallInv, EncryptDelivers
<1>2. CASE Step
  BY <1>2, WalksKeep, ReturnsKeep DEF Step
<1>3. CASE UNCHANGED vars
  <2>1. /\ UNCHANGED <<fte, aes, cipher, agreed>> /\ self' = self
        /\ UNCHANGED <<pc, op, ret, x, out>>
    BY <1>3 DEF vars
  <2>2. ObjectsInv'
    BY <2>1, SameObjects DEF Inv, ObjectsInv
  <2>3. CallInv'
    BY <2>1 DEF Inv, CallInv, Ready
  <2>4. EncryptDelivers'
    BY <2>1 DEF Inv, EncryptDelivers, Conf
  <2>5. QED
    BY <2>2, <2>3, <2>4 DEF Inv
<1>4. QED
  BY <1>1, <1>2, <1>3, CallsKeep DEF Next

LEMMA InvHolds == OnlyAutomata => (Spec => []Inv)
<1>1. SUFFICES ASSUME OnlyAutomata
               PROVE  Spec => []Inv
  OBVIOUS
<1>2. Init => Inv
  BY InvInit
<1>3. Inv /\ [Next]_vars => Inv'
  BY <1>1, InvStep
<1>4. QED
  BY <1>2, <1>3, PTL DEF Spec

(* Type correctness: both walks stay below 2 to the power of the capacity, *)
(* and an object that has languages has an encrypter.                      *)
THEOREM TypeCorrect == OnlyAutomata => (Spec => []TypeOK)
<1>1. Inv => TypeOK
  <2>1. SUFFICES ASSUME Inv
                 PROVE  TypeOK
    OBVIOUS
  <2>2. \A o \in Objects : fte[o] \in FteType /\ Fine(fte[o], agreed[o])
    BY <2>1, ObjectFacts DEF Inv
  <2>3. aes \in [Processes -> HexKeys \cup {Unset}]
    BY <2>1 DEF Inv, ObjectsInv, InUse
  <2>4. /\ pc \in {"idle", "encrypt", "decrypt"}
        /\ pc # "idle" =>
             /\ fte[self].key_is_set /\ fte[self].languages_are_set
             /\ x \in 0 .. Two[fte[self].capacity_p] - 1
    BY <2>1 DEF Inv, CallInv, Ready
  <2>5. \A o \in Objects :
          /\ fte[o].plaintext_ranker \in Languages \cup {Nothing}
          /\ fte[o].ciphertext_ranker \in Languages \cup {Nothing}
          /\ fte[o].words_p \in Nat /\ fte[o].words_c \in Nat
          /\ fte[o].encrypter \in {"ffx", "rabbit", Nothing}
          /\ fte[o].languages_are_set => fte[o].encrypter # Nothing
          /\ fte[o].rabbit_key \in HexKeys \cup {Unset}
          /\ fte[o].key \in HexKeys \cup OddKeys \cup BadKeys \cup {EmptyKey}
    BY <2>2 DEF FteType, Fine, InUse, AllKeys
  <2>6. QED
    BY <2>3, <2>4, <2>5 DEF TypeOK
<1>2. QED
  BY <1>1, InvHolds, PTL

(* Encrypt outputs words of the ciphertext language only, for each word    *)
(* whose rank fits Rabbit's buffer (all those of the plaintext language    *)
(* do), and only the empty word makes it throw (fte.h:75).                 *)
THEOREM Delivered == OnlyAutomata => (Spec => []EncryptDelivers)
<1>1. Inv => EncryptDelivers
  BY DEF Inv
<1>2. QED
  BY <1>1, InvHolds, PTL

(* With automata Rabbit is used only when its first result is below the    *)
(* number of ciphertexts (fte.cc:92-96).                                   *)
THEOREM NeverWalks == OnlyAutomata => (Spec => []RabbitNeverWalks)
<1>1. ASSUME Inv, pc = "encrypt", Conf(self) # Nothing, fte[self].encrypter = "rabbit"
      PROVE  x < fte[self].words_c
  <2>1. /\ ObjectsInv /\ self \in Objects /\ Ready(self)
        /\ Agrees(fte[self], agreed[self])
    BY <1>1, ConfFacts DEF Inv, ObjectsInv
  <2>2. PICK P \in Automata, C \in Automata : P = agreed[self].p /\ C = agreed[self].c
    BY <2>1 DEF Agrees, Pairs
  <2>3. /\ fte[self].capacity_p = Bits(Lang[P].count) /\ fte[self].words_c = Lang[C].count
        /\ Bits(Lang[P].count) < Bits(Lang[C].count)
    BY <1>1, <2>1, <2>2 DEF Agrees, EncrypterFor
  <2>4. PICK b \in Nat \ {0}, d \in Nat \ {0} :
          b = Bits(Lang[P].count) /\ d = Bits(Lang[C].count)
    BY AutomatonFacts
  <2>5. d > 1
    BY <2>3, <2>4
  <2>6. Two[b] <= Two[d - 1] /\ Two[d - 1] <= Lang[C].count
    <3>1. Two[d - 1] <= Lang[C].count
      BY <2>4, <2>5, BitsFacts, AutomatonFacts
    <3>2. b <= d - 1 /\ b \in Nat /\ d - 1 \in Nat
      BY <2>3, <2>4, <2>5
    <3>3. Two[b] <= Two[d - 1]
      BY <3>2, TwoPowers, Zenon
    <3>4. QED
      BY <3>1, <3>3
  <2>7. x \in 0 .. Two[b] - 1
    BY <1>1, <2>3, <2>4 DEF Inv, CallInv
  <2>8. Two[b] \in Nat /\ Two[d - 1] \in Nat /\ Lang[C].count \in Nat
    <3>1. b \in Nat /\ d - 1 \in Nat
      BY <2>5
    <3>2. QED
      BY <3>1, AutomatonFacts, TwoPowers
  <2>9. QED
    BY <2>3, <2>6, <2>7, <2>8
<1>2. Inv => RabbitNeverWalks
  BY <1>1 DEF RabbitNeverWalks
<1>3. QED
  BY <1>2, InvHolds, PTL

LEMMA KeysStep ==
  ASSUME OnlyAutomata, OwnProcess, Inv, KeysIn, [Next]_vars
  PROVE  KeysIn'
<1>1. ASSUME NEW o \in Objects, Configure(o)
      PROVE  KeysIn'
  BY <1>1, ConfigureStep DEF Inv
<1>2. CASE UNCHANGED <<fte, aes>>
  BY <1>2 DEF KeysIn
<1>3. CASE Step \/ \E o \in Objects : CallEncrypt(o) \/ CallDecrypt(o)
  <2>1. UNCHANGED <<fte, aes>>
    BY <1>3 DEF Step, CallEncrypt, CallDecrypt, EncryptWalks, DecryptWalks, EncryptReturns,
       DecryptReturns, Unranked, Ends, NotReady, RankThrows, Encrypt, Decrypt, Start
  <2>2. QED
    BY <1>2, <2>1
<1>4. QED
  BY <1>1, <1>2, <1>3 DEF Next, vars

LEMMA KeysHold == OnlyAutomata /\ OwnProcess => (Spec => [](Inv /\ KeysIn))
<1>1. SUFFICES ASSUME OnlyAutomata, OwnProcess
               PROVE  Spec => [](Inv /\ KeysIn)
  OBVIOUS
<1>2. Init => Inv /\ KeysIn
  <2>1. SUFFICES ASSUME Init
                 PROVE  Inv /\ KeysIn
    OBVIOUS
  <2>2. \A o \in Objects : fte[o] = NewFte
    BY <2>1 DEF Init
  <2>3. NewFte.encrypter = Nothing
    BY DEF NewFte
  <2>4. QED
    BY <2>1, <2>2, <2>3, InvInit DEF KeysIn, KeyIn
<1>3. Inv /\ KeysIn /\ [Next]_vars => (Inv /\ KeysIn)'
  BY <1>1, InvStep, KeysStep
<1>4. QED
  BY <1>2, <1>3, PTL DEF Spec

(* An object that was given a key of 32 digits last enciphers with it,     *)
(* whatever was called and whatever failed before (fte.cc:107-121).        *)
THEOREM KeyUsed == OnlyAutomata /\ OwnProcess => (Spec => []KeyInUse)
<1>1. Inv /\ KeysIn => KeyInUse
  <2>1. SUFFICES ASSUME Inv, KeysIn, NEW o \in Objects,
                        fte[o].key \in HexKeys, fte[o].encrypter # Nothing
                 PROVE  /\ Ready(o)
                        /\ fte[o].key = IF fte[o].encrypter = "ffx" THEN aes[ProcessOf[o]]
                                        ELSE fte[o].rabbit_key
    BY DEF KeyInUse
  <2>2. Ready(o)
    BY <2>1, ObjectFacts DEF Inv, Fine, Ready
  <2>3. QED
    BY <2>1, <2>2 DEF KeysIn, KeyIn
<1>2. QED
  BY <1>1, KeysHold, PTL
-----------------------------------------------------------------------------
(* The permutation that objects with the configuration conf compute.       *)
PermOf(conf) ==
  Ciphers[cipher][EncrypterFor(conf.languages)][conf.key][Bits(Lang[conf.languages.p].count)]

(* A walk of m steps of p within S, from first; what it meets between its  *)
(* ends is not below high.                                                 *)
Walk(p, S, first, high, m, path) ==
  /\ m \in Nat \ {0}
  /\ path \in [0 .. m -> S]
  /\ path[0] = first
  /\ \A i \in 0 .. m - 1 : path[i + 1] = p[path[i]]
  /\ \A i \in 1 .. m - 1 : path[i] >= high

(* The walk that enciphers the plaintext w.                                *)
WalkOf(conf, w, m, path) ==
  LET P == conf.languages.p
  IN  /\ w \in Lang[P].accepted \cap DOMAIN Lang[P].rank
      /\ Walk(PermOf(conf), Numbers(P), Lang[P].rank[w], Lang[conf.languages.c].count, m, path)

(* The running Encrypt has come to the end of a walk.                      *)
Encrypting ==
  pc = "encrypt" /\ Conf(self) # Nothing /\ InLanguage(arg) =>
    \E m, path : WalkOf(Conf(self), arg, m, path) /\ x = path[m]

(* The message went a whole walk.                                          *)
Sent(msg, m, path) ==
  LET rank == Lang[msg.conf.languages.c].rank
  IN  /\ msg.conf # Nothing
      /\ msg.cipher # << >>
      /\ msg.cipher \in DOMAIN rank
      /\ WalkOf(msg.conf, msg.plain, m, path)
      /\ rank[msg.cipher] = path[m]

(* A Decrypt of it is on the way back.                                     *)
Back(msg, m, path) ==
  pc = "decrypt" /\ arg = msg.cipher /\ Conf(self) = msg.conf =>
    \E j \in 0 .. m - 1 : x = path[j]

Decrypting ==
  message # Nothing => \E m, path : Sent(message, m, path) /\ Back(message, m, path)

WalkInv ==
  /\ Inv /\ KeysIn
  /\ Encrypting
  /\ Decrypting
  /\ RoundTrip

LEMMA WalkStarts ==
  ASSUME NEW p, NEW S, NEW first \in S, NEW high, p[first] \in S
  PROVE  \E m, path : Walk(p, S, first, high, m, path) /\ p[first] = path[m]
<1>1. PICK path : path = [i \in 0 .. 1 |-> IF i = 0 THEN first ELSE p[first]]
  OBVIOUS
<1>2. path \in [0 .. 1 -> S] /\ path[0] = first /\ path[1] = p[first]
  BY <1>1
<1>3. Walk(p, S, first, high, 1, path)
  BY <1>2 DEF Walk
<1>4. QED
  BY <1>2, <1>3

LEMMA WalkExtends ==
  ASSUME NEW p, NEW S, NEW first, NEW high, NEW m, NEW path,
         Walk(p, S, first, high, m, path), path[m] >= high, p[path[m]] \in S
  PROVE  \E n, longer : Walk(p, S, first, high, n, longer) /\ p[path[m]] = longer[n]
<1>1. m \in Nat \ {0} /\ path \in [0 .. m -> S]
  BY DEF Walk
<1>2. PICK longer : longer = [i \in 0 .. m + 1 |-> IF i = m + 1 THEN p[path[m]] ELSE path[i]]
  OBVIOUS
<1>3. /\ longer \in [0 .. m + 1 -> S]
      /\ longer[m + 1] = p[path[m]]
      /\ \A i \in 0 .. m : longer[i] = path[i]
  BY <1>1, <1>2
<1>4. \A i \in 0 .. m : longer[i + 1] = p[longer[i]]
  <2>1. SUFFICES ASSUME NEW i \in 0 .. m
                 PROVE  longer[i + 1] = p[longer[i]]
    OBVIOUS
  <2>2. CASE i = m
    BY <1>1, <1>3, <2>2
  <2>3. CASE i # m
    <3>1. i \in 0 .. m - 1 /\ i + 1 \in 0 .. m
      BY <1>1, <2>3
    <3>2. path[i + 1] = p[path[i]]
      BY <3>1 DEF Walk
    <3>3. QED
      BY <1>3, <3>1, <3>2
  <2>4. QED
    BY <2>2, <2>3
<1>5. \A i \in 1 .. m : longer[i] >= high
  <2>1. SUFFICES ASSUME NEW i \in 1 .. m
                 PROVE  longer[i] >= high
    OBVIOUS
  <2>2. longer[i] = path[i]
    BY <1>1, <1>3
  <2>3. CASE i = m
    BY <2>2, <2>3
  <2>4. CASE i # m
    <3>1. i \in 1 .. m - 1
      BY <1>1, <2>4
    <3>2. QED
      BY <2>2, <3>1 DEF Walk
  <2>5. QED
    BY <2>3, <2>4
<1>6. longer[0] = first
  BY <1>1, <1>3 DEF Walk
<1>7. Walk(p, S, first, high, m + 1, longer)
  BY <1>1, <1>3, <1>4, <1>5, <1>6 DEF Walk
<1>8. QED
  BY <1>3, <1>7

(* What an object does that was configured throughout.                     *)
LEMMA InOrder ==
  ASSUME ObjectsInv, KeysIn, NEW o \in Objects, Conf(o) # Nothing
  PROVE  /\ Ready(o) /\ Conf(o).languages = agreed[o]
         /\ agreed[o].p \in Automata /\ agreed[o].c \in Automata
         /\ fte[o].plaintext_ranker = agreed[o].p /\ fte[o].ciphertext_ranker = agreed[o].c
         /\ fte[o].words_p = Lang[agreed[o].p].count /\ fte[o].words_c = Lang[agreed[o].c].count
         /\ fte[o].words_p <= fte[o].words_c
         /\ fte[o].capacity_p = Bits(Lang[agreed[o].p].count)
         /\ Permutation(o) = PermOf(Conf(o))
<1>1. /\ Conf(o) = [languages |-> agreed[o], key |-> fte[o].key]
      /\ agreed[o] \in Pairs /\ fte[o].key \in HexKeys
      /\ Agrees(fte[o], agreed[o]) /\ Ready(o)
  BY ConfFacts
<1>2. PICK conf : conf = Conf(o)
  OBVIOUS
<1>3. conf.languages = agreed[o] /\ conf.key = fte[o].key
  BY <1>1, <1>2
<1>4. fte[o].encrypter # Nothing
  BY <1>1, ObjectFacts DEF Fine, Ready
<1>5. fte[o].key = IF fte[o].encrypter = "ffx" THEN aes[ProcessOf[o]] ELSE fte[o].rabbit_key
  BY <1>1, <1>4 DEF KeysIn, KeyIn
<1>6. /\ fte[o].encrypter = EncrypterFor(agreed[o])
      /\ fte[o].capacity_p = Bits(Lang[agreed[o].p].count)
  BY <1>1 DEF Agrees
<1>7. Permutation(o) = PermOf(conf)
  BY <1>3, <1>5, <1>6 DEF Permutation, PermOf
<1>8. QED
  BY <1>1, <1>2, <1>3, <1>7 DEF Agrees, Pairs

LEMMA Ciphering ==
  ASSUME ObjectsInv, KeysIn, NEW o \in Objects, Conf(o) # Nothing,
         NEW S, S = Numbers(agreed[o].p), NEW p, p = PermOf(Conf(o))
  PROVE  /\ \A v \in S : v \in Nat
         /\ \A v \in S : p[v] \in S /\ Encipher(o, v) = p[v]
         /\ \A v \in S : Decipher(o, v) \in S /\ p[Decipher(o, v)] = v
         /\ \A u, v \in S : p[u] = p[v] => u = v
         /\ \A w \in Lang[agreed[o].p].accepted \cap DOMAIN Lang[agreed[o].p].rank :
              Lang[agreed[o].p].rank[w] \in S
<1>1. /\ Ready(o) /\ p = Permutation(o) /\ agreed[o].p \in Automata
      /\ fte[o].capacity_p = Bits(Lang[agreed[o].p].count)
  BY InOrder
<1>2. PICK N \in Nat \ {0} : N = Two[fte[o].capacity_p]
  BY <1>1, PermutationFacts
<1>3. S = 0 .. N - 1
  BY <1>1, <1>2 DEF Numbers
<1>4. /\ p \in [S -> S]
      /\ \A u, v \in S : p[u] = p[v] => u = v
      /\ \A v \in Nat : Encipher(o, v) \in S /\ Decipher(o, v) \in S
      /\ \A v \in S : Encipher(o, v) = p[v] /\ p[Decipher(o, v)] = v
  <2>1. PICK numbers : numbers = 0 .. Two[fte[o].capacity_p] - 1
    OBVIOUS
  <2>2. /\ Permutation(o) \in [numbers -> numbers]
        /\ \A u, v \in numbers : Permutation(o)[u] = Permutation(o)[v] => u = v
        /\ \A v \in Nat : Encipher(o, v) \in numbers /\ Decipher(o, v) \in numbers
        /\ \A v \in numbers :
             /\ Encipher(o, v) = Permutation(o)[v]
             /\ Permutation(o)[Decipher(o, v)] = v
    BY <1>1, <2>1, PermutationFacts
  <2>3. numbers = S
    BY <1>2, <1>3, <2>1
  <2>4. QED
    BY <1>1, <2>2, <2>3
<1>5. PICK P \in Automata : P = agreed[o].p
  BY <1>1
<1>6. Lang[P].count \in Nat /\ Lang[P].count < N
  BY <1>1, <1>2, <1>5, AutomatonFacts
<1>7. ASSUME NEW w \in Lang[P].accepted \cap DOMAIN Lang[P].rank
      PROVE  Lang[P].rank[w] \in S
  <2>1. Lang[P].rank[w] < Lang[P].count
    BY <1>7, AutomatonAssumption DEF IsRanker
  <2>2. Lang[P].rank[w] \in Nat
    BY <1>7, AutomatonFacts
  <2>3. QED
    BY <1>2, <1>3, <1>6, <2>1, <2>2
<1>8. \A v \in S : v \in Nat
  BY <1>2, <1>3
<1>9. QED
  BY <1>4, <1>5, <1>7, <1>8

(* Deciphering goes back along a walk.                                     *)
LEMMA BackOne ==
  ASSUME ObjectsInv, KeysIn, NEW o \in Objects, Conf(o) # Nothing,
         NEW u \in Numbers(agreed[o].p)
  PROVE  Decipher(o, PermOf(Conf(o))[u]) = u
<1>1. PICK S, p : S = Numbers(agreed[o].p) /\ p = PermOf(Conf(o))
  OBVIOUS
<1>2. p[u] \in S
  BY <1>1, Ciphering
<1>3. /\ Decipher(o, p[u]) \in S /\ p[Decipher(o, p[u])] = p[u]
      /\ \A t, v \in S : p[t] = p[v] => t = v
  BY <1>1, <1>2, Ciphering
<1>4. QED
  BY <1>1, <1>3

LEMMA WalkBack ==
  ASSUME NEW p, NEW S, NEW first, NEW high, NEW m, NEW path,
         Walk(p, S, first, high, m, path), NEW j \in 1 .. m
  PROVE  j - 1 \in 0 .. m - 1 /\ path[j - 1] \in S /\ path[j] = p[path[j - 1]]
<1>1. m \in Nat \ {0} /\ path \in [0 .. m -> S]
  BY DEF Walk
<1>2. j - 1 \in 0 .. m - 1 /\ j - 1 + 1 = j
  BY <1>1
<1>3. QED
  BY <1>1, <1>2 DEF Walk
-----------------------------------------------------------------------------
LEMMA SentSame ==
  ASSUME NEW m, NEW path, UNCHANGED <<cipher, message>>, Sent(message, m, path)
  PROVE  Sent(message, m, path)'
BY DEF Sent, WalkOf, PermOf

(* A step that starts and continues no Decrypt of the message.             *)
LEMMA QuietStep ==
  ASSUME Decrypting, UNCHANGED <<cipher, message>>, pc' # "decrypt" \/ arg' = << >>
  PROVE  Decrypting'
<1>1. SUFFICES ASSUME message # Nothing
               PROVE  Decrypting'
  BY DEF Decrypting
<1>2. PICK m, path : Sent(message, m, path)
  BY <1>1 DEF Decrypting
<1>3. Sent(message, m, path)'
  BY <1>2, SentSame
<1>4. message'.cipher # << >>
  BY <1>3 DEF Sent
<1>5. Back(message, m, path)'
  BY <1>4 DEF Back
<1>6. QED
  BY <1>3, <1>5 DEF Decrypting

(* Configure, calls that end at once, and steps that do nothing.           *)
LEMMA WalkQuiet ==
  ASSUME WalkInv, Inv', KeysIn', UNCHANGED <<cipher, message>>,
         pc' = "idle", arg' = << >>
  PROVE  WalkInv'
<1>1. Decrypting'
  BY QuietStep DEF WalkInv
<1>2. Encrypting'
  BY DEF Encrypting
<1>3. RoundTrip'
  <2>1. SUFFICES ASSUME message' # Nothing
                 PROVE  arg' # message'.cipher
    BY DEF RoundTrip
  <2>2. PICK m, path : Sent(message, m, path)'
    BY <1>1, <2>1 DEF Decrypting
  <2>3. QED
    BY <2>2 DEF Sent
<1>4. QED
  BY <1>1, <1>2, <1>3 DEF WalkInv

(* The first step of Encrypt.                                              *)
LEMMA WalkEncrypt ==
  ASSUME WalkInv, Inv', KeysIn', NEW o \in Objects, NEW w, Encrypt(o, w)
  PROVE  WalkInv'
<1>1. /\ pc' = "encrypt" /\ op' = "Encrypt" /\ self' = o /\ arg' = w
      /\ UNCHANGED <<fte, aes, cipher, agreed, message>>
      /\ w \in DOMAIN Lang[fte[o].plaintext_ranker].rank
      /\ x' = Encipher(o, Lang[fte[o].plaintext_ranker].rank[w])
  BY DEF Encrypt, Start
<1>2. Decrypting'
  BY <1>1, QuietStep DEF WalkInv
<1>3. RoundTrip'
  BY <1>1 DEF RoundTrip
<1>4. Encrypting'
  <2>1. SUFFICES ASSUME Conf(self)' # Nothing, InLanguage(arg)'
                 PROVE  \E m, path : WalkOf(Conf(self), arg, m, path)' /\ x' = path[m]
    BY DEF Encrypting
  <2>2. Conf(self)' = Conf(o) /\ Conf(o) # Nothing
    BY <1>1, <2>1 DEF Conf
  <2>3. PICK conf, P, C : conf = Conf(o) /\ P = agreed[o].p /\ C = agreed[o].c
    OBVIOUS
  <2>4. /\ conf.languages.p = P /\ conf.languages.c = C
        /\ fte[o].plaintext_ranker = P
    BY <2>2, <2>3, InOrder DEF WalkInv, Inv
  <2>5. w \in Lang[P].accepted \cap DOMAIN Lang[P].rank
    BY <1>1, <2>1, <2>3, <2>4 DEF InLanguage
  <2>6. PICK p, S : p = PermOf(conf) /\ S = Numbers(P)
    OBVIOUS
  <2>7. PICK first : first = Lang[P].rank[w]
    OBVIOUS
  <2>8. first \in S /\ p[first] \in S /\ Encipher(o, first) = p[first]
    <3>1. first \in S
      BY <2>2, <2>3, <2>5, <2>6, <2>7, Ciphering DEF WalkInv, Inv
    <3>2. QED
      BY <2>2, <2>3, <2>6, <3>1, Ciphering DEF WalkInv, Inv
  <2>9. x' = p[first]
    BY <1>1, <2>4, <2>7, <2>8
  <2>10. PICK m, path : /\ Walk(p, S, first, Lang[C].count, m, path)
                        /\ p[first] = path[m]
    BY <2>8, WalkStarts
  <2>11. PermOf(conf)' = p
    BY <1>1, <2>6 DEF PermOf
  <2>12. WalkOf(Conf(self), arg, m, path)'
    BY <1>1, <2>2, <2>3, <2>4, <2>5, <2>6, <2>7, <2>10, <2>11 DEF WalkOf
  <2>13. QED
    BY <2>9, <2>10, <2>12
<1>5. QED
  BY <1>2, <1>3, <1>4 DEF WalkInv

(* Another step of Encrypt makes the walk longer.                          *)
LEMMA WalkEncryptWalks ==
  ASSUME WalkInv, Inv', KeysIn', EncryptWalks
  PROVE  WalkInv'
<1>1. /\ pc = "encrypt" /\ pc' = "encrypt" /\ x >= fte[self].words_c
      /\ x' = Encipher(self, x)
      /\ UNCHANGED <<fte, aes, cipher, agreed, message, self, arg, op>>
      /\ self \in Objects /\ op = "Encrypt"
  BY DEF EncryptWalks, WalkInv, Inv, ObjectsInv, CallInv
<1>2. Decrypting'
  BY <1>1, QuietStep DEF WalkInv
<1>3. RoundTrip'
  BY <1>1 DEF RoundTrip
<1>4. Encrypting'
  <2>1. SUFFICES ASSUME Conf(self)' # Nothing, InLanguage(arg)'
                 PROVE  \E m, path : WalkOf(Conf(self), arg, m, path)' /\ x' = path[m]
    BY DEF Encrypting
  <2>2. /\ Conf(self)' = Conf(self) /\ Conf(self) # Nothing
        /\ InLanguage(arg)
    BY <1>1, <2>1 DEF Conf, InLanguage
  <2>3. PICK conf, P, C : conf = Conf(self) /\ P = agreed[self].p /\ C = agreed[self].c
    OBVIOUS
  <2>4. /\ conf.languages.p = P /\ conf.languages.c = C
        /\ fte[self].words_c = Lang[C].count
    BY <1>1, <2>2, <2>3, InOrder DEF WalkInv, Inv
  <2>5. PICK n, shorter : WalkOf(conf, arg, n, shorter) /\ x = shorter[n]
    BY <1>1, <2>2, <2>3 DEF WalkInv, Encrypting
  <2>6. PICK p, S, first : p = PermOf(conf) /\ S = Numbers(P) /\ first = Lang[P].rank[arg]
    OBVIOUS
  <2>7. /\ arg \in Lang[P].accepted \cap DOMAIN Lang[P].rank
        /\ Walk(p, S, first, Lang[C].count, n, shorter)
    BY <2>4, <2>5, <2>6 DEF WalkOf
  <2>8. x \in S
    BY <2>5, <2>7 DEF Walk
  <2>9. p[x] \in S /\ Encipher(self, x) = p[x]
    BY <1>1, <2>2, <2>3, <2>6, <2>8, Ciphering DEF WalkInv, Inv
  <2>10. PICK m, path : /\ Walk(p, S, first, Lang[C].count, m, path)
                        /\ p[x] = path[m]
    BY <1>1, <2>4, <2>5, <2>7, <2>9, WalkExtends
  <2>11. PermOf(conf)' = p
    BY <1>1, <2>6 DEF PermOf
  <2>12. WalkOf(Conf(self), arg, m, path)'
    BY <1>1, <2>2, <2>3, <2>4, <2>6, <2>7, <2>10, <2>11 DEF WalkOf
  <2>13. QED
    BY <1>1, <2>9, <2>10, <2>12
<1>5. QED
  BY <1>2, <1>3, <1>4 DEF WalkInv

(* Encrypt returns: its walk is that of the new message.                   *)
LEMMA WalkEncryptReturns ==
  ASSUME WalkInv, Inv', KeysIn', EncryptReturns
  PROVE  WalkInv'
<1>1. /\ pc = "encrypt" /\ pc' = "idle" /\ x < fte[self].words_c
      /\ Unranked(fte[self].ciphertext_ranker, x)
      /\ UNCHANGED <<fte, aes, cipher, agreed, self, arg, x, op>>
      /\ self \in Objects /\ op = "Encrypt"
      /\ message' = IF Conf(self) # Nothing /\ ret' = "true" /\ InLanguage(arg)
                      THEN [conf |-> Conf(self), plain |-> arg, cipher |-> out']
                      ELSE Nothing
  BY DEF EncryptReturns, Unranked, Ends, WalkInv, Inv, ObjectsInv, CallInv
<1>2. Encrypting' /\ RoundTrip'
  BY <1>1 DEF Encrypting, RoundTrip
<1>3. ASSUME message' # Nothing
      PROVE  \E m, path : Sent(message, m, path)'
  <2>1. /\ Conf(self) # Nothing /\ ret' = "true" /\ InLanguage(arg)
        /\ message' = [conf |-> Conf(self), plain |-> arg, cipher |-> out']
    BY <1>1, <1>3
  <2>2. PICK conf, P : conf = Conf(self) /\ P = agreed[self].p
    OBVIOUS
  <2>3. PICK C \in Automata : C = agreed[self].c
    BY <1>1, <2>1, InOrder DEF WalkInv, Inv
  <2>4. /\ conf.languages.p = P /\ conf.languages.c = C
        /\ fte[self].ciphertext_ranker = C
    BY <1>1, <2>1, <2>2, <2>3, InOrder DEF WalkInv, Inv
  <2>5. x \in DOMAIN Lang[C].unrank /\ out' = Lang[C].unrank[x]
    BY <1>1, <2>1, <2>4 DEF Unranked, Ends
  <2>6. out' # << >> /\ out' \in DOMAIN Lang[C].rank /\ Lang[C].rank[out'] = x
    BY <2>5, AutomatonAssumption DEF IsRanker
  <2>7. PICK m, path : WalkOf(conf, arg, m, path) /\ x = path[m]
    BY <1>1, <2>1, <2>2 DEF WalkInv, Encrypting
  <2>8. WalkOf(conf, arg, m, path)'
    BY <1>1, <2>7 DEF WalkOf, PermOf
  <2>9. message'.conf = conf /\ message'.plain = arg /\ message'.cipher = out'
    BY <2>1, <2>2
  <2>10. WalkOf(message.conf, message.plain, m, path)'
    BY <1>1, <2>8, <2>9 DEF WalkOf, PermOf
  <2>11. Sent(message, m, path)'
    BY <2>1, <2>2, <2>4, <2>6, <2>7, <2>9, <2>10 DEF Sent
  <2>12. QED
    BY <2>11
<1>4. Decrypting'
  BY <1>1, <1>3 DEF Decrypting, Back
<1>5. QED
  BY <1>2, <1>4 DEF WalkInv

(* The first step of Decrypt: of the message, one back on its walk.        *)
LEMMA WalkDecrypt ==
  ASSUME WalkInv, Inv', KeysIn', NEW o \in Objects, NEW w, Decrypt(o, w)
  PROVE  WalkInv'
<1>1. /\ pc' = "decrypt" /\ op' = "Decrypt" /\ self' = o /\ arg' = w /\ ret' = "none"
      /\ UNCHANGED <<fte, aes, cipher, agreed, message>>
      /\ x' = Decipher(o, Lang[fte[o].ciphertext_ranker].rank[w])
  BY DEF Decrypt, Start
<1>2. Encrypting' /\ RoundTrip'
  BY <1>1 DEF Encrypting, RoundTrip
<1>3. ASSUME message # Nothing
      PROVE  \E m, path : Sent(message, m, path)' /\ Back(message, m, path)'
  <2>1. PICK m, path : Sent(message, m, path)
    BY <1>3 DEF WalkInv, Decrypting
  <2>2. Sent(message, m, path)'
    BY <1>1, <2>1, SentSame
  <2>3. ASSUME arg' = message'.cipher, Conf(self)' = message'.conf
        PROVE  \E j \in 0 .. m - 1 : x' = path[j]
    <3>1. Conf(o) = message.conf /\ Conf(o) # Nothing /\ w = message.cipher
      BY <1>1, <2>1, <2>3 DEF Conf, Sent
    <3>2. PICK conf, P, C : conf = Conf(o) /\ P = agreed[o].p /\ C = agreed[o].c
      OBVIOUS
    <3>3. /\ conf.languages.p = P /\ conf.languages.c = C
          /\ fte[o].ciphertext_ranker = C
      BY <3>1, <3>2, InOrder DEF WalkInv, Inv
    <3>4. /\ Lang[C].rank[w] = path[m]
          /\ Walk(PermOf(conf), Numbers(P), Lang[P].rank[message.plain],
                  Lang[C].count, m, path)
      BY <2>1, <3>1, <3>2, <3>3 DEF Sent, WalkOf
    <3>5. m \in Nat \ {0}
      BY <3>4 DEF Walk
    <3>6. m \in 1 .. m
      BY <3>5
    <3>7. Decipher(o, path[m]) = path[m - 1] /\ m - 1 \in 0 .. m - 1
      <4>1. PICK p, S : p = PermOf(conf) /\ S = Numbers(P)
        OBVIOUS
      <4>2. m - 1 \in 0 .. m - 1 /\ path[m - 1] \in S /\ path[m] = p[path[m - 1]]
        BY <3>4, <3>6, <4>1, WalkBack
      <4>3. Decipher(o, p[path[m - 1]]) = path[m - 1]
        BY <3>1, <3>2, <4>1, <4>2, BackOne DEF WalkInv, Inv
      <4>4. QED
        BY <4>2, <4>3
    <3>8. x' = path[m - 1]
      BY <1>1, <3>3, <3>4, <3>7
    <3>9. QED
      BY <3>7, <3>8
  <2>4. QED
    BY <2>2, <2>3 DEF Back
<1>4. QED
  BY <1>1, <1>2, <1>3 DEF WalkInv, Decrypting

(* Where a Decrypt of the message stands.                                  *)
LEMMA WalkPosition ==
  ASSUME WalkInv, pc = "decrypt", message # Nothing,
         arg = message.cipher, Conf(self) = message.conf
  PROVE  /\ self \in Objects /\ Conf(self) # Nothing
         /\ \E m, path :
              /\ Sent(message, m, path)
              /\ m \in Nat \ {0} /\ path \in [0 .. m -> Numbers(agreed[self].p)]
              /\ message.plain \in Lang[agreed[self].p].accepted
                                     \cap DOMAIN Lang[agreed[self].p].rank
              /\ path[0] = Lang[agreed[self].p].rank[message.plain]
              /\ Walk(PermOf(Conf(self)), Numbers(agreed[self].p), path[0],
                      Lang[agreed[self].c].count, m, path)
              /\ \E j \in 0 .. m - 1 : x = path[j]
<1>1. self \in Objects
  BY DEF WalkInv, Inv, ObjectsInv
<1>2. PICK m, path : Sent(message, m, path) /\ Back(message, m, path)
  BY DEF WalkInv, Decrypting
<1>3. Conf(self) # Nothing
  BY <1>2 DEF Sent
<1>4. PICK conf, P, C : conf = Conf(self) /\ P = agreed[self].p /\ C = agreed[self].c
  OBVIOUS
<1>5. conf.languages.p = P /\ conf.languages.c = C
  BY <1>1, <1>3, <1>4, InOrder DEF WalkInv, Inv
<1>6. /\ message.plain \in Lang[P].accepted \cap DOMAIN Lang[P].rank
      /\ Walk(PermOf(conf), Numbers(P), Lang[P].rank[message.plain], Lang[C].count, m, path)
  BY <1>2, <1>4, <1>5 DEF Sent, WalkOf
<1>7. /\ m \in Nat \ {0} /\ path \in [0 .. m -> Numbers(P)]
      /\ path[0] = Lang[P].rank[message.plain]
  BY <1>6 DEF Walk
<1>8. \E j \in 0 .. m - 1 : x = path[j]
  BY <1>2 DEF Back
<1>9. Walk(PermOf(conf), Numbers(P), path[0], Lang[C].count, m, path)
  BY <1>6, <1>7
<1>10. QED
  BY <1>1, <1>2, <1>3, <1>4, <1>6, <1>7, <1>8, <1>9

(* Another step of Decrypt goes back by one: the first point of the walk,  *)
(* the rank of a plaintext, is not where it walks on.                      *)
LEMMA WalkDecryptWalks ==
  ASSUME WalkInv, Inv', KeysIn', DecryptWalks
  PROVE  WalkInv'
<1>1. /\ pc = "decrypt" /\ pc' = "decrypt" /\ x >= fte[self].words_p
      /\ x' = Decipher(self, x) /\ ret' = "none"
      /\ UNCHANGED <<fte, aes, cipher, agreed, message, self, arg>>
  BY DEF DecryptWalks, WalkInv, Inv, CallInv
<1>2. Encrypting' /\ RoundTrip'
  BY <1>1 DEF Encrypting, RoundTrip
<1>3. CASE message = Nothing
  BY <1>1, <1>2, <1>3 DEF WalkInv, Decrypting
<1>4. CASE /\ message # Nothing
           /\ ~(arg = message.cipher /\ Conf(self) = message.conf)
  <2>1. PICK m, path : Sent(message, m, path)
    BY <1>4 DEF WalkInv, Decrypting
  <2>2. Sent(message, m, path)'
    BY <1>1, <2>1, SentSame
  <2>3. Conf(self)' = Conf(self)
    BY <1>1 DEF Conf
  <2>4. Back(message, m, path)'
    BY <1>1, <1>4, <2>3 DEF Back
  <2>5. QED
    BY <1>2, <2>2, <2>4 DEF WalkInv, Decrypting
<1>5. CASE message # Nothing /\ arg = message.cipher /\ Conf(self) = message.conf
  <2>1. self \in Objects /\ Conf(self) # Nothing
    BY <1>1, <1>5, WalkPosition
  <2>2. PICK P \in Automata : P = agreed[self].p
    BY <2>1, InOrder DEF WalkInv, Inv
  <2>3. PICK S, p, high :
          S = Numbers(P) /\ p = PermOf(Conf(self)) /\ high = Lang[agreed[self].c].count
    OBVIOUS
  <2>4. PICK m, path :
          /\ Sent(message, m, path)
          /\ m \in Nat \ {0}
          /\ message.plain \in Lang[P].accepted \cap DOMAIN Lang[P].rank
          /\ path[0] = Lang[P].rank[message.plain]
          /\ Walk(p, S, path[0], high, m, path)
          /\ \E j \in 0 .. m - 1 : x = path[j]
    BY <1>1, <1>5, <2>2, <2>3, WalkPosition
  <2>5. PICK j \in 0 .. m - 1 : x = path[j]
    BY <2>4
  <2>6. j # 0
    <3>1. path[0] < Lang[P].count /\ path[0] \in Nat /\ Lang[P].count \in Nat
      BY <2>4, AutomatonAssumption, AutomatonFacts DEF IsRanker
    <3>2. x >= Lang[P].count
      BY <1>1, <2>1, <2>2, InOrder DEF WalkInv, Inv
    <3>3. QED
      BY <2>5, <3>1, <3>2
  <2>7. j \in 1 .. m /\ j - 1 \in 0 .. m - 1
    BY <2>4, <2>6
  <2>8. path[j - 1] \in S /\ path[j] = p[path[j - 1]]
    BY <2>4, <2>7, WalkBack
  <2>9. Decipher(self, p[path[j - 1]]) = path[j - 1]
    BY <2>1, <2>2, <2>3, <2>8, BackOne DEF WalkInv, Inv
  <2>10. x' = path[j - 1]
    BY <1>1, <2>5, <2>8, <2>9
  <2>11. Back(message, m, path)'
    BY <2>7, <2>10 DEF Back
  <2>12. Sent(message, m, path)'
    BY <1>1, <2>4, SentSame
  <2>13. QED
    BY <1>2, <2>11, <2>12 DEF WalkInv, Decrypting
<1>6. QED
  BY <1>3, <1>4, <1>5

(* Decrypt returns: it is at the beginning of the walk, because the points *)
(* behind it are no ranks of ciphertexts, and even less of plaintexts.     *)
LEMMA WalkDecryptReturns ==
  ASSUME WalkInv, Inv', KeysIn', DecryptReturns
  PROVE  WalkInv'
<1>1. /\ pc = "decrypt" /\ pc' = "idle" /\ x < fte[self].words_p
      /\ Unranked(fte[self].plaintext_ranker, x)
      /\ UNCHANGED <<fte, aes, cipher, agreed, message, self, arg, x>>
  BY DEF DecryptReturns, Unranked, Ends
<1>2. Encrypting' /\ Decrypting'
  BY <1>1, QuietStep DEF Encrypting, WalkInv
<1>3. ASSUME message # Nothing, arg = message.cipher, Conf(self) = message.conf
      PROVE  ret' = "true" /\ out' = message.plain
  <2>1. self \in Objects /\ Conf(self) # Nothing
    BY <1>1, <1>3, WalkPosition
  <2>2. PICK P \in Automata, C \in Automata : P = agreed[self].p /\ C = agreed[self].c
    BY <2>1, InOrder DEF WalkInv, Inv
  <2>3. PICK S, p : S = Numbers(P) /\ p = PermOf(Conf(self))
    OBVIOUS
  <2>4. /\ fte[self].plaintext_ranker = P /\ fte[self].words_p = Lang[P].count
        /\ Lang[P].count <= Lang[C].count
    BY <2>1, <2>2, InOrder DEF WalkInv, Inv
  <2>5. PICK m, path :
          /\ m \in Nat \ {0} /\ path \in [0 .. m -> S]
          /\ message.plain \in Lang[P].accepted \cap DOMAIN Lang[P].rank
          /\ path[0] = Lang[P].rank[message.plain]
          /\ Walk(p, S, path[0], Lang[C].count, m, path)
          /\ \E j \in 0 .. m - 1 : x = path[j]
    BY <1>1, <1>3, <2>2, <2>3, WalkPosition
  <2>6. PICK j \in 0 .. m - 1 : x = path[j]
    BY <2>5
  <2>7. j = 0
    <3>1. SUFFICES ASSUME j # 0
                   PROVE  FALSE
      OBVIOUS
    <3>2. j \in 1 .. m - 1
      BY <2>5, <3>1
    <3>3. x >= Lang[C].count
      BY <2>5, <2>6, <3>2 DEF Walk
    <3>4. Lang[P].count \in Nat /\ Lang[C].count \in Nat
      BY AutomatonFacts
    <3>5. x \in Nat
      <4>1. j \in 0 .. m /\ path[j] \in S
        BY <2>5, <2>6
      <4>2. QED
        BY <2>2, <2>3, <2>6, <4>1, AutomatonFacts DEF Numbers
    <3>6. QED
      BY <1>1, <2>4, <3>3, <3>4, <3>5
  <2>8. x = Lang[P].rank[message.plain]
    BY <2>5, <2>6, <2>7
  <2>9. x \in DOMAIN Lang[P].unrank /\ Lang[P].unrank[x] = message.plain
    BY <2>5, <2>8, AutomatonAssumption DEF IsRanker
  <2>10. QED
    BY <1>1, <2>4, <2>9 DEF Unranked, Ends
<1>4. Conf(self)' = Conf(self)
  BY <1>1 DEF Conf
<1>5. RoundTrip'
  BY <1>1, <1>3, <1>4 DEF RoundTrip
<1>6. QED
  BY <1>2, <1>5 DEF WalkInv

LEMMA WalkStep ==
  ASSUME OnlyAutomata, OwnProcess, WalkInv, [Next]_vars
  PROVE  WalkInv'
<1>1. Inv' /\ KeysIn'
  BY InvStep, KeysStep DEF WalkInv
<1>2. ASSUME NEW o \in Objects, Configure(o)
      PROVE  WalkInv'
  <2>1. /\ UNCHANGED <<cipher, message>> /\ pc' = "idle" /\ arg' = << >>
    BY <1>2 DEF Configure, SetKey, SetKeyThrows, SetLanguagesThrows, SetLanguagesRefuses,
       SetLanguagesAccepts, SetLanguagesKeyThrows, Call
  <2>2. QED
    BY <1>1, <2>1, WalkQuiet
<1>3. ASSUME NEW o \in Objects, CallEncrypt(o) \/ CallDecrypt(o)
      PROVE  WalkInv'
  <2>1. CASE \E w : Encrypt(o, w)
    BY <1>1, <2>1, WalkEncrypt
  <2>2. CASE \E w : Decrypt(o, w)
    BY <1>1, <2>2, WalkDecrypt
  <2>3. CASE \/ NotReady(o, "Encrypt") \/ NotReady(o, "Decrypt")
             \/ \E w : RankThrows(o, "Encrypt", fte[o].plaintext_ranker, w)
             \/ \E w : RankThrows(o, "Decrypt", fte[o].ciphertext_ranker, w)
    <3>1. UNCHANGED <<cipher, message>> /\ pc' = "idle" /\ arg' = << >>
      BY <2>3 DEF NotReady, RankThrows, Call, WalkInv, Inv
    <3>2. QED
      BY <1>1, <3>1, WalkQuiet
  <2>4. QED
    BY <1>3, <2>1, <2>2, <2>3 DEF CallEncrypt, CallDecrypt
<1>4. CASE Step
  BY <1>1, <1>4, WalkEncryptWalks, WalkEncryptReturns, WalkDecryptWalks, WalkDecryptReturns
  DEF Step
<1>5. CASE UNCHANGED vars
  <2>1. /\ UNCHANGED <<fte, aes, cipher, agreed, message>>
        /\ UNCHANGED <<pc, self, arg, x, out, op, ret>>
    BY <1>5 DEF vars
  <2>2. Conf(self)' = Conf(self)
    BY <2>1 DEF Conf
  <2>3. Encrypting' /\ RoundTrip'
    BY <2>1, <2>2 DEF WalkInv, Encrypting, RoundTrip, InLanguage, WalkOf, PermOf
  <2>4. Decrypting'
    BY <2>1, <2>2 DEF WalkInv, Decrypting, Sent, Back, WalkOf, PermOf
  <2>5. QED
    BY <1>1, <2>3, <2>4 DEF WalkInv
<1>6. QED
  BY <1>2, <1>3, <1>4, <1>5 DEF Next

(* Decrypt recovers what Encrypt was given, on every object of the same    *)
(* languages and the same key of 32 digits, for every family of            *)
(* permutations, and however long the walks are (fte.h:82-84).             *)
THEOREM RoundTripHolds == OnlyAutomata /\ OwnProcess => (Spec => []RoundTrip)
<1>1. SUFFICES ASSUME OnlyAutomata, OwnProcess
               PROVE  Spec => []RoundTrip
  OBVIOUS
<1>2. Init /\ KeysIn => WalkInv
  <2>1. SUFFICES ASSUME Init, KeysIn
                 PROVE  WalkInv
    OBVIOUS
  <2>2. Encrypting /\ Decrypting /\ RoundTrip
    BY <2>1 DEF Init, Encrypting, Decrypting, RoundTrip
  <2>3. QED
    BY <2>1, <2>2, InvInit DEF WalkInv
<1>3. WalkInv /\ [Next]_vars => WalkInv'
  BY <1>1, WalkStep
<1>4. WalkInv => RoundTrip
  BY DEF WalkInv
<1>5. Spec => [](Inv /\ KeysIn)
  BY <1>1, KeysHold
<1>6. QED
  BY <1>2, <1>3, <1>4, <1>5, PTL DEF Spec
=============================================================================
