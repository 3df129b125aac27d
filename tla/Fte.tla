--------------------------------- MODULE Fte ---------------------------------
(***************************************************************************)
(* Objects of class fte::Fte: rank a plaintext, encipher the rank until it *)
(* falls into the ciphertext language (cycle walking), unrank it; and      *)
(* back.                                                                   *)
(*                                                                         *)
(* A step of the model is SetLanguages or set_key with one of its          *)
(* outcomes, or one use of the encrypter in Encrypt or Decrypt.  The       *)
(* program is single-threaded: a call runs to its end before the next one  *)
(* of any object starts.  AES keeps its expanded key in static variables,  *)
(* one for each process; Rabbit keeps it in the object.                    *)
(*                                                                         *)
(* Lang[L] is what a ranker makes of the language L:                       *)
(*   kind      "dfa", "plus" for .+, "star" for .* , or "bad", a text that *)
(*             SetLanguage cannot parse, after which the counts throw      *)
(*   count     what WordsInLanguage adds or assigns                        *)
(*   accepted  the words of the language, up to its maximum length         *)
(*   rank      what Rank leaves in its result, on the words for which it   *)
(*             returns, words outside the language among them              *)
(*   unrank    Unrank, on the integers for which it returns                *)
(* Ciphers[cipher][e][k][n] is the permutation of the integers of n bits   *)
(* that the encrypter e computes under the key k.                          *)
(***************************************************************************)
EXTENDS Powers, Ranker

CONSTANTS
  Objects,    \* the Fte objects
  ProcessOf,  \* the process each of them lives in
  Languages,  \* pairs of a DFA text and a maximum word length
  Lang,
  HexKeys,    \* keys of 32 hexadecimal digits
  OddKeys,    \* keys of 32 characters that GMP cannot read as a hexadecimal number
  BadKeys,    \* keys of another length, which both encrypters reject; may hold EmptyKey
  Ciphers,    \* the families of permutations to check, by name
  ByteBits,   \* the bits of a byte: 8 in the code
  Nothing     \* NULL, and the absence of a configuration or a message

Processes == {ProcessOf[o] : o \in Objects}

EmptyKey == ""         \* key_ of a new object
Unset    == "unset"    \* no key has been expanded

ASSUME LanguageAssumption ==
  /\ Nothing \notin Languages \cup {"ffx", "rabbit"}
  /\ \A L \in Languages :
       /\ Lang[L].kind \in {"dfa", "plus", "star", "bad"}
       /\ Lang[L].count \in Nat
       /\ \A w \in DOMAIN Lang[L].rank : Lang[L].rank[w] \in Nat

Automata == {L \in Languages : Lang[L].kind = "dfa"}

(* Every automaton gets a ranker, which DfaLanguageProofs shows of          *)
(* DfaRanker.                                                              *)
ASSUME AutomatonAssumption == \A L \in Automata : IsRanker(Lang[L])

ASSUME KeyAssumption ==
  /\ HexKeys \cap (OddKeys \cup BadKeys) = {} /\ OddKeys \cap BadKeys = {}
  /\ EmptyKey \notin HexKeys \cup OddKeys
  /\ Unset \notin HexKeys \cup OddKeys \cup BadKeys

ASSUME ByteAssumption == ByteBits \in Nat \ {0}

VARIABLES
  fte,      \* the fields of each object
  aes,      \* the static AES contexts of each process: the key, or Unset
  cipher,   \* the name of the permutations, which never changes
  pc,       \* "idle", or the loop that is running
  self,     \* the object whose Encrypt or Decrypt is running or ran last
  arg,      \* its argument
  x,        \* the integer it has reached
  out,      \* *ciphertext or *plaintext
  op, ret,  \* the function last called, and how it ended
  agreed,   \* history: the languages of the last SetLanguages that returned true
  message   \* history: the last Encrypt of an object in good order

vars == <<fte, aes, cipher, pc, self, arg, x, out, op, ret, agreed, message>>

(* mpz_sizeinbase(words, kFfxRadix).                                       *)
Bits(words) == SizeInBase(2, words)

IsPermutation(p, S) ==
  /\ p \in [S -> S]
  /\ \A u, v \in S : p[u] = p[v] => u = v
  /\ \A v \in S : \E u \in S : p[u] = v

(* Ffx and Rabbit permute the integers of n bits.                          *)
ASSUME CipherAssumption ==
  \A c \in DOMAIN Ciphers, e \in {"ffx", "rabbit"}, k \in HexKeys \cup {Unset}, L \in Automata :
    IsPermutation(Ciphers[c][e][k][Bits(Lang[L].count)], 0 .. Two[Bits(Lang[L].count)] - 1)

(* WordsInLanguage(&words): the rankers of .+ and .* add to the variable.  *)
WordsInLanguage(L, words) ==
  IF Lang[L].kind \in {"plus", "star"} THEN words + Lang[L].count ELSE Lang[L].count

Bad(L) == Lang[L].kind = "bad"

NewFte ==
  [plaintext_ranker |-> Nothing, ciphertext_ranker |-> Nothing,
   words_p |-> 0, words_c |-> 0,
   capacity_p |-> 1, capacity_c |-> 1,     \* not initialised, and not used before SetLanguages
   encrypter |-> Nothing, rabbit_key |-> Unset,
   key |-> EmptyKey, key_is_set |-> FALSE, languages_are_set |-> FALSE]

(* The configuration in which the caller has put an object, when all of it *)
(* was accepted: two endpoints with equal ones can talk to each other.     *)
Conf(o) ==
  IF agreed[o] # Nothing /\ fte[o].key \in HexKeys
    THEN [languages |-> agreed[o], key |-> fte[o].key]
    ELSE Nothing
-----------------------------------------------------------------------------
Init ==
  /\ fte = [o \in Objects |-> NewFte]
  /\ aes = [p \in Processes |-> Unset]
  /\ cipher \in DOMAIN Ciphers
  /\ pc = "idle"
  /\ self \in Objects
  /\ arg = << >> /\ x = 0 /\ out = << >>
  /\ op = "none" /\ ret = "none"
  /\ agreed = [o \in Objects |-> Nothing]
  /\ message = Nothing

(* Rabbit hands the key to GMP unseen, and mpz_class throws if it cannot   *)
(* read it.                                                                *)
KeyThrows(f, k) == f.encrypter = "rabbit" /\ k \in OddKeys

(* encrypter_->SetKey(k) of an object in the state f.  The encrypters       *)
(* refuse other keys, and the object ignores that.                         *)
Expand(o, f, k) ==
  /\ fte' = [fte EXCEPT ![o] =
               IF f.encrypter = "rabbit" /\ k \in HexKeys THEN [f EXCEPT !.rabbit_key = k] ELSE f]
  /\ aes' = IF f.encrypter = "ffx" /\ k \in HexKeys
              THEN [aes EXCEPT ![ProcessOf[o]] = k] ELSE aes

(* A call that ends at once.                                               *)
Call(function, result) ==
  /\ pc = "idle"
  /\ op' = function
  /\ ret' = result
  /\ arg' = << >> /\ x' = 0 /\ out' = << >>
  /\ UNCHANGED pc

(* set_key throws: key_ is replaced, the encrypter keeps what it had.      *)
SetKeyThrows(o, k) ==
  /\ KeyThrows(fte[o], k)
  /\ Call("set_key", "threw")
  /\ fte' = [fte EXCEPT ![o].key = k]
  /\ UNCHANGED <<aes, cipher, self, agreed, message>>

(* set_key: the encrypter, if there is one, gets the key at once.          *)
SetKey(o, k) ==
  /\ ~KeyThrows(fte[o], k)
  /\ Call("set_key", "true")
  /\ LET f == [fte[o] EXCEPT !.key = k]
     IN  \/ /\ f.encrypter # Nothing
            /\ Expand(o, [f EXCEPT !.key_is_set = TRUE], k)
         \/ /\ f.encrypter = Nothing
            /\ fte' = [fte EXCEPT ![o] = f]
            /\ UNCHANGED aes
  /\ UNCHANGED <<cipher, self, agreed, message>>

(* SetLanguages up to line 63, and up to line 81, when nothing throws.     *)
WithPlaintext(f, P) ==
  LET words == WordsInLanguage(P, f.words_p)
  IN  [f EXCEPT !.plaintext_ranker = P, !.words_p = words, !.capacity_p = Bits(words)]

WithCiphertext(f, C) ==
  LET words == WordsInLanguage(C, f.words_c)
  IN  [f EXCEPT !.ciphertext_ranker = C, !.words_c = words, !.capacity_c = Bits(words)]

(* Mutation: rabbit also when the capacities are equal.                    *)
UseRabbitWhenEqual(f) == f.capacity_p <= f.capacity_c

(* use_rabbit                                                              *)
UseRabbit(f) ==
  \/ f.capacity_p < f.capacity_c
  \/ Lang[f.ciphertext_ranker].kind \in {"plus", "star"}

(* A new encrypter, without a key as yet.                                  *)
WithEncrypter(f) ==
  [f EXCEPT !.languages_are_set = TRUE,
            !.encrypter = IF UseRabbit(f) THEN "rabbit" ELSE "ffx",
            !.rabbit_key = Unset]

(* A text that is not a DFA: WordsInLanguage throws, and leaves the object *)
(* between its old languages and its new ones.                             *)
SetLanguagesThrows(o, P, C) ==
  /\ Bad(P) \/ Bad(C)
  /\ Call("SetLanguages", "threw")
  /\ fte' = [fte EXCEPT ![o] =
               IF Bad(P) THEN [@ EXCEPT !.plaintext_ranker = P]
                         ELSE [WithPlaintext(@, P) EXCEPT !.ciphertext_ranker = C]]
  /\ agreed' = [agreed EXCEPT ![o] = Nothing]
  /\ UNCHANGED <<aes, cipher, self, message>>

(* Too few ciphertexts: false, with everything overwritten but             *)
(* languages_are_set_, encrypter_ and key_is_set_.                         *)
SetLanguagesRefuses(o, P, C) ==
  /\ ~Bad(P) /\ ~Bad(C)
  /\ Call("SetLanguages", "false")
  /\ LET f == WithCiphertext(WithPlaintext(fte[o], P), C)
     IN  /\ f.words_p > f.words_c
         /\ fte' = [fte EXCEPT ![o] = f]
  /\ agreed' = [agreed EXCEPT ![o] = Nothing]
  /\ UNCHANGED <<aes, cipher, self, message>>

(* Mutation: the key that set_key stored is not given to the encrypter.    *)
SetLanguagesForgetsKey(o, P, C) ==
  /\ ~Bad(P) /\ ~Bad(C)
  /\ Call("SetLanguages", "true")
  /\ LET f == WithCiphertext(WithPlaintext(fte[o], P), C)
         g == WithEncrypter(f)
     IN  /\ f.words_p <= f.words_c
         /\ fte' = [fte EXCEPT ![o] = [g EXCEPT !.key_is_set = TRUE]]
         /\ UNCHANGED aes
  /\ agreed' = [agreed EXCEPT ![o] = [p |-> P, c |-> C]]
  /\ UNCHANGED <<cipher, self, message>>

(* The languages are accepted: a new encrypter, with key_ unless that is   *)
(* empty.                                                                  *)
SetLanguagesAccepts(o, P, C) ==
  /\ ~Bad(P) /\ ~Bad(C)
  /\ Call("SetLanguages", "true")
  /\ LET f == WithCiphertext(WithPlaintext(fte[o], P), C)
         g == WithEncrypter(f)
     IN  /\ f.words_p <= f.words_c
         /\ ~KeyThrows(g, g.key)
         /\ \/ /\ g.key # EmptyKey
               /\ Expand(o, [g EXCEPT !.key_is_set = TRUE], g.key)
            \/ /\ g.key = EmptyKey
               /\ fte' = [fte EXCEPT ![o] = g]
               /\ UNCHANGED aes
  /\ agreed' = [agreed EXCEPT ![o] = [p |-> P, c |-> C]]
  /\ UNCHANGED <<cipher, self, message>>

(* They are, but the new encrypter throws when it is given the key: it      *)
(* stays without one, and key_is_set_ as it was.                           *)
SetLanguagesKeyThrows(o, P, C) ==
  /\ ~Bad(P) /\ ~Bad(C)
  /\ Call("SetLanguages", "threw")
  /\ LET f == WithCiphertext(WithPlaintext(fte[o], P), C)
         g == WithEncrypter(f)
     IN  /\ f.words_p <= f.words_c
         /\ KeyThrows(g, g.key)
         /\ fte' = [fte EXCEPT ![o] = g]
  /\ agreed' = [agreed EXCEPT ![o] = Nothing]
  /\ UNCHANGED <<aes, cipher, self, message>>
-----------------------------------------------------------------------------
(* The permutation that the encrypter of o computes.                       *)
Permutation(o) ==
  Ciphers[cipher][fte[o].encrypter]
    [IF fte[o].encrypter = "ffx" THEN aes[ProcessOf[o]] ELSE fte[o].rabbit_key]
    [fte[o].capacity_p]

(* Ffx takes its argument modulo 2^n.  Rabbit takes its result so, which   *)
(* is the same: bit by bit, the argument is added to a keystream.          *)
Reduce(o, v) == v % Two[fte[o].capacity_p]

Encipher(o, v) == Permutation(o)[Reduce(o, v)]

(* Mutation: decryption enciphers, as a stream cipher may.                 *)
DecipherForward(o, v) == Permutation(o)[Reduce(o, v)]

Decipher(o, v) == CHOOSE u \in DOMAIN Permutation(o) : Permutation(o)[u] = Reduce(o, v)

(* Mutation: the key is not asked for.                                     *)
ReadyUnkeyed(o) == fte[o].languages_are_set

Ready(o) == fte[o].key_is_set /\ fte[o].languages_are_set

(* Encrypt or Decrypt of an object that is not ready returns false; *out   *)
(* is left alone.                                                          *)
NotReady(o, function) ==
  /\ ~Ready(o)
  /\ Call(function, "false")
  /\ self' = o
  /\ UNCHANGED <<fte, aes, cipher, agreed, message>>

(* Rank of the argument throws: the empty word of an automaton.            *)
RankThrows(o, function, L, w) ==
  /\ Ready(o)
  /\ w \notin DOMAIN Lang[L].rank
  /\ Call(function, "threw")
  /\ self' = o
  /\ UNCHANGED <<fte, aes, cipher, agreed, message>>

Start(o, function, loop, w, v) ==
  /\ pc = "idle"
  /\ pc' = loop
  /\ self' = o
  /\ op' = function
  /\ ret' = "none"
  /\ arg' = w
  /\ x' = v
  /\ out' = << >>
  /\ UNCHANGED <<fte, aes, cipher, agreed, message>>

(* Encrypt: rank and encipher once.                                        *)
Encrypt(o, w) ==
  /\ Ready(o)
  /\ LET rank == Lang[fte[o].plaintext_ranker].rank
     IN  /\ w \in DOMAIN rank
         /\ Start(o, "Encrypt", "encrypt", w, Encipher(o, rank[w]))

(* Mutation: the plaintext's rank is enciphered again, not the result.     *)
EncryptWalksFromPlaintext ==
  /\ pc = "encrypt"
  /\ x >= fte[self].words_c
  /\ x' = Encipher(self, Lang[fte[self].plaintext_ranker].rank[arg])
  /\ UNCHANGED <<fte, aes, cipher, pc, self, arg, out, op, ret, agreed, message>>

(* Encipher again: the integer is no rank of a ciphertext.                 *)
EncryptWalks ==
  /\ pc = "encrypt"
  /\ x >= fte[self].words_c
  /\ x' = Encipher(self, x)
  /\ UNCHANGED <<fte, aes, cipher, pc, self, arg, out, op, ret, agreed, message>>

Ends(result, w) ==
  /\ pc' = "idle"
  /\ ret' = result
  /\ out' = w
  /\ UNCHANGED <<fte, aes, cipher, self, arg, x, op, agreed>>

(* Unrank, whose result is ignored: only its exception is seen.            *)
Unranked(L, r) ==
  LET unrank == Lang[L].unrank
  IN  \/ r \in DOMAIN unrank /\ Ends("true", unrank[r])
      \/ r \notin DOMAIN unrank /\ Ends("threw", << >>)

(* arg is a plaintext of the languages that were accepted.                 *)
InLanguage(w) == w \in Lang[agreed[self].p].accepted

(* Mutation: one cipher call, whatever it yields.                          *)
EncryptReturnsAtOnce ==
  /\ pc = "encrypt"
  /\ Unranked(fte[self].ciphertext_ranker, x)
  /\ message' = IF Conf(self) # Nothing /\ ret' = "true" /\ InLanguage(arg)
                  THEN [conf |-> Conf(self), plain |-> arg, cipher |-> out']
                  ELSE Nothing

EncryptReturns ==
  /\ pc = "encrypt"
  /\ x < fte[self].words_c
  /\ Unranked(fte[self].ciphertext_ranker, x)
  /\ message' = IF Conf(self) # Nothing /\ ret' = "true" /\ InLanguage(arg)
                  THEN [conf |-> Conf(self), plain |-> arg, cipher |-> out']
                  ELSE Nothing

(* Decrypt: rank and decipher once.                                        *)
Decrypt(o, w) ==
  /\ Ready(o)
  /\ LET rank == Lang[fte[o].ciphertext_ranker].rank
     IN  /\ w \in DOMAIN rank
         /\ Start(o, "Decrypt", "decrypt", w, Decipher(o, rank[w]))

(* Mutation: the ciphertext's rank is deciphered again, not the result.    *)
DecryptWalksFromCiphertext ==
  /\ pc = "decrypt"
  /\ x >= fte[self].words_p
  /\ x' = Decipher(self, Lang[fte[self].ciphertext_ranker].rank[arg])
  /\ UNCHANGED <<fte, aes, cipher, pc, self, arg, out, op, ret, agreed, message>>

DecryptWalks ==
  /\ pc = "decrypt"
  /\ x >= fte[self].words_p
  /\ x' = Decipher(self, x)
  /\ UNCHANGED <<fte, aes, cipher, pc, self, arg, out, op, ret, agreed, message>>

DecryptReturns ==
  /\ pc = "decrypt"
  /\ x < fte[self].words_p
  /\ Unranked(fte[self].plaintext_ranker, x)
  /\ UNCHANGED message
-----------------------------------------------------------------------------
(* The bits of Rabbit's buffer of msglen bytes, and the integers that are  *)
(* no longer.  What the code does with a longer one is not modelled: it    *)
(* writes it to the buffer all the same (rabbit.cc:31).                    *)
BufferBits(o) == ByteBits * ((fte[o].capacity_p + ByteBits - 1) \div ByteBits)

Fits(o, v) == fte[o].encrypter = "rabbit" => v < Two[BufferBits(o)]

(* Callers are to encrypt words of the plaintext language (fte.h:75) and   *)
(* decrypt words of the ciphertext language (fte.h:83), but may pass other *)
(* ones: the result of Rank is ignored, and whatever it has summed up is   *)
(* enciphered.                                                             *)
Words(o, L) ==
  {w \in Lang[L].accepted \cup DOMAIN Lang[L].rank :
     w \in DOMAIN Lang[L].rank => Fits(o, Lang[L].rank[w])}

Plaintexts(o) == Words(o, fte[o].plaintext_ranker)

Ciphertexts(o) == Words(o, fte[o].ciphertext_ranker)

Configure(o) ==
  \/ \E k \in HexKeys \cup OddKeys \cup BadKeys : SetKey(o, k) \/ SetKeyThrows(o, k)
  \/ \E P, C \in Languages :
       \/ SetLanguagesThrows(o, P, C)
       \/ SetLanguagesRefuses(o, P, C)
       \/ SetLanguagesAccepts(o, P, C)
       \/ SetLanguagesKeyThrows(o, P, C)

CallEncrypt(o) ==
  \/ NotReady(o, "Encrypt")
  \/ /\ Ready(o)
     /\ \E w \in Plaintexts(o) :
          \/ RankThrows(o, "Encrypt", fte[o].plaintext_ranker, w)
          \/ Encrypt(o, w)

CallDecrypt(o) ==
  \/ NotReady(o, "Decrypt")
  \/ /\ Ready(o)
     /\ \E w \in Ciphertexts(o) :
          \/ RankThrows(o, "Decrypt", fte[o].ciphertext_ranker, w)
          \/ Decrypt(o, w)

Step == EncryptWalks \/ EncryptReturns \/ DecryptWalks \/ DecryptReturns

Next == Step \/ \E o \in Objects : Configure(o) \/ CallEncrypt(o) \/ CallDecrypt(o)

Spec == Init /\ [][Next]_vars

(* A call runs until it returns: the thread that made it does nothing else. *)
FairSpec == Spec /\ WF_vars(Step)
-----------------------------------------------------------------------------
TypeOK ==
  /\ \A o \in Objects :
       /\ fte[o].plaintext_ranker \in Languages \cup {Nothing}
       /\ fte[o].ciphertext_ranker \in Languages \cup {Nothing}
       /\ fte[o].words_p \in Nat /\ fte[o].words_c \in Nat
       /\ fte[o].encrypter \in {"ffx", "rabbit", Nothing}
       /\ fte[o].languages_are_set => fte[o].encrypter # Nothing
       /\ fte[o].rabbit_key \in HexKeys \cup {Unset}
       /\ fte[o].key \in HexKeys \cup OddKeys \cup BadKeys \cup {EmptyKey}
  /\ aes \in [Processes -> HexKeys \cup {Unset}]
  /\ pc \in {"idle", "encrypt", "decrypt"}
  /\ pc # "idle" =>
       /\ fte[self].key_is_set /\ fte[self].languages_are_set
       /\ x \in 0 .. Two[fte[self].capacity_p] - 1

(* An encrypter works with the key that its own object was given last, if   *)
(* that is one of 32 digits: in whatever order set_key and SetLanguages     *)
(* were called (fte.cc:107-121), and whichever of them failed before.       *)
KeyInUse ==
  \A o \in Objects :
    fte[o].key \in HexKeys /\ fte[o].encrypter # Nothing =>
      /\ Ready(o)
      /\ fte[o].key = IF fte[o].encrypter = "ffx" THEN aes[ProcessOf[o]] ELSE fte[o].rabbit_key

(* Decrypt recovers the plaintext of the last ciphertext, on the object    *)
(* that made it or on one with the same configuration (fte.h:82-84).       *)
RoundTrip ==
  op = "Decrypt" /\ ret # "none" /\ message # Nothing /\ arg = message.cipher
    /\ Conf(self) = message.conf =>
      ret = "true" /\ out = message.plain

(* Encrypt outputs a word of the ciphertext language (fte.h:75-76), also   *)
(* for a word that is none of the plaintext language, if Rabbit's buffer   *)
(* holds its rank.  What can go wrong is the empty word, which automata    *)
(* can neither rank nor unrank.                                            *)
EncryptDelivers ==
  op = "Encrypt" /\ ret # "none" /\ Conf(self) # Nothing =>
    \/ ret = "true" /\ out \in Lang[agreed[self].c].accepted
    \/ ret = "threw" /\ << >> \in Lang[agreed[self].p].accepted \cup Lang[agreed[self].c].accepted

(* Rabbit is only used when there is no walk (fte.cc:92-96): enciphering   *)
(* twice would give the plaintext's rank back.                             *)
RabbitNeverWalks ==
  pc = "encrypt" /\ Conf(self) # Nothing /\ fte[self].encrypter = "rabbit" =>
    x < fte[self].words_c

(* Every Encrypt by an object in good order of a word of its plaintext     *)
(* language returns: the cycle of its rank comes back below words_c.       *)
EncryptEnds == (pc = "encrypt" /\ Conf(self) # Nothing /\ InLanguage(arg)) ~> (pc = "idle")

(* Every Decrypt of a ciphertext that Encrypt made returns.                *)
DecryptEnds ==
  (pc = "decrypt" /\ message # Nothing /\ arg = message.cipher /\ Conf(self) = message.conf)
    ~> (pc = "idle")

(* Claims of the documentation that the code does not keep.                *)

(* "verify that the output langauge has capacity at least as large as the  *)
(* input language" (fte.cc:45-46): of every object that will encrypt.      *)
LanguagesFit == \A o \in Objects : Ready(o) => fte[o].words_p <= fte[o].words_c

(* "we can only use rabbit when we know we won't cyclewalk"                *)
(* (fte.cc:94-95): with a plaintext of the language there is no walk.      *)
RabbitKnowsNoWalk ==
  pc = "encrypt" /\ Conf(self) # Nothing /\ InLanguage(arg) /\ fte[self].encrypter = "rabbit" =>
    x < fte[self].words_c

(* "On input of a string that is accepted by output_dfa ... the decrypt    *)
(* function recovers a plaintext" (fte.h:83-84): Decrypt returns.          *)
AnyDecryptEnds ==
  (pc = "decrypt" /\ Conf(self) # Nothing /\ arg \in Lang[agreed[self].c].accepted)
    ~> (pc = "idle")
=============================================================================
