-------------------------------- MODULE MCFte --------------------------------
(***************************************************************************)
(* Fte with automata of a few words and with small permutations.  An       *)
(* automaton numbers its words by length and then lexicographically, and   *)
(* can neither rank nor unrank the empty one: this is what DfaRanker and   *)
(* its runs show.  (No LET here: TLC would work the tables out again each  *)
(* time it reads them.)                                                    *)
(***************************************************************************)
EXTENDS Fte, Sequences, FiniteSets, SequencesExt, TLC

Returns(words) == {i \in DOMAIN words : words[i] # << >>}

(* A DFA language given by its words in order, and what Rank leaves of     *)
(* some words outside of it.                                               *)
Automaton(words, strays) ==
  [kind     |-> "dfa",
   count    |-> Len(words),
   accepted |-> ToSet(words),
   rank     |-> [w \in ToSet(words) \ {<< >>} |-> (CHOOSE i \in DOMAIN words : words[i] = w) - 1]
                 @@ strays,
   unrank   |-> [r \in {i - 1 : i \in Returns(words)} |-> words[r + 1]]]

(* Rank of a ranker whose SetLanguage failed: false, and the rank 0.       *)
NoDfa ==
  [kind |-> "bad", count |-> 0, accepted |-> {}, rank |-> (<<0>> :> 0), unrank |-> << >>]

(* Of a word that leads nowhere Rank has counted the words before it, and  *)
(* one that is a byte too long it may accept with a rank of its own.       *)
Rankers ==
  [one   |-> Automaton(<< <<0>> >>, (<<0, 1>> :> 2) @@ (<<0, 5>> :> 6)),
   two   |-> Automaton(<< <<0>>, <<1>> >>, <<2>> :> 2),
   three |-> Automaton(<< <<0>>, <<0, 0>>, <<0, 1>> >>, << >>),
   empty |-> Automaton(<< << >>, <<1>>, <<1, 1>> >>, <<1, 1, 1>> :> 3),
   four  |-> Automaton(<< <<0>>, <<1>>, <<0, 1>>, <<1, 1>> >>, << >>),
   none  |-> NoDfa]

MCLang == Rankers

Numbers(n) == 0 .. 2 ^ n - 1

Bijections(n) ==
  {p \in [Numbers(n) -> Numbers(n)] : \A u, v \in Numbers(n) : u # v => p[u] # p[v]}

Rotation(n, k) == [v \in Numbers(n) |-> (v + k) % 2 ^ n]

(* Exclusive or with a keystream of ones.                                  *)
Complement(n) == [v \in Numbers(n) |-> 2 ^ n - 1 - v]

(* Ffx permutes as it likes: p on two bits under the first key, something  *)
(* else under the second; without a key its rounds add nothing.  Rabbit    *)
(* complements under the first key and has a keystream of zeros otherwise. *)
CipherOf(p) ==
  [ffx    |-> [k1    |-> [n \in 1 .. 4 |-> IF n = 2 THEN p ELSE Rotation(n, 3)],
               k2    |-> [n \in 1 .. 4 |-> Rotation(n, 1)],
               unset |-> [n \in 1 .. 4 |-> Rotation(n, 0)]],
   rabbit |-> [k1    |-> [n \in 1 .. 4 |-> Complement(n)],
               k2    |-> [n \in 1 .. 4 |-> Rotation(n, 0)],
               unset |-> [n \in 1 .. 4 |-> Rotation(n, 0)]]]

AllCiphers == [p \in Bijections(2) |-> CipherOf(p)]
MCAllCiphers == AllCiphers

(* One cycle through all integers of two bits: from 0 to 1 is the longest  *)
(* walk, with two steps through numbers that are no rank.                  *)
Cycle == (0 :> 2) @@ (2 :> 3) @@ (3 :> 1) @@ (1 :> 0)

OneCipher == [p \in {Cycle} |-> CipherOf(p)]
MCOneCipher == OneCipher

ObjectSymmetry == Permutations(Objects)

MCAlone == [o \in Objects |-> o]
MCTogether == [o \in Objects |-> "process"]
=============================================================================
