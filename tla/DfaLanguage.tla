----------------------------- MODULE DfaLanguage -----------------------------
(***************************************************************************)
(* What DfaRanker promises of its language: it is that of the text, the    *)
(* tables count its words, Unrank and Rank number them by length and then  *)
(* lexicographically.                                                      *)
(***************************************************************************)
EXTENDS DfaRanker, Ranker, FiniteSets

Text == INSTANCE DfaText

(* The object that a text, or two in turn, build: the automaton, with what *)
(* it remembers of the symbols, and the texts themselves.  sorted says     *)
(* whether the first of two calls returned true: that depends on the       *)
(* maximum length it was given.                                            *)
Object(texts, sorted) ==
  LET first == Text!SetLanguage(Text!NewObject, texts[1])
      old   == IF sorted THEN Text!Sorted(first.object) ELSE first.object
      last  == IF Len(texts) = 1 THEN first ELSE Text!SetLanguage(old, texts[2])
  IN  [states |-> last.dfa.states, symbols |-> last.dfa.symbols, start |-> last.dfa.start,
       finals |-> last.dfa.finals, delta |-> last.dfa.delta,
       sigma |-> last.object.sigma, reverse |-> last.object.reverse,
       sane |-> Text!SanityCheck(last.object), texts |-> texts, sorted |-> sorted]

IsText(text) ==
  /\ text \in Seq({text[i] : i \in DOMAIN text})
  /\ \A i \in DOMAIN text :
       /\ text[i].fields \in Nat
       /\ text[i].fields = 4 =>
            text[i].from \in Nat /\ text[i].to \in Nat /\ text[i].symbol \in Nat
       /\ text[i].fields = 1 => text[i].state \in Nat

ASSUME TextAssumption ==
  \A d \in Dfas :
    /\ Len(d.texts) \in {1, 2}
    /\ \A i \in 1 .. Len(d.texts) : IsText(d.texts[i])
    /\ d.sorted \in BOOLEAN
    /\ d = Object(d.texts, d.sorted)
-----------------------------------------------------------------------------
(* The state the word w leads to from s.                                   *)
Run(s, w) ==
  LET state[i \in 0 .. Len(w)] == IF i = 0 THEN s ELSE Delta(state[i - 1], w[i])
  IN  state[Len(w)]

Strings(l) == [1 .. l -> Symbols(dfa)]

AcceptedFrom(s, l) == {w \in Strings(l) : Run(s, w) \in FinalStates(dfa)}

(* The language the object can rank: the accepted words up to MaxLen, as   *)
(* sequences of indices.                                                   *)
Language == UNION {AcceptedFrom(dfa.start, l) : l \in Lens}

(* Words ordered by length and, for one length, lexicographically.         *)
Before(v, w) ==
  \/ Len(v) < Len(w)
  \/ /\ Len(v) = Len(w)
     /\ \E i \in 1 .. Len(w) : v[i] < w[i] /\ \A j \in 1 .. i - 1 : v[j] = w[j]

Index(w) == Cardinality({v \in Language : Before(v, w)})

(* Once built, the tables hold what their comments say (dfa_ranker.h:72-78, *)
(* dfa_ranker.cc:216-218): CachedTable_[q][i] the number of words of length *)
(* i accepted from q, the cumulative table the words up to each length.     *)
TablesCountWords ==
  pc = "idle" /\ op = "none" =>
    /\ \A s \in States(dfa), l \in Lens :
         CachedTable[s][l] = Cardinality(AcceptedFrom(s, l))
    /\ \A l \in Lens :
         /\ exclusive[l] = Cardinality(AcceptedFrom(dfa.start, l))
         /\ inclusive[l] = Cardinality({w \in Language : Len(w) <= l})

(* Unrank(i) is the word of index i, by length and then lexicographically   *)
(* (ranker.h:15-17), also when it returns false: it has then written the    *)
(* word all the same.                                                       *)
UnrankFollowsOrder ==
  pc = "idle" /\ op = "Unrank" /\ ret # "threw" /\ OneToOne =>
    Indices(word) \in Language /\ Index(Indices(word)) = asked

(* Rank accepts non-empty words of the language only, all of them after a   *)
(* SetLanguage that returned true, and returns the index of the word.  A    *)
(* word that is longer than fixed_slice_ by one byte it may accept too      *)
(* (dfa_ranker.cc:392), but never with a rank below the number of words,    *)
(* which another word has.                                                  *)
RankFollowsOrder ==
  pc = "idle" /\ op = "Rank" /\ OneToOne =>
    LET w == Indices(word)
    IN  /\ word = << >> => ret # "true"
        /\ Len(word) \in 1 .. MaxLen =>
             /\ ret = "true" => w \in Language
             /\ usable /\ w \in Language => ret = "true"
        /\ ret = "true" /\ Len(word) <= MaxLen => rank = Index(w)
        /\ ret = "true" /\ Len(word) > MaxLen =>
             Len(word) = MaxLen + 1 /\ rank >= inclusive[MaxLen]

(* What a caller learns from the object: a number for each word but the    *)
(* empty one, its index.                                                   *)
Answers ==
  LET words == Language \ {<< >>}
  IN  [count    |-> Cardinality(Language),
       accepted |-> Language,
       rank     |-> [w \in words |-> Index(w)],
       unrank   |-> [r \in {Index(w) : w \in words} |-> CHOOSE w \in words : Index(w) = r]]

(* The object is a ranker in the sense of its interface (ranker.h:11-36),   *)
(* the one whose words are the language and whose ranks are the indices,    *)
(* to a caller who looks at *word and *rank alone, as Fte does              *)
(* (fte.cc:147-157): Rank, Unrank and WordsInLanguage leave there what that *)
(* one answers, and Unrank throws where it has no answer.  So even a ranker *)
(* whose SetLanguage returned false, and whose Rank and Unrank may, serves  *)
(* this caller.                                                             *)
AnswersAsRanker ==
  pc = "idle" /\ OneToOne =>
    /\ op = "none" => IsRanker(Answers) /\ inclusive[MaxLen] = Answers.count
    /\ op = "Unrank" =>
         /\ (ret # "threw") <=> (asked \in DOMAIN Answers.unrank)
         /\ ret # "threw" => Indices(word) = Answers.unrank[asked]
    /\ op = "Rank" /\ Indices(word) \in DOMAIN Answers.rank =>
         ret # "threw" /\ rank = Answers.rank[Indices(word)]
-----------------------------------------------------------------------------
(* A deterministic text with the states 0 to N - 1 and nothing behind an   *)
(* empty line, as regex2dfa prints it.                                     *)
Proper(text) ==
  LET moves == Text!Moves(text)
  IN  /\ \A i \in DOMAIN text : text[i].fields = 0 => i = Len(text)
      /\ \A i \in DOMAIN text : ~Text!Malformed(text[i])
      /\ \A i, j \in moves :
           text[i].from = text[j].from /\ text[i].symbol = text[j].symbol
             => text[i].to = text[j].to
      /\ moves # {} /\ Text!FinalsIn(text) # {}
      /\ Text!FinalsIn(text) \subseteq Text!StatesIn(text)
      /\ Text!StatesIn(text) = 0 .. Cardinality(Text!StatesIn(text)) - 1
      /\ Text!SymbolsIn(text) \subseteq 0 .. Base - 1

(* The words of bytes that a text accepts, by what its lines mean: a path  *)
(* from the source of the first transition to a final state.               *)
Accepts(text, w) ==
  LET moves == Text!Moves(text)
  IN  \E path \in [0 .. Len(w) -> Text!StatesIn(text)] :
        /\ \E i \in moves : path[0] = text[i].from /\ \A j \in moves : i <= j
        /\ path[Len(w)] \in Text!FinalsIn(text)
        /\ \A k \in 1 .. Len(w) :
             \E i \in moves : /\ text[i].from = path[k - 1] /\ text[i].to = path[k]
                              /\ text[i].symbol = w[k]

WordsOf(text) ==
  UNION {{w \in [1 .. l -> 0 .. Base - 1] : Accepts(text, w)} : l \in Lens}

(* The language in bytes, as sigma_ writes them.                           *)
Written == {[i \in 1 .. Len(w) |-> dfa.sigma[w[i]]] : w \in Language}

TextRead(text) ==
  /\ Written = WordsOf(text) /\ OneToOne
  /\ \A a, b \in Symbols(dfa) : a < b => dfa.sigma[a] < dfa.sigma[b]
  /\ dfa.sane

(* The language of a new object is that of the text (dfa_ranker.cc:46-123), *)
(* symbols are numbered in the order of their bytes, one to one, and the    *)
(* automaton is one that SanityCheck lets pass.                             *)
LanguageOfText ==
  pc = "idle" /\ op = "none" /\ Len(dfa.texts) = 1 /\ Proper(dfa.texts[1]) =>
    TextRead(dfa.texts[1])

(* So is that of an object that had another text before, when what is left  *)
(* of it does no harm: its final states are the new text's too, and no      *)
(* symbol comes before one of its symbols but those it had.  What SetLanguage *)
(* keeps from one call to the next (states_, symbols_, final_states_,       *)
(* sigma_, sigma_reverse_) goes wrong in the other cases alone.             *)
LanguageReplaced ==
  pc = "idle" /\ op = "none" /\ Len(dfa.texts) = 2 =>
    LET old == dfa.texts[1]
        new == dfa.texts[2]
    IN  /\ Proper(old) /\ Proper(new)
        /\ Text!FinalsIn(old) \subseteq Text!FinalsIn(new)
        /\ \A a \in Text!SymbolsIn(new) \ Text!SymbolsIn(old), b \in Text!SymbolsIn(old) : a > b
        => TextRead(new)
=============================================================================
