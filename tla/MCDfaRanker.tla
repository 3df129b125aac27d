----------------------------- MODULE MCDfaRanker -----------------------------
(***************************************************************************)
(* DfaRanker on every automaton of at most two live states over two        *)
(* symbols, and the language of the texts they are read from.              *)
(***************************************************************************)
EXTENDS DfaLanguage, SequencesExt

CONSTANTS Alphabets  \* the sizes of the alphabets of the automata

Line(s, t, a) == [fields |-> 4, from |-> s, to |-> t, symbol |-> a]
Final(s)      == [fields |-> 1, state |-> s]
Blank         == [fields |-> 0]
Broken        == [fields |-> 3]

(* The texts of the automata with states 0 and 1 over the bytes below a in *)
(* which 0 leads to 1.                                                     *)
TextsOf(a) ==
  {SetToSeq({Line(0, d[0][b], b) : b \in {b \in 0 .. a - 1 : d[0][b] < 2}})
     \o SetToSeq({Line(1, d[1][b], b) : b \in {b \in 0 .. a - 1 : d[1][b] < 2}})
     \o SetToSeq({Final(s) : s \in f}) :
     f \in (SUBSET {0, 1}) \ {{}},
     d \in {d \in [{0, 1} -> [0 .. a - 1 -> 0 .. 2]] : \E b \in 0 .. a - 1 : d[0][b] = 1}}

(* Texts that an object is given one after the other: over one byte or     *)
(* both, or the symbol 256, with the final states before the transitions,  *)
(* an empty line, a line of three fields and a state without a number.     *)
SmallTexts == {
  <<Line(0, 1, 0), Line(1, 1, 0), Final(1)>>,
  <<Line(0, 1, 1), Line(1, 0, 1), Final(0), Final(1)>>,
  <<Final(0), Line(0, 1, 1), Line(1, 0, 0)>>,
  <<Line(0, 1, 0), Line(0, 0, 1), Final(1)>>,
  <<Line(1, 0, 1), Final(0), Blank>>,
  <<Line(0, 1, 0), Line(1, 0, 0), Final(1), Broken, Line(0, 0, 1)>>,
  <<Line(0, 1, 0), Final(1), Blank, Line(1, 1, 0), Final(0)>>,
  <<Line(0, 1, Base), Line(1, 1, Base), Final(1)>>,
  <<Line(0, 1, 0), Line(1, 0, Base), Final(2)>>,
  <<Line(0, 1, 0), Line(1, 2, 0), Line(2, 3, 0), Line(3, 4, 0), Final(4), Final(1)>>,
  <<Line(0, 2, 0), Line(2, 0, 0), Final(2)>>,
  <<Line(0, 1, 0), Final(3)>> }

(* One text, or two in turn.                                               *)
MCTexts ==
  {<<t>> : t \in SmallTexts \cup UNION {TextsOf(a) : a \in Alphabets}}
    \cup {<<t, u>> : t, u \in SmallTexts}

First(texts) == Text!SetLanguage(Text!NewObject, texts[1])

(* The automaton d accepts two words.                                      *)
TwoWords(d) ==
  LET count[l \in 0 .. d.states, s \in States(d)] ==
        IF l = 0 THEN (IF s \in FinalStates(d) THEN 1 ELSE 0)
        ELSE FoldFunction(+, 0, [a \in Symbols(d) |-> count[l - 1, d.delta[s][a]]])
  IN  FoldFunction(+, 0, [l \in 0 .. d.states |-> count[l, d.start]]) > 1

(* The first of two calls has sorted the final states only if it counted   *)
(* two words; with a maximum length of 0 it has not.                       *)
MaySort(texts) ==
  {FALSE} \cup
    {b \in {TRUE} : Len(texts) = 2 /\ First(texts).outcome = "built" /\ TwoWords(First(texts).dfa)}

Builds(texts, b) ==
  LET old  == First(texts).object
      last == IF Len(texts) = 1 THEN First(texts)
              ELSE Text!SetLanguage(IF b THEN Text!Sorted(old) ELSE old, texts[2])
  IN  last.outcome = "built"

MCDfas ==
  {d \in UNION {{Object(t, b) : b \in {b \in MaySort(t) : Builds(t, b)}} : t \in MCTexts} : IsDfa(d)}

(* Every word of at most MaxLen + 1 bytes, and some of one byte more.      *)
MCWords ==
  BoundedSeq(0 .. Base - 1, MaxLen + 1)
    \cup {[i \in 1 .. MaxLen + 2 |-> b] : b \in 0 .. Base - 1}

MCRanks == 0 .. 15
-----------------------------------------------------------------------------
(* The interface's words (ranker.h:16-17), "given an integer i, return the  *)
(* ith lexicographically ordered string in the language": Unrank of every   *)
(* index below the number of words succeeds.                                *)
EveryIndexUnranks ==
  pc = "idle" /\ op = "Unrank" /\ asked < inclusive[MaxLen] => ret = "true"

(* Every call ends: Unrank leaves its search for a length, be it by         *)
(* throwing, and both walks reach the end of the word.                      *)
CallsEnd == (pc \in {"slice", "unrank", "rank"}) ~> (pc = "idle")
=============================================================================
