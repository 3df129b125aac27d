------------------------------- MODULE DfaText -------------------------------
(***************************************************************************)
(* How DfaRanker::SetLanguage reads the text of an automaton, in the       *)
(* format of AT&T's FSM tools: a line of four fields is a transition, a    *)
(* line of one field a final state.  A text is a sequence of lines, a line *)
(* a record with the number of its fields and, where they are used, the    *)
(* numbers in them.                                                        *)
(*                                                                         *)
(* The operators take the object as it is before the call and give it      *)
(* back: nothing of it is cleared, and a second call adds to what the      *)
(* first one left.                                                         *)
(***************************************************************************)
EXTENDS Vectors, FiniteSetsExt

CONSTANT Base  \* the number of byte values: 256 in the code

(* finals is final_states_, a vector without repetitions: it is searched   *)
(* as if it were sorted.  states_ and symbols_ are sets, since their order *)
(* does not matter; size is how long states_ is, sigma and reverse are the *)
(* tables sigma_ and sigma_reverse_.                                       *)
NewObject ==
  [states |-> {}, size |-> 0, symbols |-> {}, finals |-> << >>, sigma |-> << >>, reverse |-> << >>]

(* The lines that are transitions.                                         *)
Moves(lines) == {i \in DOMAIN lines : lines[i].fields = 4}

(* The first loop over the text ends at an empty line.                     *)
UpToBlank(text) ==
  LET blank == {i \in DOMAIN text : text[i].fields = 0}
  IN  IF blank = {} THEN text ELSE SubSeq(text, 1, Min(blank) - 1)

(* A line of another number of fields ends the call: false.                *)
Malformed(line) == line.fields \notin {0, 1, 4}

StatesIn(lines) == UNION {{lines[i].from, lines[i].to} : i \in Moves(lines)}

SymbolsIn(lines) == {lines[i].symbol : i \in Moves(lines)}

FinalLines(lines) == {i \in DOMAIN lines : lines[i].fields = 1}

FinalsIn(lines) == {lines[i].state : i \in FinalLines(lines)}

(* final_states_.push_back of each state that is not there yet.            *)
WithFinals(finals, lines) ==
  LET seen(i) == Range(finals) \cup {lines[j].state : j \in {j \in FinalLines(lines) : j < i}}
      first   == InOrder({i \in FinalLines(lines) : lines[i].state \notin seen(i)})
  IN  finals \o [k \in DOMAIN first |-> lines[first[k]].state]

(* Mutation: only the last final state is kept.                            *)
ReadLastFinal(o, lines) ==
  LET met  == StatesIn(lines)
      last == SubSeq(lines, Len(lines), Len(lines))
  IN  [o EXCEPT !.states  = @ \cup met,
                !.size    = @ + Cardinality(met \ o.states),
                !.symbols = @ \cup SymbolsIn(lines),
                !.finals  = WithFinals(@, last)]

(* The lines of the first loop: what is met for the first time is added.   *)
Read(o, lines) ==
  LET met == StatesIn(lines)
  IN  [o EXCEPT !.states  = @ \cup met,
                !.size    = @ + Cardinality(met \ o.states),
                !.symbols = @ \cup SymbolsIn(lines),
                !.finals  = WithFinals(@, lines)]

(* states_.push_back(states_.size()), whether or not there is such a state. *)
WithDead(o) == [o EXCEPT !.states = @ \cup {o.size}, !.size = @ + 1]

(* The conversion of a symbol to char.                                     *)
ByteOf(symbol) == symbol % Base

(* map::insert does not replace what is there.                             *)
Inserted(old, new) ==
  [x \in DOMAIN old \cup DOMAIN new |-> IF x \in DOMAIN old THEN old[x] ELSE new[x]]

(* sigma_ and sigma_reverse_: an index or a byte keeps its first partner.  *)
WithSymbols(o) ==
  LET sigma   == [j \in 0 .. Cardinality(o.symbols) - 1 |->
                    ByteOf(CHOOSE a \in o.symbols : Position(o.symbols, a) = j)]
      reverse == [b \in {ByteOf(a) : a \in o.symbols} |->
                    Min({j \in DOMAIN sigma : sigma[j] = b})]
  IN  [o EXCEPT !.sigma = Inserted(@, sigma), !.reverse = Inserted(@, reverse)]

(* The transitions from s with the symbol of index a.                      *)
Hits(o, text, s, a) ==
  {i \in Moves(text) : text[i].from = s /\ o.reverse[ByteOf(text[i].symbol)] = a}

(* Mutation: with missing transitions a word stays where it is.            *)
TransitionsStay(o, text) ==
  [s \in 0 .. o.size - 1 |-> [a \in 0 .. Cardinality(o.symbols) - 1 |->
     LET hits == Hits(o, text, s, a)
     IN  IF hits = {} THEN s ELSE text[Max(hits)].to]]

(* delta_: everything leads to the dead state, the last one, but what the  *)
(* text says, where the last line for a state and a symbol counts.  This   *)
(* loop does not stop at empty lines.                                      *)
TransitionTable(o, text) ==
  [s \in 0 .. o.size - 1 |-> [a \in 0 .. Cardinality(o.symbols) - 1 |->
     LET hits == Hits(o, text, s, a)
     IN  IF hits = {} THEN o.size - 1 ELSE text[Max(hits)].to]]

(* .at() throws: for a symbol that was not met before the empty line, a    *)
(* source that is no index of delta_, and a target or a final state that   *)
(* is none of CachedTable_.                                                *)
Throws(o, text) ==
  \/ \E i \in Moves(text) :
       \/ ByteOf(text[i].symbol) \notin DOMAIN o.reverse
       \/ text[i].from >= o.size \/ text[i].to >= o.size
  \/ \E s \in Range(o.finals) : s >= o.size

(* SanityCheck, whose result nobody looks at.                              *)
SanityCheck(o) ==
  /\ o.size # 0 /\ o.finals # << >> /\ DOMAIN o.sigma # {}
  /\ \A s \in o.states : s < o.size
  /\ \A a \in o.symbols : a <= Base

(* SetLanguage up to the counting: how it ends, the object, and the        *)
(* automaton the object has then.                                          *)
SetLanguage(o, text) ==
  LET lines == UpToBlank(text)
      bad   == {i \in DOMAIN lines : Malformed(lines[i])}
      full  == WithSymbols(WithDead(Read(o, lines)))
      moves == Moves(lines)
  IN  IF bad # {}
        THEN [outcome |-> "false", object |-> Read(o, SubSeq(lines, 1, Min(bad) - 1))]
      ELSE IF Throws(full, text)
        THEN [outcome |-> "threw", object |-> full]
      ELSE [outcome |-> "built", object |-> full,
            dfa |-> [states  |-> full.size,
                     symbols |-> Cardinality(full.symbols),
                     start   |-> IF moves = {} THEN 0 ELSE lines[Min(moves)].from,
                     finals  |-> full.finals,
                     delta   |-> TransitionTable(full, text)]]

(* What a call that then counts more than one word does at its end; one    *)
(* that counts fewer returns false before it sorts.                        *)
Sorted(o) == [o EXCEPT !.finals = InOrder(Range(@))]
=============================================================================
