-------------------------------- MODULE Ranker --------------------------------
(***************************************************************************)
(* What fte::ranking::Ranker promises of a language, and what Fte relies   *)
(* on.  A ranker is seen as a record of what it answers: count is what     *)
(* WordsInLanguage gives, accepted the words of the language, rank and     *)
(* unrank are what Rank and Unrank leave in their result, whether they     *)
(* return true or false, and undefined where they throw.  rank may be      *)
(* defined on words outside of the language.                               *)
(***************************************************************************)
EXTENDS Naturals

(* Rank and Unrank are inverse on the language, the ranks are below the    *)
(* count, and only the empty word has no answer.                           *)
IsRanker(l) ==
  /\ \A w \in l.accepted \cap DOMAIN l.rank :
       /\ l.rank[w] < l.count
       /\ l.rank[w] \in DOMAIN l.unrank
       /\ l.unrank[l.rank[w]] = w
  /\ \A r \in DOMAIN l.unrank :
       /\ l.unrank[r] \in l.accepted \cap DOMAIN l.rank
       /\ l.unrank[r] # << >>
       /\ l.rank[l.unrank[r]] = r
  /\ \A w \in l.accepted \ {<< >>} : w \in DOMAIN l.rank
  /\ \A r \in 0 .. l.count - 1 : r \notin DOMAIN l.unrank => << >> \in l.accepted
=============================================================================
