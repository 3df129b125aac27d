-------------------------- MODULE DfaLanguageProofs --------------------------
(***************************************************************************)
(* The tables count the words of the language, and both walks follow its   *)
(* order, for every automaton and every length.  What the tables say of    *)
(* one symbol is carried over to sets of words: those that continue a      *)
(* prefix are as many as the state after the prefix accepts.               *)
(*                                                                         *)
(* The language is that of the text: the tables of symbols are those of    *)
(* the sorted symbols, and the transition table has the text's transitions *)
(* and leads to the dead state with all the others.                        *)
(***************************************************************************)
EXTENDS DfaLanguage, DfaRankerProofs, ProofLemmas

Reads(w, k) == \A i \in 1 .. k : w[i] \in Symbols(dfa)

Agree(v, w, k) == \A i \in 1 .. k : v[i] = w[i]

(* p is the run from s over the first k symbols of w.                      *)
Steps(p, s, w, k) == p[0] = s /\ \A i \in 1 .. k : p[i] = Delta(p[i - 1], w[i])

IsPath(p, s, w, k) == p \in [0 .. k -> States(dfa)] /\ Steps(p, s, w, k)

(* The first k symbols of w lead from s to t.                              *)
Leads(s, w, k, t) == Reads(w, k) /\ \E p : IsPath(p, s, w, k) /\ p[k] = t

LEMMA DeltaIsState ==
  ASSUME IsDfa(dfa), NEW s \in States(dfa), NEW a \in Symbols(dfa)
  PROVE  Delta(s, a) \in States(dfa)
BY DEF IsDfa, Delta

LEMMA PathExists ==
  ASSUME IsDfa(dfa), NEW s \in States(dfa), NEW k \in Nat, NEW w, Reads(w, k)
  PROVE  \E p : IsPath(p, s, w, k)
<1> DEFINE G == [i \in 1 .. k |-> [t \in States(dfa) |-> Delta(t, w[i])]]
           Q == States(dfa)
<1>1. G \in [1 .. k -> [Q -> Q]]
  BY DeltaIsState DEF Reads
<1>2. PICK p \in [0 .. k -> Q] : Follows(p, s, G, k)
  <2> HIDE DEF G, Q
  <2>1. s \in Q
    BY DEF Q
  <2>2. QED
    BY <1>1, <2>1, RecursionUpTo
<1>3. ASSUME NEW i \in 1 .. k
      PROVE  p[i] = Delta(p[i - 1], w[i])
  <2>1. p[i] = G[i][p[i - 1]]
    BY <1>2 DEF Follows
  <2>2. i - 1 \in 0 .. k
    OBVIOUS
  <2>3. p[i - 1] \in States(dfa)
    BY <2>2
  <2>4. QED
    BY <2>1, <2>3
<1>4. p[0] = s
  BY <1>2 DEF Follows
<1>5. IsPath(p, s, w, k)
  BY <1>3, <1>4 DEF IsPath, Steps
<1>6. QED
  BY <1>5

(* Runs over the same symbols are the same.                                *)
LEMMA PathsAgree ==
  ASSUME NEW s, NEW k \in Nat, NEW v, NEW w, NEW f, NEW g,
         Steps(f, s, v, k), Steps(g, s, w, k), Agree(v, w, k)
  PROVE  \A i \in 0 .. k : f[i] = g[i]
<1> DEFINE T == {i \in 0 .. k : f[i] = g[i]}
<1>1. 0 \in T
  BY DEF Steps
<1>2. ASSUME NEW i \in 0 .. k - 1, i \in T
      PROVE  i + 1 \in T
  <2>1. i + 1 \in 1 .. k /\ (i + 1) - 1 = i
    OBVIOUS
  <2>2. /\ f[i + 1] = Delta(f[i], v[i + 1]) /\ g[i + 1] = Delta(g[i], w[i + 1])
        /\ v[i + 1] = w[i + 1]
    BY <2>1 DEF Steps, Agree
  <2>3. QED
    BY <1>2, <2>1, <2>2
<1>3. \A i \in 0 .. k : i \in T
  <2> HIDE DEF T
  <2> QED
    BY <1>1, <1>2, InductionUpTo
<1>4. QED
  BY <1>3

LEMMA LeadsUnique ==
  ASSUME NEW s, NEW k \in Nat, NEW v, NEW w, NEW t, NEW u,
         Leads(s, v, k, t), Leads(s, w, k, u), Agree(v, w, k)
  PROVE  t = u
<1>1. PICK f : IsPath(f, s, v, k) /\ f[k] = t
  BY DEF Leads
<1>2. PICK g : IsPath(g, s, w, k) /\ g[k] = u
  BY DEF Leads
<1>3. \A i \in 0 .. k : f[i] = g[i]
  BY <1>1, <1>2, PathsAgree DEF IsPath
<1>4. QED
  BY <1>1, <1>2, <1>3

LEMMA LeadsSomewhere ==
  ASSUME IsDfa(dfa), NEW s \in States(dfa), NEW k \in Nat, NEW w, Reads(w, k)
  PROVE  \E t \in States(dfa) : Leads(s, w, k, t)
<1>1. PICK p : IsPath(p, s, w, k)
  BY PathExists
<1>2. p[k] \in States(dfa)
  BY <1>1 DEF IsPath, Steps
<1>3. QED
  BY <1>1, <1>2 DEF Leads

LEMMA LeadsToState ==
  ASSUME NEW s, NEW k \in Nat, NEW w, NEW t, Leads(s, w, k, t)
  PROVE  s \in States(dfa) /\ t \in States(dfa)
<1>1. PICK p : IsPath(p, s, w, k) /\ p[k] = t
  BY DEF Leads
<1>2. 0 \in 0 .. k /\ k \in 0 .. k
  OBVIOUS
<1>3. QED
  BY <1>1, <1>2 DEF IsPath, Steps

LEMMA LeadsNowhere ==
  ASSUME NEW s \in States(dfa), NEW w
  PROVE  Leads(s, w, 0, s)
<1> DEFINE p == [i \in 0 .. 0 |-> s]
<1>1. IsPath(p, s, w, 0) /\ p[0] = s /\ Reads(w, 0)
  BY DEF IsPath, Steps, Reads
<1>2. QED
  BY <1>1 DEF Leads

LEMMA LeadsOn ==
  ASSUME IsDfa(dfa), NEW s, NEW k \in Nat, NEW w, NEW t,
         Leads(s, w, k, t), w[k + 1] \in Symbols(dfa)
  PROVE  Leads(s, w, k + 1, Delta(t, w[k + 1]))
<1>1. PICK p : IsPath(p, s, w, k) /\ p[k] = t
  BY DEF Leads
<1>2. Delta(t, w[k + 1]) \in States(dfa)
  BY LeadsToState, DeltaIsState
<1> DEFINE r == [i \in 0 .. k + 1 |-> IF i = k + 1 THEN Delta(t, w[k + 1]) ELSE p[i]]
<1>3. r \in [0 .. k + 1 -> States(dfa)]
  BY <1>1, <1>2 DEF IsPath, Steps
<1>4. \A i \in 0 .. k : r[i] = p[i]
  OBVIOUS
<1>5. r[k + 1] = Delta(t, w[k + 1])
  OBVIOUS
<1>6. ASSUME NEW i \in 1 .. k + 1
      PROVE  r[i] = Delta(r[i - 1], w[i])
  <2>1. CASE i = k + 1
    <3>1. i - 1 = k /\ k \in 0 .. k
      BY <2>1
    <3>2. r[i - 1] = t
      BY <1>1, <1>4, <3>1
    <3>3. QED
      BY <1>5, <2>1, <3>2
  <2>2. CASE i # k + 1
    <3>1. i \in 1 .. k /\ i \in 0 .. k /\ i - 1 \in 0 .. k
      BY <2>2
    <3>2. QED
      BY <1>1, <1>4, <3>1 DEF IsPath, Steps
  <2>3. QED
    BY <2>1, <2>2
<1>7. r[0] = s
  BY <1>1, <1>4 DEF IsPath, Steps
<1>8. IsPath(r, s, w, k + 1)
  <2> HIDE DEF r
  <2> QED
    BY <1>3, <1>6, <1>7 DEF IsPath, Steps
<1>9. Reads(w, k + 1)
  BY DEF Leads, Reads
<1>10. QED
  BY <1>5, <1>8, <1>9 DEF Leads

(* What only depends on the symbols read.                                  *)
LEMMA LeadsSame ==
  ASSUME NEW s, NEW k \in Nat, NEW v, NEW w, NEW t,
         Leads(s, v, k, t), Agree(v, w, k)
  PROVE  Leads(s, w, k, t)
<1>1. PICK p : IsPath(p, s, v, k) /\ p[k] = t
  BY DEF Leads
<1>2. IsPath(p, s, w, k)
  BY <1>1 DEF IsPath, Steps, Agree
<1>3. Reads(w, k)
  BY DEF Leads, Reads, Agree
<1>4. QED
  BY <1>1, <1>2, <1>3 DEF Leads

(* From k on v reads as u does from the start.                             *)
LEMMA LeadsSuffix ==
  ASSUME NEW s, NEW k \in Nat, NEW l \in Nat, NEW v, NEW u, NEW t, NEW f,
         Leads(s, v, k, t), Leads(s, v, k + l, f), \A i \in 1 .. l : u[i] = v[k + i]
  PROVE  Leads(t, u, l, f)
<1>1. PICK p : IsPath(p, s, v, k + l) /\ p[k + l] = f
  BY DEF Leads
<1>2. PICK g : IsPath(g, s, v, k) /\ g[k] = t
  BY DEF Leads
<1>3. p[k] = t
  <2>1. Steps(p, s, v, k) /\ Steps(g, s, v, k) /\ Agree(v, v, k)
    BY <1>1, <1>2 DEF IsPath, Steps, Agree
  <2>2. \A i \in 0 .. k : p[i] = g[i]
    BY <2>1, PathsAgree
  <2>3. QED
    BY <1>2, <2>2
<1> DEFINE r == [i \in 0 .. l |-> p[k + i]]
<1>4. ASSUME NEW i \in 0 .. l
      PROVE  r[i] \in States(dfa) /\ r[i] = p[k + i]
  <2>1. k + i \in 0 .. k + l
    OBVIOUS
  <2>2. QED
    BY <1>1, <2>1 DEF IsPath, Steps
<1>5. ASSUME NEW i \in 1 .. l
      PROVE  r[i] = Delta(r[i - 1], u[i])
  <2>1. k + i \in 1 .. k + l /\ i - 1 \in 0 .. l /\ i \in 0 .. l /\ (k + i) - 1 = k + (i - 1)
    OBVIOUS
  <2>2. p[k + i] = Delta(p[k + (i - 1)], v[k + i])
    BY <1>1, <2>1 DEF IsPath, Steps
  <2>3. QED
    BY <1>4, <2>1, <2>2
<1>6. r[0] = t /\ r[l] = f
  BY <1>1, <1>3
<1>7. r \in [0 .. l -> States(dfa)]
  BY <1>4
<1>8. IsPath(r, t, u, l)
  <2> HIDE DEF r
  <2> QED
    BY <1>5, <1>6, <1>7 DEF IsPath, Steps
<1>9. Reads(u, l)
  <2>1. ASSUME NEW i \in 1 .. l
        PROVE  u[i] \in Symbols(dfa)
    <3>1. k + i \in 1 .. k + l
      OBVIOUS
    <3>2. QED
      BY <3>1 DEF Leads, Reads
  <2>2. QED
    BY <2>1 DEF Reads
<1>10. QED
  BY <1>6, <1>8, <1>9 DEF Leads

(* The other way round: two runs in a row.                                 *)
LEMMA LeadsJoined ==
  ASSUME IsDfa(dfa), NEW s \in States(dfa), NEW k \in Nat, NEW l \in Nat, NEW v, NEW u, NEW t, NEW f,
         Leads(s, v, k, t), Leads(t, u, l, f), \A i \in 1 .. l : u[i] = v[k + i]
  PROVE  Leads(s, v, k + l, f)
<1>1. Reads(v, k + l)
  <2>1. ASSUME NEW i \in 1 .. k + l
        PROVE  v[i] \in Symbols(dfa)
    <3>1. CASE i <= k
      BY <3>1 DEF Leads, Reads
    <3>2. CASE i > k
      <4>1. i - k \in 1 .. l /\ k + (i - k) = i
        BY <3>2
      <4>2. QED
        BY <4>1 DEF Leads, Reads
    <3>3. QED
      BY <3>1, <3>2
  <2>2. QED
    BY <2>1 DEF Reads
<1>2. k + l \in Nat
  OBVIOUS
<1>3. PICK g \in States(dfa) : Leads(s, v, k + l, g)
  BY <1>1, <1>2, LeadsSomewhere
<1>4. Leads(t, u, l, g)
  BY <1>3, LeadsSuffix
<1>5. g = f
  <2>1. Agree(u, u, l)
    BY DEF Agree
  <2>2. QED
    BY <1>4, <2>1, LeadsUnique
<1>6. QED
  BY <1>3, <1>5
-----------------------------------------------------------------------------
LEMMA RunLeads ==
  ASSUME IsDfa(dfa), NEW s \in States(dfa), NEW l \in Nat, NEW w \in Strings(l)
  PROVE  Leads(s, w, l, Run(s, w))
<1> DEFINE f == CHOOSE state : state = [i \in 0 .. Len(w) |->
                  IF i = 0 THEN s ELSE Delta(state[i - 1], w[i])]
<1>1. Len(w) = l /\ Reads(w, l)
  BY DEF Strings, Reads
<1>2. PICK p : IsPath(p, s, w, l)
  BY <1>1, PathExists
<1>3. p = [i \in 0 .. Len(w) |-> IF i = 0 THEN s ELSE Delta(p[i - 1], w[i])]
  <2>1. \A i \in 0 .. l : p[i] = IF i = 0 THEN s ELSE Delta(p[i - 1], w[i])
    BY <1>2 DEF IsPath, Steps
  <2>2. QED
    BY <1>1, <1>2, <2>1 DEF IsPath
<1>4. f = [i \in 0 .. Len(w) |-> IF i = 0 THEN s ELSE Delta(f[i - 1], w[i])]
  BY <1>3
<1>5. Run(s, w) = f[l]
  BY <1>1 DEF Run
<1> HIDE DEF f
<1>6. Steps(f, s, w, l) /\ Steps(p, s, w, l) /\ Agree(w, w, l)
  <2>1. f[0] = s
    BY <1>1, <1>4
  <2>2. ASSUME NEW i \in 1 .. l
        PROVE  f[i] = Delta(f[i - 1], w[i])
    <3>1. i \in 0 .. Len(w) /\ i # 0
      BY <1>1
    <3>2. QED
      BY <1>4, <3>1
  <2>3. QED
    BY <1>2, <2>1, <2>2 DEF IsPath, Steps, Agree
<1>7. f[l] = p[l]
  BY <1>6, PathsAgree
<1>8. QED
  BY <1>1, <1>2, <1>5, <1>7 DEF Leads

LEMMA AcceptedLeads ==
  ASSUME IsDfa(dfa), NEW l \in Nat, NEW w \in Strings(l), NEW s, NEW t, Leads(s, w, l, t)
  PROVE  w \in AcceptedFrom(s, l) <=> t \in FinalStates(dfa)
<1>1. s \in States(dfa)
  BY LeadsToState
<1>2. Leads(s, w, l, Run(s, w)) /\ Agree(w, w, l)
  BY <1>1, RunLeads DEF Agree
<1>3. Run(s, w) = t
  BY <1>2, LeadsUnique
<1>4. QED
  BY <1>3 DEF AcceptedFrom

(* The accepted words of length total that begin with k symbols of w.     *)
Extending(s, w, k, total) == {v \in AcceptedFrom(s, total) : Agree(v, w, k)}

LEMMA SizeOfExtending ==
  ASSUME IsDfa(dfa), NEW k \in Nat, NEW l \in Nat, NEW w, NEW s, NEW t, NEW m,
         Leads(s, w, k, t), HasSize(AcceptedFrom(t, l), m)
  PROVE  HasSize(Extending(s, w, k, k + l), m)
<1> DEFINE total == k + l
           Joined(u) == [i \in 1 .. total |-> IF i <= k THEN w[i] ELSE u[i - k]]
           F == [u \in AcceptedFrom(t, l) |-> Joined(u)]
<1>1. s \in States(dfa) /\ t \in States(dfa) /\ total \in Nat
  BY LeadsToState
<1>2. ASSUME NEW u \in Strings(l)
      PROVE  /\ Joined(u) \in Strings(total)
             /\ Agree(Joined(u), w, k) /\ Agree(w, Joined(u), k)
             /\ \A i \in 1 .. l : u[i] = Joined(u)[k + i]
  <2>1. ASSUME NEW i \in 1 .. total
        PROVE  (IF i <= k THEN w[i] ELSE u[i - k]) \in Symbols(dfa)
    <3>1. CASE i <= k
      BY <3>1 DEF Leads, Reads
    <3>2. CASE ~ i <= k
      <4>1. i - k \in 1 .. l
        BY <3>2
      <4>2. QED
        BY <3>2, <4>1 DEF Strings
    <3>3. QED
      BY <3>1, <3>2
  <2>2. Joined(u) \in Strings(total)
    BY <2>1 DEF Strings
  <2>3. ASSUME NEW i \in 1 .. k
        PROVE  Joined(u)[i] = w[i]
    <3>1. i \in 1 .. total /\ i <= k
      OBVIOUS
    <3>2. QED
      BY <3>1
  <2>4. ASSUME NEW i \in 1 .. l
        PROVE  u[i] = Joined(u)[k + i]
    <3>1. k + i \in 1 .. total /\ ~ k + i <= k /\ (k + i) - k = i
      OBVIOUS
    <3>2. QED
      BY <3>1
  <2>5. QED
    BY <2>2, <2>3, <2>4 DEF Agree
<1>3. ASSUME NEW u \in AcceptedFrom(t, l)
      PROVE  Joined(u) \in Extending(s, w, k, total)
  <2>1. u \in Strings(l) /\ Run(t, u) \in FinalStates(dfa)
    BY DEF AcceptedFrom
  <2> HIDE DEF Joined, total
  <2>2. Leads(s, Joined(u), k, t)
    BY <1>2, <2>1, LeadsSame
  <2>3. Leads(t, u, l, Run(t, u))
    BY <1>1, <2>1, RunLeads
  <2>4. Leads(s, Joined(u), k + l, Run(t, u))
    BY <1>1, <1>2, <2>1, <2>2, <2>3, LeadsJoined
  <2>5. Joined(u) \in AcceptedFrom(s, total)
    BY <1>1, <1>2, <2>1, <2>4, AcceptedLeads DEF total
  <2>6. QED
    BY <1>2, <2>1, <2>5 DEF Extending
<1>4. ASSUME NEW v \in Extending(s, w, k, total)
      PROVE  \E u \in AcceptedFrom(t, l) : Joined(u) = v
  <2> DEFINE u == [i \in 1 .. l |-> v[k + i]]
  <2>1. v \in Strings(total) /\ v \in AcceptedFrom(s, total) /\ Run(s, v) \in FinalStates(dfa) /\ Agree(v, w, k)
    BY DEF Extending, AcceptedFrom
  <2>2. u \in Strings(l)
    <3>1. \A i \in 1 .. l : k + i \in 1 .. total
      OBVIOUS
    <3>2. QED
      BY <2>1, <3>1 DEF Strings
  <2>3. Leads(s, v, k, t)
    <3>1. Agree(w, v, k)
      BY <2>1 DEF Agree
    <3>2. QED
      BY <3>1, LeadsSame
  <2>4. Leads(s, v, k + l, Run(s, v))
    BY <1>1, <2>1, RunLeads
  <2>5. Leads(t, u, l, Run(s, v))
    <3>1. \A i \in 1 .. l : u[i] = v[k + i]
      OBVIOUS
    <3> HIDE DEF u
    <3>2. QED
      BY <2>3, <2>4, <3>1, LeadsSuffix
  <2>6. u \in AcceptedFrom(t, l)
    <3> HIDE DEF u
    <3> QED
      BY <2>1, <2>2, <2>5, AcceptedLeads
  <2>7. Joined(u) = v
    <3>1. ASSUME NEW i \in 1 .. total
          PROVE  (IF i <= k THEN w[i] ELSE u[i - k]) = v[i]
      <4>1. CASE i <= k
        BY <2>1, <4>1 DEF Agree
      <4>2. CASE ~ i <= k
        <5>1. i - k \in 1 .. l /\ k + (i - k) = i
          BY <4>2
        <5>2. QED
          BY <4>2, <5>1
      <4>3. QED
        BY <4>1, <4>2
    <3>2. v = [i \in 1 .. total |-> v[i]]
      BY <2>1 DEF Strings
    <3>3. QED
      BY <3>1, <3>2
  <2>8. QED
    BY <2>6, <2>7
<1>5. ASSUME NEW x \in AcceptedFrom(t, l), NEW y \in AcceptedFrom(t, l), Joined(x) = Joined(y)
      PROVE  x = y
  <2>1. x \in Strings(l) /\ y \in Strings(l)
    BY DEF AcceptedFrom
  <2>2. ASSUME NEW i \in 1 .. l
        PROVE  x[i] = y[i]
    <3>1. x[i] = Joined(x)[k + i] /\ y[i] = Joined(y)[k + i]
      BY <1>2, <2>1
    <3>2. QED
      BY <1>5, <3>1
  <2>3. QED
    BY <2>1, <2>2 DEF Strings
<1> HIDE DEF Joined
<1>6. /\ F \in [AcceptedFrom(t, l) -> Extending(s, w, k, total)]
      /\ \A x, y \in AcceptedFrom(t, l) : F[x] = F[y] => x = y
      /\ \A v \in Extending(s, w, k, total) : \E u \in AcceptedFrom(t, l) : F[u] = v
  BY <1>3, <1>4, <1>5
<1>7. HasSize(Extending(s, w, k, total), m)
  <2> HIDE DEF F, total
  <2> QED
    BY <1>6, SizeOfImage
<1>8. QED
  BY <1>7
-----------------------------------------------------------------------------
(* Of these, the words whose next symbol is smaller than a.                *)
Least(s, w, k, a, total) == {v \in AcceptedFrom(s, total) : Agree(v, w, k) /\ v[k + 1] < a}

CountsLength(l) == \A s \in States(dfa) : HasSize(AcceptedFrom(s, l), CachedTable[s][l])

(* The partial sums of one table entry count the words by their first      *)
(* symbol, if the entries they add up count the words they are for.        *)
LEMMA SizeOfLeast ==
  ASSUME BuildInv, Built, NEW k \in Nat, NEW l \in 0 .. MaxLen - 1, NEW w, NEW s, NEW t,
         Leads(s, w, k, t), CountsLength(l)
  PROVE  \A a \in 0 .. dfa.symbols : HasSize(Least(s, w, k, a, k + 1 + l), below[t][l + 1][a])
<1> DEFINE total == k + 1 + l
           T == {a \in 0 .. dfa.symbols : HasSize(Least(s, w, k, a, total), below[t][l + 1][a])}
<1>1. IsDfa(dfa) /\ dfa.symbols \in Nat
  BY DfaFacts DEF BuildInv
<1>2. s \in States(dfa) /\ t \in States(dfa) /\ MaxLen \in Nat
  BY LeadsToState, BoundAssumption
<1>3. l + 1 \in 1 .. MaxLen /\ l + 1 \in Lens /\ (l + 1) - 1 = l /\ total \in Nat /\ k + 1 \in 1 .. total
      /\ l \in Nat
  BY <1>2 DEF Lens
<1>4. below[t][l + 1][0] = 0
  BY <1>2, <1>3, TableFacts
<1>5. \A a \in Symbols(dfa) : below[t][l + 1][a + 1] = below[t][l + 1][a] + CachedTable[Delta(t, a)][l]
  BY <1>2, <1>3, TableFacts
<1>6. 0 \in T
  <2>1. ASSUME NEW v \in Least(s, w, k, 0, total)
        PROVE  FALSE
    <3>1. v \in Strings(total) /\ v[k + 1] < 0
      BY DEF Least, AcceptedFrom
    <3>2. v[k + 1] \in Symbols(dfa)
      BY <1>3, <3>1 DEF Strings
    <3>3. QED
      BY <1>1, <3>1, <3>2 DEF Symbols
  <2>2. Least(s, w, k, 0, total) = {}
    BY <2>1
  <2>3. HasSize(Least(s, w, k, 0, total), below[t][l + 1][0])
    BY <1>4, <2>2, SizeOfEmpty
  <2>4. QED
    BY <1>1, <2>3
<1>7. ASSUME NEW a \in 0 .. dfa.symbols - 1, a \in T
      PROVE  a + 1 \in T
  <2> DEFINE x == [i \in 1 .. k + 1 |-> IF i = k + 1 THEN a ELSE w[i]]
  <2>1. a \in Symbols(dfa)
    BY <1>1 DEF Symbols
  <2>2. x[k + 1] = a /\ \A i \in 1 .. k : x[i] = w[i]
    OBVIOUS
  <2> HIDE DEF x
  <2>3. Leads(s, x, k, t)
    <3>1. Agree(w, x, k)
      BY <2>2 DEF Agree
    <3>2. QED
      BY <3>1, LeadsSame
  <2>4. Leads(s, x, k + 1, Delta(t, a)) /\ Delta(t, a) \in States(dfa)
    BY <1>1, <1>2, <2>1, <2>2, <2>3, LeadsOn, DeltaIsState
  <2>5. HasSize(AcceptedFrom(Delta(t, a), l), CachedTable[Delta(t, a)][l])
    BY <2>4 DEF CountsLength
  <2>6. HasSize(Extending(s, x, k + 1, total), CachedTable[Delta(t, a)][l])
    <3>1. k + 1 \in Nat
      OBVIOUS
    <3>2. QED
      BY <1>1, <1>3, <2>4, <2>5, <3>1, SizeOfExtending
  <2>7. HasSize(Least(s, w, k, a, total), below[t][l + 1][a])
    BY <1>7
  <2>8. \A v \in AcceptedFrom(s, total) : v[k + 1] \in Symbols(dfa)
    BY <1>3 DEF AcceptedFrom, Strings
  <2>9. \A v : Agree(v, x, k + 1) <=> (Agree(v, w, k) /\ v[k + 1] = a)
    <3>1. ASSUME NEW v, Agree(v, x, k + 1)
          PROVE  Agree(v, w, k) /\ v[k + 1] = a
      <4>1. \A i \in 1 .. k : i \in 1 .. k + 1
        OBVIOUS
      <4>2. k + 1 \in 1 .. k + 1
        OBVIOUS
      <4>3. QED
        BY <2>2, <3>1, <4>1, <4>2 DEF Agree
    <3>2. ASSUME NEW v, Agree(v, w, k), v[k + 1] = a
          PROVE  Agree(v, x, k + 1)
      <4>1. \A i \in 1 .. k + 1 : i \in 1 .. k \/ i = k + 1
        OBVIOUS
      <4>2. QED
        BY <2>2, <3>2, <4>1 DEF Agree
    <3>3. QED
      BY <3>1, <3>2
  <2>10. Least(s, w, k, a + 1, total) = Least(s, w, k, a, total) \cup Extending(s, x, k + 1, total)
    <3>1. \A b \in Symbols(dfa) : b < a + 1 <=> (b < a \/ b = a)
      BY <1>1, <2>1 DEF Symbols
    <3>2. QED
      BY <2>8, <2>9, <3>1 DEF Least, Extending
  <2>11. Least(s, w, k, a, total) \cap Extending(s, x, k + 1, total) = {}
    <3>1. ~ a < a
      BY <2>1 DEF Symbols
    <3>2. QED
      BY <2>9, <3>1 DEF Least, Extending
  <2>12. HasSize(Least(s, w, k, a + 1, total), below[t][l + 1][a] + CachedTable[Delta(t, a)][l])
    BY <2>6, <2>7, <2>10, <2>11, SizeOfUnion
  <2>13. a + 1 \in 0 .. dfa.symbols
    BY <1>1
  <2>14. HasSize(Least(s, w, k, a + 1, total), below[t][l + 1][a + 1])
    BY <1>5, <2>1, <2>12
  <2>15. QED
    BY <2>13, <2>14
<1>8. \A a \in 0 .. dfa.symbols : a \in T
  <2> HIDE DEF T
  <2> QED
    BY <1>1, <1>6, <1>7, InductionUpTo
<1>9. QED
  BY <1>8

(* Every entry of the table counts the words it is for.                    *)
LEMMA TablesCount ==
  ASSUME BuildInv, Built
  PROVE  \A l \in Lens : CountsLength(l)
<1>1. IsDfa(dfa) /\ dfa.symbols \in Nat /\ 0 \in Symbols(dfa) /\ MaxLen \in Nat
  BY DfaFacts, BoundAssumption DEF BuildInv
<1> DEFINE T == {l \in 0 .. MaxLen : CountsLength(l)}
<1>2. 0 \in T
  <2>1. ASSUME NEW s \in States(dfa)
        PROVE  HasSize(AcceptedFrom(s, 0), CachedTable[s][0])
    <3> DEFINE e == [i \in 1 .. 0 |-> 0]
    <3>1. \A v : v \in Strings(0) <=> v = e
      <4>1. e \in Strings(0)
        BY DEF Strings
      <4>2. ASSUME NEW v \in Strings(0)
            PROVE  v = e
        <5>1. v = [i \in 1 .. 0 |-> v[i]] /\ \A i \in 1 .. 0 : v[i] = e[i]
          BY DEF Strings
        <5>2. QED
          BY <5>1
      <4>3. QED
        BY <4>1, <4>2
    <3>2. Leads(s, e, 0, s) /\ 0 \in Nat
      BY LeadsNowhere
    <3> HIDE DEF e
    <3>3. e \in AcceptedFrom(s, 0) <=> s \in FinalStates(dfa)
      BY <1>1, <3>1, <3>2, AcceptedLeads
    <3>4. AcceptedFrom(s, 0) = IF s \in FinalStates(dfa) THEN {e} ELSE {}
      BY <3>1, <3>3 DEF AcceptedFrom
    <3>5. CachedTable[s][0] = IF s \in FinalStates(dfa) THEN 1 ELSE 0
      BY TableFacts
    <3>6. HasSize({e}, 1) /\ HasSize({}, 0)
      BY FS_Singleton, SizeOfEmpty DEF HasSize
    <3>7. QED
      BY <3>4, <3>5, <3>6
  <2>2. QED
    BY <1>1, <2>1 DEF CountsLength
<1>3. ASSUME NEW l \in 0 .. MaxLen - 1, l \in T
      PROVE  l + 1 \in T
  <2>1. ASSUME NEW s \in States(dfa)
        PROVE  HasSize(AcceptedFrom(s, l + 1), CachedTable[s][l + 1])
    <3> DEFINE w == [i \in 1 .. 0 |-> 0]
    <3>1. Leads(s, w, 0, s) /\ 0 \in Nat /\ 0 + 1 + l = l + 1 /\ CountsLength(l)
      BY <1>3, LeadsNowhere
    <3> HIDE DEF w
    <3>2. \A a \in 0 .. dfa.symbols : HasSize(Least(s, w, 0, a, l + 1), below[s][l + 1][a])
      <4>1. \A a \in 0 .. dfa.symbols : HasSize(Least(s, w, 0, a, 0 + 1 + l), below[s][l + 1][a])
        BY <3>1, SizeOfLeast
      <4>2. QED
        BY <3>1, <4>1
    <3>3. Least(s, w, 0, dfa.symbols, l + 1) = AcceptedFrom(s, l + 1)
      <4>1. ASSUME NEW v \in AcceptedFrom(s, l + 1)
            PROVE  Agree(v, w, 0) /\ v[0 + 1] < dfa.symbols
        <5>1. v[1] \in Symbols(dfa)
          <6>1. 1 \in 1 .. l + 1
            OBVIOUS
          <6>2. QED
            BY <6>1 DEF AcceptedFrom, Strings
        <5>2. QED
          BY <1>1, <5>1 DEF Agree, Symbols
      <4>2. QED
        BY <4>1 DEF Least
    <3>4. CachedTable[s][l + 1] = below[s][l + 1][dfa.symbols]
      <4>1. l + 1 \in 1 .. MaxLen
        BY <1>1
      <4>2. QED
        BY <4>1, TableFacts
    <3>5. dfa.symbols \in 0 .. dfa.symbols
      BY <1>1
    <3>6. QED
      BY <3>2, <3>3, <3>4, <3>5
  <2>2. l + 1 \in 0 .. MaxLen
    BY <1>1
  <2>3. QED
    BY <2>1, <2>2 DEF CountsLength
<1>4. \A l \in 0 .. MaxLen : l \in T
  <2> HIDE DEF T
  <2> QED
    BY <1>1, <1>2, <1>3, InductionUpTo
<1>5. \A l \in 0 .. MaxLen : CountsLength(l)
  BY <1>4
<1>6. QED
  BY <1>5 DEF Lens
-----------------------------------------------------------------------------
(* StoreCount copies the table's entry for the start state.                *)
ExclusiveInv ==
  pc \notin {"new", "fill"} =>
    \A m \in 0 .. Counted - 1 : exclusive[m] = CachedTable[dfa.start][m]

LEMMA StoreCountExclusiveInv ==
  ASSUME BuildInv, ExclusiveInv, StoreCount
  PROVE  ExclusiveInv'
<1>1. /\ pc = "count" /\ pc' = "count" /\ len' = len + 1 /\ len <= MaxLen
      /\ dfa' = dfa /\ CachedTable' = CachedTable
      /\ exclusive' = [exclusive EXCEPT ![len] = CachedTable[dfa.start][len]]
  BY DEF StoreCount
<1>2. /\ MaxLen \in Nat /\ len \in 0 .. MaxLen /\ exclusive \in [Lens -> Nat]
  BY <1>1, BoundAssumption DEF BuildInv, BuildType, Counts
<1>3. /\ Counted = len /\ Counted' = len + 1
      /\ \A m \in 0 .. len - 1 : exclusive[m] = CachedTable[dfa.start][m]
  BY <1>1 DEF Counted, ExclusiveInv
<1>4. ASSUME NEW m \in 0 .. len
      PROVE  exclusive'[m] = CachedTable[dfa.start][m]
  <2>1. m \in Lens
    BY <1>2 DEF Lens
  <2>2. m = len \/ m \in 0 .. len - 1
    BY <1>2
  <2>3. QED
    BY <1>1, <1>2, <1>3, <2>1, <2>2
<1>5. \A m \in 0 .. Counted' - 1 : exclusive'[m] = CachedTable'[dfa'.start][m]
  BY <1>1, <1>2, <1>3, <1>4
<1>6. QED
  BY <1>5 DEF ExclusiveInv

THEOREM ExclusiveKept == Spec => []ExclusiveInv
<1>1. Init => ExclusiveInv
  BY DEF Init, ExclusiveInv
<1>2. BuildInv /\ ExclusiveInv /\ [Next]_vars => ExclusiveInv'
  <2> SUFFICES ASSUME BuildInv, ExclusiveInv, [Next]_vars
               PROVE  ExclusiveInv'
    OBVIOUS
  <2>1. CASE SetLanguage
    BY <2>1 DEF SetLanguage, ExclusiveInv
  <2>2. CASE FillEntry
    BY <2>2 DEF FillEntry, ExclusiveInv
  <2>3. CASE FillDone
    BY <2>3 DEF FillDone, ExclusiveInv, Counted
  <2>4. CASE CountWords
    BY <2>4 DEF CountWords, ExclusiveInv, Counted, lang
  <2>5. CASE StoreCount
    BY <2>5, StoreCountExclusiveInv
  <2>6. CASE SetLanguageReturn
    <3>1. /\ pc = "count" /\ pc' = "idle" /\ len > MaxLen /\ dfa' = dfa
          /\ CachedTable' = CachedTable /\ exclusive' = exclusive
      BY <2>6 DEF SetLanguageReturn
    <3>2. len = MaxLen + 1
      BY <3>1, BoundAssumption DEF BuildInv, BuildType
    <3>3. QED
      BY <3>1, <3>2 DEF ExclusiveInv, Counted
  <2>7. CASE Walk
    BY <2>7, WalkFrame DEF ExclusiveInv, Counted, Built, lang
  <2>8. CASE UNCHANGED vars
    BY <2>8 DEF vars, ExclusiveInv, Counted
  <2>9. QED
    BY <2>1, <2>2, <2>3, <2>4, <2>5, <2>6, <2>7, <2>8 DEF Next, Step, Build, Walk
<1>3. QED
  BY <1>1, <1>2, TablesBuilt, PTL DEF Spec
-----------------------------------------------------------------------------
UpToLength(l) == {w \in Language : Len(w) <= l}

LEMMA LanguageByLength ==
  ASSUME NEW w
  PROVE  /\ w \in Language => Len(w) \in Lens /\ w \in AcceptedFrom(dfa.start, Len(w))
         /\ \A l \in Lens : w \in AcceptedFrom(dfa.start, l) => w \in Language /\ Len(w) = l
<1>1. MaxLen \in Nat
  BY BoundAssumption
<1>2. ASSUME NEW l \in Lens, w \in AcceptedFrom(dfa.start, l)
      PROVE  Len(w) = l
  BY <1>1, <1>2 DEF AcceptedFrom, Strings, Lens
<1>3. QED
  BY <1>2 DEF Language

(* The cumulative table counts the words up to each length.                *)
LEMMA SizeUpToLength ==
  ASSUME BuildInv, Built
  PROVE  \A l \in Lens : HasSize(UpToLength(l), inclusive[l])
<1>1. MaxLen \in Nat /\ dfa.start \in States(dfa)
  BY DfaFacts, BoundAssumption DEF BuildInv
<1>2. \A l \in Lens : HasSize(AcceptedFrom(dfa.start, l), CachedTable[dfa.start][l])
  BY <1>1, TablesCount DEF CountsLength
<1>3. inclusive[0] = CachedTable[dfa.start][0]
  <2>1. pc \notin {"new", "fill", "count"} /\ CountInv /\ Counted = MaxLen + 1
    BY DEF Built, BuildInv, Counted
  <2>2. 0 \in 0 .. Counted - 1 /\ CachedTable[dfa.start][0] \in Nat
    BY <1>1, <2>1, TableFacts
  <2>3. QED
    BY <2>1, <2>2 DEF CountInv, UpTo
<1> DEFINE T == {l \in 0 .. MaxLen : HasSize(UpToLength(l), inclusive[l])}
<1>4. 0 \in T
  <2>1. UpToLength(0) = AcceptedFrom(dfa.start, 0)
    <3>1. 0 \in Lens /\ \A l \in Lens : l <= 0 => l = 0
      BY <1>1 DEF Lens
    <3>2. \A w : w \in UpToLength(0) <=> w \in AcceptedFrom(dfa.start, 0)
      BY <3>1, LanguageByLength DEF UpToLength
    <3>3. QED
      BY <3>2
  <2>2. 0 \in Lens
    BY <1>1 DEF Lens
  <2>3. QED
    BY <1>1, <1>2, <1>3, <2>1, <2>2
<1>5. ASSUME NEW l \in 0 .. MaxLen - 1, l \in T
      PROVE  l + 1 \in T
  <2>1. l \in Lens /\ l + 1 \in Lens /\ l + 1 \in 1 .. MaxLen /\ (l + 1) - 1 = l
    BY <1>1 DEF Lens
  <2>2. \A k \in Lens : k <= l + 1 <=> (k <= l \/ k = l + 1)
    BY <1>1, <2>1 DEF Lens
  <2>3. \A w : w \in UpToLength(l + 1) <=>
                 (w \in UpToLength(l) \/ w \in AcceptedFrom(dfa.start, l + 1))
    BY <2>1, <2>2, LanguageByLength DEF UpToLength
  <2>4. UpToLength(l + 1) = UpToLength(l) \cup AcceptedFrom(dfa.start, l + 1)
    BY <2>3
  <2>5. UpToLength(l) \cap AcceptedFrom(dfa.start, l + 1) = {}
    <3>1. ~ l + 1 <= l
      BY <2>1
    <3>2. QED
      BY <2>1, <3>1, LanguageByLength DEF UpToLength
  <2>6. HasSize(UpToLength(l), inclusive[l])
    BY <1>5
  <2>7. HasSize(UpToLength(l + 1), inclusive[l] + CachedTable[dfa.start][l + 1])
    BY <1>2, <2>1, <2>4, <2>5, <2>6, SizeOfUnion
  <2>8. inclusive[l + 1] = inclusive[l] + CachedTable[dfa.start][l + 1]
    <3>1. inclusive[l + 1] = CachedTable[dfa.start][l + 1] + inclusive[l]
      BY <2>1, CountFacts
    <3>2. CachedTable[dfa.start][l + 1] \in Nat /\ inclusive[l] \in Nat
      BY <1>1, <2>1, TableFacts, CountFacts
    <3>3. QED
      BY <3>1, <3>2
  <2>9. QED
    BY <2>1, <2>7, <2>8 DEF Lens
<1>6. \A l \in 0 .. MaxLen : l \in T
  <2> HIDE DEF T
  <2> QED
    BY <1>1, <1>4, <1>5, InductionUpTo
<1>7. \A l \in 0 .. MaxLen : HasSize(UpToLength(l), inclusive[l])
  BY <1>6
<1>8. QED
  BY <1>7 DEF Lens

(* Once built, the tables count the words of the language by state and     *)
(* length, whatever the automaton (dfa_ranker.h:72-78).                    *)
THEOREM TablesCountWordsHolds == Spec => []TablesCountWords
<1>1. BuildInv /\ ExclusiveInv => TablesCountWords
  <2> SUFFICES ASSUME BuildInv, ExclusiveInv, pc = "idle"
               PROVE  /\ \A s \in States(dfa), l \in Lens :
                           CachedTable[s][l] = Cardinality(AcceptedFrom(s, l))
                      /\ \A l \in Lens :
                           /\ exclusive[l] = Cardinality(AcceptedFrom(dfa.start, l))
                           /\ inclusive[l] = Cardinality({w \in Language : Len(w) <= l})
    BY DEF TablesCountWords
  <2>1. Built /\ dfa.start \in States(dfa) /\ MaxLen \in Nat
    BY DfaFacts, BoundAssumption DEF BuildInv, Built
  <2>2. \A s \in States(dfa), l \in Lens : CachedTable[s][l] = Cardinality(AcceptedFrom(s, l))
    BY <2>1, TablesCount DEF CountsLength, HasSize
  <2>3. \A l \in Lens : exclusive[l] = CachedTable[dfa.start][l]
    BY <2>1 DEF ExclusiveInv, Counted, Lens
  <2>4. \A l \in Lens : inclusive[l] = Cardinality({w \in Language : Len(w) <= l})
    BY <2>1, SizeUpToLength DEF HasSize, UpToLength
  <2>5. QED
    BY <2>1, <2>2, <2>3, <2>4
<1>2. QED
  BY <1>1, TablesBuilt, ExclusiveKept, PTL
-----------------------------------------------------------------------------
(* The words of length l that are before w and differ from it within the   *)
(* first k symbols.                                                        *)
Smaller(w, k, l) ==
  {v \in AcceptedFrom(dfa.start, l) : \E j \in 1 .. k : Agree(v, w, j - 1) /\ v[j] < w[j]}

LEMMA SizeOfSmallerNone == \A w, l : HasSize(Smaller(w, 0, l), 0)
<1>1. \A w, l : Smaller(w, 0, l) = {}
  BY DEF Smaller
<1>2. QED
  BY <1>1, SizeOfEmpty

(* The words that differ at k + 1 first are what below counts.             *)
LEMMA SizeOfSmaller ==
  ASSUME BuildInv, Built, NEW l \in 1 .. MaxLen, NEW k \in 0 .. l - 1, NEW w, NEW t,
         Leads(dfa.start, w, k, t), NEW a \in 0 .. dfa.symbols, a = w[k + 1],
         NEW m, HasSize(Smaller(w, k, l), m)
  PROVE  HasSize(Smaller(w, k + 1, l), m + below[t][l - k][a])
<1> DEFINE r == l - k - 1
<1>1. /\ MaxLen \in Nat /\ k \in Nat /\ r \in Nat /\ r \in 0 .. MaxLen - 1 /\ r \in 0 .. MaxLen
      /\ k + 1 + r = l /\ r + 1 = l - k
  BY BoundAssumption
<1>2. CountsLength(r)
  BY <1>1, TablesCount DEF Lens
<1>3. HasSize(Least(dfa.start, w, k, a, l), below[t][l - k][a])
  <2>1. \A b \in 0 .. dfa.symbols :
          HasSize(Least(dfa.start, w, k, b, k + 1 + r), below[t][r + 1][b])
    <3> HIDE DEF r
    <3> QED
      BY <1>1, <1>2, SizeOfLeast
  <2>2. QED
    BY <1>1, <2>1
<1>4. \A j \in 1 .. k : w[j] \in Int
  <2>1. \A j \in 1 .. k : w[j] \in Symbols(dfa)
    BY DEF Leads, Reads
  <2>2. \A b \in Symbols(dfa) : b \in Int
    BY DEF Symbols
  <2>3. QED
    BY <2>1, <2>2
<1>5. Smaller(w, k + 1, l) = Smaller(w, k, l) \cup Least(dfa.start, w, k, a, l)
  <2>1. \A j : j \in 1 .. k + 1 <=> (j \in 1 .. k \/ j = k + 1)
    BY <1>1
  <2>2. (k + 1) - 1 = k
    BY <1>1
  <2>3. \A v : (\E j \in 1 .. k + 1 : Agree(v, w, j - 1) /\ v[j] < w[j]) <=>
                 (\/ \E j \in 1 .. k : Agree(v, w, j - 1) /\ v[j] < w[j]
                  \/ Agree(v, w, k) /\ v[k + 1] < w[k + 1])
    BY <2>1, <2>2
  <2>4. QED
    BY <2>3 DEF Smaller, Least
<1>6. Smaller(w, k, l) \cap Least(dfa.start, w, k, a, l) = {}
  <2>1. ASSUME NEW v, Agree(v, w, k), NEW j \in 1 .. k, v[j] < w[j]
        PROVE  FALSE
    <3>1. v[j] = w[j] /\ w[j] \in Int
      BY <1>4, <2>1 DEF Agree
    <3>2. QED
      BY <2>1, <3>1
  <2>2. QED
    BY <2>1 DEF Smaller, Least
<1>7. QED
  BY <1>3, <1>5, <1>6, SizeOfUnion

LEMMA IndexOf ==
  ASSUME BuildInv, Built, NEW l \in 1 .. MaxLen, NEW w \in Strings(l), NEW m,
         HasSize(Smaller(w, l, l), m)
  PROVE  Index(w) = m + inclusive[l - 1]
<1>1. /\ MaxLen \in Nat /\ l \in Lens /\ l - 1 \in Lens /\ l \in Nat
  BY BoundAssumption DEF Lens
<1>2. Len(w) = l
  BY <1>1 DEF Strings
<1>3. \A k \in Lens : k < l <=> k <= l - 1
  BY <1>1 DEF Lens
<1>4. ~ l <= l - 1
  BY <1>1
<1>5. ASSUME NEW v
      PROVE  v \in UpToLength(l - 1) <=> (v \in Language /\ Len(v) < l)
  BY <1>3, LanguageByLength DEF UpToLength
<1>6. ASSUME NEW v
      PROVE  v \in Smaller(w, l, l) <=>
               (/\ v \in Language /\ Len(v) = l
                /\ \E i \in 1 .. l : v[i] < w[i] /\ \A j \in 1 .. i - 1 : v[j] = w[j])
  BY <1>1, LanguageByLength DEF Smaller, Agree
<1>7. \A v : v \in Language /\ Before(v, w) <=> v \in Smaller(w, l, l) \/ v \in UpToLength(l - 1)
  BY <1>2, <1>5, <1>6 DEF Before
<1>8. {v \in Language : Before(v, w)} = Smaller(w, l, l) \cup UpToLength(l - 1)
  BY <1>7
<1>9. Smaller(w, l, l) \cap UpToLength(l - 1) = {}
  BY <1>1, <1>4, <1>5, <1>6 DEF UpToLength
<1>10. HasSize(UpToLength(l - 1), inclusive[l - 1])
  BY <1>1, SizeUpToLength
<1>11. QED
  BY <1>8, <1>9, <1>10, SizeOfUnion DEF HasSize, Index
-----------------------------------------------------------------------------
(* What Unrank has left at a point of the trail and the words that its     *)
(* choices passed over make up what there was at the first.                *)
LEMMA WalkedCounts ==
  ASSUME BuildInv, WalkInv, Built, Walked(n)
  PROVE  \A k \in 0 .. n :
           /\ Leads(dfa.start, indices, k, trail[k + 1].q)
           /\ HasSize(Smaller(indices, k, n), trail[1].c - trail[k + 1].c)
<1>1. /\ IsDfa(dfa) /\ dfa.start \in States(dfa) /\ dfa.symbols \in Nat
      /\ MaxLen \in Nat /\ n \in 1 .. MaxLen /\ n \in Nat
      /\ trail[1].q = dfa.start
  BY DfaFacts, BoundAssumption DEF BuildInv, Walked
<1>2. \A k \in 0 .. n : trail[k + 1].c \in Nat
  <2>1. trail \in Seq(Positions) /\ Len(trail) = n + 1
    BY DEF WalkInv, WalkType, Walked
  <2>2. \A k \in 0 .. n : trail[k + 1] \in Positions
    BY <1>1, <2>1
  <2>3. QED
    BY <2>2 DEF Positions
<1> DEFINE T == {k \in 0 .. n : /\ Leads(dfa.start, indices, k, trail[k + 1].q)
                                /\ HasSize(Smaller(indices, k, n), trail[1].c - trail[k + 1].c)}
<1>3. 0 \in T
  <2>1. trail[0 + 1].q = dfa.start /\ trail[1].c - trail[0 + 1].c = 0
    BY <1>1, <1>2
  <2>2. QED
    BY <1>1, <2>1, LeadsNowhere, SizeOfSmallerNone
<1>4. ASSUME NEW k \in 0 .. n - 1, k \in T
      PROVE  k + 1 \in T
  <2> DEFINE j == k + 1
             t == trail[j].q
             x == trail[j].c
             y == trail[j + 1].c
             z == trail[1].c
             b == below[t][n - k][indices[j]]
  <2>1. j \in 1 .. n /\ k \in Nat /\ k + 1 \in 0 .. n /\ n - j + 1 = n - k /\ n - k \in 1 .. MaxLen
        /\ k \in 0 .. n
    BY <1>1
  <2>2. Hop(j)
    BY <2>1 DEF Walked
  <2>3. /\ indices[j] \in Symbols(dfa) /\ x = b + y /\ trail[j + 1].q = Delta(t, indices[j])
    BY <2>1, <2>2 DEF Hop
  <2>4. Leads(dfa.start, indices, k, t) /\ HasSize(Smaller(indices, k, n), z - x)
    BY <1>4
  <2>5. indices[j] \in 0 .. dfa.symbols
    BY <1>1, <2>3 DEF Symbols
  <2>6. Leads(dfa.start, indices, k + 1, trail[j + 1].q)
    BY <1>1, <2>1, <2>3, <2>4, LeadsOn
  <2>7. HasSize(Smaller(indices, k + 1, n), (z - x) + b)
    <3> HIDE DEF x, y, z, t
    <3> QED
      BY <1>1, <2>1, <2>4, <2>5, SizeOfSmaller
  <2>8. (z - x) + b = z - y
    <3>1. x \in Nat /\ y \in Nat /\ z \in Nat
      BY <1>1, <1>2, <2>1
    <3>2. t \in States(dfa)
      BY <2>1, <2>4, LeadsToState
    <3>3. b \in Nat
      <4>1. n - k \in Lens
        BY <1>1, <2>1 DEF Lens
      <4>2. QED
        BY <2>5, <3>2, <4>1, TableFacts
    <3> HIDE DEF x, y, z, b
    <3>4. QED
      BY <2>3, <3>1, <3>3
  <2>9. QED
    BY <2>1, <2>6, <2>7, <2>8
<1>5. \A k \in 0 .. n : k \in T
  <2> HIDE DEF T
  <2> QED
    BY <1>1, <1>3, <1>4, InductionUpTo
<1>6. QED
  BY <1>5

LEMMA ReadsIsString ==
  ASSUME NEW l \in Nat, NEW S, NEW w \in Seq(S), Len(w) = l, Reads(w, l)
  PROVE  w \in Strings(l)
<1>1. w = [i \in 1 .. l |-> w[i]] /\ \A i \in 1 .. l : w[i] \in Symbols(dfa)
  BY DEF Reads
<1>2. QED
  BY <1>1 DEF Strings

(* Unrank leaves in *word the word of the index it was asked for, by       *)
(* length and then lexicographically, for every automaton and length       *)
(* (ranker.h:15).                                                          *)
THEOREM UnrankFollowsOrderHolds == Spec => []UnrankFollowsOrder
<1>1. BuildInv /\ WalkInv => UnrankFollowsOrder
  <2> SUFFICES ASSUME BuildInv, WalkInv, pc = "idle", op = "Unrank", ret # "threw", OneToOne
               PROVE  Indices(word) \in Language /\ Index(Indices(word)) = asked
    BY DEF UnrankFollowsOrder
  <2>1. Built /\ Unranked
    BY DEF Built, WalkInv, UnrankReturned
  <2>2. /\ Walked(n) /\ trail[n + 1].q \in FinalStates(dfa) /\ trail[n + 1].c = 0
        /\ n \in 1 .. MaxLen /\ MaxLen \in Nat /\ n \in Nat /\ n \in 0 .. n /\ n \in Lens
        /\ n - 1 \in Lens
    BY <2>1, BoundAssumption DEF Unranked, Walked, Lens
  <2>3. /\ Leads(dfa.start, indices, n, trail[n + 1].q)
        /\ HasSize(Smaller(indices, n, n), trail[1].c - trail[n + 1].c)
    BY <2>1, <2>2, WalkedCounts
  <2>4. indices \in Strings(n)
    <3>1. Reads(indices, n) /\ Len(indices) = n /\ indices \in Seq(0 .. Base)
      BY <2>2, <2>3 DEF Leads, Walked, WalkInv, WalkType
    <3>2. QED
      BY <2>2, <3>1, ReadsIsString
  <2>5. indices \in AcceptedFrom(dfa.start, n)
    <3>1. IsDfa(dfa)
      BY DfaFacts DEF BuildInv
    <3>2. QED
      BY <2>2, <2>3, <2>4, <3>1, AcceptedLeads
  <2>6. indices \in Language
    BY <2>2, <2>5, LanguageByLength
  <2>7. Index(indices) = (trail[1].c - trail[n + 1].c) + inclusive[n - 1]
    BY <2>1, <2>2, <2>3, <2>4, IndexOf
  <2>8. trail[1].c = asked - inclusive[n - 1] /\ asked \in Nat /\ inclusive[n - 1] \in Nat
    BY <2>1, <2>2, CountFacts DEF Walked
  <2>9. Indices(word) = indices
    <3>1. \A i \in 1 .. Len(word) : indices[i] \in Symbols(dfa)
      BY <2>2 DEF Walked, Hop
    <3>2. BuildType /\ WalkType /\ \A i \in 1 .. Len(word) : word[i] = dfa.sigma[indices[i]]
      BY DEF BuildInv, WalkInv, Spelled
    <3>3. QED
      BY <3>1, <3>2, IndicesOf
  <2>10. QED
    BY <2>2, <2>6, <2>7, <2>8, <2>9
<1>2. QED
  BY <1>1, TablesBuilt, WalksKeep, PTL
-----------------------------------------------------------------------------
(* What Rank has added counts the words before the given one among those   *)
(* that differ from it in a symbol already read, or have, at the position  *)
(* being read, a symbol before the cursor.                                 *)
RankOrderInv ==
  pc = "rank" /\ OneToOne =>
    /\ Leads(dfa.start, indices, pos - 1, q)
    /\ n \in 1 .. MaxLen =>
         HasSize(Smaller(indices, pos - 1, n), rank - below[q][n - pos + 1][cursor])

LEMMA AcceptedKept ==
  ASSUME dfa' = dfa
  PROVE  \A s, l : AcceptedFrom(s, l)' = AcceptedFrom(s, l)
<1>1. Symbols(dfa)' = Symbols(dfa)
  BY DEF Symbols
<1>2. \A v, s : Run(s, v)' = Run(s, v)
  BY DEF Run, Delta
<1>3. QED
  BY <1>1, <1>2 DEF AcceptedFrom, Strings

LEMMA CallRankOrder ==
  ASSUME BuildInv, WalkInv, NEW w \in Words \cup {word}, CallRank(w)
  PROVE  RankOrderInv'
<1>1. /\ pc = "idle" /\ pc' = "rank" /\ n' = Len(w) /\ rank' = 0
      /\ pos' = 1 /\ q' = dfa.start /\ cursor' = 0
      /\ dfa' = dfa /\ below' = below
  BY DEF CallRank, lang
<1>2. dfa.start \in States(dfa) /\ Built /\ MaxLen \in Nat
  BY <1>1, DfaFacts, BoundAssumption DEF BuildInv, Built
<1>3. Leads(dfa.start, indices, pos - 1, q)'
  <2>1. PICK v : v = indices'
    OBVIOUS
  <2>2. Leads(dfa.start, v, 0, dfa.start)
    <3>1. \A s \in States(dfa) : \A u : Leads(s, u, 0, s)
      BY LeadsNowhere
    <3>2. QED
      BY <1>2, <3>1
  <2>3. pos' - 1 = 0
    BY <1>1
  <2>4. QED
    BY <1>1, <2>1, <2>2, <2>3 DEF Leads, Reads, IsPath, Steps, Delta, Symbols, States
<1>4. ASSUME n' \in 1 .. MaxLen
      PROVE  HasSize(Smaller(indices, pos - 1, n), rank - below[q][n - pos + 1][cursor])'
  <2>1. pos' - 1 = 0 /\ n' - pos' + 1 = n' /\ n' \in Lens
    BY <1>1, <1>2, <1>4 DEF Lens
  <2>2. below[dfa.start][n'][0] = 0
    BY <1>2, <2>1, TableFacts
  <2>3. Smaller(indices, pos - 1, n)' = {}
    <3>1. 1 .. pos' - 1 = {}
      BY <2>1
    <3>2. QED
      BY <3>1 DEF Smaller
  <2>4. rank' - below'[q'][n' - pos' + 1][cursor'] = 0
    BY <1>1, <2>1, <2>2
  <2>5. QED
    BY <2>3, <2>4, SizeOfEmpty
<1>5. QED
  BY <1>1, <1>3, <1>4 DEF RankOrderInv

(* Rank has read one more symbol, and has added the words that have a      *)
(* smaller symbol there.                                                   *)
LEMMA RankOnOrder ==
  ASSUME BuildInv, WalkInv, RankOrderInv, pc = "rank", pos <= n, indices[pos] \in Symbols(dfa),
         OneToOne, NEW r \in Nat, RankOn(Delta(q, indices[pos]), r),
         n \in 1 .. MaxLen =>
           r - below[q][n - pos + 1][indices[pos]] = rank - below[q][n - pos + 1][cursor]
  PROVE  RankOrderInv'
<1>1. /\ pc' = "rank" /\ rank' = r /\ q' = Delta(q, indices[pos]) /\ pos' = pos + 1 /\ cursor' = 0
      /\ dfa' = dfa /\ CachedTable' = CachedTable /\ below' = below
      /\ n' = n /\ indices' = indices
  BY DEF RankOn, lang
<1>2. /\ Built /\ IsDfa(dfa) /\ dfa.symbols \in Nat /\ pos \in 1 .. n /\ MaxLen \in Nat
      /\ n \in Nat /\ q \in States(dfa) /\ pos' - 1 = pos /\ pos - 1 \in Nat
      /\ (pos - 1) + 1 = pos /\ n' - pos' + 1 = n - pos
      /\ Delta(q, indices[pos]) \in States(dfa) /\ rank \in Nat /\ cursor \in 0 .. dfa.symbols
      /\ indices[pos] \in 0 .. dfa.symbols
  <2>1. Built /\ IsDfa(dfa) /\ dfa.symbols \in Nat
    BY DfaFacts DEF BuildInv, Built
  <2>2. pos \in 1 .. n /\ n \in Nat /\ q \in States(dfa) /\ MaxLen \in Nat /\ rank \in Nat
        /\ cursor \in Symbols(dfa)
    BY RankFacts
  <2>3. /\ pos' - 1 = pos /\ pos - 1 \in Nat /\ (pos - 1) + 1 = pos
        /\ n' - pos' + 1 = n - pos
    BY <1>1, <2>2
  <2>4. Delta(q, indices[pos]) \in States(dfa)
    BY <2>1, <2>2, DeltaIsState
  <2>5. cursor \in 0 .. dfa.symbols /\ indices[pos] \in 0 .. dfa.symbols
    BY <2>1, <2>2 DEF Symbols
  <2>6. QED
    BY <2>1, <2>2, <2>3, <2>4, <2>5
<1>3. Leads(dfa.start, indices, pos - 1, q)
  BY DEF RankOrderInv
<1>4. Leads(dfa.start, indices, pos, Delta(q, indices[pos]))
  <2>1. Leads(dfa.start, indices, (pos - 1) + 1, Delta(q, indices[(pos - 1) + 1]))
    BY <1>2, <1>3, LeadsOn
  <2>2. QED
    BY <1>2, <2>1
<1>5. ASSUME n \in 1 .. MaxLen
      PROVE  HasSize(Smaller(indices, pos, n), r - below[Delta(q, indices[pos])][n - pos][0])
  <2> DEFINE a == indices[pos]
             b == below[q][n - pos + 1]
  <2>1. HasSize(Smaller(indices, pos - 1, n), r - b[a])
    BY <1>5 DEF RankOrderInv
  <2>2. pos - 1 \in 0 .. n - 1 /\ n - (pos - 1) = n - pos + 1 /\ n - pos \in Lens
        /\ n - pos + 1 \in Lens
    BY <1>2, <1>5 DEF Lens
  <2>3. HasSize(Smaller(indices, (pos - 1) + 1, n), (r - b[a]) + below[q][n - (pos - 1)][a])
    <3>1. a = indices[(pos - 1) + 1] /\ a \in 0 .. dfa.symbols
      BY <1>2
    <3> HIDE DEF b, a
    <3>2. QED
      BY <1>2, <1>3, <1>5, <2>1, <2>2, <3>1, SizeOfSmaller
  <2>4. HasSize(Smaller(indices, pos, n), (r - b[a]) + b[a])
    BY <1>2, <2>2, <2>3
  <2>5. below[Delta(q, a)][n - pos][0] = 0
    BY <1>2, <2>2, TableFacts
  <2>6. (r - b[a]) + b[a] = r - 0
    <3>1. b[a] \in Nat /\ b[cursor] \in Nat
      BY <1>2, <2>2, TableFacts
    <3>2. r - b[a] = rank - b[cursor]
      BY <1>5
    <3>3. r - b[a] \in Int
      BY <1>2, <3>1, <3>2
    <3>4. r \in Int
      OBVIOUS
    <3>5. QED
      BY <3>1, <3>4
  <2>7. QED
    BY <2>4, <2>5, <2>6
<1>6. Leads(dfa.start, indices, pos - 1, q)'
  BY <1>1, <1>2, <1>4 DEF Leads, Reads, IsPath, Steps, Delta, Symbols, States
<1>7. Smaller(indices, pos - 1, n)' = Smaller(indices, pos, n)
  BY <1>1, <1>2, AcceptedKept DEF Smaller, Agree
<1>8. QED
  BY <1>1, <1>2, <1>5, <1>6, <1>7 DEF RankOrderInv

(* A step of Rank that is one of those only if sigma_ is not one to one    *)
(* keeps the invariant, which says nothing then.                           *)
LEMMA OneToOneOrder ==
  ASSUME RankStep \/ UNCHANGED vars, ~OneToOne
  PROVE  RankOrderInv'
<1>1. dfa' = dfa /\ usable' = usable
  BY DEF RankStep, RankUnknownSymbol, RankBeyondTable, RankTail, TailMove, RankDense, RankAdd,
         RankNext, RankMove, RankRejects, RankAccepts, RankBeyondCount, RankEnds, lang, vars
<1>2. QED
  BY <1>1, SameDfa DEF RankOrderInv

(* In the tail every byte is its own symbol.                               *)
LEMMA RankTailOrder ==
  ASSUME BuildInv, WalkInv, RankOrderInv, RankTail, OneToOne
  PROVE  RankOrderInv'
<1> DEFINE k == n - pos
           a == indices[pos]
           r == rank + a * Weight[k]
<1>1. /\ pc = "rank" /\ pos <= n /\ FinalStateLoop(q) /\ TailMove(rank + word[pos] * Weight[k])
      /\ Dense(q) /\ Delta(q, 0) = q /\ dfa.symbols = Base
  BY DEF RankTail, InTail, FinalStateLoop
<1>2. Built /\ BuildType /\ dfa.symbols \in Nat /\ MaxLen \in Nat /\ k \in 0 .. MaxLen + 1
      /\ q \in States(dfa) /\ rank \in Nat /\ cursor = 0
  <2>1. Built /\ BuildType /\ dfa.symbols \in Nat
    BY <1>1, DfaFacts DEF BuildInv, Built
  <2>2. /\ MaxLen \in Nat /\ k \in 0 .. MaxLen + 1 /\ q \in States(dfa) /\ rank \in Nat
        /\ cursor = 0
    BY <1>1, RankFacts
  <2>3. QED
    BY <2>1, <2>2
<1>3. a = word[pos] /\ a \in Symbols(dfa)
  <2>1. /\ indices = Indices(word) /\ pos \in 1 .. Len(word) /\ word[pos] \in 0 .. Base - 1
    BY <1>1, RankFacts DEF WalkInv, Spelled
  <2>2. /\ word[pos] \in DOMAIN dfa.reverse /\ dfa.reverse[word[pos]] = word[pos]
        /\ word[pos] \in Symbols(dfa)
    BY <1>1, <1>2, <2>1, OneToOneFacts
  <2>3. QED
    BY <2>1, <2>2 DEF Indices
<1>4. Weight[k] \in Nat /\ a \in Nat /\ a \in 0 .. dfa.symbols
  <2>1. Weight[k] \in Nat
    BY <1>2, WeightFacts
  <2>2. QED
    BY <1>2, <1>3, <2>1 DEF Symbols
<1>5. a * Weight[k] \in Nat /\ r \in Nat
  BY <1>2, <1>4
<1>6. RankOn(Delta(q, a), r)
  <2>1. Delta(q, a) = q
    BY <1>1, <1>3 DEF Dense
  <2>2. pc' = "rank" /\ rank' = r /\ q' = q /\ pos' = pos + 1 /\ cursor' = 0
        /\ final_state_loop' = TRUE
        /\ UNCHANGED <<lang, building, n, c, word, indices, ret, op, asked, trail>>
    BY <1>1, <1>3 DEF TailMove
  <2>3. QED
    BY <1>1, <2>1, <2>2 DEF RankOn
<1>7. ASSUME n \in 1 .. MaxLen
      PROVE  r - below[q][k + 1][a] = rank - below[q][k + 1][cursor]
  <2>1. k + 1 \in 1 .. MaxLen /\ k + 1 \in Lens /\ k \in Lens /\ (k + 1) - 1 = k
    <3>1. pos \in 1 .. n
      BY <1>1, RankFacts
    <3>2. QED
      BY <1>2, <1>7, <3>1 DEF Lens
  <2>2. CachedTable[q][k] = Weight[k] /\ below[q][k + 1][0] = 0
    BY <1>1, <1>2, <2>1, TableFacts
  <2>3. below[q][k + 1][a] = a * CachedTable[Delta(q, 0)][(k + 1) - 1]
    BY <1>1, <1>2, <1>4, <2>1, TableFacts
  <2>4. below[q][k + 1][a] = a * Weight[k] /\ below[q][k + 1][cursor] = 0
    BY <1>1, <1>2, <2>1, <2>2, <2>3
  <2>5. QED
    BY <1>2, <1>5, <2>4
<1>8. QED
  BY <1>1, <1>3, <1>5, <1>6, <1>7, RankOnOrder

LEMMA RankDenseOrder ==
  ASSUME BuildInv, WalkInv, RankOrderInv, RankDense, OneToOne
  PROVE  RankOrderInv'
<1> DEFINE k == n - pos
           a == indices[pos]
           t == CachedTable[Delta(q, 0)][k]
           r == rank + t * a
<1>1. /\ pc = "rank" /\ pos <= n /\ a \in Symbols(dfa) /\ Dense(q) /\ k <= MaxLen
      /\ RankMove(r) /\ ~FinalStateLoop(q)
  BY DEF RankDense
<1>2. Built /\ dfa.symbols \in Nat /\ MaxLen \in Nat /\ k \in Lens
      /\ q \in States(dfa) /\ rank \in Nat /\ cursor = 0 /\ Delta(q, 0) \in States(dfa)
  <2>1. Built /\ dfa.symbols \in Nat
    BY <1>1, DfaFacts DEF BuildInv, Built
  <2>2. /\ MaxLen \in Nat /\ k \in Lens /\ q \in States(dfa) /\ rank \in Nat /\ cursor = 0
    BY <1>1, RankFacts DEF Lens
  <2>3. Delta(q, 0) \in States(dfa)
    BY <2>2, DfaFacts DEF BuildInv
  <2>4. QED
    BY <2>1, <2>2, <2>3
<1>3. t \in Nat /\ a \in Nat /\ a \in 0 .. dfa.symbols
  <2>1. t \in Nat
    BY <1>2, TableFacts
  <2>2. QED
    BY <1>1, <1>2, <2>1 DEF Symbols
<1>4. t * a \in Nat /\ a * t = t * a /\ r \in Nat
  BY <1>2, <1>3
<1>5. ASSUME n \in 1 .. MaxLen
      PROVE  r - below[q][k + 1][a] = rank - below[q][k + 1][cursor]
  <2>1. k + 1 \in 1 .. MaxLen /\ k + 1 \in Lens /\ (k + 1) - 1 = k
    <3>1. pos \in 1 .. n
      BY <1>1, RankFacts
    <3>2. QED
      BY <1>2, <1>5, <3>1 DEF Lens
  <2>2. below[q][k + 1][0] = 0
    BY <1>2, <2>1, TableFacts
  <2>3. below[q][k + 1][a] = a * CachedTable[Delta(q, 0)][(k + 1) - 1]
    BY <1>1, <1>2, <1>3, <2>1, TableFacts
  <2>4. below[q][k + 1][a] = t * a /\ below[q][k + 1][cursor] = 0
    BY <1>2, <1>4, <2>1, <2>2, <2>3
  <2>5. QED
    BY <1>2, <1>4, <2>4
<1>6. RankOn(Delta(q, a), r)
  <2>1. Delta(q, a) = Delta(q, 0)
    BY <1>1 DEF Dense
  <2>2. QED
    BY <1>1, <2>1, RankMoveOn
<1>7. QED
  BY <1>1, <1>4, <1>5, <1>6, RankOnOrder

LEMMA RankNextOrder ==
  ASSUME BuildInv, WalkInv, RankOrderInv, RankNext, OneToOne
  PROVE  RankOrderInv'
<1>1. /\ pc = "rank" /\ pos <= n /\ indices[pos] \in Symbols(dfa) /\ cursor = indices[pos]
      /\ RankMove(rank) /\ ~FinalStateLoop(q)
  BY DEF RankNext, FinalStateLoop
<1>2. rank \in Nat
  BY <1>1, RankFacts
<1>3. rank - below[q][n - pos + 1][indices[pos]] = rank - below[q][n - pos + 1][cursor]
  BY <1>1
<1>4. RankOn(Delta(q, indices[pos]), rank)
  BY <1>1, RankMoveOn
<1>5. QED
  BY <1>1, <1>2, <1>3, <1>4, RankOnOrder

LEMMA RankAddOrder ==
  ASSUME BuildInv, WalkInv, RankOrderInv, RankAdd, OneToOne
  PROVE  RankOrderInv'
<1> DEFINE k == n - pos
           t == CachedTable[Delta(q, cursor)][k]
<1>1. /\ pc = "rank" /\ pos <= n /\ k <= MaxLen
      /\ rank' = rank + t /\ cursor' = cursor + 1
      /\ dfa' = dfa /\ below' = below
      /\ n' = n /\ q' = q /\ pos' = pos /\ indices' = indices
  BY DEF RankAdd, Continuations, lang, spelling
<1>2. Built /\ MaxLen \in Nat /\ k \in Lens /\ q \in States(dfa) /\ rank \in Nat
      /\ cursor \in Symbols(dfa) /\ cursor \in 0 .. dfa.symbols
  <2>1. Built /\ dfa.symbols \in Nat
    BY <1>1, DfaFacts DEF BuildInv, Built
  <2>2. /\ MaxLen \in Nat /\ k \in Lens /\ q \in States(dfa) /\ rank \in Nat
        /\ cursor \in Symbols(dfa)
    BY <1>1, RankFacts DEF Lens
  <2>3. QED
    BY <2>1, <2>2 DEF Symbols
<1>3. Leads(dfa.start, indices, pos - 1, q)
  BY <1>1 DEF RankOrderInv
<1>4. Leads(dfa.start, indices, pos - 1, q)'
  BY <1>1, <1>3 DEF Leads, Reads, IsPath, Steps, Delta, Symbols, States
<1>5. Smaller(indices, pos - 1, n)' = Smaller(indices, pos - 1, n)
  BY <1>1, AcceptedKept DEF Smaller, Agree
<1>6. ASSUME n \in 1 .. MaxLen
      PROVE  rank' - below[q][k + 1][cursor'] = rank - below[q][k + 1][cursor]
  <2>1. k + 1 \in 1 .. MaxLen /\ k + 1 \in Lens /\ (k + 1) - 1 = k
    <3>1. pos \in 1 .. n
      BY <1>1, RankFacts
    <3>2. QED
      BY <1>2, <1>6, <3>1 DEF Lens
  <2>2. below[q][k + 1][cursor] \in Nat
    BY <1>2, <2>1, TableFacts
  <2>3. below[q][k + 1][cursor + 1] = below[q][k + 1][cursor] + t
    BY <1>2, <2>1, TableFacts
  <2>4. t \in Nat
    <3>1. Delta(q, cursor) \in States(dfa)
      BY <1>2, DfaFacts DEF BuildInv
    <3>2. QED
      BY <1>2, <3>1, TableFacts
  <2> DEFINE x == below[q][k + 1][cursor]
  <2>5. (rank + t) - (x + t) = rank - x
    <3> HIDE DEF x, t
    <3> QED
      BY <1>2, <2>2, <2>4 DEF x
  <2>6. QED
    BY <1>1, <2>3, <2>5
<1>7. QED
  BY <1>1, <1>4, <1>5, <1>6 DEF RankOrderInv
-----------------------------------------------------------------------------
(* What a finished Rank must have found out of the word, before it sets    *)
(* *rank to r and returns the given result.  Only unsorted final states    *)
(* can hide a word of the language from it, and then it leaves the sum     *)
(* without the shorter words.                                              *)
RankCorrect(result, r) ==
  /\ word = << >> => result # "true"
  /\ Len(word) \in 1 .. MaxLen =>
       /\ result = "true" => indices \in Language
       /\ usable /\ indices \in Language => result = "true"
       /\ indices \in Language /\ result # "true" =>
            result # "threw" /\ Index(indices) = r + inclusive[Len(word) - 1]
  /\ result = "true" /\ Len(word) <= MaxLen => r = Index(indices)
  /\ result = "true" /\ Len(word) > MaxLen =>
       Len(word) = MaxLen + 1 /\ r >= inclusive[MaxLen]

RankedInv ==
  pc = "idle" /\ op = "Rank" /\ OneToOne => RankCorrect(ret, rank)

(* All symbols of the word are read.                                       *)
LEMMA RankEndOrder ==
  ASSUME BuildInv, WalkInv, RankOrderInv, pc = "rank", pos > n, OneToOne, n \in 1 .. MaxLen
  PROVE  /\ indices \in Strings(n) /\ n \in Lens /\ Leads(dfa.start, indices, n, q)
         /\ indices \in AcceptedFrom(dfa.start, n) <=> q \in FinalStates(dfa)
         /\ Index(indices) = rank + inclusive[n - 1]
<1>1. /\ Built /\ IsDfa(dfa) /\ rank \in Nat /\ n \in Nat /\ n = Len(word) /\ MaxLen \in Nat
      /\ pos - 1 = n /\ n - pos + 1 = 0 /\ cursor = 0 /\ q \in States(dfa) /\ n \in Lens
      /\ 0 \in Lens
  <2>1. /\ rank \in Nat /\ n \in Nat /\ n = Len(word) /\ MaxLen \in Nat /\ pos = n + 1
        /\ cursor = 0 /\ q \in States(dfa)
    BY RankFacts
  <2>2. Built /\ IsDfa(dfa)
    BY DfaFacts DEF BuildInv, Built
  <2>3. QED
    BY <2>1, <2>2 DEF Lens
<1>2. Leads(dfa.start, indices, n, q)
  BY <1>1 DEF RankOrderInv
<1>3. indices \in Strings(n)
  <2>1. Reads(indices, n) /\ indices \in Seq(0 .. Base) /\ Len(indices) = n
    BY <1>1, <1>2 DEF Leads, WalkInv, WalkType
  <2>2. QED
    BY <1>1, <2>1, ReadsIsString
<1>4. indices \in AcceptedFrom(dfa.start, n) <=> q \in FinalStates(dfa)
  BY <1>1, <1>2, <1>3, AcceptedLeads
<1>5. HasSize(Smaller(indices, n, n), rank - below[q][0][0])
  BY <1>1 DEF RankOrderInv
<1>6. below[q][0][0] = 0
  BY <1>1, TableFacts
<1>7. HasSize(Smaller(indices, n, n), rank)
  BY <1>1, <1>5, <1>6
<1>8. QED
  BY <1>1, <1>2, <1>3, <1>4, <1>7, IndexOf

LEMMA RankRefusalOrder ==
  ASSUME BuildInv, WalkInv, RankOrderInv, OneToOne,
         RankUnknownSymbol \/ RankBeyondTable \/ RankRejects \/ RankBeyondCount
  PROVE  \E result \in {"false", "threw"} : RankEnds(result, rank) /\ RankCorrect(result, rank)
<1>1. PICK result \in {"false", "threw"} :
        RankEnds(result, rank) /\ (RankRejects => result = "false")
  BY DEF RankUnknownSymbol, RankBeyondTable, RankRejects, RankBeyondCount
<1>2. pc = "rank"
  BY DEF RankUnknownSymbol, RankBeyondTable, RankRejects, RankBeyondCount
<1>3. /\ n \in Nat /\ MaxLen \in Nat /\ pos \in 1 .. n + 1 /\ n = Len(word) /\ q \in States(dfa)
      /\ BuildType /\ Len(indices) = n
  BY <1>2, RankFacts DEF BuildInv, WalkInv, WalkType
<1>4. ASSUME n \in 1 .. MaxLen, indices \in Language
      PROVE  RankRejects /\ ~usable /\ Index(indices) = rank + inclusive[n - 1]
  <2>1. indices \in AcceptedFrom(dfa.start, n) /\ indices \in Strings(n)
    BY <1>3, <1>4, LanguageByLength DEF AcceptedFrom
  <2>2. ~RankUnknownSymbol
    <3>1. SUFFICES ASSUME RankUnknownSymbol
                   PROVE  FALSE
      OBVIOUS
    <3>2. pos \in 1 .. n /\ indices[pos] \notin Symbols(dfa)
      BY <1>3, <3>1 DEF RankUnknownSymbol
    <3>3. QED
      BY <2>1, <3>2 DEF Strings
  <2>3. ~RankBeyondTable
    BY <1>3, <1>4 DEF RankBeyondTable
  <2>4. ~RankBeyondCount
    BY <1>3, <1>4 DEF RankBeyondCount, Lens
  <2>5. RankRejects /\ pos > n /\ ~IsFinal(q)
    BY <2>2, <2>3, <2>4 DEF RankRejects
  <2>6. q \in FinalStates(dfa) /\ Index(indices) = rank + inclusive[n - 1]
    BY <1>2, <1>4, <2>1, <2>5, RankEndOrder
  <2>7. ~usable
    BY <1>3, <2>5, <2>6, IsFinalFacts
  <2>8. QED
    BY <2>5, <2>6, <2>7
<1>5. RankCorrect(result, rank)
  BY <1>1, <1>3, <1>4 DEF RankCorrect
<1>6. QED
  BY <1>1, <1>5

LEMMA RankAcceptsOrder ==
  ASSUME BuildInv, WalkInv, RankOrderInv, OneToOne, RankAccepts
  PROVE  RankEnds("true", rank + inclusive[n - 1]) /\ RankCorrect("true", rank + inclusive[n - 1])
<1>1. /\ pc = "rank" /\ pos > n /\ n - 1 \in Lens /\ IsFinal(q)
      /\ RankEnds("true", rank + inclusive[n - 1])
  BY DEF RankAccepts
<1>2. /\ Built /\ rank \in Nat /\ n = Len(word) /\ MaxLen \in Nat /\ n \in 1 .. MaxLen + 1
      /\ q \in FinalStates(dfa)
  <2>1. /\ rank \in Nat /\ n \in Nat /\ n = Len(word) /\ MaxLen \in Nat /\ q \in States(dfa)
    BY <1>1, RankFacts
  <2>2. Built /\ BuildType
    BY <1>1 DEF BuildInv, Built
  <2>3. n \in 1 .. MaxLen + 1
    BY <1>1, <2>1 DEF Lens
  <2>4. QED
    BY <1>1, <2>1, <2>2, <2>3, IsFinalFacts
<1>3. word # << >>
  BY <1>2
<1>4. ASSUME n \in 1 .. MaxLen
      PROVE  indices \in Language /\ Index(indices) = rank + inclusive[n - 1]
  <2>1. /\ n \in Lens /\ indices \in AcceptedFrom(dfa.start, n)
        /\ Index(indices) = rank + inclusive[n - 1]
    BY <1>1, <1>2, <1>4, RankEndOrder
  <2>2. QED
    BY <2>1, LanguageByLength
<1>5. ASSUME n > MaxLen
      PROVE  n = MaxLen + 1 /\ rank + inclusive[n - 1] >= inclusive[MaxLen]
  <2>1. n = MaxLen + 1 /\ n - 1 = MaxLen /\ MaxLen \in Lens
    BY <1>2, <1>5 DEF Lens
  <2>2. inclusive[MaxLen] \in Nat
    BY <1>2, <2>1, CountFacts
  <2>3. QED
    BY <1>2, <2>1, <2>2
<1>6. RankCorrect("true", rank + inclusive[n - 1])
  BY <1>2, <1>3, <1>4, <1>5 DEF RankCorrect
<1>7. QED
  BY <1>1, <1>6

LEMMA IndexKept ==
  ASSUME dfa' = dfa
  PROVE  Language' = Language /\ \A w : Index(w)' = Index(w)
<1>1. Language' = Language
  BY AcceptedKept DEF Language
<1>2. QED
  BY <1>1 DEF Index, Before

LEMMA RankEndsOrder ==
  ASSUME NEW result, NEW r, RankEnds(result, r), OneToOne => RankCorrect(result, r)
  PROVE  RankOrderInv' /\ RankedInv'
<1>1. /\ pc' = "idle" /\ ret' = result /\ rank' = r /\ word' = word /\ indices' = indices
      /\ dfa' = dfa /\ usable' = usable /\ inclusive' = inclusive
  BY DEF RankEnds, lang, spelling
<1>2. Language' = Language /\ (\A w : Index(w)' = Index(w)) /\ OneToOne' = OneToOne
  BY <1>1, IndexKept, SameDfa
<1>3. Index(indices)' = Index(indices)
  BY <1>1, <1>2 DEF Index, Before
<1>4. RankedInv'
  BY <1>1, <1>2, <1>3 DEF RankedInv, RankCorrect
<1>5. QED
  BY <1>1, <1>4 DEF RankOrderInv

LEMMA StutterOrder ==
  ASSUME RankOrderInv, RankedInv, UNCHANGED vars
  PROVE  RankOrderInv' /\ RankedInv'
<1>1. UNCHANGED <<dfa, usable, word, indices, pos, q, n, rank, below, cursor, inclusive, pc, op,
                  ret>>
  BY DEF vars
<1>2. Language' = Language /\ OneToOne' = OneToOne
  BY <1>1, IndexKept, SameDfa
<1>3. Index(indices)' = Index(indices)
  BY <1>1, <1>2 DEF Index, Before
<1>4. RankedInv'
  BY <1>1, <1>2, <1>3 DEF RankedInv, RankCorrect
<1>5. Leads(dfa.start, indices, pos - 1, q)' <=> Leads(dfa.start, indices, pos - 1, q)
  BY <1>1 DEF Leads, Reads, IsPath, Steps, Delta, Symbols, States
<1>6. Smaller(indices, pos - 1, n)' = Smaller(indices, pos - 1, n)
  BY <1>1, AcceptedKept DEF Smaller, Agree
<1>7. RankOrderInv'
  BY <1>1, <1>2, <1>5, <1>6 DEF RankOrderInv
<1>8. QED
  BY <1>4, <1>7

(* Rank's sums are those of the order, and so is its result.               *)
THEOREM RankOrderKept == Spec => [](RankOrderInv /\ RankedInv)
<1>1. Init => RankOrderInv /\ RankedInv
  BY DEF Init, RankOrderInv, RankedInv
<1>2. BuildInv /\ WalkInv /\ RankOrderInv /\ RankedInv /\ [Next]_vars
        => RankOrderInv' /\ RankedInv'
  <2> SUFFICES ASSUME BuildInv, WalkInv, RankOrderInv, RankedInv, [Next]_vars
               PROVE  RankOrderInv' /\ RankedInv'
    OBVIOUS
  <2>1. CASE Build
    <3>1. op = "none" /\ op' = op /\ pc' # "rank"
      BY <2>1 DEF WalkInv, Built, Build, SetLanguage, FillEntry, FillDone, CountWords,
                  StoreCount, SetLanguageReturn
    <3>2. QED
      BY <3>1 DEF RankOrderInv, RankedInv
  <2>2. CASE UnrankStep
    <3>1. pc \in {"slice", "unrank"} /\ op' = op /\ pc' # "rank"
      BY <2>2 DEF UnrankStep, NextSlice, SliceThrows, FoundSlice, UnrankTail, UnrankDense,
                  UnrankSkip, UnrankChoose, UnrankReturn, Append1, AppendByte
    <3>2. op = "Unrank"
      BY <3>1 DEF WalkInv, SliceInv, UnrankInv
    <3>3. QED
      BY <3>1, <3>2 DEF RankOrderInv, RankedInv
  <2>3. CASE RankTail \/ RankDense \/ RankAdd \/ RankNext
    <3>1. pc' = "rank"
      BY <2>3 DEF RankTail, InTail, TailMove, RankDense, RankAdd, RankNext, RankMove
    <3>2. OneToOne => RankOrderInv'
      BY <2>3, RankTailOrder, RankDenseOrder, RankAddOrder, RankNextOrder
    <3>3. ~OneToOne => RankOrderInv'
      BY <2>3, OneToOneOrder DEF RankStep
    <3>4. QED
      BY <3>1, <3>2, <3>3 DEF RankedInv
  <2>4. CASE RankUnknownSymbol \/ RankBeyondTable \/ RankRejects \/ RankBeyondCount
    <3>1. PICK result \in {"false", "threw"} :
            RankEnds(result, rank) /\ (OneToOne => RankCorrect(result, rank))
      <4>1. CASE OneToOne
        BY <2>4, <4>1, RankRefusalOrder
      <4>2. CASE ~OneToOne
        BY <2>4, <4>2 DEF RankUnknownSymbol, RankBeyondTable, RankRejects, RankBeyondCount
      <4>3. QED
        BY <4>1, <4>2
    <3>2. QED
      BY <3>1, RankEndsOrder
  <2>5. CASE RankAccepts
    <3>1. /\ RankEnds("true", rank + inclusive[n - 1])
          /\ OneToOne => RankCorrect("true", rank + inclusive[n - 1])
      <4>1. OneToOne => RankCorrect("true", rank + inclusive[n - 1])
        BY <2>5, RankAcceptsOrder
      <4>2. QED
        BY <2>5, <4>1 DEF RankAccepts
    <3>2. QED
      BY <3>1, RankEndsOrder
  <2>6. ASSUME NEW r \in Ranks, CallUnrank(r)
        PROVE  RankOrderInv' /\ RankedInv'
    BY <2>6 DEF CallUnrank, RankOrderInv, RankedInv
  <2>7. ASSUME NEW w \in Words \cup {word}, CallRank(w)
        PROVE  RankOrderInv' /\ RankedInv'
    BY <2>7, CallRankOrder DEF CallRank, RankedInv
  <2>8. CASE UNCHANGED vars
    BY <2>8, StutterOrder
  <2>9. QED
    BY <2>1, <2>2, <2>3, <2>4, <2>5, <2>6, <2>7, <2>8 DEF Next, Step, RankStep
<1>3. QED
  BY <1>1, <1>2, TablesBuilt, WalksKeep, PTL DEF Spec

(* Rank accepts non-empty words of the language only, all of them after a  *)
(* SetLanguage that returned true, and returns their index, for every      *)
(* automaton with a one-to-one alphabet, length and argument               *)
(* (ranker.h:19-22).                                                       *)
THEOREM RankFollowsOrderHolds == Spec => []RankFollowsOrder
<1>1. WalkInv /\ RankedInv => RankFollowsOrder
  <2>1. SUFFICES ASSUME WalkInv, RankedInv, pc = "idle", op = "Rank", OneToOne
                 PROVE  RankFollowsOrder
    BY DEF RankFollowsOrder
  <2>2. RankCorrect(ret, rank) /\ indices = Indices(word)
    BY <2>1 DEF RankedInv, WalkInv, Spelled
  <2>3. QED
    BY <2>2 DEF RankCorrect, RankFollowsOrder
<1>2. QED
  BY <1>1, RankOrderKept, WalksKeep, PTL
-----------------------------------------------------------------------------
IsWord(w) == Len(w) \in Nat /\ w = [i \in 1 .. Len(w) |-> w[i]] /\ \A i \in 1 .. Len(w) : w[i] \in Int

LEMMA LanguageWords ==
  ASSUME IsDfa(dfa)
  PROVE  \A w \in Language : IsWord(w)
<1>1. SUFFICES ASSUME NEW l \in Lens, NEW w \in AcceptedFrom(dfa.start, l)
               PROVE  IsWord(w)
  BY DEF Language
<1>2. l \in Nat /\ w \in [1 .. l -> Symbols(dfa)] /\ Symbols(dfa) \subseteq Int
  BY BoundAssumption DEF AcceptedFrom, Strings, Lens, Symbols, IsDfa
<1>3. QED
  BY <1>2 DEF IsWord

LEMMA BeforeNotItself ==
  ASSUME NEW w, IsWord(w)
  PROVE  ~Before(w, w)
BY DEF IsWord, Before

LEMMA BeforeTransitive ==
  ASSUME NEW u, NEW v, NEW w, IsWord(u), IsWord(v), IsWord(w), Before(u, v), Before(v, w)
  PROVE  Before(u, w)
<1>1. Len(u) \in Nat /\ Len(v) \in Nat /\ Len(w) \in Nat /\ Len(u) <= Len(v) /\ Len(v) <= Len(w)
  <2>1. Len(u) \in Nat /\ Len(v) \in Nat /\ Len(w) \in Nat
    BY DEF IsWord
  <2>2. (Len(u) < Len(v) \/ Len(u) = Len(v)) /\ (Len(v) < Len(w) \/ Len(v) = Len(w))
    BY Zenon DEF Before
  <2>3. QED
    BY <2>1, <2>2
<1>2. CASE Len(u) < Len(w)
  BY <1>2 DEF Before
<1>3. CASE ~ Len(u) < Len(w)
  <2>1. Len(u) = Len(w) /\ Len(v) = Len(w)
    BY <1>1, <1>3
  <2>2. PICK i \in 1 .. Len(w) : u[i] < v[i] /\ \A j \in 1 .. i - 1 : u[j] = v[j]
    BY <1>1, <2>1 DEF Before
  <2>3. PICK k \in 1 .. Len(w) : v[k] < w[k] /\ \A j \in 1 .. k - 1 : v[j] = w[j]
    BY <1>1, <2>1 DEF Before
  <2>4. PICK m \in 1 .. Len(w) : m = IF i < k THEN i ELSE k
    BY <2>2, <2>3
  <2>5. u[m] < w[m]
    <3>1. /\ u[i] \in Int /\ v[i] \in Int /\ w[i] \in Int
          /\ u[k] \in Int /\ v[k] \in Int /\ w[k] \in Int
      BY <2>1 DEF IsWord
    <3>2. CASE i < k
      BY <2>2, <2>3, <2>4, <3>1, <3>2
    <3>3. CASE i = k
      BY <2>2, <2>3, <2>4, <3>1, <3>3
    <3>4. CASE k < i
      BY <2>2, <2>3, <2>4, <3>1, <3>4
    <3>5. QED
      BY <3>2, <3>3, <3>4
  <2>6. ASSUME NEW j \in 1 .. m - 1
        PROVE  u[j] = w[j]
    <3>1. j \in 1 .. i - 1 /\ j \in 1 .. k - 1
      BY <2>4
    <3>2. QED
      BY <2>2, <2>3, <3>1
  <2>7. QED
    BY <2>1, <2>5, <2>6 DEF Before
<1>4. QED
  BY <1>2, <1>3

LEMMA BeforeTotal ==
  ASSUME NEW v, NEW w, IsWord(v), IsWord(w), v # w
  PROVE  Before(v, w) \/ Before(w, v)
<1>1. Len(v) \in Nat /\ Len(w) \in Nat
  BY DEF IsWord
<1>2. CASE Len(v) # Len(w)
  BY <1>1, <1>2 DEF Before
<1>3. CASE Len(v) = Len(w)
  <2> DEFINE D == {i \in 1 .. Len(w) : v[i] # w[i]}
  <2>1. D # {}
    <3>1. SUFFICES ASSUME \A i \in 1 .. Len(w) : v[i] = w[i]
                   PROVE  FALSE
      OBVIOUS
    <3>2. [i \in 1 .. Len(v) |-> v[i]] = [i \in 1 .. Len(w) |-> w[i]]
      BY <1>3, <3>1
    <3>3. QED
      BY <3>2 DEF IsWord
  <2>2. D \in SUBSET Nat
    BY <1>1
  <2>3. PICK i \in D : \A j \in D : i <= j
    <3> HIDE DEF D
    <3> QED
      BY <2>1, <2>2, SmallestOf
  <2>4. \A j \in 1 .. i - 1 : v[j] = w[j]
    <3>1. ASSUME NEW j \in 1 .. i - 1
          PROVE  v[j] = w[j]
      <4>1. j \in 1 .. Len(w) /\ ~ i <= j
        BY <1>1, <2>3
      <4>2. QED
        BY <2>3, <4>1
    <3>2. QED
      BY <3>1
  <2>5. i \in 1 .. Len(w) /\ v[i] \in Int /\ w[i] \in Int /\ v[i] # w[i]
    BY <1>3 DEF IsWord
  <2>6. QED
    BY <1>3, <2>4, <2>5 DEF Before
<1>4. QED
  BY <1>2, <1>3

(* The words of the language have the indices from 0 to their number.      *)
LEMMA IndexNumbers ==
  ASSUME BuildInv, Built
  PROVE  /\ Cardinality(Language) = inclusive[MaxLen]
         /\ \A w \in Language : Index(w) \in 0 .. Cardinality(Language) - 1
         /\ \A v, w \in Language : Index(v) = Index(w) => v = w
         /\ \A r \in 0 .. Cardinality(Language) - 1 : \E w \in Language : Index(w) = r
<1>1. IsDfa(dfa) /\ MaxLen \in Lens
  BY DfaFacts, DfaAssumption, BoundAssumption DEF BuildInv, BuildType, Lens
<1>2. HasSize(Language, inclusive[MaxLen])
  <2>1. HasSize(UpToLength(MaxLen), inclusive[MaxLen])
    BY <1>1, SizeUpToLength
  <2>2. \A l \in Lens : l <= MaxLen
    BY BoundAssumption DEF Lens
  <2>3. UpToLength(MaxLen) = Language
    <3>1. \A w \in Language : Len(w) <= MaxLen
      BY <2>2, LanguageByLength
    <3>2. QED
      BY <3>1 DEF UpToLength
  <2>4. QED
    BY <2>1, <2>3
<1> DEFINE R == {p \in Language \X Language : Before(p[1], p[2])}
<1>3. \A v, w \in Language : <<v, w>> \in R <=> Before(v, w)
  OBVIOUS
<1>4. \A v \in Language : <<v, v>> \notin R
  BY <1>1, <1>3, LanguageWords, BeforeNotItself
<1>5. \A u, v, w \in Language : <<u, v>> \in R /\ <<v, w>> \in R => <<u, w>> \in R
  BY <1>1, <1>3, LanguageWords, BeforeTransitive
<1>6. \A v, w \in Language : v # w => <<v, w>> \in R \/ <<w, v>> \in R
  BY <1>1, <1>3, LanguageWords, BeforeTotal
<1>7. \A w \in Language : Cardinality(Lower(Language, R, w)) = Index(w)
  <2>1. SUFFICES ASSUME NEW w \in Language
                 PROVE  Lower(Language, R, w) = {v \in Language : Before(v, w)}
    BY DEF Index
  <2>2. QED
    BY <1>3 DEF Lower
<1> HIDE DEF R
<1>8. /\ \A w \in Language :
           Cardinality(Lower(Language, R, w)) \in 0 .. Cardinality(Language) - 1
      /\ \A v, w \in Language :
           Cardinality(Lower(Language, R, v)) = Cardinality(Lower(Language, R, w)) => v = w
      /\ \A j \in 0 .. Cardinality(Language) - 1 :
           \E w \in Language : Cardinality(Lower(Language, R, w)) = j
  <2>1. PICK S : S = Language
    OBVIOUS
  <2>2. IsFiniteSet(S)
    BY <1>2, <2>1 DEF HasSize
  <2>3. Orders(R, S)
    BY <1>4, <1>5, <1>6, <2>1 DEF Orders
  <2>4. Placed(R, S)
    BY <2>2, <2>3, PlacesInOrder
  <2>5. QED
    BY <2>1, <2>4 DEF Placed
<1>9. Cardinality(Language) = inclusive[MaxLen]
  BY <1>2 DEF HasSize
<1>10. QED
  BY <1>7, <1>8, <1>9

(* The answers, one by one.                                                *)
LEMMA AnswersFacts ==
  ASSUME BuildInv, Built, NEW W, W = Language \ {<< >>}
  PROVE  /\ Answers.count = Cardinality(Language) /\ Answers.accepted = Language
         /\ DOMAIN Answers.rank = W /\ \A w \in W : Answers.rank[w] = Index(w)
         /\ DOMAIN Answers.unrank = {Index(w) : w \in W}
         /\ \A w \in W : Answers.unrank[Index(w)] = w
<1> DEFINE rnk == [w \in W |-> Index(w)]
           unr == [r \in {Index(w) : w \in W} |-> CHOOSE w \in W : Index(w) = r]
<1>1. Answers = [count |-> Cardinality(Language), accepted |-> Language,
                 rank |-> rnk, unrank |-> unr]
  BY DEF Answers
<1>2. \A v, w \in W : Index(v) = Index(w) => v = w
  BY IndexNumbers
<1>3. ASSUME NEW w \in W
      PROVE  unr[Index(w)] = w
  <2>1. unr[Index(w)] = CHOOSE v \in W : Index(v) = Index(w)
    OBVIOUS
  <2>2. \A v \in W : Index(v) = Index(w) <=> v = w
    BY <1>2
  <2>3. QED
    BY <2>1, <2>2
<1>4. DOMAIN rnk = W /\ (\A w \in W : rnk[w] = Index(w)) /\ DOMAIN unr = {Index(w) : w \in W}
  OBVIOUS
<1> HIDE DEF rnk, unr
<1>5. QED
  BY <1>1, <1>3, <1>4

LEMMA AnswersOfRanker ==
  ASSUME BuildInv, Built
  PROVE  IsRanker(Answers)
<1> DEFINE W == Language \ {<< >>}
           K == Cardinality(Language)
<1>1. /\ Answers.count = K /\ Answers.accepted = Language
      /\ DOMAIN Answers.rank = W /\ \A w \in W : Answers.rank[w] = Index(w)
      /\ DOMAIN Answers.unrank = {Index(w) : w \in W}
      /\ \A w \in W : Answers.unrank[Index(w)] = w
  BY AnswersFacts
<1>2. /\ \A w \in Language : Index(w) \in 0 .. K - 1
      /\ \A r \in 0 .. K - 1 : \E w \in Language : Index(w) = r
      /\ K \in Nat
  <2>1. K = inclusive[MaxLen] /\ MaxLen \in Lens
    BY IndexNumbers, BoundAssumption DEF Lens
  <2>2. inclusive[MaxLen] \in Nat
    BY <2>1, SizeUpToLength, SizeIsNat
  <2>3. QED
    BY <2>1, <2>2, IndexNumbers
<1> HIDE DEF K
<1>3. PICK A : A = Answers
  OBVIOUS
<1>4. /\ A.count = K /\ A.accepted = Language
      /\ DOMAIN A.rank = W /\ \A w \in W : A.rank[w] = Index(w)
      /\ DOMAIN A.unrank = {Index(w) : w \in W}
      /\ \A w \in W : A.unrank[Index(w)] = w
  BY <1>1, <1>3
<1>5. W \subseteq Language /\ << >> \notin W /\ \A w \in Language : w = << >> \/ w \in W
  OBVIOUS
<1>6. \A w \in W : A.rank[w] < A.count
  BY <1>2, <1>4, <1>5
<1> HIDE DEF W
<1>7. ASSUME NEW w \in A.accepted \cap DOMAIN A.rank
      PROVE  /\ A.rank[w] < A.count
             /\ A.rank[w] \in DOMAIN A.unrank
             /\ A.unrank[A.rank[w]] = w
  BY <1>4, <1>6
<1>8. ASSUME NEW r \in DOMAIN A.unrank
      PROVE  /\ A.unrank[r] \in A.accepted \cap DOMAIN A.rank
             /\ A.unrank[r] # << >>
             /\ A.rank[A.unrank[r]] = r
  <2>1. PICK w \in W : r = Index(w)
    BY <1>4
  <2>2. QED
    BY <1>4, <1>5, <2>1
<1>9. ASSUME NEW w \in A.accepted \ {<< >>}
      PROVE  w \in DOMAIN A.rank
  BY <1>4, <1>5
<1>10. ASSUME NEW r \in 0 .. A.count - 1, r \notin DOMAIN A.unrank
       PROVE  << >> \in A.accepted
  <2>1. PICK w \in Language : Index(w) = r
    BY <1>2, <1>4
  <2>2. w \notin W
    BY <1>4, <1>10, <2>1
  <2>3. QED
    BY <1>4, <1>5, <2>1, <2>2
<1>11. QED
  BY <1>3, <1>7, <1>8, <1>9, <1>10 DEF IsRanker

(* The empty word is the first, and below inclusive[0] there is no other.  *)
LEMMA EmptyWordFirst ==
  ASSUME BuildInv, Built
  PROVE  /\ Index(<< >>) = 0
         /\ inclusive[0] = IF << >> \in Language THEN 1 ELSE 0
<1>1. IsDfa(dfa) /\ 0 \in Lens
  BY DfaFacts, DfaAssumption, BoundAssumption DEF BuildInv, BuildType, Lens
<1>2. ASSUME NEW w \in Language
      PROVE  /\ Len(w) \in Nat /\ (Len(w) <= 0 <=> w = << >>)
             /\ ~Before(w, << >>)
  <2>1. Len(w) \in Nat /\ w = [i \in 1 .. Len(w) |-> w[i]]
    BY <1>1, LanguageWords DEF IsWord
  <2>2. ASSUME Len(w) <= 0
        PROVE  w = << >>
    <3>1. 1 .. Len(w) = {}
      BY <2>1, <2>2
    <3>2. DOMAIN w = {} /\ w = [i \in {} |-> w[i]]
      BY <2>1, <3>1
    <3>3. << >> = [i \in {} |-> w[i]]
      OBVIOUS
    <3>4. QED
      BY <3>2, <3>3
  <2>3. Len(<< >>) = 0
    OBVIOUS
  <2>4. ~Before(w, << >>)
    BY <2>1, <2>3 DEF Before
  <2>5. QED
    BY <2>1, <2>2, <2>3, <2>4
<1>3. Index(<< >>) = 0
  <2>1. {v \in Language : Before(v, << >>)} = {}
    BY <1>2
  <2>2. QED
    BY <2>1, FS_EmptySet DEF Index
<1>4. inclusive[0] = Cardinality({w \in Language : Len(w) <= 0})
  BY <1>1, SizeUpToLength DEF HasSize, UpToLength
<1>5. CASE << >> \in Language
  <2>1. {w \in Language : Len(w) <= 0} = {<< >>}
    BY <1>2, <1>5
  <2>2. Cardinality({<< >>}) = 1
    BY FS_Singleton
  <2>3. QED
    BY <1>3, <1>4, <1>5, <2>1, <2>2
<1>6. CASE << >> \notin Language
  <2>1. {w \in Language : Len(w) <= 0} = {}
    BY <1>2, <1>6
  <2>2. Cardinality({}) = 0
    BY FS_EmptySet
  <2>3. QED
    BY <1>3, <1>4, <1>6, <2>1, <2>2
<1>7. QED
  BY <1>5, <1>6

(* SetLanguage has returned true if it has counted two words.              *)
UsableInv == Built => usable = (inclusive[MaxLen] > 1)

(* No call of Rank or Unrank changes that (dfa_ranker.cc:151-160).         *)
THEOREM UsableKept == Spec => []UsableInv
<1>1. Init => UsableInv
  BY DEF Init, UsableInv, Built
<1>2. UsableInv /\ [Next]_vars => UsableInv'
  <2> SUFFICES ASSUME UsableInv, [Next]_vars
               PROVE  UsableInv'
    OBVIOUS
  <2>1. CASE Build
    BY <2>1 DEF Build, SetLanguage, FillEntry, FillDone, CountWords, StoreCount,
                SetLanguageReturn, UsableInv, Built
  <2>2. CASE Walk
    BY <2>2, WalkFrame DEF UsableInv, lang
  <2>3. CASE UNCHANGED vars
    BY <2>3 DEF vars, UsableInv, Built
  <2>4. QED
    BY <2>1, <2>2, <2>3 DEF Next, Step, Walk
<1>3. QED
  BY <1>1, <1>2, PTL DEF Spec

(* What a DfaRanker leaves in *word and *rank is what its interface        *)
(* promises, for every automaton with a one-to-one alphabet, every length  *)
(* and argument (ranker.h:11-36, dfa_ranker.cc:220-470).                   *)
THEOREM ImplementsRanker == Spec => []AnswersAsRanker
<1>1. BuildInv /\ WalkInv /\ UsableInv /\ RankedInv /\ UnrankSucceeds /\ UnrankFollowsOrder
        => AnswersAsRanker
  <2>1. SUFFICES ASSUME BuildInv, WalkInv, UsableInv, RankedInv, UnrankSucceeds,
                        UnrankFollowsOrder, pc = "idle", OneToOne
                 PROVE  /\ IsRanker(Answers) /\ inclusive[MaxLen] = Answers.count
                        /\ op = "Unrank" =>
                             /\ (ret # "threw") <=> (asked \in DOMAIN Answers.unrank)
                             /\ ret # "threw" => Indices(word) = Answers.unrank[asked]
                        /\ op = "Rank" /\ Indices(word) \in DOMAIN Answers.rank =>
                             ret # "threw" /\ rank = Answers.rank[Indices(word)]
    BY DEF AnswersAsRanker
  <2>2. Built
    BY <2>1 DEF Built
  <2>3. PICK W : W = Language \ {<< >>}
    OBVIOUS
  <2>4. /\ Answers.count = Cardinality(Language) /\ Answers.accepted = Language
        /\ DOMAIN Answers.rank = W /\ \A w \in W : Answers.rank[w] = Index(w)
        /\ DOMAIN Answers.unrank = {Index(w) : w \in W}
        /\ \A w \in W : Answers.unrank[Index(w)] = w
    BY <2>1, <2>2, <2>3, AnswersFacts
  <2>5. IsRanker(Answers) /\ inclusive[MaxLen] = Answers.count
    BY <2>1, <2>2, <2>4, AnswersOfRanker, IndexNumbers
  <2>6. ASSUME op = "Unrank"
        PROVE  /\ (ret # "threw") <=> (asked \in DOMAIN Answers.unrank)
               /\ ret # "threw" => Indices(word) = Answers.unrank[asked]
    <3>1. Index(<< >>) = 0 /\ inclusive[0] = IF << >> \in Language THEN 1 ELSE 0
      BY <2>1, <2>2, EmptyWordFirst
    <3>2. (ret # "threw") <=> (inclusive[0] <= asked /\ asked < inclusive[MaxLen])
      BY <2>1, <2>6 DEF UnrankSucceeds
    <3>3. ASSUME ret # "threw"
          PROVE  Indices(word) \in W /\ Index(Indices(word)) = asked
      <4>1. Indices(word) \in Language /\ Index(Indices(word)) = asked
        BY <2>1, <2>6, <3>3 DEF UnrankFollowsOrder
      <4>2. inclusive[0] <= asked
        BY <3>2, <3>3
      <4>3. Indices(word) # << >>
        BY <3>1, <4>1, <4>2
      <4>4. QED
        BY <2>3, <4>1, <4>3
    <3>4. ASSUME asked \in DOMAIN Answers.unrank
          PROVE  ret # "threw"
      <4>1. PICK w \in W : asked = Index(w)
        BY <2>4, <3>4
      <4>2. w \in Language /\ w # << >>
        BY <2>3
      <4>3. /\ inclusive[MaxLen] = Cardinality(Language)
            /\ Index(w) \in 0 .. Cardinality(Language) - 1
            /\ << >> \in Language => Index(w) # Index(<< >>)
        BY <2>1, <2>2, <4>2, IndexNumbers
      <4>4. inclusive[MaxLen] \in Nat
        <5>1. MaxLen \in Lens
          BY BoundAssumption DEF Lens
        <5>2. QED
          BY <2>1, <2>2, <5>1, SizeUpToLength, SizeIsNat
      <4>5. PICK m \in Nat, r \in Int : m = inclusive[MaxLen] /\ r = Index(w)
        BY <4>3, <4>4
      <4>6. r \in 0 .. m - 1 /\ (<< >> \in Language => r # 0)
        BY <3>1, <4>3, <4>5
      <4>7. inclusive[0] <= r /\ r < m
        BY <3>1, <4>6
      <4>8. QED
        BY <3>2, <4>1, <4>5, <4>7
    <3>5. QED
      BY <2>4, <3>3, <3>4
  <2>7. ASSUME op = "Rank", Indices(word) \in DOMAIN Answers.rank
        PROVE  ret # "threw" /\ rank = Answers.rank[Indices(word)]
    <3> DEFINE l == Len(word)
    <3>1. /\ indices \in Language /\ indices # << >> /\ RankCorrect(ret, rank)
          /\ Indices(word) = indices /\ l \in Nat /\ Len(indices) = l /\ MaxLen \in Nat
          /\ rank \in Nat
      BY <2>1, <2>3, <2>4, <2>7, BoundAssumption
      DEF RankedInv, WalkInv, Spelled, WalkType
    <3>2. l \in 1 .. MaxLen /\ l \in Lens /\ indices \in AcceptedFrom(dfa.start, l)
      <4>1. l \in Lens /\ indices \in AcceptedFrom(dfa.start, l)
        BY <3>1, LanguageByLength
      <4>2. IsDfa(dfa)
        BY <2>1, DfaAssumption DEF BuildInv, BuildType
      <4>3. indices = [i \in 1 .. l |-> indices[i]]
        BY <3>1, <4>2, LanguageWords DEF IsWord
      <4>4. l # 0
        <5>1. SUFFICES ASSUME l = 0
                       PROVE  FALSE
          OBVIOUS
        <5>2. indices = [i \in {} |-> indices[i]]
          BY <4>3, <5>1
        <5>3. << >> = [i \in {} |-> indices[i]]
          OBVIOUS
        <5>4. QED
          BY <3>1, <5>2, <5>3
      <4>5. QED
        BY <3>1, <4>1, <4>4 DEF Lens
    <3>3. ret # "threw" /\ rank = Index(indices)
      <4>1. CASE ret = "true"
        BY <3>1, <3>2, <4>1 DEF RankCorrect
      <4>2. CASE ret # "true"
        <5>1. ~usable /\ ret # "threw" /\ Index(indices) = rank + inclusive[l - 1]
          BY <3>1, <3>2, <4>2 DEF RankCorrect
        <5>2. ~(inclusive[MaxLen] > 1) /\ MaxLen \in Lens /\ l - 1 \in Lens
          <6>1. ~(inclusive[MaxLen] > 1)
            BY <2>1, <2>2, <5>1, Zenon DEF UsableInv
          <6>2. QED
            BY <3>1, <3>2, <6>1 DEF Lens
        <5>3. /\ inclusive[l] = CachedTable[dfa.start][l] + inclusive[l - 1]
              /\ inclusive[l] <= inclusive[MaxLen]
              /\ inclusive[l] \in Nat /\ inclusive[l - 1] \in Nat /\ inclusive[MaxLen] \in Nat
          BY <2>1, <2>2, <3>2, <5>2, CountFacts
        <5>4. CachedTable[dfa.start][l] \in Nat /\ CachedTable[dfa.start][l] # 0
          <6>1. dfa.start \in States(dfa)
            BY <2>1, DfaFacts DEF BuildInv
          <6>2. HasSize(AcceptedFrom(dfa.start, l), CachedTable[dfa.start][l])
            BY <2>1, <2>2, <3>2, <6>1, TablesCount DEF CountsLength
          <6>3. AcceptedFrom(dfa.start, l) # {}
            BY <3>2
          <6>4. QED
            BY <6>2, <6>3, FS_EmptySet, SizeIsNat DEF HasSize
        <5>5. inclusive[l - 1] = 0
          BY <5>2, <5>3, <5>4
        <5>6. QED
          BY <3>1, <5>1, <5>5
      <4>3. QED
        BY <4>1, <4>2
    <3>4. QED
      BY <2>3, <2>4, <3>1, <3>3
  <2>8. QED
    BY <2>5, <2>6, <2>7
<1>2. QED
  BY <1>1, TablesBuilt, WalksKeep, UsableKept, RankOrderKept, UnrankOutcome,
     UnrankFollowsOrderHolds, PTL
-----------------------------------------------------------------------------
Bytes == 0 .. Base - 1

(* The sorted symbols, and where they are.                                 *)
Enumerates(sigma, symbols) ==
  /\ DOMAIN sigma = 0 .. Cardinality(symbols) - 1
  /\ \A j \in DOMAIN sigma : sigma[j] \in symbols /\ Position(symbols, sigma[j]) = j

Locates(reverse, symbols) ==
  /\ DOMAIN reverse = symbols
  /\ \A a \in symbols : reverse[a] = Position(symbols, a)

LEMMA SameCardinality == \A S : Text!Cardinality(S) = Cardinality(S)
BY DEF Text!Cardinality, Cardinality, Text!IsFiniteSet, IsFiniteSet

LEMMA BytesFinite ==
  ASSUME NEW S \in SUBSET Bytes
  PROVE  IsFiniteSet(S) /\ Cardinality(S) \in Nat
<1>1. IsFiniteSet(Bytes)
  BY BoundAssumption, FS_Interval DEF Bytes
<1>2. QED
  BY <1>1, FS_Subset, FS_CardinalityType

LEMMA SameVectors ==
  /\ \A S, a : Text!Position(S, a) = Position(S, a)
  /\ \A S : Text!InOrder(S) = InOrder(S)
  /\ \A f : Text!Range(f) = Range(f)
<1>1. \A S, a : Text!Position(S, a) = Position(S, a)
  BY SameCardinality DEF Text!Position, Position
<1>2. \A S : Text!InOrder(S) = InOrder(S)
  BY <1>1, SameCardinality DEF Text!InOrder, InOrder
<1>3. QED
  BY <1>1, <1>2 DEF Text!Range, Range

LEMMA BytePositions ==
  ASSUME NEW S \in SUBSET Bytes
  PROVE  /\ \A a \in S : Position(S, a) \in 0 .. Cardinality(S) - 1
         /\ \A a, b \in S : a < b => Position(S, a) < Position(S, b)
         /\ \A a, b \in S : Position(S, a) = Position(S, b) => a = b
         /\ \A j \in 0 .. Cardinality(S) - 1 : \E a \in S : Position(S, a) = j
<1>1. S \in SUBSET Int /\ IsFiniteSet(S)
  BY BytesFinite, BoundAssumption DEF Bytes
<1>2. QED
  BY <1>1, PositionFacts, PositionUnique

(* If all bytes are symbols each is its own index.                         *)
LEMMA AllBytes ==
  ASSUME NEW S \in SUBSET Bytes, Cardinality(S) = Base, NEW b \in S
  PROVE  Position(S, b) = b
<1>1. IsFiniteSet(Bytes) /\ Cardinality(Bytes) = Base
  <2>1. 0 \in Int /\ Base - 1 \in Int
    BY BoundAssumption
  <2>2. /\ IsFiniteSet(0 .. Base - 1)
        /\ Cardinality(0 .. Base - 1) = IF 0 > Base - 1 THEN 0 ELSE (Base - 1) - 0 + 1
    BY <2>1, FS_Interval, Zenon
  <2>3. QED
    BY <2>2, BoundAssumption DEF Bytes
<1>2. S = Bytes
  BY <1>1, FS_Subset
<1>3. b \in Nat /\ {a \in S : a < b} = 0 .. b - 1
  BY <1>2, BoundAssumption DEF Bytes
<1>4. Cardinality(0 .. b - 1) = b
  <2>1. 0 \in Int /\ b - 1 \in Int
    BY <1>3
  <2>2. Cardinality(0 .. b - 1) = IF 0 > b - 1 THEN 0 ELSE (b - 1) - 0 + 1
    BY <2>1, FS_Interval, Zenon
  <2>3. QED
    BY <1>3, <2>2
<1>5. QED
  BY <1>3, <1>4 DEF Position

(* Symbols after all the others leave the others where they are.           *)
LEMMA PositionKept ==
  ASSUME NEW S \in SUBSET Bytes, NEW R \in SUBSET S, \A a \in S \ R, b \in R : a > b
  PROVE  /\ \A b \in R : Position(S, b) = Position(R, b)
         /\ Cardinality(R) <= Cardinality(S)
<1>1. S \subseteq Int
  BY BoundAssumption DEF Bytes
<1>2. ASSUME NEW b \in R
      PROVE  {a \in S : a < b} = {a \in R : a < b}
  <2>1. ASSUME NEW a \in S, a < b
        PROVE  a \in R
    <3>1. a \in Int /\ b \in Int /\ ~ a > b
      BY <1>1, <2>1
    <3>2. QED
      BY <3>1
  <2>2. QED
    BY <2>1
<1>3. Cardinality(R) <= Cardinality(S)
  <2>1. IsFiniteSet(S)
    BY BytesFinite
  <2>2. QED
    BY <2>1, FS_Subset, Zenon
<1>4. QED
  BY <1>2, <1>3 DEF Position

LEMMA ByteOfByte == \A a \in Bytes : Text!ByteOf(a) = a
BY BoundAssumption DEF Bytes, Text!ByteOf

IsObject(o) ==
  o = [states |-> o.states, size |-> o.size, symbols |-> o.symbols, finals |-> o.finals,
       sigma |-> o.sigma, reverse |-> o.reverse]

(* The tables of symbols grow from those of R to those of S.               *)
LEMMA TablesGrow ==
  ASSUME NEW S \in SUBSET Bytes, NEW R \in SUBSET S, \A a \in S \ R, b \in R : a > b,
         NEW o, IsObject(o), o.symbols = S, Enumerates(o.sigma, R), Locates(o.reverse, R),
         NEW f, f = Text!WithSymbols(o)
  PROVE  /\ IsObject(f)
         /\ f.states = o.states /\ f.size = o.size /\ f.symbols = S /\ f.finals = o.finals
         /\ Enumerates(f.sigma, S) /\ Locates(f.reverse, S)
<1> DEFINE K == Cardinality(S)
           At(j) == CHOOSE a \in S : Position(S, a) = j
           sigma == [j \in 0 .. K - 1 |-> Text!ByteOf(At(j))]
           reverse == [b \in {Text!ByteOf(a) : a \in S} |->
                         Text!Min({j \in DOMAIN sigma : sigma[j] = b})]
<1>1. K \in Nat /\ Cardinality(R) \in Nat /\ Cardinality(R) <= K
  BY BytesFinite, PositionKept
<1>2. ASSUME NEW j \in 0 .. K - 1
      PROVE  sigma[j] \in S /\ Position(S, sigma[j]) = j
  <2>1. At(j) \in S /\ Position(S, At(j)) = j
    BY BytePositions
  <2>2. Text!ByteOf(At(j)) = At(j)
    BY <2>1, ByteOfByte
  <2>3. QED
    BY <2>1, <2>2
<1>3. DOMAIN sigma = 0 .. K - 1 /\ {Text!ByteOf(a) : a \in S} = S
  <2>1. \A a \in S : Text!ByteOf(a) = a
    BY ByteOfByte
  <2>2. QED
    BY <2>1
<1> HIDE DEF sigma
<1>4. ASSUME NEW b \in S
      PROVE  reverse[b] = Position(S, b)
  <2> DEFINE p == Position(S, b)
  <2>1. p \in 0 .. K - 1
    BY BytePositions
  <2>2. \A j \in 0 .. K - 1 : sigma[j] = b <=> j = p
    <3>1. ASSUME NEW j \in 0 .. K - 1, sigma[j] = b
          PROVE  j = p
      BY <1>2, <3>1
    <3>2. sigma[p] = b
      BY <1>2, <2>1, BytePositions
    <3>3. QED
      BY <3>1, <3>2
  <2> HIDE DEF p
  <2>3. {j \in DOMAIN sigma : sigma[j] = b} = {p}
    BY <1>3, <2>1, <2>2
  <2>4. Text!Min({p}) = p
    BY <2>1 DEF Text!Min
  <2>5. reverse[b] = p
    BY <1>3, <2>3, <2>4
  <2>6. QED
    BY <2>5 DEF p
<1>5. DOMAIN reverse = S
  BY <1>3
<1>6. f = [o EXCEPT !.sigma = Text!Inserted(@, sigma), !.reverse = Text!Inserted(@, reverse)]
  <2>1. Text!Cardinality(o.symbols) = K /\ o.symbols = S
    BY SameCardinality
  <2> DEFINE It(j) == CHOOSE a \in S : Text!Position(S, a) = j
             found == [j \in 0 .. K - 1 |-> Text!ByteOf(It(j))]
             back == [b \in {Text!ByteOf(a) : a \in S} |->
                        Text!Min({j \in DOMAIN found : found[j] = b})]
  <2>2. f = [o EXCEPT !.sigma = Text!Inserted(@, found), !.reverse = Text!Inserted(@, back)]
    BY <2>1 DEF Text!WithSymbols
  <2>3. \A j : It(j) = At(j)
    BY SameVectors
  <2> HIDE DEF It, At
  <2>4. found = sigma
    BY <2>3 DEF sigma
  <2> HIDE DEF found
  <2>5. back = reverse
    BY <2>4
  <2> HIDE DEF back
  <2>6. QED
    BY <2>2, <2>4, <2>5
<1> HIDE DEF reverse
<1>7. /\ IsObject(f)
      /\ f.states = o.states /\ f.size = o.size /\ f.symbols = o.symbols /\ f.finals = o.finals
      /\ f.sigma = Text!Inserted(o.sigma, sigma) /\ f.reverse = Text!Inserted(o.reverse, reverse)
  BY <1>6 DEF IsObject
<1>8. Enumerates(f.sigma, S)
  <2>1. DOMAIN f.sigma = 0 .. K - 1
    BY <1>1, <1>3, <1>7 DEF Text!Inserted, Enumerates
  <2>2. ASSUME NEW j \in 0 .. K - 1
        PROVE  f.sigma[j] \in S /\ Position(S, f.sigma[j]) = j
    <3>1. CASE j \in DOMAIN o.sigma
      <4>1. f.sigma[j] = o.sigma[j]
        BY <1>7, <3>1 DEF Text!Inserted
      <4>2. o.sigma[j] \in R /\ Position(R, o.sigma[j]) = j
        BY <3>1 DEF Enumerates
      <4>3. Position(S, o.sigma[j]) = Position(R, o.sigma[j])
        BY <4>2, PositionKept
      <4>4. QED
        BY <4>1, <4>2, <4>3
    <3>2. CASE j \notin DOMAIN o.sigma
      <4>1. f.sigma[j] = sigma[j]
        BY <1>3, <1>7, <3>2 DEF Text!Inserted
      <4>2. QED
        BY <1>2, <4>1
    <3>3. QED
      BY <3>1, <3>2
  <2>3. QED
    BY <2>1, <2>2 DEF Enumerates
<1>9. Locates(f.reverse, S)
  <2>1. DOMAIN f.reverse = S
    BY <1>5, <1>7 DEF Text!Inserted, Locates
  <2>2. ASSUME NEW b \in S
        PROVE  f.reverse[b] = Position(S, b)
    <3>1. CASE b \in R
      <4>1. f.reverse[b] = o.reverse[b]
        BY <1>7, <3>1 DEF Text!Inserted, Locates
      <4>2. o.reverse[b] = Position(R, b)
        BY <3>1 DEF Locates
      <4>3. QED
        BY <3>1, <4>1, <4>2, PositionKept
    <3>2. CASE b \notin R
      <4>1. f.reverse[b] = reverse[b]
        BY <1>5, <1>7, <3>2 DEF Text!Inserted, Locates
      <4>2. QED
        BY <1>4, <4>1
    <3>3. QED
      BY <3>1, <3>2
  <2>3. QED
    BY <2>1, <2>2 DEF Locates
<1>10. QED
  BY <1>7, <1>8, <1>9
-----------------------------------------------------------------------------
Distinct(v) == \A i, j \in DOMAIN v : v[i] = v[j] => i = j

(* What the calls before have left: states and symbols without gaps.       *)
Sound(o) ==
  /\ IsObject(o)
  /\ o.size \in Nat /\ o.states = 0 .. o.size - 1
  /\ o.symbols \in SUBSET Bytes
  /\ o.finals \in Seq(Nat) /\ Distinct(o.finals)
  /\ Enumerates(o.sigma, o.symbols) /\ Locates(o.reverse, o.symbols)

LEMMA NewObjectSound ==
  LET o == Text!NewObject
  IN  Sound(o) /\ o.symbols = {} /\ Range(o.finals) = {}
<1> DEFINE o == Text!NewObject
<1>1. /\ IsObject(o) /\ o.size = 0 /\ o.states = {} /\ o.symbols = {} /\ o.finals = << >>
      /\ o.sigma = << >> /\ o.reverse = << >>
  BY DEF Text!NewObject, IsObject
<1> HIDE DEF o
<1>2. Cardinality({}) = 0 /\ DOMAIN << >> = {} /\ 0 .. 0 - 1 = {}
  BY FS_EmptySet
<1>3. Enumerates(<< >>, {}) /\ Locates(<< >>, {})
  BY <1>2 DEF Enumerates, Locates
<1>4. << >> \in Seq(Nat) /\ Distinct(<< >>) /\ Range(<< >>) = {}
  BY DEF Distinct, Range
<1>5. QED
  BY <1>1, <1>2, <1>3, <1>4 DEF Sound, o

LEMMA RangeFinite ==
  ASSUME NEW v \in Seq(Nat)
  PROVE  IsFiniteSet(Range(v)) /\ Range(v) \in SUBSET Int
<1>1. PICK N \in Nat : N = Len(v)
  OBVIOUS
<1>2. v \in Surjection(1 .. N, Range(v)) /\ IsFiniteSet(1 .. N)
  <2>1. DOMAIN v = 1 .. N /\ v = [i \in 1 .. N |-> v[i]]
    BY <1>1
  <2>2. v \in [1 .. N -> Range(v)] /\ Range(v) = {v[i] : i \in 1 .. N}
    BY <2>1 DEF Range
  <2>3. \A t \in Range(v) : \E i \in 1 .. N : v[i] = t
    BY <2>2
  <2>4. v \in Surjection(1 .. N, Range(v))
    BY <2>2, <2>3 DEF Surjection
  <2>5. QED
    BY <2>4, FS_Interval
<1>3. IsFiniteSet(Range(v))
  BY <1>2, FS_Surjection, Zenon
<1>4. QED
  BY <1>1, <1>3 DEF Range

LEMMA AscendingDistinct ==
  ASSUME NEW S \in SUBSET Int, NEW v \in Seq(S), Ascending(v)
  PROVE  Distinct(v)
<1>0. DOMAIN v = 1 .. Len(v) /\ Len(v) \in Nat
  OBVIOUS
<1>1. ASSUME NEW i \in 1 .. Len(v), NEW j \in 1 .. Len(v), v[i] = v[j]
      PROVE  i = j
  <2>0. v[i] \in S /\ v[j] \in S
    OBVIOUS
  <2>1. v[i] \in Int /\ v[j] \in Int
    BY <2>0
  <2>2. ~ i < j /\ ~ j < i
    BY <1>1, <2>1 DEF Ascending
  <2>3. QED
    BY <2>2
<1>2. QED
  BY <1>0, <1>1 DEF Distinct

(* Sorting the final states does not change which there are.               *)
LEMMA SortedSound ==
  ASSUME NEW o, Sound(o), NEW u, u = Text!Sorted(o)
  PROVE  Sound(u) /\ u.symbols = o.symbols /\ Range(u.finals) = Range(o.finals)
<1>1. PICK S : S = Range(o.finals)
  OBVIOUS
<1>2. IsFiniteSet(S) /\ S \in SUBSET Int /\ S \in SUBSET Nat
  <2>1. IsFiniteSet(S) /\ S \in SUBSET Int
    BY <1>1, RangeFinite DEF Sound
  <2>2. o.finals \in Seq(Nat)
    BY DEF Sound
  <2>3. S \in SUBSET Nat
    BY <1>1, <2>2 DEF Range
  <2>4. QED
    BY <2>1, <2>3
<1>3. PICK v : v = InOrder(S)
  OBVIOUS
<1>4. v \in Seq(S) /\ Ascending(v) /\ Range(v) = S
  BY <1>2, <1>3, InOrderFacts
<1>5. v \in Seq(Nat) /\ Distinct(v)
  <2>1. Distinct(v)
    BY <1>2, <1>4, AscendingDistinct
  <2>2. \A T : S \in SUBSET T => v \in Seq(T)
    BY <1>4
  <2>3. QED
    BY <1>2, <2>1, <2>2
<1>6. u = [o EXCEPT !.finals = v]
  BY <1>1, <1>3, SameVectors DEF Text!Sorted
<1>7. /\ IsObject(u) /\ u.states = o.states /\ u.size = o.size /\ u.symbols = o.symbols
      /\ u.finals = v /\ u.sigma = o.sigma /\ u.reverse = o.reverse
  BY <1>6 DEF Sound, IsObject
<1>8. QED
  BY <1>1, <1>4, <1>5, <1>7 DEF Sound
-----------------------------------------------------------------------------
LEMMA TextIsSeq ==
  ASSUME NEW text, IsText(text)
  PROVE  Len(text) \in Nat /\ DOMAIN text = 1 .. Len(text)
BY DEF IsText

(* The largest of some lines.                                              *)
LEMMA LastOf ==
  ASSUME NEW l \in Nat, NEW S \in SUBSET (1 .. l), S # {}
  PROVE  Text!Max(S) \in S
<1> DEFINE T == {l - i : i \in S}
<1>1. T \in SUBSET Nat /\ T # {}
  <2>1. \A i \in S : l - i \in Nat
    OBVIOUS
  <2>2. QED
    BY <2>1
<1>2. PICK m \in T : \A k \in T : m <= k
  <2> HIDE DEF T
  <2> QED
    BY <1>1, SmallestOf
<1>3. PICK i \in S : m = l - i
  BY <1>2
<1>4. \A j \in S : i >= j
  <2>1. ASSUME NEW j \in S
        PROVE  i >= j
    <3>1. l - j \in T
      OBVIOUS
    <3>2. l - i <= l - j
      BY <1>2, <1>3, <3>1
    <3>3. i \in Int /\ j \in Int
      OBVIOUS
    <3>4. QED
      BY <3>2, <3>3
  <2>2. QED
    BY <2>1
<1>5. QED
  BY <1>4 DEF Text!Max

LEMMA FirstOf ==
  ASSUME NEW S \in SUBSET Nat, S # {}
  PROVE  Text!Min(S) \in S /\ \A i \in S : Text!Min(S) <= i
<1>1. PICK m \in S : \A k \in S : m <= k
  BY SmallestOf
<1>2. QED
  BY <1>1 DEF Text!Min

(* An empty line at the end of a text changes nothing.                     *)
LEMMA LinesRead ==
  ASSUME NEW text, IsText(text), Proper(text), NEW lines, lines = Text!UpToBlank(text)
  PROVE  /\ Text!Moves(lines) = Text!Moves(text)
         /\ \A i \in Text!Moves(text) : lines[i] = text[i]
         /\ Text!StatesIn(lines) = Text!StatesIn(text)
         /\ Text!SymbolsIn(lines) = Text!SymbolsIn(text)
         /\ Text!FinalsIn(lines) = Text!FinalsIn(text)
         /\ \A i \in DOMAIN lines : ~Text!Malformed(lines[i])
         /\ \E k \in Nat : DOMAIN lines = 1 .. k
<1> DEFINE blank == {i \in DOMAIN text : text[i].fields = 0}
<1>1. Len(text) \in Nat /\ DOMAIN text = 1 .. Len(text)
  BY TextIsSeq
<1>2. \A i \in DOMAIN text : text[i].fields = 0 => i = Len(text)
  BY DEF Proper
<1>3. /\ DOMAIN lines \subseteq DOMAIN text
      /\ \A i \in DOMAIN lines : lines[i] = text[i]
      /\ \A i \in DOMAIN text : text[i].fields # 0 => i \in DOMAIN lines
  <2>1. CASE blank = {}
    BY <2>1 DEF Text!UpToBlank
  <2>2. CASE blank # {}
    <3>1. blank = {Len(text)}
      BY <1>1, <1>2, <2>2
    <3>2. Text!Min(blank) = Len(text) /\ Len(text) \in 1 .. Len(text)
      BY <1>1, <3>1 DEF Text!Min
    <3>3. lines = SubSeq(text, 1, Len(text) - 1)
      BY <2>2, <3>2 DEF Text!UpToBlank
    <3>4. DOMAIN lines = 1 .. Len(text) - 1 /\ \A i \in 1 .. Len(text) - 1 : lines[i] = text[i]
      BY <1>1, <3>2, <3>3 DEF IsText
    <3>5. \A i \in DOMAIN text : text[i].fields # 0 => i # Len(text)
      BY <3>1
    <3>6. QED
      BY <1>1, <3>4, <3>5
  <2>3. QED
    BY <2>1, <2>2
<1>4. Text!Moves(lines) = Text!Moves(text)
  BY <1>3 DEF Text!Moves
<1>5. \A i \in Text!Moves(text) : lines[i] = text[i]
  BY <1>3, <1>4 DEF Text!Moves
<1>6. Text!StatesIn(lines) = Text!StatesIn(text)
  BY <1>4, <1>5 DEF Text!StatesIn
<1>7. Text!SymbolsIn(lines) = Text!SymbolsIn(text)
  BY <1>4, <1>5 DEF Text!SymbolsIn
<1>8. Text!FinalsIn(lines) = Text!FinalsIn(text)
  <2>1. Text!FinalLines(lines) = Text!FinalLines(text)
    BY <1>3 DEF Text!FinalLines
  <2>2. \A i \in Text!FinalLines(text) : lines[i].state = text[i].state
    BY <1>3, <2>1 DEF Text!FinalLines
  <2>3. QED
    BY <2>1, <2>2 DEF Text!FinalsIn
<1>9. \A i \in DOMAIN lines : ~Text!Malformed(lines[i])
  BY <1>3 DEF Proper
<1>10. \E k \in Nat : DOMAIN lines = 1 .. k
  <2>1. CASE blank = {}
    BY <1>1, <2>1 DEF Text!UpToBlank
  <2>2. CASE blank # {}
    <3>1. blank = {Len(text)}
      BY <1>1, <1>2, <2>2
    <3>2. Text!Min(blank) = Len(text) /\ Len(text) \in 1 .. Len(text)
      BY <1>1, <3>1 DEF Text!Min
    <3>3. lines = SubSeq(text, 1, Len(text) - 1)
      BY <2>2, <3>2 DEF Text!UpToBlank
    <3>4. DOMAIN lines = 1 .. Len(text) - 1 /\ Len(text) - 1 \in Nat
      BY <1>1, <3>2, <3>3 DEF IsText
    <3>5. QED
      BY <3>4
  <2>3. QED
    BY <2>1, <2>2
<1>11. QED
  BY <1>4, <1>5, <1>6, <1>7, <1>8, <1>9, <1>10

(* What stands where in two sequences joined.                              *)
LEMMA Joined ==
  ASSUME NEW v \in Seq(Nat), NEW w \in Seq(Nat), NEW h \in Nat, NEW l \in Nat,
         h = Len(v), l = Len(w), NEW g, g = v \o w
  PROVE  /\ g \in Seq(Nat) /\ DOMAIN g = 1 .. h + l
         /\ \A i \in 1 .. h : g[i] = v[i]
         /\ \A i \in h + 1 .. h + l : g[i] = w[i - h]
<1>1. g \in Seq(Nat)
  OBVIOUS
<1>2. DOMAIN g = 1 .. h + l
  OBVIOUS
<1>3. ASSUME NEW i \in 1 .. h
      PROVE  g[i] = v[i]
  OBVIOUS
<1>4. ASSUME NEW i \in h + 1 .. h + l
      PROVE  g[i] = w[i - h]
  OBVIOUS
<1>5. QED
  BY <1>1, <1>2, <1>3, <1>4

(* The final states of a text join those that are there, each once.        *)
LEMMA FinalsRead ==
  ASSUME NEW k \in Nat, NEW lines, DOMAIN lines = 1 .. k, Text!FinalsIn(lines) \in SUBSET Nat,
         NEW v \in Seq(Nat), Distinct(v), NEW g, g = Text!WithFinals(v, lines)
  PROVE  g \in Seq(Nat) /\ Distinct(g) /\ Range(g) = Range(v) \cup Text!FinalsIn(lines)
<1> DEFINE F == Text!FinalLines(lines)
           Seen(i) == Range(v) \cup {lines[j].state : j \in {j \in F : j < i}}
           New == {i \in F : lines[i].state \notin Seen(i)}
           first == InOrder(New)
           more == [m \in DOMAIN first |-> lines[first[m]].state]
<1>1. g = v \o more
  BY SameVectors DEF Text!WithFinals
<1>2. F \in SUBSET (1 .. k) /\ \A i \in F : lines[i].state \in Nat
  BY DEF Text!FinalLines, Text!FinalsIn
<1>3. IsFiniteSet(New) /\ New \in SUBSET Int /\ New \in SUBSET F
  <2>1. IsFiniteSet(1 .. k)
    BY FS_Interval
  <2>2. New \in SUBSET (1 .. k)
    BY <1>2
  <2>3. IsFiniteSet(New)
    BY <2>1, <2>2, FS_Subset
  <2>4. QED
    BY <2>2, <2>3
<1>4. PICK N : N = New
  OBVIOUS
<1>5. /\ \A i \in N : i \in F /\ i \in Int /\ lines[i].state \notin Range(v)
      /\ \A i \in N : \A j \in F : j < i => lines[i].state # lines[j].state
      /\ \A i \in F : i \in N \/ lines[i].state \in Range(v)
                       \/ \E j \in F : j < i /\ lines[j].state = lines[i].state
  BY <1>3, <1>4
<1>6. first \in Seq(N) /\ Ascending(first) /\ Range(first) = N
  BY <1>3, <1>4, InOrderFacts
<1> HIDE DEF New, F
<1>7. PICK l \in Nat : l = Len(first) /\ DOMAIN first = 1 .. l
  BY <1>6
<1>8. /\ \A m \in 1 .. l : first[m] \in N
      /\ \A m, p \in 1 .. l : m < p => first[m] < first[p]
      /\ \A i \in N : \E m \in 1 .. l : first[m] = i
  BY <1>6, <1>7 DEF Ascending, Range
<1> HIDE DEF first
<1>9. more = [m \in 1 .. l |-> lines[first[m]].state]
  BY <1>7
<1>10. \A m \in 1 .. l : more[m] = lines[first[m]].state /\ more[m] \in Nat
  BY <1>2, <1>5, <1>8, <1>9
<1>11. more \in Seq(Nat) /\ Len(more) = l
  BY <1>9, <1>10
<1>12. ASSUME NEW m \in 1 .. l
       PROVE  /\ more[m] \notin Range(v)
              /\ \A p \in 1 .. l : m < p => more[m] # more[p]
  <2>1. first[m] \in N /\ first[m] \in F
    BY <1>5, <1>8
  <2>2. more[m] \notin Range(v)
    BY <1>5, <1>10, <2>1
  <2>3. ASSUME NEW p \in 1 .. l, m < p
        PROVE  more[m] # more[p]
    <3>1. first[p] \in N /\ first[m] < first[p]
      BY <1>8, <2>3
    <3>2. lines[first[p]].state # lines[first[m]].state
      BY <1>5, <2>1, <3>1
    <3>3. QED
      BY <1>10, <3>2
  <2>4. QED
    BY <2>2, <2>3
<1> HIDE DEF more
<1>13. PICK h \in Nat : h = Len(v) /\ DOMAIN v = 1 .. h
  OBVIOUS
<1>14. /\ g \in Seq(Nat) /\ DOMAIN g = 1 .. h + l
       /\ \A i \in 1 .. h : g[i] = v[i]
       /\ \A i \in h + 1 .. h + l : g[i] = more[i - h]
  BY <1>1, <1>11, <1>13, Joined
<1>15. Distinct(g)
  <2>1. SUFFICES ASSUME NEW i \in 1 .. h + l, NEW j \in 1 .. h + l, i < j
                 PROVE  g[i] # g[j]
    BY <1>14 DEF Distinct
  <2>2. CASE j <= h
    <3>1. i \in 1 .. h /\ j \in 1 .. h /\ i # j
      BY <2>1, <2>2
    <3>2. v[i] # v[j]
      BY <1>13, <3>1 DEF Distinct
    <3>3. QED
      BY <1>14, <3>1, <3>2
  <2>3. CASE i <= h /\ ~ j <= h
    <3>1. i \in 1 .. h /\ j \in h + 1 .. h + l /\ j - h \in 1 .. l
      BY <2>1, <2>3
    <3>2. v[i] \in Range(v) /\ more[j - h] \notin Range(v)
      BY <1>12, <1>13, <3>1 DEF Range
    <3>3. QED
      BY <1>14, <3>1, <3>2
  <2>4. CASE ~ i <= h
    <3>1. /\ i \in h + 1 .. h + l /\ j \in h + 1 .. h + l
          /\ i - h \in 1 .. l /\ j - h \in 1 .. l /\ i - h < j - h
      BY <2>1, <2>4
    <3>2. more[i - h] # more[j - h]
      BY <1>12, <3>1
    <3>3. QED
      BY <1>14, <3>1, <3>2
  <2>5. QED
    BY <2>2, <2>3, <2>4
<1>16. ASSUME NEW s \in Range(g)
       PROVE  s \in Range(v) \cup Text!FinalsIn(lines)
  <2>1. PICK i \in 1 .. h + l : s = g[i]
    BY <1>14 DEF Range
  <2>2. CASE i <= h
    <3>1. i \in 1 .. h
      BY <2>2
    <3>2. QED
      BY <1>13, <1>14, <2>1, <3>1 DEF Range
  <2>3. CASE ~ i <= h
    <3>1. i \in h + 1 .. h + l /\ i - h \in 1 .. l
      BY <2>3
    <3>2. s = lines[first[i - h]].state /\ first[i - h] \in F
      BY <1>5, <1>8, <1>10, <1>14, <2>1, <3>1
    <3>3. QED
      BY <3>2 DEF F, Text!FinalsIn
  <2>4. QED
    BY <2>2, <2>3
<1>17. ASSUME NEW s \in Range(v)
       PROVE  s \in Range(g)
  <2>1. PICK i \in 1 .. h : s = v[i]
    BY <1>13 DEF Range
  <2>2. i \in 1 .. h + l
    OBVIOUS
  <2>3. QED
    BY <1>14, <2>1, <2>2 DEF Range
<1>18. ASSUME NEW s \in Text!FinalsIn(lines), s \notin Range(v)
       PROVE  s \in Range(g)
  <2> DEFINE T == {i \in F : lines[i].state = s}
  <2>1. T # {} /\ T \in SUBSET Nat
    BY <1>2 DEF F, Text!FinalsIn
  <2>2. PICK i \in T : \A j \in T : i <= j
    <3> HIDE DEF T
    <3> QED
      BY <2>1, SmallestOf
  <2>3. i \in F /\ lines[i].state = s /\ i \in Nat
    BY <2>1
  <2>4. ~ \E j \in F : j < i /\ lines[j].state = s
    <3>1. SUFFICES ASSUME NEW j \in F, j < i, lines[j].state = s
                   PROVE  FALSE
      OBVIOUS
    <3>2. j \in T /\ j \in Nat
      BY <2>1, <3>1
    <3>3. i <= j
      BY <2>2, <3>2
    <3>4. QED
      BY <2>3, <3>1, <3>2, <3>3
  <2>5. i \in N
    BY <1>5, <1>18, <2>3, <2>4
  <2>6. PICK m \in 1 .. l : first[m] = i
    BY <1>8, <2>5
  <2>7. m + h \in h + 1 .. h + l /\ m + h \in 1 .. h + l /\ (m + h) - h = m
    OBVIOUS
  <2>8. g[m + h] = s
    BY <1>10, <1>14, <2>3, <2>6, <2>7
  <2>9. QED
    BY <1>14, <2>7, <2>8 DEF Range
<1>19. QED
  BY <1>14, <1>15, <1>16, <1>17, <1>18

(* The states of a text are numbered, and all it names are among them.     *)
LEMMA TextFacts ==
  ASSUME NEW text, IsText(text), Proper(text)
  PROVE  /\ Cardinality(Text!StatesIn(text)) \in Nat \ {0}
         /\ Text!StatesIn(text) = 0 .. Cardinality(Text!StatesIn(text)) - 1
         /\ Text!FinalsIn(text) \in SUBSET Text!StatesIn(text) /\ Text!FinalsIn(text) # {}
         /\ Text!SymbolsIn(text) \in SUBSET Bytes /\ Text!SymbolsIn(text) # {}
         /\ Text!Moves(text) \in SUBSET (1 .. Len(text)) /\ Text!Moves(text) # {}
         /\ \A i \in Text!Moves(text) :
              /\ text[i].from \in Text!StatesIn(text) /\ text[i].to \in Text!StatesIn(text)
              /\ text[i].symbol \in Text!SymbolsIn(text)
<1> DEFINE N == Cardinality(Text!StatesIn(text))
<1>1. Text!StatesIn(text) = 0 .. N - 1
  BY DEF Proper
<1>2. /\ Text!Moves(text) # {} /\ Text!Moves(text) \in SUBSET (1 .. Len(text))
      /\ \A i \in Text!Moves(text) :
           /\ text[i].from \in Text!StatesIn(text) /\ text[i].to \in Text!StatesIn(text)
           /\ text[i].symbol \in Text!SymbolsIn(text)
  BY TextIsSeq DEF Proper, Text!Moves, Text!StatesIn, Text!SymbolsIn
<1>3. Text!StatesIn(text) # {} /\ Text!SymbolsIn(text) # {}
  BY <1>2
<1>4. N \in Nat \ {0}
  <2>1. IsFiniteSet(Text!StatesIn(text))
    <3> DEFINE sources == [i \in Text!Moves(text) |-> text[i].from]
               targets == [i \in Text!Moves(text) |-> text[i].to]
               A == {text[i].from : i \in Text!Moves(text)}
               C == {text[i].to : i \in Text!Moves(text)}
    <3>1. IsFiniteSet(Text!Moves(text))
      <4>1. IsFiniteSet(1 .. Len(text))
        BY TextIsSeq, FS_Interval
      <4>2. QED
        BY <1>2, <4>1, FS_Subset, Zenon
    <3>2. sources \in Surjection(Text!Moves(text), A) /\ targets \in Surjection(Text!Moves(text), C)
      BY DEF Surjection
    <3>3. IsFiniteSet(A) /\ IsFiniteSet(C)
      BY <3>1, <3>2, FS_Surjection, Zenon
    <3>4. Text!StatesIn(text) = A \cup C
      BY DEF Text!StatesIn
    <3>5. QED
      BY <3>3, <3>4, FS_Union
  <2>4. N \in Nat
    BY <2>1, FS_CardinalityType
  <2>2. 0 .. N - 1 # {}
    BY <1>1, <1>3
  <2>3. QED
    BY <2>2, <2>4
<1>5. QED
  BY <1>1, <1>2, <1>3, <1>4 DEF Proper, Bytes

(* Up to the dead state: the states of the object and of the text, without *)
(* gaps.                                                                   *)
LEMMA StatesRead ==
  ASSUME NEW text, IsText(text), Proper(text), NEW o, Sound(o),
         NEW r, r = Text!WithDead(Text!Read(o, Text!UpToBlank(text)))
  PROVE  /\ IsObject(r)
         /\ r.size \in Nat /\ r.states = 0 .. r.size - 1
         /\ Cardinality(Text!StatesIn(text)) < r.size
         /\ r.symbols = o.symbols \cup Text!SymbolsIn(text)
         /\ r.finals \in Seq(Nat) /\ Distinct(r.finals)
         /\ Range(r.finals) = Range(o.finals) \cup Text!FinalsIn(text)
         /\ r.sigma = o.sigma /\ r.reverse = o.reverse
<1> DEFINE lines == Text!UpToBlank(text)
           met == Text!StatesIn(text)
           N == Cardinality(met)
           z == o.size
           m == z + Cardinality(met \ o.states)
           read == Text!Read(o, lines)
           finals == Text!WithFinals(o.finals, lines)
<1>1. N \in Nat \ {0} /\ met = 0 .. N - 1 /\ z \in Nat /\ o.states = 0 .. z - 1
  BY TextFacts DEF Sound
<1>2. Text!Cardinality(met \ o.states) = Cardinality(met \ o.states)
  BY SameCardinality
<1>3. /\ Text!StatesIn(lines) = met /\ Text!SymbolsIn(lines) = Text!SymbolsIn(text)
      /\ Text!FinalsIn(lines) = Text!FinalsIn(text)
  BY LinesRead
<1>4. read = [o EXCEPT !.states  = @ \cup met,
                       !.size    = @ + Cardinality(met \ o.states),
                       !.symbols = @ \cup Text!SymbolsIn(text),
                       !.finals  = finals]
  <2> HIDE DEF lines, met
  <2> QED
    BY <1>2, <1>3 DEF Text!Read
<1>5. r = Text!WithDead(read)
  OBVIOUS
<1>6. finals \in Seq(Nat) /\ Distinct(finals) /\ Range(finals) = Range(o.finals) \cup Text!FinalsIn(text)
  <2> DEFINE old == o.finals
  <2>1. old \in Seq(Nat) /\ Distinct(old)
    BY DEF Sound
  <2>2. PICK k \in Nat : DOMAIN lines = 1 .. k
    BY LinesRead
  <2>3. Text!FinalsIn(lines) \in SUBSET Nat
    BY <1>1, <1>3, TextFacts
  <2>4. PICK g : g = Text!WithFinals(old, lines)
    OBVIOUS
  <2> HIDE DEF lines, old
  <2>5. g \in Seq(Nat) /\ Distinct(g) /\ Range(g) = Range(old) \cup Text!FinalsIn(lines)
    BY <2>1, <2>2, <2>3, <2>4, FinalsRead
  <2>6. QED
    BY <1>3, <2>4, <2>5 DEF old
<1> HIDE DEF lines, met, read, N, finals
<1>7. /\ IsObject(read)
      /\ read.states = o.states \cup met /\ read.size = m
      /\ read.symbols = o.symbols \cup Text!SymbolsIn(text)
      /\ read.finals = finals
      /\ read.sigma = o.sigma /\ read.reverse = o.reverse
  BY <1>4 DEF Sound, IsObject
<1>8. /\ IsObject(r)
      /\ r.states = (o.states \cup met) \cup {m} /\ r.size = m + 1
      /\ r.symbols = o.symbols \cup Text!SymbolsIn(text)
      /\ r.finals = finals
      /\ r.sigma = o.sigma /\ r.reverse = o.reverse
  BY <1>5, <1>7 DEF IsObject, Text!WithDead
<1>9. m = (IF N <= z THEN z ELSE N) /\ m \in Nat
  <2>1. CASE N <= z
    <3>1. met \ o.states = {}
      BY <1>1, <2>1
    <3>2. Cardinality(met \ o.states) = 0
      BY <3>1, FS_EmptySet
    <3>3. QED
      BY <1>1, <2>1, <3>2
  <2>2. CASE ~ N <= z
    <3>1. met \ o.states = z .. N - 1
      BY <1>1, <2>2
    <3>2. z \in Int /\ N - 1 \in Int /\ ~ z > N - 1
      BY <1>1, <2>2
    <3>3. Cardinality(z .. N - 1) = IF z > N - 1 THEN 0 ELSE (N - 1) - z + 1
      BY <3>2, FS_Interval, Zenon
    <3>4. Cardinality(z .. N - 1) = (N - 1) - z + 1
      BY <3>2, <3>3
    <3>5. m = z + ((N - 1) - z + 1)
      BY <3>1, <3>4
    <3>6. QED
      BY <1>1, <2>2, <3>5
  <2>3. QED
    BY <2>1, <2>2
<1> HIDE DEF m
<1>10. (o.states \cup met) \cup {m} = 0 .. (m + 1) - 1
  BY <1>1, <1>9
<1>11. r.size \in Nat /\ r.states = 0 .. r.size - 1 /\ N < r.size
  BY <1>1, <1>8, <1>9, <1>10
<1>12. QED
  BY <1>6, <1>8, <1>11 DEF N, met

(* SetLanguage of a text that nothing left in the object does harm to.     *)
Harmless(o, text) ==
  /\ Range(o.finals) \subseteq Text!FinalsIn(text)
  /\ \A a \in Text!SymbolsIn(text) \ o.symbols, b \in o.symbols : a > b

LEMMA TextBuilds ==
  ASSUME NEW text, IsText(text), Proper(text), NEW o, Sound(o), Harmless(o, text),
         NEW r, r = Text!SetLanguage(o, text), NEW f, f = r.object
  PROVE  /\ Sound(f) /\ r.outcome = "built"
         /\ f.symbols = o.symbols \cup Text!SymbolsIn(text)
         /\ Range(f.finals) = Text!FinalsIn(text)
         /\ Cardinality(Text!StatesIn(text)) < f.size
         /\ Text!SanityCheck(f)
         /\ r.dfa.states = f.size
         /\ r.dfa.symbols = Cardinality(f.symbols)
         /\ r.dfa.start = text[Text!Min(Text!Moves(text))].from
         /\ r.dfa.finals = f.finals
         /\ r.dfa.delta = Text!TransitionTable(f, text)
<1> DEFINE lines == Text!UpToBlank(text)
           dead == Text!WithDead(Text!Read(o, lines))
           full == Text!WithSymbols(dead)
           N == Cardinality(Text!StatesIn(text))
           S == o.symbols \cup Text!SymbolsIn(text)
<1>1. /\ IsObject(dead)
      /\ dead.size \in Nat /\ dead.states = 0 .. dead.size - 1 /\ N < dead.size
      /\ dead.symbols = S /\ dead.finals \in Seq(Nat) /\ Distinct(dead.finals)
      /\ Range(dead.finals) = Text!FinalsIn(text)
      /\ dead.sigma = o.sigma /\ dead.reverse = o.reverse
  <2>1. Range(o.finals) \cup Text!FinalsIn(text) = Text!FinalsIn(text)
    BY DEF Harmless
  <2>2. PICK d : d = dead
    OBVIOUS
  <2>3. d = Text!WithDead(Text!Read(o, Text!UpToBlank(text)))
    BY <2>2
  <2>4. /\ IsObject(d)
        /\ d.size \in Nat /\ d.states = 0 .. d.size - 1
        /\ Cardinality(Text!StatesIn(text)) < d.size
        /\ d.symbols = o.symbols \cup Text!SymbolsIn(text)
        /\ d.finals \in Seq(Nat) /\ Distinct(d.finals)
        /\ Range(d.finals) = Range(o.finals) \cup Text!FinalsIn(text)
        /\ d.sigma = o.sigma /\ d.reverse = o.reverse
    BY <2>3, StatesRead
  <2> HIDE DEF dead
  <2>5. QED
    BY <2>1, <2>2, <2>4
<1>2. S \in SUBSET Bytes /\ o.symbols \in SUBSET S /\ \A a \in S \ o.symbols, b \in o.symbols : a > b
  BY TextFacts DEF Sound, Harmless
<1>3. Enumerates(o.sigma, o.symbols) /\ Locates(o.reverse, o.symbols)
  BY DEF Sound
<1> HIDE DEF dead, S
<1>4. /\ IsObject(full)
      /\ full.states = dead.states /\ full.size = dead.size /\ full.symbols = S
      /\ full.finals = dead.finals
      /\ Enumerates(full.sigma, S) /\ Locates(full.reverse, S)
  <2>1. PICK d, g, R : d = dead /\ g = full /\ R = o.symbols
    OBVIOUS
  <2>2. g = Text!WithSymbols(d)
    BY <2>1
  <2> HIDE DEF full
  <2>3. IsObject(d) /\ d.symbols = S /\ Enumerates(d.sigma, R) /\ Locates(d.reverse, R)
    BY <1>1, <1>3, <2>1
  <2>4. S \in SUBSET Bytes /\ R \in SUBSET S /\ \A a \in S \ R, b \in R : a > b
    BY <1>2, <2>1
  <2>5. /\ IsObject(g)
        /\ g.states = d.states /\ g.size = d.size /\ g.symbols = S /\ g.finals = d.finals
        /\ Enumerates(g.sigma, S) /\ Locates(g.reverse, S)
    BY <2>2, <2>3, <2>4, TablesGrow
  <2>6. QED
    BY <2>1, <2>5
<1> HIDE DEF full
<1>5. /\ N \in Nat \ {0} /\ Text!StatesIn(text) = 0 .. N - 1
      /\ Text!FinalsIn(text) \in SUBSET Text!StatesIn(text) /\ Text!FinalsIn(text) # {}
      /\ Text!SymbolsIn(text) \in SUBSET S /\ Text!SymbolsIn(text) # {}
      /\ Text!Moves(text) # {}
      /\ \A i \in Text!Moves(text) :
           /\ text[i].from \in Text!StatesIn(text) /\ text[i].to \in Text!StatesIn(text)
           /\ text[i].symbol \in Text!SymbolsIn(text)
  BY TextFacts DEF S
<1>6. ~Text!Throws(full, text)
  <2>1. \A s \in Text!StatesIn(text) : ~ s >= full.size
    BY <1>1, <1>4, <1>5
  <2>2. \A i \in Text!Moves(text) : Text!ByteOf(text[i].symbol) \in DOMAIN full.reverse
    <3>1. \A a \in S : Text!ByteOf(a) \in S
      BY <1>2, ByteOfByte
    <3>2. DOMAIN full.reverse = S
      BY <1>4 DEF Locates
    <3>3. QED
      BY <1>5, <3>1, <3>2
  <2>3. Text!Range(full.finals) \subseteq Text!StatesIn(text)
    BY <1>1, <1>4, <1>5, SameVectors
  <2>4. QED
    BY <1>5, <2>1, <2>2, <2>3 DEF Text!Throws
<1>7. {i \in DOMAIN lines : Text!Malformed(lines[i])} = {}
  BY LinesRead
<1>8. Text!Moves(lines) = Text!Moves(text) /\ \A i \in Text!Moves(text) : lines[i] = text[i]
  BY LinesRead
<1>9. Text!Min(Text!Moves(text)) \in Text!Moves(text)
  <2>1. Text!Moves(text) \in SUBSET Nat
    <3>1. Text!Moves(text) \in SUBSET (1 .. Len(text)) /\ Len(text) \in Nat
      BY TextFacts, TextIsSeq
    <3>2. QED
      BY <3>1
  <2>2. QED
    BY <1>5, <2>1, FirstOf
<1>10. r = [outcome |-> "built", object |-> full,
            dfa |-> [states  |-> full.size,
                     symbols |-> Cardinality(full.symbols),
                     start   |-> text[Text!Min(Text!Moves(text))].from,
                     finals  |-> full.finals,
                     delta   |-> Text!TransitionTable(full, text)]]
  <2>1. Text!Cardinality(full.symbols) = Cardinality(full.symbols)
    BY SameCardinality
  <2>2. /\ Text!Moves(lines) # {}
        /\ lines[Text!Min(Text!Moves(lines))].from = text[Text!Min(Text!Moves(text))].from
    BY <1>5, <1>8, <1>9
  <2>3. full = Text!WithSymbols(Text!WithDead(Text!Read(o, lines)))
    BY DEF full, dead
  <2> HIDE DEF lines
  <2>4. QED
    BY <1>6, <1>7, <2>1, <2>2, <2>3 DEF Text!SetLanguage, lines
<1>11. f = full
  BY <1>10
<1>12. Sound(full)
  <2>1. full.finals \in Seq(Nat) /\ Distinct(full.finals)
    BY <1>1, <1>4
  <2>2. QED
    BY <1>1, <1>2, <1>4, <2>1 DEF Sound
<1>13. Text!SanityCheck(full)
  <2>1. full.size # 0 /\ full.finals # << >> /\ \A s \in full.states : s < full.size
    <3>1. Range(<< >>) = {}
      BY DEF Range
    <3>2. QED
      BY <1>1, <1>4, <1>5, <3>1
  <2>2. \A a \in full.symbols : a <= Base
    BY <1>2, <1>4, BoundAssumption DEF Bytes
  <2>3. DOMAIN full.sigma # {}
    <3>1. PICK a \in S : TRUE
      BY <1>5
    <3>2. Position(S, a) \in 0 .. Cardinality(S) - 1
      BY <1>2, BytePositions
    <3>3. QED
      BY <1>4, <3>2 DEF Enumerates
  <2>4. QED
    BY <2>1, <2>2, <2>3 DEF Text!SanityCheck
<1>14. /\ r.outcome = "built"
       /\ r.dfa.states = full.size /\ r.dfa.symbols = Cardinality(full.symbols)
       /\ r.dfa.start = text[Text!Min(Text!Moves(text))].from
       /\ r.dfa.finals = full.finals /\ r.dfa.delta = Text!TransitionTable(full, text)
  BY <1>10
<1>15. QED
  BY <1>1, <1>4, <1>11, <1>12, <1>13, <1>14 DEF S
-----------------------------------------------------------------------------
(* The automaton is what the object o makes of the text.                   *)
ReadFrom(text, o) ==
  /\ IsDfa(dfa) /\ IsText(text) /\ Proper(text) /\ Sound(o)
  /\ Text!SymbolsIn(text) \in SUBSET o.symbols
  /\ Cardinality(Text!StatesIn(text)) < o.size
  /\ dfa.states = o.size
  /\ dfa.symbols = Cardinality(o.symbols)
  /\ dfa.start = text[Text!Min(Text!Moves(text))].from
  /\ FinalStates(dfa) = Text!FinalsIn(text)
  /\ dfa.delta = Text!TransitionTable(o, text)
  /\ dfa.sigma = o.sigma /\ dfa.reverse = o.reverse

LEMMA HitsMean ==
  ASSUME NEW text, NEW o, ReadFrom(text, o), NEW s, NEW a \in Symbols(dfa), NEW i
  PROVE  i \in Text!Hits(o, text, s, a) <=>
           i \in Text!Moves(text) /\ text[i].from = s /\ text[i].symbol = dfa.sigma[a]
<1>1. SUFFICES ASSUME i \in Text!Moves(text)
               PROVE  o.reverse[Text!ByteOf(text[i].symbol)] = a <=> text[i].symbol = dfa.sigma[a]
  BY DEF Text!Hits
<1>2. PICK b : b = text[i].symbol
  OBVIOUS
<1>3. b \in Text!SymbolsIn(text)
  BY <1>1, <1>2, TextFacts DEF ReadFrom
<1>4. b \in o.symbols /\ o.symbols \in SUBSET Bytes
  BY <1>3 DEF ReadFrom, Sound
<1>5. Text!ByteOf(b) = b
  BY <1>4, ByteOfByte
<1>6. o.reverse[b] = Position(o.symbols, b)
  BY <1>4 DEF ReadFrom, Sound, Locates
<1>7. dfa.sigma[a] \in o.symbols /\ Position(o.symbols, dfa.sigma[a]) = a
  BY DEF ReadFrom, Sound, Enumerates, Symbols
<1>8. Position(o.symbols, b) = a => b = dfa.sigma[a]
  <2>1. \A x, y \in o.symbols : Position(o.symbols, x) = Position(o.symbols, y) => x = y
    BY <1>4, BytePositions
  <2>2. QED
    BY <1>4, <1>7, <2>1
<1>9. QED
  BY <1>2, <1>5, <1>6, <1>7, <1>8

(* A transition of the text is one of the automaton.                       *)
LEMMA DeltaOfText ==
  ASSUME NEW text, NEW o, ReadFrom(text, o), NEW i \in Text!Moves(text),
         NEW a \in Symbols(dfa), text[i].symbol = dfa.sigma[a]
  PROVE  Delta(text[i].from, a) = text[i].to
<1> DEFINE s == text[i].from
           H == Text!Hits(o, text, s, a)
<1>1. s \in 0 .. o.size - 1
  <2>1. s \in Text!StatesIn(text)
    BY TextFacts DEF ReadFrom
  <2>2. /\ Text!StatesIn(text) = 0 .. Cardinality(Text!StatesIn(text)) - 1
        /\ Cardinality(Text!StatesIn(text)) \in Nat
    BY TextFacts DEF ReadFrom
  <2>3. Cardinality(Text!StatesIn(text)) < o.size /\ o.size \in Nat
    BY DEF ReadFrom, Sound
  <2>4. QED
    BY <2>1, <2>2, <2>3
<1>2. a \in 0 .. Text!Cardinality(o.symbols) - 1
  BY SameCardinality DEF Symbols, ReadFrom
<1>3. i \in H
  BY HitsMean
<1>4. Text!Max(H) \in H
  <2>1. H \in SUBSET (1 .. Len(text))
    BY TextFacts DEF ReadFrom, Text!Hits
  <2>2. Len(text) \in Nat
    BY TextIsSeq DEF ReadFrom
  <2> HIDE DEF H
  <2>3. QED
    BY <1>3, <2>1, <2>2, LastOf
<1>5. PICK j : j = Text!Max(H)
  OBVIOUS
<1>6. j \in Text!Moves(text) /\ text[j].from = s /\ text[j].symbol = dfa.sigma[a]
  BY <1>4, <1>5, HitsMean
<1>7. text[j].to = text[i].to
  BY <1>6 DEF ReadFrom, Proper
<1>8. Delta(s, a) = text[j].to
  <2> DEFINE T == Text!TransitionTable(o, text)
  <2>1. T[s][a] = IF H = {} THEN o.size - 1 ELSE text[Text!Max(H)].to
    BY <1>1, <1>2 DEF Text!TransitionTable
  <2>2. dfa.delta = T
    BY DEF ReadFrom
  <2>3. Delta(s, a) = T[s][a]
    BY <2>2 DEF Delta
  <2> HIDE DEF T, H
  <2>4. QED
    BY <1>3, <1>5, <2>1, <2>3
<1>9. QED
  BY <1>7, <1>8

(* Everything else leads to the dead state, which is no state of the text. *)
LEMMA DeltaInText ==
  ASSUME NEW text, NEW o, ReadFrom(text, o), NEW s \in States(dfa), NEW a \in Symbols(dfa),
         Delta(s, a) \in Text!StatesIn(text)
  PROVE  \E i \in Text!Moves(text) :
           text[i].from = s /\ text[i].to = Delta(s, a) /\ text[i].symbol = dfa.sigma[a]
<1> DEFINE H == Text!Hits(o, text, s, a)
<1>1. s \in 0 .. o.size - 1
  BY DEF ReadFrom, States
<1>2. a \in 0 .. Text!Cardinality(o.symbols) - 1
  BY SameCardinality DEF Symbols, ReadFrom
<1>3. Delta(s, a) = IF H = {} THEN o.size - 1 ELSE text[Text!Max(H)].to
  <2> DEFINE T == Text!TransitionTable(o, text)
  <2>1. T[s][a] = IF H = {} THEN o.size - 1 ELSE text[Text!Max(H)].to
    BY <1>1, <1>2 DEF Text!TransitionTable
  <2>2. dfa.delta = T
    BY DEF ReadFrom
  <2>3. Delta(s, a) = T[s][a]
    BY <2>2 DEF Delta
  <2>4. QED
    BY <2>1, <2>3
<1>4. H # {}
  <2>1. /\ Text!StatesIn(text) = 0 .. Cardinality(Text!StatesIn(text)) - 1
        /\ Cardinality(Text!StatesIn(text)) \in Nat
    BY TextFacts DEF ReadFrom
  <2>2. Cardinality(Text!StatesIn(text)) < o.size /\ o.size \in Nat
    BY DEF ReadFrom, Sound
  <2>3. ~ o.size - 1 \in Text!StatesIn(text)
    BY <2>1, <2>2
  <2> HIDE DEF H
  <2>4. QED
    BY <1>3, <2>3
<1>5. Text!Max(H) \in H
  <2>1. H \in SUBSET (1 .. Len(text))
    BY TextFacts DEF ReadFrom, Text!Hits
  <2>2. Len(text) \in Nat
    BY TextIsSeq DEF ReadFrom
  <2> HIDE DEF H
  <2>3. QED
    BY <1>4, <2>1, <2>2, LastOf
<1>6. PICK j : j = Text!Max(H)
  OBVIOUS
<1>7. j \in Text!Moves(text) /\ text[j].from = s /\ text[j].symbol = dfa.sigma[a]
  BY <1>5, <1>6, HitsMean
<1>8. text[j].to = Delta(s, a)
  <2> HIDE DEF H
  <2> QED
    BY <1>3, <1>4, <1>6
<1>9. QED
  BY <1>7, <1>8

(* The start is the source of the first transition.                        *)
LEMMA StartOfText ==
  ASSUME NEW text, NEW o, ReadFrom(text, o)
  PROVE  \E i \in Text!Moves(text) : dfa.start = text[i].from /\ \A j \in Text!Moves(text) : i <= j
<1>1. Text!Moves(text) \in SUBSET Nat /\ Text!Moves(text) # {}
  <2>1. /\ Text!Moves(text) \in SUBSET (1 .. Len(text)) /\ Len(text) \in Nat
        /\ Text!Moves(text) # {}
    BY TextFacts, TextIsSeq DEF ReadFrom
  <2>2. QED
    BY <2>1
<1>2. /\ Text!Min(Text!Moves(text)) \in Text!Moves(text)
      /\ \A j \in Text!Moves(text) : Text!Min(Text!Moves(text)) <= j
  BY <1>1, FirstOf
<1>3. QED
  BY <1>2 DEF ReadFrom

SigmaOf(w) == [i \in 1 .. Len(w) |-> dfa.sigma[w[i]]]

(* A word the automaton accepts is one of the text: its path ends in a     *)
(* state of the text, and only transitions of the text lead to these.      *)
LEMMA WrittenAccepted ==
  ASSUME NEW text, NEW o, ReadFrom(text, o), NEW l \in Nat, NEW w \in AcceptedFrom(dfa.start, l)
  PROVE  SigmaOf(w) \in [1 .. l -> Bytes] /\ Accepts(text, SigmaOf(w))
<1> DEFINE u == SigmaOf(w)
<1>1. IsDfa(dfa) /\ dfa.start \in States(dfa)
  BY DEF ReadFrom, IsDfa
<1>2. w \in Strings(l) /\ Run(dfa.start, w) \in FinalStates(dfa)
  BY DEF AcceptedFrom
<1>3. Leads(dfa.start, w, l, Run(dfa.start, w))
  BY <1>1, <1>2, RunLeads
<1>4. PICK p : IsPath(p, dfa.start, w, l) /\ p[l] = Run(dfa.start, w)
  BY <1>3 DEF Leads
<1>5. Len(w) = l /\ \A k \in 1 .. l : w[k] \in Symbols(dfa)
  BY <1>2 DEF Strings
<1>6. u \in [1 .. l -> Bytes] /\ Len(u) = l /\ \A k \in 1 .. l : u[k] = dfa.sigma[w[k]]
  <2>1. \A a \in Symbols(dfa) : dfa.sigma[a] \in Bytes
    BY DEF ReadFrom, Sound, Enumerates, Symbols
  <2>2. u = [k \in 1 .. l |-> dfa.sigma[w[k]]]
    BY <1>5 DEF SigmaOf
  <2> HIDE DEF u
  <2>3. QED
    BY <1>5, <2>1, <2>2
<1>7. /\ p \in [0 .. l -> States(dfa)] /\ p[0] = dfa.start
      /\ \A k \in 1 .. l : p[k] = Delta(p[k - 1], w[k])
  BY <1>4 DEF IsPath, Steps
<1>8. Text!FinalsIn(text) \in SUBSET Text!StatesIn(text) /\ FinalStates(dfa) = Text!FinalsIn(text)
  BY TextFacts DEF ReadFrom
<1>9. ASSUME NEW k \in 1 .. l, p[k] \in Text!StatesIn(text)
      PROVE  \E i \in Text!Moves(text) :
               text[i].from = p[k - 1] /\ text[i].to = p[k] /\ text[i].symbol = u[k]
  <2>1. k - 1 \in 0 .. l /\ p[k - 1] \in States(dfa) /\ w[k] \in Symbols(dfa)
    BY <1>5, <1>7
  <2>2. p[k] = Delta(p[k - 1], w[k]) /\ u[k] = dfa.sigma[w[k]]
    BY <1>6, <1>7
  <2> HIDE DEF u
  <2>3. QED
    BY <1>9, <2>1, <2>2, DeltaInText
<1> HIDE DEF u
<1>10. \A k \in 0 .. l : p[k] \in Text!StatesIn(text)
  <2> DEFINE T == {k \in 0 .. l : p[l - k] \in Text!StatesIn(text)}
  <2>1. 0 \in T
    BY <1>2, <1>4, <1>8
  <2>2. ASSUME NEW k \in 0 .. l - 1, k \in T
        PROVE  k + 1 \in T
    <3>1. l - k \in 1 .. l /\ (l - k) - 1 = l - (k + 1) /\ p[l - k] \in Text!StatesIn(text)
      BY <2>2
    <3>2. p[(l - k) - 1] \in Text!StatesIn(text)
      BY <1>9, <3>1, TextFacts DEF ReadFrom
    <3>3. QED
      BY <3>1, <3>2
  <2>3. \A k \in 0 .. l : k \in T
    <3> HIDE DEF T
    <3> QED
      BY <2>1, <2>2, InductionUpTo
  <2>4. ASSUME NEW k \in 0 .. l
        PROVE  p[k] \in Text!StatesIn(text)
    <3>1. l - k \in 0 .. l /\ l - (l - k) = k
      OBVIOUS
    <3>2. QED
      BY <2>3, <3>1
  <2>5. QED
    BY <2>4
<1>11. p \in [0 .. Len(u) -> Text!StatesIn(text)]
  BY <1>6, <1>7, <1>10
<1>12. \E i \in Text!Moves(text) : p[0] = text[i].from /\ \A j \in Text!Moves(text) : i <= j
  BY <1>7, StartOfText
<1>13. p[Len(u)] \in Text!FinalsIn(text)
  BY <1>2, <1>4, <1>6, <1>8
<1>14. \A k \in 1 .. Len(u) : \E i \in Text!Moves(text) :
         text[i].from = p[k - 1] /\ text[i].to = p[k] /\ text[i].symbol = u[k]
  BY <1>6, <1>9, <1>10
<1>15. Accepts(text, u)
  BY <1>11, <1>12, <1>13, <1>14 DEF Accepts
<1>16. QED
  BY <1>6, <1>15 DEF u

(* A word of the text is accepted: its path is the run over the places     *)
(* that its symbols have.                                                  *)
LEMMA AcceptedWritten ==
  ASSUME NEW text, NEW o, ReadFrom(text, o), NEW l \in Nat, NEW u \in [1 .. l -> Bytes],
         Accepts(text, u)
  PROVE  \E w \in AcceptedFrom(dfa.start, l) : u = SigmaOf(w)
<1>1. Len(u) = l
  OBVIOUS
<1>2. PICK p \in [0 .. l -> Text!StatesIn(text)] :
        /\ \E i \in Text!Moves(text) :
             p[0] = text[i].from /\ \A j \in Text!Moves(text) : i <= j
        /\ p[l] \in Text!FinalsIn(text)
        /\ \A k \in 1 .. l : \E i \in Text!Moves(text) :
             text[i].from = p[k - 1] /\ text[i].to = p[k] /\ text[i].symbol = u[k]
  BY <1>1 DEF Accepts
<1>3. p[0] = dfa.start
  <2>1. PICK i \in Text!Moves(text) :
          p[0] = text[i].from /\ \A j \in Text!Moves(text) : i <= j
    BY <1>2
  <2>2. PICK j \in Text!Moves(text) :
          dfa.start = text[j].from /\ \A k \in Text!Moves(text) : j <= k
    BY StartOfText
  <2>3. i \in Int /\ j \in Int /\ i <= j /\ j <= i
    <3>1. Text!Moves(text) \in SUBSET (1 .. Len(text))
      BY TextFacts DEF ReadFrom
    <3>2. QED
      BY <2>1, <2>2, <3>1
  <2>4. i = j
    BY <2>3
  <2>5. QED
    BY <2>1, <2>2, <2>4
<1> DEFINE S == o.symbols
           w == [k \in 1 .. l |-> Position(S, u[k])]
<1>4. \A k \in 1 .. l : u[k] \in S
  <2>1. \A k \in 1 .. l : u[k] \in Text!SymbolsIn(text)
    BY <1>2, TextFacts DEF ReadFrom
  <2>2. QED
    BY <2>1 DEF ReadFrom
<1>5. ASSUME NEW b \in S
      PROVE  Position(S, b) \in Symbols(dfa) /\ dfa.sigma[Position(S, b)] = b
  <2>1. S \in SUBSET Bytes /\ Enumerates(dfa.sigma, S) /\ Symbols(dfa) = 0 .. Cardinality(S) - 1
    BY DEF ReadFrom, Sound, Symbols
  <2> HIDE DEF S
  <2>2. Position(S, b) \in 0 .. Cardinality(S) - 1
    BY <2>1, BytePositions
  <2>3. PICK j : j = Position(S, b)
    OBVIOUS
  <2>4. dfa.sigma[j] \in S /\ Position(S, dfa.sigma[j]) = j
    BY <2>1, <2>2, <2>3 DEF Enumerates
  <2>5. dfa.sigma[j] = b
    BY <2>1, <2>3, <2>4, BytePositions
  <2>6. QED
    BY <2>1, <2>2, <2>3, <2>5
<1> HIDE DEF S
<1>6. w \in Strings(l) /\ Len(w) = l /\ Reads(w, l)
  BY <1>4, <1>5 DEF Strings, Reads
<1>7. \A k \in 1 .. l : w[k] \in Symbols(dfa) /\ dfa.sigma[w[k]] = u[k]
  BY <1>4, <1>5
<1>8. u = SigmaOf(w)
  <2> HIDE DEF w
  <2>1. SigmaOf(w) = [k \in 1 .. l |-> dfa.sigma[w[k]]]
    BY <1>6 DEF SigmaOf
  <2>2. \A k \in 1 .. l : u[k] = dfa.sigma[w[k]]
    BY <1>7
  <2>3. u = [k \in 1 .. l |-> u[k]]
    OBVIOUS
  <2>4. QED
    BY <2>1, <2>2, <2>3
<1> HIDE DEF w
<1>9. Text!StatesIn(text) \in SUBSET States(dfa)
  <2>1. /\ Text!StatesIn(text) = 0 .. Cardinality(Text!StatesIn(text)) - 1
        /\ Cardinality(Text!StatesIn(text)) \in Nat
    BY TextFacts DEF ReadFrom
  <2>2. Cardinality(Text!StatesIn(text)) < o.size /\ o.size \in Nat /\ States(dfa) = 0 .. o.size - 1
    BY DEF ReadFrom, Sound, States
  <2>3. QED
    BY <2>1, <2>2
<1>10. ASSUME NEW k \in 1 .. l
       PROVE  p[k] = Delta(p[k - 1], w[k])
  <2>1. PICK i \in Text!Moves(text) :
          text[i].from = p[k - 1] /\ text[i].to = p[k] /\ text[i].symbol = u[k]
    BY <1>2
  <2>2. w[k] \in Symbols(dfa) /\ text[i].symbol = dfa.sigma[w[k]]
    BY <1>7, <2>1
  <2>3. Delta(text[i].from, w[k]) = text[i].to
    BY <2>2, DeltaOfText
  <2>4. QED
    BY <2>1, <2>3
<1>11. IsPath(p, dfa.start, w, l)
  BY <1>3, <1>9, <1>10 DEF IsPath, Steps
<1>12. Leads(dfa.start, w, l, p[l])
  BY <1>6, <1>11 DEF Leads
<1>13. p[l] \in FinalStates(dfa) /\ IsDfa(dfa)
  BY <1>2 DEF ReadFrom
<1>14. w \in AcceptedFrom(dfa.start, l)
  BY <1>6, <1>12, <1>13, AcceptedLeads
<1>15. QED
  BY <1>8, <1>14

LEMMA TextIsRead ==
  ASSUME NEW text, NEW o, ReadFrom(text, o), Text!SanityCheck(o), dfa.sane = Text!SanityCheck(o)
  PROVE  TextRead(text)
<1>1. Written \subseteq WordsOf(text)
  <2>1. SUFFICES ASSUME NEW l \in Lens, NEW w \in AcceptedFrom(dfa.start, l)
                 PROVE  SigmaOf(w) \in WordsOf(text)
    BY DEF Written, Language, SigmaOf
  <2>2. l \in Nat
    BY BoundAssumption DEF Lens
  <2>3. SigmaOf(w) \in [1 .. l -> Bytes] /\ Accepts(text, SigmaOf(w))
    BY <2>2, WrittenAccepted
  <2>4. QED
    BY <2>3 DEF WordsOf, Bytes
<1>2. WordsOf(text) \subseteq Written
  <2>1. SUFFICES ASSUME NEW l \in Lens, NEW u \in [1 .. l -> Bytes], Accepts(text, u)
                 PROVE  u \in Written
    BY DEF WordsOf, Bytes
  <2>2. l \in Nat
    BY BoundAssumption DEF Lens
  <2>3. PICK w \in AcceptedFrom(dfa.start, l) : u = SigmaOf(w)
    BY <2>1, <2>2, AcceptedWritten
  <2>4. QED
    BY <2>3 DEF Written, Language, SigmaOf
<1>3. ASSUME NEW a \in Symbols(dfa), NEW b \in Symbols(dfa), a < b
      PROVE  dfa.sigma[a] < dfa.sigma[b]
  <2>1. PICK x, y, S : x = dfa.sigma[a] /\ y = dfa.sigma[b] /\ S = o.symbols
    OBVIOUS
  <2>2. S \in SUBSET Bytes /\ x \in S /\ y \in S
        /\ Position(S, x) = a /\ Position(S, y) = b
    BY <2>1 DEF ReadFrom, Sound, Enumerates, Symbols
  <2>3. x \in Int /\ y \in Int /\ a \in Int /\ b \in Int
    BY <2>2, BoundAssumption DEF Bytes, Symbols, ReadFrom, IsDfa
  <2>4. y < x => Position(S, y) < Position(S, x)
    BY <2>2, BytePositions
  <2>5. ~ y < x /\ x # y
    BY <1>3, <2>2, <2>3, <2>4
  <2>6. QED
    BY <2>1, <2>3, <2>5
<1>4. OneToOne
  <2>1. PICK S : S = o.symbols
    OBVIOUS
  <2>2. /\ S \in SUBSET Bytes /\ Enumerates(dfa.sigma, S) /\ Locates(dfa.reverse, S)
        /\ dfa.symbols = Cardinality(S)
    BY <2>1 DEF ReadFrom, Sound
  <2>3. ASSUME NEW a \in Symbols(dfa)
        PROVE  /\ dfa.sigma[a] \in DOMAIN dfa.reverse /\ dfa.reverse[dfa.sigma[a]] = a
               /\ dfa.symbols = Base => dfa.sigma[a] = a
    <3>1. dfa.sigma[a] \in S /\ Position(S, dfa.sigma[a]) = a
      BY <2>2 DEF Enumerates, Symbols
    <3>2. dfa.symbols = Base => dfa.sigma[a] = a
      BY <2>2, <3>1, AllBytes
    <3>3. QED
      BY <2>2, <3>1, <3>2 DEF Locates
  <2>4. QED
    BY <2>3 DEF OneToOne
<1>5. QED
  BY <1>1, <1>2, <1>3, <1>4 DEF TextRead
-----------------------------------------------------------------------------
LEMMA ObjectFields ==
  ASSUME NEW x, NEW y, NEW b, NEW t, NEW u, NEW d,
         d = [states |-> x.states, symbols |-> x.symbols, start |-> x.start,
              finals |-> x.finals, delta |-> x.delta, sigma |-> y.sigma,
              reverse |-> y.reverse, sane |-> b, texts |-> t, sorted |-> u]
  PROVE  /\ d.states = x.states /\ d.symbols = x.symbols
         /\ d.start = x.start /\ d.finals = x.finals /\ d.delta = x.delta
         /\ d.sigma = y.sigma /\ d.reverse = y.reverse /\ d.sane = b
OBVIOUS

(* The automaton of one text, and of a text after another.                 *)
LEMMA ObjectOf ==
  ASSUME dfa \in Dfas, NEW first, first = Text!SetLanguage(Text!NewObject, dfa.texts[1]),
         NEW old, old = IF dfa.sorted THEN Text!Sorted(first.object) ELSE first.object,
         NEW last, last = IF Len(dfa.texts) = 1 THEN first ELSE Text!SetLanguage(old, dfa.texts[2])
  PROVE  /\ IsDfa(dfa)
         /\ \A i \in 1 .. Len(dfa.texts) : IsText(dfa.texts[i])
         /\ dfa.states = last.dfa.states /\ dfa.symbols = last.dfa.symbols
         /\ dfa.start = last.dfa.start /\ dfa.finals = last.dfa.finals
         /\ dfa.delta = last.dfa.delta
         /\ dfa.sigma = last.object.sigma /\ dfa.reverse = last.object.reverse
         /\ dfa.sane = Text!SanityCheck(last.object)
<1>1. PICK d : d = dfa
  OBVIOUS
<1>2. d = Object(d.texts, d.sorted)
  BY <1>1, TextAssumption
<1>3. Object(d.texts, d.sorted) =
        [states |-> last.dfa.states, symbols |-> last.dfa.symbols, start |-> last.dfa.start,
         finals |-> last.dfa.finals, delta |-> last.dfa.delta, sigma |-> last.object.sigma,
         reverse |-> last.object.reverse, sane |-> Text!SanityCheck(last.object),
         texts |-> d.texts, sorted |-> d.sorted]
  BY <1>1 DEF Object
<1>4. IsDfa(dfa) /\ \A i \in 1 .. Len(dfa.texts) : IsText(dfa.texts[i])
  BY DfaAssumption, TextAssumption
<1>5. /\ d.states = last.dfa.states /\ d.symbols = last.dfa.symbols
      /\ d.start = last.dfa.start /\ d.finals = last.dfa.finals /\ d.delta = last.dfa.delta
      /\ d.sigma = last.object.sigma /\ d.reverse = last.object.reverse
      /\ d.sane = Text!SanityCheck(last.object)
  <2>1. d = [states |-> last.dfa.states, symbols |-> last.dfa.symbols,
             start |-> last.dfa.start, finals |-> last.dfa.finals,
             delta |-> last.dfa.delta, sigma |-> last.object.sigma,
             reverse |-> last.object.reverse, sane |-> Text!SanityCheck(last.object),
             texts |-> d.texts, sorted |-> d.sorted]
    BY <1>2, <1>3, Zenon
  <2>2. QED
    BY <2>1, ObjectFields
<1>6. IsDfa(d) /\ \A i \in 1 .. Len(d.texts) : IsText(d.texts[i])
  BY <1>1, <1>4
<1>7. QED
  BY <1>1, <1>5, <1>6

(* A harmless object reads a text as a new one does.                       *)
LEMMA HarmlessReads ==
  ASSUME IsDfa(dfa), NEW text, IsText(text), Proper(text), NEW o, Sound(o), Harmless(o, text),
         NEW r, r = Text!SetLanguage(o, text),
         dfa.states = r.dfa.states, dfa.symbols = r.dfa.symbols, dfa.start = r.dfa.start,
         dfa.finals = r.dfa.finals, dfa.delta = r.dfa.delta, dfa.sigma = r.object.sigma,
         dfa.reverse = r.object.reverse, dfa.sane = Text!SanityCheck(r.object)
  PROVE  TextRead(text)
<1>1. PICK f : f = r.object
  OBVIOUS
<1>2. /\ Sound(f)
      /\ f.symbols = o.symbols \cup Text!SymbolsIn(text)
      /\ Range(f.finals) = Text!FinalsIn(text)
      /\ Cardinality(Text!StatesIn(text)) < f.size
      /\ Text!SanityCheck(f)
      /\ r.dfa.states = f.size
      /\ r.dfa.symbols = Cardinality(f.symbols)
      /\ r.dfa.start = text[Text!Min(Text!Moves(text))].from
      /\ r.dfa.finals = f.finals
      /\ r.dfa.delta = Text!TransitionTable(f, text)
  BY <1>1, TextBuilds
<1>3. Text!SymbolsIn(text) \in SUBSET f.symbols
  BY <1>2
<1>4. ReadFrom(text, f)
  BY <1>1, <1>2, <1>3 DEF ReadFrom, FinalStates
<1>5. dfa.sane = Text!SanityCheck(f)
  BY <1>1
<1>6. QED
  BY <1>2, <1>4, <1>5, TextIsRead

(* A new object has the language of its text, for every deterministic text *)
(* of regex2dfa's form (dfa_ranker.cc:46-123).                             *)
THEOREM LanguageOfTextHolds == Spec => []LanguageOfText
<1>1. dfa \in Dfas => LanguageOfText
  <2>1. SUFFICES ASSUME dfa \in Dfas, Len(dfa.texts) = 1, Proper(dfa.texts[1])
                 PROVE  TextRead(dfa.texts[1])
    BY DEF LanguageOfText
  <2>2. PICK text, o, r : /\ text = dfa.texts[1] /\ o = Text!NewObject
                          /\ r = Text!SetLanguage(o, text)
    OBVIOUS
  <2>3. /\ IsDfa(dfa) /\ \A i \in 1 .. Len(dfa.texts) : IsText(dfa.texts[i])
        /\ dfa.states = r.dfa.states /\ dfa.symbols = r.dfa.symbols
        /\ dfa.start = r.dfa.start /\ dfa.finals = r.dfa.finals /\ dfa.delta = r.dfa.delta
        /\ dfa.sigma = r.object.sigma /\ dfa.reverse = r.object.reverse
        /\ dfa.sane = Text!SanityCheck(r.object)
    BY <2>1, <2>2, ObjectOf
  <2>4. IsText(text) /\ Proper(text)
    <3>1. 1 \in 1 .. Len(dfa.texts)
      BY <2>1
    <3>2. QED
      BY <2>1, <2>2, <2>3, <3>1
  <2>5. Sound(o) /\ Harmless(o, text)
    BY <2>2, NewObjectSound DEF Harmless
  <2>6. TextRead(text)
    BY <2>2, <2>3, <2>4, <2>5, HarmlessReads
  <2>7. QED
    BY <2>2, <2>6
<1>2. BuildInv => dfa \in Dfas
  BY DEF BuildInv, BuildType
<1>3. QED
  BY <1>1, <1>2, TablesBuilt, PTL

(* So has an object that read another text before, when the other text's   *)
(* final states and symbols do no harm.                                    *)
THEOREM LanguageReplacedHolds == Spec => []LanguageReplaced
<1>1. dfa \in Dfas => LanguageReplaced
  <2>1. SUFFICES ASSUME dfa \in Dfas, Len(dfa.texts) = 2, NEW old, NEW new,
                        old = dfa.texts[1], new = dfa.texts[2],
                        Proper(old), Proper(new),
                        Text!FinalsIn(old) \subseteq Text!FinalsIn(new),
                        \A a \in Text!SymbolsIn(new) \ Text!SymbolsIn(old),
                           b \in Text!SymbolsIn(old) : a > b
                 PROVE  TextRead(new)
    BY DEF LanguageReplaced
  <2>2. PICK e, r, o : /\ e = Text!NewObject /\ r = Text!SetLanguage(e, old)
                       /\ o = IF dfa.sorted THEN Text!Sorted(r.object) ELSE r.object
    OBVIOUS
  <2>3. PICK t : t = Text!SetLanguage(o, new)
    OBVIOUS
  <2>4. /\ IsDfa(dfa) /\ \A i \in 1 .. Len(dfa.texts) : IsText(dfa.texts[i])
        /\ dfa.states = t.dfa.states /\ dfa.symbols = t.dfa.symbols
        /\ dfa.start = t.dfa.start /\ dfa.finals = t.dfa.finals /\ dfa.delta = t.dfa.delta
        /\ dfa.sigma = t.object.sigma /\ dfa.reverse = t.object.reverse
        /\ dfa.sane = Text!SanityCheck(t.object)
    BY <2>1, <2>2, <2>3, ObjectOf
  <2>5. IsText(old) /\ IsText(new)
    <3>1. 1 \in 1 .. Len(dfa.texts) /\ 2 \in 1 .. Len(dfa.texts)
      BY <2>1
    <3>2. QED
      BY <2>1, <2>4, <3>1
  <2>6. Sound(e) /\ Harmless(e, old) /\ e.symbols = {}
    BY <2>2, NewObjectSound DEF Harmless
  <2>7. /\ Sound(o) /\ o.symbols = e.symbols \cup Text!SymbolsIn(old)
        /\ Range(o.finals) = Text!FinalsIn(old)
    <3>1. PICK f : f = r.object
      OBVIOUS
    <3>2. Proper(old)
      BY <2>1
    <3>3. r = Text!SetLanguage(e, old)
      BY <2>2
    <3>4. /\ Sound(f) /\ f.symbols = e.symbols \cup Text!SymbolsIn(old)
          /\ Range(f.finals) = Text!FinalsIn(old)
      BY <2>5, <2>6, <3>1, <3>2, <3>3, TextBuilds
    <3>5. CASE dfa.sorted
      BY <2>2, <3>1, <3>4, <3>5, SortedSound
    <3>6. CASE ~dfa.sorted
      BY <2>2, <3>1, <3>4, <3>6
    <3>7. QED
      BY <3>5, <3>6
  <2>8. Harmless(o, new)
    <3>1. o.symbols = Text!SymbolsIn(old)
      BY <2>6, <2>7
    <3>2. QED
      BY <2>1, <2>7, <3>1 DEF Harmless
  <2>9. QED
    BY <2>1, <2>3, <2>4, <2>5, <2>7, <2>8, HarmlessReads
<1>2. BuildInv => dfa \in Dfas
  BY DEF BuildInv, BuildType
<1>3. QED
  BY <1>1, <1>2, TablesBuilt, PTL
-----------------------------------------------------------------------------
(* What such an object builds is an automaton.                             *)
LEMMA HarmlessBuilds ==
  ASSUME NEW text, IsText(text), Proper(text), NEW o, Sound(o), Harmless(o, text),
         NEW r, r = Text!SetLanguage(o, text), NEW d,
         d.states = r.dfa.states, d.symbols = r.dfa.symbols, d.start = r.dfa.start,
         d.finals = r.dfa.finals, d.delta = r.dfa.delta, d.sigma = r.object.sigma,
         d.reverse = r.object.reverse
  PROVE  IsDfa(d)
<1>1. PICK f : f = r.object
  OBVIOUS
<1>2. /\ Sound(f)
      /\ f.symbols = o.symbols \cup Text!SymbolsIn(text)
      /\ Range(f.finals) = Text!FinalsIn(text)
      /\ Cardinality(Text!StatesIn(text)) < f.size
      /\ Text!SanityCheck(f)
      /\ r.dfa.states = f.size
      /\ r.dfa.symbols = Cardinality(f.symbols)
      /\ r.dfa.start = text[Text!Min(Text!Moves(text))].from
      /\ r.dfa.finals = f.finals
      /\ r.dfa.delta = Text!TransitionTable(f, text)
  BY <1>1, TextBuilds
<1>3. /\ Cardinality(Text!StatesIn(text)) \in Nat \ {0}
      /\ Text!StatesIn(text) = 0 .. Cardinality(Text!StatesIn(text)) - 1
      /\ Text!FinalsIn(text) \in SUBSET Text!StatesIn(text)
      /\ Text!SymbolsIn(text) # {}
      /\ Text!Moves(text) \in SUBSET (1 .. Len(text)) /\ Text!Moves(text) # {}
      /\ \A i \in Text!Moves(text) :
           text[i].from \in Text!StatesIn(text) /\ text[i].to \in Text!StatesIn(text)
  BY TextFacts
<1>4. d.states = f.size /\ f.size \in Nat \ {0} /\ States(d) = 0 .. f.size - 1
      /\ Text!StatesIn(text) \in SUBSET States(d)
  <2>1. f.size \in Nat
    BY <1>2 DEF Sound
  <2>2. d.states = f.size
    BY <1>2
  <2>3. QED
    BY <1>2, <1>3, <2>1, <2>2 DEF States
<1>5. Len(text) \in Nat
  BY TextIsSeq
<1>6. d.start \in States(d)
  <2>1. Text!Moves(text) \in SUBSET Nat
    BY <1>3, <1>5
  <2>2. Text!Min(Text!Moves(text)) \in Text!Moves(text)
    BY <1>3, <2>1, FirstOf
  <2>3. d.start = text[Text!Min(Text!Moves(text))].from
    BY <1>2
  <2>4. QED
    BY <1>3, <1>4, <2>2, <2>3
<1>7. d.finals \in Seq(States(d)) /\ Distinct(d.finals)
  <2>1. PICK v : v = d.finals
    OBVIOUS
  <2>2. v \in Seq(Nat) /\ Distinct(v) /\ Range(v) \in SUBSET States(d)
    BY <1>2, <1>3, <1>4, <2>1 DEF Sound
  <2>3. v = [i \in 1 .. Len(v) |-> v[i]] /\ Len(v) \in Nat
    BY <2>2
  <2>4. \A i \in 1 .. Len(v) : v[i] \in States(d)
    BY <2>2 DEF Range
  <2>5. v \in Seq(States(d))
    <3> DEFINE Q == States(d)
    <3> HIDE DEF Q
    <3>1. QED
      BY <2>3, <2>4 DEF Q
  <2>6. QED
    BY <2>1, <2>2, <2>5
<1>8. d.symbols \in 1 .. Base
  <2>1. PICK S : S = f.symbols
    OBVIOUS
  <2>2. S \in SUBSET Bytes /\ S # {}
    BY <1>2, <1>3, <2>1 DEF Sound
  <2>3. IsFiniteSet(S) /\ Cardinality(S) \in Nat
    BY <2>2, BytesFinite
  <2>4. Cardinality(S) # 0
    BY <2>2, <2>3, FS_EmptySet
  <2>5. IsFiniteSet(Bytes) /\ Cardinality(Bytes) = Base
    <3>1. 0 \in Int /\ Base - 1 \in Int
      BY BoundAssumption
    <3>2. IsFiniteSet(0 .. Base - 1)
          /\ Cardinality(0 .. Base - 1) = IF 0 > Base - 1 THEN 0 ELSE (Base - 1) - 0 + 1
      BY <3>1, FS_Interval, Zenon
    <3>3. QED
      BY <3>2, BoundAssumption DEF Bytes
  <2>6. Cardinality(S) <= Cardinality(Bytes)
    BY <2>2, <2>5, FS_Subset, Zenon
  <2>7. d.symbols = Cardinality(S)
    BY <1>2, <2>1
  <2>8. QED
    BY <2>3, <2>4, <2>5, <2>6, <2>7, BoundAssumption
<1>9. d.delta \in [States(d) -> [Symbols(d) -> States(d)]]
  <2>1. Symbols(d) = 0 .. Text!Cardinality(f.symbols) - 1
    <3>1. Text!Cardinality(f.symbols) = Cardinality(f.symbols)
      BY SameCardinality
    <3>2. d.symbols = Cardinality(f.symbols)
      BY <1>2
    <3>3. QED
      BY <3>1, <3>2 DEF Symbols
  <2> DEFINE Target(s, a) == LET hits == Text!Hits(f, text, s, a)
                            IN  IF hits = {} THEN f.size - 1 ELSE text[Text!Max(hits)].to
  <2>2. ASSUME NEW s, NEW a
        PROVE  Target(s, a) \in States(d)
    <3> DEFINE H == Text!Hits(f, text, s, a)
    <3>1. H \in SUBSET Text!Moves(text)
      BY DEF Text!Hits
    <3>2. CASE H = {}
      BY <1>4, <3>2
    <3>3. CASE H # {}
      <4> HIDE DEF H
      <4>1. Text!Max(H) \in H
        BY <1>3, <1>5, <3>1, <3>3, LastOf
      <4>2. text[Text!Max(H)].to \in States(d)
        BY <1>3, <1>4, <3>1, <4>1
      <4>3. QED
        BY <3>3, <4>2 DEF H
    <3>4. QED
      BY <3>2, <3>3
  <2>3. d.delta = [s \in States(d) |-> [a \in Symbols(d) |-> Target(s, a)]]
    <3>1. d.delta = Text!TransitionTable(f, text)
      BY <1>2
    <3>2. QED
      BY <1>4, <2>1, <3>1 DEF Text!TransitionTable
  <2> HIDE DEF Target
  <2>4. QED
    BY <2>2, <2>3
<1>10. /\ \A a \in Symbols(d) : a \in DOMAIN d.sigma /\ d.sigma[a] \in 0 .. Base - 1
       /\ \A x \in DOMAIN d.reverse : d.reverse[x] \in Symbols(d)
  <2>1. PICK S : S = f.symbols
    OBVIOUS
  <2>2. /\ S \in SUBSET Bytes /\ Enumerates(d.sigma, S) /\ Locates(d.reverse, S)
        /\ Symbols(d) = 0 .. Cardinality(S) - 1
    BY <1>1, <1>2, <2>1 DEF Sound, Symbols
  <2>3. \A a \in S : Position(S, a) \in 0 .. Cardinality(S) - 1
    BY <2>2, BytePositions
  <2>4. QED
    BY <2>2, <2>3 DEF Enumerates, Locates, Bytes
<1>11. QED
  BY <1>4, <1>6, <1>7, <1>8, <1>9, <1>10 DEF IsDfa, Distinct

(* A deterministic text of regex2dfa's form makes a new object a total     *)
(* automaton, as DfaRanker assumes: up to the counting, SetLanguage neither *)
(* returns false nor throws (dfa_ranker.cc:46-142).                        *)
THEOREM ProperTextsBuild ==
  \A text, b : IsText(text) /\ Proper(text) =>
    /\ IsDfa(Object(<<text>>, b))
    /\ Text!SetLanguage(Text!NewObject, text).outcome = "built"
<1>1. SUFFICES ASSUME NEW text, NEW b, IsText(text), Proper(text)
               PROVE  /\ IsDfa(Object(<<text>>, b))
                      /\ Text!SetLanguage(Text!NewObject, text).outcome = "built"
  OBVIOUS
<1>2. PICK o, r, d : /\ o = Text!NewObject /\ r = Text!SetLanguage(o, text)
                     /\ d = Object(<<text>>, b)
  OBVIOUS
<1>3. Sound(o) /\ Harmless(o, text)
  BY <1>2, NewObjectSound DEF Harmless
<1>4. /\ d.states = r.dfa.states /\ d.symbols = r.dfa.symbols /\ d.start = r.dfa.start
      /\ d.finals = r.dfa.finals /\ d.delta = r.dfa.delta
      /\ d.sigma = r.object.sigma /\ d.reverse = r.object.reverse
  <2>1. Len(<<text>>) = 1 /\ <<text>>[1] = text
    OBVIOUS
  <2>2. d = [states |-> r.dfa.states, symbols |-> r.dfa.symbols, start |-> r.dfa.start,
             finals |-> r.dfa.finals, delta |-> r.dfa.delta, sigma |-> r.object.sigma,
             reverse |-> r.object.reverse, sane |-> Text!SanityCheck(r.object),
             texts |-> <<text>>, sorted |-> b]
    BY <1>2, <2>1 DEF Object
  <2>3. QED
    BY <2>2
<1>5. IsDfa(d)
  BY <1>1, <1>2, <1>3, <1>4, HarmlessBuilds
<1>6. r.outcome = "built"
  BY <1>1, <1>2, <1>3, TextBuilds
<1>7. QED
  BY <1>2, <1>5, <1>6
=============================================================================
