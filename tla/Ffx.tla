--------------------------------- MODULE Ffx ---------------------------------
(***************************************************************************)
(* One fte::encrypting::Ffx object: the FFX mode of operation, a Feistel   *)
(* network over the two halves of an n-bit integer.                        *)
(*                                                                         *)
(* One step of the model is one round of the loop of Encrypt or Decrypt.   *)
(* The round function, AES-CBC-MAC of the round number and of one half,    *)
(* stands for any function: the model draws its value the first time it is *)
(* asked for an argument and repeats it afterwards, so that TLC explores   *)
(* every function.  The tweak is the null one the library always passes.   *)
(***************************************************************************)
EXTENDS Powers

CONSTANTS
  Lengths,   \* the values callers pass for plaintext_len_in_bits
  Rounds,    \* rounds_, a parameter of the constructor
  Inputs,    \* the integers callers encrypt
  MaxCalls   \* bound: the calls the callers make

ASSUME LengthAssumption == Lengths \subseteq Nat \ {0}
ASSUME RoundAssumption == Rounds \in Nat \ {0}
ASSUME InputAssumption == Inputs \subseteq Nat
ASSUME CallAssumption == MaxCalls \in Nat

VARIABLES
  pc,        \* "idle", or the loop that is running
  keyed,     \* SetKey has succeeded: the AES context is allocated
  drawn,     \* the values of the round function drawn under this key
  n,         \* the length of the integer
  i,         \* the round: a local variable, 0 between calls
  A, B,      \* the two halves, likewise
  in, out,   \* the argument and the result of the call
  op,        \* the function last called
  pair,      \* history: the last Encrypt under this key, as [n, in, out]
  trail,     \* history: the halves before each round of the running Encrypt
  made,      \* history: the same of the Encrypt that made pair
  calls      \* bound: the calls made so far

vars == <<pc, keyed, drawn, n, i, A, B, in, out, op, pair, trail, made, calls>>

NoPair == [n |-> 0, in |-> 0, out |-> 0]

NoTrail == [r \in 0 .. Rounds |-> [A |-> 0, B |-> 0]]

High(len) == len \div 2        \* l, the bits of A
Low(len)  == len - High(len)   \* n - l, the bits of B

(* Mutation: the wide half and the narrow one are taken for each other.     *)
WidthSwapped(len, r) == IF r % 2 = 1 THEN len \div 2 ELSE (len + 1) \div 2

(* m: the width of the half that round r changes.                          *)
Width(len, r) == IF r % 2 = 0 THEN len \div 2 ELSE (len + 1) \div 2

(* BitMask(v, len, 0, l - 1) and BitMask(v, len, l, len - 1).  For len = 1 *)
(* the bound l - 1 wraps, and BitMask yields 0 as it should.               *)
HighBits(v, len) == (v \div Two[Low(len)]) % Two[High(len)]
LowBits(v, len)  == v % Two[Low(len)]

(* Mutation: the halves are joined as if both had the length of A.         *)
JoinAtHigh(a, b, len) == (a * Two[High(len)] + b) % Two[len]

Join(a, b, len) == (a * Two[Low(len)] + b) % Two[len]
-----------------------------------------------------------------------------
Init ==
  /\ pc = "idle"
  /\ keyed = FALSE
  /\ drawn = << >>
  /\ n = 1 /\ i = 0 /\ A = 0 /\ B = 0
  /\ in = 0 /\ out = 0
  /\ op = "none"
  /\ pair = NoPair
  /\ trail = NoTrail /\ made = NoTrail
  /\ calls = 0

(* SetKey with a valid key; with any other it changes nothing.             *)
SetKey ==
  /\ pc = "idle"
  /\ calls < MaxCalls
  /\ keyed' = TRUE
  /\ drawn' = << >>
  /\ pair' = NoPair /\ made' = NoTrail
  /\ op' = "SetKey"
  /\ calls' = calls + 1
  /\ UNCHANGED <<pc, n, i, A, B, in, out, trail>>

Split(function, loop, v, len, round) ==
  /\ pc = "idle"
  /\ calls < MaxCalls
  /\ pc' = loop
  /\ n' = len
  /\ i' = round
  /\ in' = v
  /\ A' = HighBits(v, len)
  /\ B' = LowBits(v, len)
  /\ op' = function
  /\ calls' = calls + 1
  /\ UNCHANGED <<keyed, drawn, out, pair, made>>

CallEncrypt(v, len) ==
  /\ Split("Encrypt", "encrypt", v, len, 0)
  /\ trail' = [trail EXCEPT ![0] = [A |-> HighBits(v, len), B |-> LowBits(v, len)]]

CallDecrypt(v, len) ==
  /\ Split("Decrypt", "decrypt", v, len, Rounds - 1)
  /\ UNCHANGED trail

Values(len, r) == 0 .. Two[Width(len, r)] - 1

(* RoundFunction(n, i, B): some value below 2^m, the same each time.       *)
(* Without a key the MAC fails, D keeps its initial value 0.               *)
RoundFunction(arg, d) ==
  \/ /\ ~keyed
     /\ d = 0
     /\ UNCHANGED drawn
  \/ /\ keyed
     /\ arg \in DOMAIN drawn
     /\ d = drawn[arg]
     /\ UNCHANGED drawn
  \/ /\ keyed
     /\ arg \notin DOMAIN drawn
     /\ drawn' = [a \in DOMAIN drawn \cup {arg} |-> IF a = arg THEN d ELSE drawn[a]]

EncryptRound ==
  /\ pc = "encrypt"
  /\ i <= Rounds - 1
  /\ \E d \in Values(n, i) :
       /\ RoundFunction(<<n, i, B>>, d)
       /\ A' = B
       /\ B' = (A + d) % Two[Width(n, i)]
       /\ trail' = [trail EXCEPT ![i + 1] = [A |-> B, B |-> (A + d) % Two[Width(n, i)]]]
  /\ i' = i + 1
  /\ UNCHANGED <<pc, keyed, n, in, out, op, pair, made, calls>>

EncryptReturn ==
  /\ pc = "encrypt"
  /\ i > Rounds - 1
  /\ pc' = "idle"
  /\ out' = Join(A, B, n)
  /\ i' = 0 /\ A' = 0 /\ B' = 0
  /\ pair' = [n |-> n, in |-> in, out |-> Join(A, B, n)]
  /\ made' = trail /\ trail' = NoTrail
  /\ UNCHANGED <<keyed, drawn, n, in, op, calls>>

(* Mutation: the rounds are undone with the wrong half.                    *)
DecryptRoundSwapped ==
  /\ pc = "decrypt"
  /\ i >= 0
  /\ \E d \in Values(n, i) :
       /\ RoundFunction(<<n, i, B>>, d)
       /\ A' = (B - d) % Two[Width(n, i)]
       /\ B' = A
  /\ i' = i - 1
  /\ UNCHANGED <<pc, keyed, n, in, out, op, pair, trail, made, calls>>

(* Mutation: a negative difference is left as it is.                       *)
DecryptRoundNegative ==
  /\ pc = "decrypt"
  /\ i >= 0
  /\ \E d \in Values(n, i) :
       /\ RoundFunction(<<n, i, A>>, d)
       /\ A' = B - d
       /\ B' = A
  /\ i' = i - 1
  /\ UNCHANGED <<pc, keyed, n, in, out, op, pair, trail, made, calls>>

(* The modulus is added to the difference until it is not negative.        *)
DecryptRound ==
  /\ pc = "decrypt"
  /\ i >= 0
  /\ \E d \in Values(n, i) :
       /\ RoundFunction(<<n, i, A>>, d)
       /\ A' = (B - d) % Two[Width(n, i)]
       /\ B' = A
  /\ i' = i - 1
  /\ UNCHANGED <<pc, keyed, n, in, out, op, pair, trail, made, calls>>

DecryptReturn ==
  /\ pc = "decrypt"
  /\ i < 0
  /\ pc' = "idle"
  /\ out' = Join(A, B, n)
  /\ i' = 0 /\ A' = 0 /\ B' = 0
  /\ UNCHANGED <<keyed, drawn, n, in, op, pair, trail, made, calls>>
-----------------------------------------------------------------------------
Step == EncryptRound \/ EncryptReturn \/ DecryptRound \/ DecryptReturn

(* What callers decrypt: any integer they have, among them the last        *)
(* ciphertext.                                                             *)
Next ==
  \/ Step
  \/ SetKey
  \/ \E len \in Lengths, v \in Inputs : CallEncrypt(v, len) \/ CallDecrypt(v, len)
  \/ pair # NoPair /\ CallDecrypt(pair.out, pair.n)

Spec == Init /\ [][Next]_vars
-----------------------------------------------------------------------------
TypeOK ==
  /\ pc \in {"idle", "encrypt", "decrypt"}
  /\ keyed \in BOOLEAN
  /\ \A arg \in DOMAIN drawn : drawn[arg] \in Values(arg[1], arg[2])
  /\ n \in Lengths \cup {1}
  /\ i \in -1 .. Rounds
  /\ A \in Nat /\ B \in Nat
  /\ in \in Nat /\ out \in Nat
  /\ op \in {"none", "SetKey", "Encrypt", "Decrypt"}
  /\ pair \in [n : Lengths \cup {0}, in : Nat, out : Nat]
  /\ trail \in [0 .. Rounds -> [A : Nat, B : Nat]]
  /\ made \in [0 .. Rounds -> [A : Nat, B : Nat]]
  /\ calls \in 0 .. MaxCalls

(* Before each round the two halves are n bits together: the half the      *)
(* round will overwrite has the width that the round gives back to it, so  *)
(* an even number of rounds returns to halves of l and n - l bits          *)
(* (ffx.cc:145-164, 194-214).                                              *)
HalvesFit ==
  /\ pc = "encrypt" => A < Two[Width(n, i)] /\ B < Two[Width(n, i + 1)]
  /\ pc = "decrypt" => A < Two[Width(n, i + 1)] /\ B < Two[Width(n, i)]

(* Decrypt recovers what Encrypt was given under the same key, whatever    *)
(* the MAC (ffx.h:90-92): of an input longer than n bits, its low n bits.  *)
DecryptInverts ==
  pc = "idle" /\ op = "Decrypt" /\ pair # NoPair /\ in = pair.out /\ n = pair.n =>
    out = pair.in % Two[n]

(* Encrypt preserves the length (ffx.h:77-78) and loses nothing: under one *)
(* key, ciphertexts are equal only for equal inputs of n bits.  The second *)
(* call is compared with the first, which the pair still holds.            *)
EncryptInjective ==
  pc = "encrypt" /\ i > Rounds - 1 /\ pair # NoPair /\ n = pair.n =>
    (Join(A, B, n) = pair.out) <=> (in % Two[n] = pair.in % Two[n])

Interface == INSTANCE Encrypter WITH doing <- pc

(* An Ffx object is an Encrypter: step by step, a call does what the       *)
(* interface promises of its result (encrypter.h:21-30), and the rounds in *)
(* between are not seen.                                                   *)
IsEncrypter == Interface!Spec
=============================================================================
