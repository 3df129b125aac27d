---------------------------- MODULE RabbitCryptor ----------------------------
(***************************************************************************)
(* One RabbitCryptor object, the stream cipher of rabbit_impl.cc, and a    *)
(* caller that obeys the protocol of rabbit_impl.h:65-101: keysetup, then  *)
(* for each message ivsetup, any number of *_blocks calls, and at most one *)
(* *_bytes call at the end.                                                *)
(*                                                                         *)
(* One step of the model is one pass through the loop of process_bytes,    *)
(* process_blocks or keystream_bytes: the system moves to its next state   *)
(* and gives 16 bytes of keystream.  The words are scaled down with the    *)
(* byte: a word always has four of them.  The tables of the cipher are     *)
(* computed as in the code, so that the carry between the counters and     *)
(* the stale parts of a context are what they are there.                   *)
(***************************************************************************)
EXTENDS Integers, Sequences

CONSTANTS
  B,        \* the number of byte values: 256 in the code
  Xor,      \* Xor[a][b], the exclusive or of two bytes
  Add,      \* the constants added to the eight counters
  Keys,     \* keys, as four words
  Ivs,      \* initial vectors, as two words
  Stream,   \* Stream[k][v][t]: the working context t steps after keysetup(k) and ivsetup(v)
  MaxBytes, \* the length of the longest message
  Plain,    \* the message the caller encrypts: its first bytes
  Lengths,  \* the bytes the caller hands to one call
  Garbage,  \* what the contexts of a new object may hold
  NoKey     \* the absence of a key, of a message

Byte == 0 .. B - 1

ASSUME ByteAssumption == B \in Nat \ {0, 1}

ASSUME XorAssumption ==
  /\ Xor \in [Byte -> [Byte -> Byte]]
  /\ \A a, b \in Byte : Xor[Xor[a][b]][b] = a

ASSUME CallerAssumption ==
  /\ NoKey \notin Keys \cup Ivs
  /\ Plain \in Seq(Byte) /\ MaxBytes \in Nat /\ Len(Plain) <= MaxBytes
  /\ Lengths \subseteq Nat

BLOCKLENGTH == 16

Words == B * B * B * B   \* the number of values of a uint32_t
Half  == B * B           \* 2^16

Shl(w)    == (w % Half) * Half      \* U32V(w << 16)
Shr(w)    == w \div Half            \* w >> 16
High(w)   == (w \div Half) * Half  \* w & 0xFFFF0000
Low(w)    == w % Half               \* w & 0xFFFF
Rotl16(w) == Shl(w) + Shr(w)
Rotl8(w)  == (w % (B * Half)) * B + w \div (B * Half)

Place == <<1, B, B * B, B * B * B>>

Digit(w, i) == (w \div Place[i + 1]) % B   \* the ith byte of w in memory

XorWord(v, w) ==
  LET d(i) == Xor[Digit(v, i)][Digit(w, i)] * Place[i + 1]
  IN  d(0) + d(1) + d(2) + d(3)

(* RABBIT_g_func: the square of x, its upper word xor its lower one.  The  *)
(* upper word is put together from the halves of x.                        *)
G(x) ==
  LET a == x % Half
      b == x \div Half
      h == ((a * a) \div (2 * Half) + a * b) \div (Half \div 2) + b * b
  IN  XorWord(h, (x * x) % Words)

(* Mutation: the words are compared as signed integers.                    *)
CarryOfSigned(new, old) ==
  IF (new + Words \div 2) % Words < (old + Words \div 2) % Words THEN 1 ELSE 0

(* c[j] < c_old[j]: the addition has wrapped round.                        *)
Carry(new, old) == IF new < old THEN 1 ELSE 0

(* The eight words of a context are the sequence of words 0 to 7.          *)
Eight(f) == <<f[0], f[1], f[2], f[3], f[4], f[5], f[6], f[7]>>

Word(words, j) == words[(j % 8) + 1]

(* RABBIT_ctx                                                              *)
Context ==
  [x : [1 .. 8 -> 0 .. Words - 1], c : [1 .. 8 -> 0 .. Words - 1], carry : 0 .. Words - 1]

(* No constant is so large that the addition of a carry makes it 2^32.     *)
ASSUME ContextAssumption ==
  /\ Keys \subseteq [1 .. 4 -> 0 .. Words - 1]
  /\ Ivs \subseteq [1 .. 2 -> 0 .. Words - 1]
  /\ Add \in [1 .. 8 -> 0 .. Words - 2]
  /\ Garbage \subseteq Context

(* The new counters, each with the carry of the one before it.             *)
Counters(s) ==
  LET Sum(j, carry) == (Word(s.c, j) + Word(Add, j) + carry) % Words
      After(i, j, new) == Sum(j, Carry(new, Word(s.c, i)))
      c0 == Sum(0, s.carry)
      c1 == After(0, 1, c0)
      c2 == After(1, 2, c1)
      c3 == After(2, 3, c2)
      c4 == After(3, 4, c3)
      c5 == After(4, 5, c4)
      c6 == After(5, 6, c5)
      c7 == After(6, 7, c6)
  IN  <<c0, c1, c2, c3, c4, c5, c6, c7>>

(* The new words x: what the squares g give, rotated and added.            *)
Mixed(g) ==
  LET Sum(j) == IF j % 2 = 0
                  THEN Word(g, j) + Rotl16(Word(g, j + 7)) + Rotl16(Word(g, j + 6))
                  ELSE Word(g, j) + Rotl8(Word(g, j + 7)) + Word(g, j + 6)
  IN  Eight([j \in 0 .. 7 |-> Sum(j) % Words])

(* The step of s with the new counters c.                                  *)
Advanced(s, c) ==
  [x     |-> Mixed(Eight([j \in 0 .. 7 |-> G((Word(s.x, j) + Word(c, j)) % Words)])),
   c     |-> c,
   carry |-> Carry(Word(c, 7), Word(s.c, 7))]

(* RABBIT_next_state                                                       *)
NextState(s) == Advanced(s, Counters(s))

Iterated(s) == NextState(NextState(NextState(NextState(s))))

(* The counters xor the words x.                                           *)
Hidden(s) == [s EXCEPT !.c = Eight([j \in 0 .. 7 |-> XorWord(Word(s.c, j), Word(s.x, j + 4))])]

(* keysetup up to the copy: what becomes the master context.               *)
Master(k) ==
  LET K(i) == k[(i % 4) + 1]
      X(j) == LET i == j \div 2 IN
              IF j % 2 = 0 THEN K(i) ELSE Shl(K(i + 3)) + Shr(K(i + 2))
      C(j) == LET i == j \div 2 IN
              IF j % 2 = 0 THEN Rotl16(K(i + 2)) ELSE High(K(i)) + Low(K(i + 1))
  IN  Hidden(Iterated([x |-> Eight([j \in 0 .. 7 |-> X(j)]),
                       c |-> Eight([j \in 0 .. 7 |-> C(j)]), carry |-> 0]))

(* The counters of the master context m xor the parts of the vector v.     *)
WithIv(m, v) ==
  LET part == <<v[1], Shr(v[1]) + High(v[2]), v[2], Shl(v[2]) + Low(v[1])>>
  IN  Eight([j \in 0 .. 7 |-> XorWord(Word(m.c, j), part[(j % 4) + 1])])

(* Mutation: the carry of the last message is kept.                        *)
AfterIvKeepsCarry(m, w, v) == Iterated([x |-> m.x, c |-> WithIv(m, v), carry |-> w.carry])

(* ivsetup: what becomes of the working context w.                         *)
AfterIv(m, w, v) == Iterated([x |-> m.x, c |-> WithIv(m, v), carry |-> m.carry])

(* The 16 bytes of keystream that the context s gives.                     *)
Block(s) ==
  LET Out(i) == XorWord(XorWord(Word(s.x, 2 * i), Shr(Word(s.x, 2 * i + 5))),
                        Shl(Word(s.x, 2 * i + 3)))
      word == <<Out(0), Out(1), Out(2), Out(3)>>
  IN  [p \in 1 .. BLOCKLENGTH |-> Digit(word[((p - 1) \div 4) + 1], (p - 1) % 4)]

(* The working contexts of a message, by their recurrence: no record of    *)
(* earlier messages, calls or lengths is in them.                          *)
ASSUME StreamAssumption ==
  \A k \in Keys, v \in Ivs :
    /\ Stream[k][v][0] = AfterIv(Master(k), Master(k), v)
    /\ \A t \in 0 .. MaxBytes \div BLOCKLENGTH :
         Stream[k][v][t + 1] = NextState(Stream[k][v][t])
-----------------------------------------------------------------------------
VARIABLES
  master, work,  \* _master_ctx and _work_ctx
  pc,            \* "idle", or the loop that is running
  left,          \* msglen, length, or 16 * (blocks - i): what the call has left
  source,        \* the message that input points into
  output,        \* the bytes written since ivsetup
  key, iv,       \* history: the arguments of the last keysetup and ivsetup
  mode,          \* history: what the caller does with the message
  open,          \* history: the protocol still allows calls for the message
  made           \* history: the last message encrypted, as [key, iv, cipher]

cryptor == <<master, work, pc, left, source, output, key, iv, mode, open, made>>

NoMessage == [key |-> NoKey, iv |-> NoKey, cipher |-> << >>]

(* The contexts of a new object are not initialised.                       *)
Init ==
  /\ master \in Garbage /\ work \in Garbage
  /\ pc = "idle" /\ left = 0
  /\ source = << >> /\ output = << >>
  /\ key = NoKey /\ iv = NoKey
  /\ mode = "none" /\ open = FALSE
  /\ made = NoMessage

keysetup(k) ==
  /\ pc = "idle"
  /\ master' = Master(k)
  /\ work' = Master(k)
  /\ key' = k
  /\ mode' = "none" /\ open' = FALSE
  /\ source' = << >> /\ output' = << >>
  /\ UNCHANGED <<pc, left, iv, made>>

(* ivsetup, at the start of a message that is to be used as m says.        *)
ivsetup(v, m, bytes) ==
  /\ pc = "idle"
  /\ work' = AfterIv(master, work, v)
  /\ iv' = v
  /\ mode' = m
  /\ source' = bytes /\ output' = << >>
  /\ open' = TRUE
  /\ UNCHANGED <<master, pc, left, key>>

(* A call of process_bytes, process_blocks or keystream_bytes.             *)
Start(function, bytes) ==
  /\ pc = "idle"
  /\ open
  /\ pc' = function
  /\ left' = bytes
  /\ open' = (function = "process_blocks")
  /\ UNCHANGED <<master, work, source, output, key, iv, mode, made>>

process_blocks(blocks) == Start("process_blocks", blocks * BLOCKLENGTH)
process_bytes(msglen)  == Start("process_bytes", msglen)
keystream_bytes(bytes) == Start("keystream_bytes", bytes)

(* The next state of the system gives the next few bytes.                  *)
Emit(bytes) ==
  /\ work' = NextState(work)
  /\ left' = left - bytes
  /\ LET block == Block(work')
     IN  output' = output \o
           [p \in 1 .. bytes |-> IF pc = "keystream_bytes" THEN block[p]
                                 ELSE Xor[source[Len(output) + p]][block[p]]]
  /\ made' = IF mode = "encrypt" THEN [made EXCEPT !.cipher = output'] ELSE made
  /\ UNCHANGED <<master, pc, source, key, iv, mode, open>>

FullBlock ==
  /\ pc # "idle"
  /\ left >= BLOCKLENGTH
  /\ Emit(BLOCKLENGTH)

(* Mutation: the rest is enciphered with the block that is there.          *)
RemainderOfBlock ==
  /\ pc # "idle"
  /\ left \in 1 .. BLOCKLENGTH - 1
  /\ left' = 0
  /\ output' = output \o [p \in 1 .. left |-> Xor[source[Len(output) + p]][Block(work)[p]]]
  /\ made' = IF mode = "encrypt" THEN [made EXCEPT !.cipher = output'] ELSE made
  /\ UNCHANGED <<master, work, pc, source, key, iv, mode, open>>

(* Mutation: the rest is enciphered as long as there is any.               *)
RemainderRepeats ==
  /\ pc # "idle"
  /\ left \in 1 .. BLOCKLENGTH - 1
  /\ work' = NextState(work)
  /\ output' = output \o [p \in 1 .. left |-> Xor[source[p]][Block(work')[p]]]
  /\ UNCHANGED <<master, pc, left, source, key, iv, mode, open, made>>

(* The rest of process_bytes and keystream_bytes takes a block of its own, *)
(* of which some bytes are not used.                                       *)
Remainder ==
  /\ pc # "idle"
  /\ left \in 1 .. BLOCKLENGTH - 1
  /\ Emit(left)

Return ==
  /\ pc # "idle"
  /\ left = 0
  /\ pc' = "idle"
  /\ UNCHANGED <<master, work, left, source, output, key, iv, mode, open, made>>

Loop == FullBlock \/ Remainder \/ Return
-----------------------------------------------------------------------------
NewMessage ==
  /\ key # NoKey
  /\ \E v \in Ivs :
       \/ /\ ivsetup(v, "encrypt", Plain)
          /\ made' = [key |-> key, iv |-> v, cipher |-> << >>]
       \/ /\ ivsetup(v, "decrypt", made.cipher)
          /\ UNCHANGED made
       \/ /\ ivsetup(v, "keystream", Plain)
          /\ UNCHANGED made

Fits(bytes) == Len(output) + bytes <= Len(source)

NewCall ==
  \E bytes \in Lengths :
    /\ Fits(bytes)
    /\ \/ mode = "keystream" /\ keystream_bytes(bytes)
       \/ mode \in {"encrypt", "decrypt"} /\ process_bytes(bytes)
       \/ /\ mode \in {"encrypt", "decrypt"}
          /\ bytes % BLOCKLENGTH = 0
          /\ process_blocks(bytes \div BLOCKLENGTH)

Next ==
  \/ Loop
  \/ \E k \in Keys : keysetup(k)
  \/ NewMessage
  \/ NewCall

Spec == Init /\ [][Next]_cryptor
-----------------------------------------------------------------------------
(* Byte p of the keystream of key k and vector v.                          *)
Keystream ==
  [k \in Keys |-> [v \in Ivs |-> [p \in 1 .. MaxBytes |->
     Block(Stream[k][v][(p - 1) \div BLOCKLENGTH + 1])[((p - 1) % BLOCKLENGTH) + 1]]]]

(* Byte p of a message meets byte p of the keystream of its key and vector, *)
(* however the message is cut into calls and whatever was done before       *)
(* (rabbit_impl.h:74-101): no byte of keystream is left out or used twice.  *)
(* keystream_bytes gives the same bytes as an encryption uses.              *)
KeystreamInOrder ==
  key # NoKey => \A p \in 1 .. Len(output) :
    output[p] = IF mode = "keystream" THEN Keystream[key][iv][p]
                ELSE Xor[source[p]][Keystream[key][iv][p]]

(* Decrypting a message with the key and the vector it was encrypted with   *)
(* recovers it, though the two sides cut it into different calls.           *)
MessageRecovered ==
  mode = "decrypt" /\ made.key = key /\ made.iv = iv =>
    \A p \in 1 .. Len(output) : output[p] = Plain[p]

(* Once a key is set up, the eight counters and the carry are one long     *)
(* counter: each step of the system is an exact addition with the carries  *)
(* from word to word, which rabbit_impl.cc:52-67 reads off wrapped sums.   *)
CountersAdd ==
  [][key # NoKey /\ left > 0 /\ left' < left =>
       LET carry(j) == IF j = 8 THEN work'.carry
                       ELSE (Word(work'.c, j) - Word(work.c, j) - Word(Add, j)) % Words
       IN  /\ carry(0) = work.carry
           /\ \A j \in 0 .. 7 :
                Word(work'.c, j) + carry(j + 1) * Words
                  = Word(work.c, j) + Word(Add, j) + carry(j)]_cryptor
=============================================================================
