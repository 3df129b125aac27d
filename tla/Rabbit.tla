-------------------------------- MODULE Rabbit --------------------------------
(***************************************************************************)
(* One fte::encrypting::Rabbit object: an integer of n bits is written as  *)
(* bytes, ciphered as one message of its RabbitCryptor with a vector of    *)
(* zeros, and what comes out is cut to n bits again.                       *)
(*                                                                         *)
(* The cryptor of the model belongs either to such an object, which is all *)
(* that uses it in the library, or to a caller of its own.                 *)
(***************************************************************************)
EXTENDS RabbitCryptor, Powers

CONSTANTS
  ByteBits,    \* the bits of a byte: 8
  BitLengths,  \* values of plaintext_len_in_bits
  Inputs       \* the integers callers encrypt and decrypt

VARIABLES
  owner,    \* "rabbit" or "caller"
  doing,    \* "idle", or the function of Rabbit that is running
  n,        \* plaintext_len_in_bits or ciphertext_len_in_bits
  in, out,  \* the argument and the result
  op,       \* the function last called
  pair      \* history: the last Encrypt under this key, as [n, in, out]

object == <<doing, n, in, out, op, pair>>
vars   == <<cryptor, owner, object>>

(* MpzClassToBase256 and Base256ToMpzClass are modelled with the rankers.  *)
Convert == INSTANCE DotWords WITH Base <- B

NoPair == [n |-> 0, in |-> 0, out |-> 0]

ZeroIv == <<0, 0>>

RabbitInit ==
  /\ Init
  /\ owner \in {"rabbit", "caller"}
  /\ doing = "idle"
  /\ n = 1 /\ in = 0 /\ out = 0
  /\ op = "none"
  /\ pair = NoPair

(* SetKey with a key of the right length; with any other it does nothing.  *)
SetKey(k) ==
  /\ doing = "idle"
  /\ keysetup(k)
  /\ op' = "SetKey"
  /\ pair' = NoPair
  /\ UNCHANGED <<doing, n, in, out>>

MsgLen(bits) == (bits + ByteBits - 1) \div ByteBits

ASSUME MessageAssumption ==
  /\ ZeroIv \in Ivs
  /\ BitLengths \subseteq Nat \ {0}
  /\ Inputs \subseteq Nat
  /\ \A bits \in BitLengths : MsgLen(bits) <= MaxBytes

(* Bytes are made of bits, and exclusive or is taken bit by bit: the low   *)
(* bits of it are those of its arguments.                                  *)
ASSUME BitAssumption ==
  /\ ByteBits \in Nat \ {0}
  /\ B = Two[ByteBits]
  /\ \A a, b, c \in Byte, r \in 0 .. ByteBits :
       (Xor[a][c] % Two[r] = Xor[b][c] % Two[r]) <=> (a % Two[r] = b % Two[r])

(* Mutation: the vector is set once, after the key.                        *)
CallContinues(function, loop, v, bits) ==
  /\ doing = "idle"
  /\ doing' = loop /\ op' = function
  /\ n' = bits /\ in' = v
  /\ pc' = "process_bytes" /\ left' = MsgLen(bits)
  /\ work' = IF op = "SetKey" THEN AfterIv(master, work, ZeroIv) ELSE work
  /\ iv' = ZeroIv
  /\ source' = Convert!ToBytes(v, MsgLen(bits)) /\ output' = << >>
  /\ UNCHANGED <<master, key, mode, open, made, out, pair>>

(* Encrypt and Decrypt up to process_bytes: ivsetup, and the message.      *)
Call(function, loop, v, bits) ==
  /\ doing = "idle"
  /\ doing' = loop /\ op' = function
  /\ n' = bits /\ in' = v
  /\ pc' = "process_bytes" /\ left' = MsgLen(bits)
  /\ work' = AfterIv(master, work, ZeroIv)
  /\ iv' = ZeroIv
  /\ source' = Convert!ToBytes(v, MsgLen(bits)) /\ output' = << >>
  /\ UNCHANGED <<master, key, mode, open, made, out, pair>>

Result == Convert!FromBytes(output) % Two[n]

CallReturns ==
  /\ Return
  /\ doing' = "idle"
  /\ out' = Result
  /\ pair' = IF doing = "encrypt" THEN [n |-> n, in |-> in, out |-> Result] ELSE pair
  /\ UNCHANGED <<n, in, op>>

(* A longer integer than the bytes can hold would overrun them; a caller   *)
(* decrypts any integer, among them the last ciphertext.                   *)
RabbitNext ==
  \/ (FullBlock \/ Remainder) /\ UNCHANGED object
  \/ CallReturns
  \/ \E k \in Keys : SetKey(k)
  \/ \E bits \in BitLengths, v \in Inputs :
       /\ v < Convert!Power[MsgLen(bits)]
       /\ Call("Encrypt", "encrypt", v, bits) \/ Call("Decrypt", "decrypt", v, bits)
  \/ pair # NoPair /\ Call("Decrypt", "decrypt", pair.out, pair.n)

OwnerNext ==
  /\ \/ owner = "rabbit" /\ RabbitNext
     \/ owner = "caller" /\ Next /\ UNCHANGED object
  /\ UNCHANGED owner

RabbitSpec == RabbitInit /\ [][OwnerNext]_vars
-----------------------------------------------------------------------------
TypeOK ==
  /\ owner \in {"rabbit", "caller"}
  /\ key \in Keys \cup {NoKey}
  /\ pc \in {"idle", "process_bytes", "process_blocks", "keystream_bytes"}
  /\ left \in Nat
  /\ left > 0 => Len(output) + left <= Len(source)
  /\ output \in Seq(Byte)
  /\ doing \in {"idle", "encrypt", "decrypt"}
  /\ owner = "rabbit" => (doing = "idle") = (pc = "idle")

Interface == INSTANCE Encrypter

(* A Rabbit object is an Encrypter: whatever it was asked before, equal    *)
(* integers have equal ciphertexts and Decrypt recovers them               *)
(* (rabbit.cc:36, 78: the vector is set again for each message).           *)
IsEncrypter == Interface!Spec
=============================================================================
