# Verification of libfte

libfte turns a plaintext of one regular language into a ciphertext of another:
it *ranks* the plaintext (its index in its language), *enciphers* the index as
an integer of `n` bits until the result is an index of the ciphertext language
(*cycle walking*), and *unranks* that. This directory holds TLA+ modules for
the library's own code (`src/src/fte`), the TLC runs that check them on small
instances, and TLAPS proofs of what the DFA ranker does for every text and
automaton, the dot rankers for every word and integer, the Feistel network for every
round function, the stream cipher for every message, and `Fte` for every pair of
automata and every permutation.

## The system

| component | code | state | operations |
|---|---|---|---|
| `Fte` | `fte/fte.cc` | two rankers, the number of words and the capacity in bits of both languages, `key_`, `encrypter_`, two flags | `set_key`, `SetLanguages`, `Encrypt`, `Decrypt` |
| `DfaRanker` | `fte/ranking/dfa_ranker.cc` | the automaton (`delta_`, `delta_dense_`, `final_states_`), `CachedTable_`, two tables of counts | `SetLanguage`, `Unrank`, `Rank`, `WordsInLanguage` |
| `DotPlusRanker`, `DotStarRanker` | `fte/ranking/dot_*_ranker.cc` | the maximum length | the same, in closed form for `.+` and `.*` |
| `Ffx` | `fte/encrypting/ffx/ffx.cc` | radix, rounds, key | `SetKey`, `Encrypt`, `Decrypt` |
| AES contexts | `aes_cbc_mac.cc`, `aes_ecb.cc` | one **static** expanded key each, for the whole process | `AesCbcSetKey`, `AesCbcMac`, `AesEcbSetKey`, `AesEcbEncrypt` |
| `RabbitCryptor` | `fte/encrypting/rabbit/rabbit_impl.cc` | a master and a working context: eight words `x`, eight counters `c`, a carry | `keysetup`, `ivsetup`, `process_bytes`, `process_blocks`, `keystream_bytes` |
| `Rabbit` | `fte/encrypting/rabbit/rabbit.cc` | a `RabbitCryptor` | `SetKey`, `Encrypt`, `Decrypt` |
| conversions | `conversions.cc` | none | bit fields and bytes of GMP integers |

They interact by direct calls. `Fte::SetLanguages` creates the rankers, reads
their counts and chooses the encrypter; `Encrypt` and `Decrypt` call `Rank`, the
encrypter one or more times, and `Unrank`, and ignore what all of them return.
`Ffx` keeps no expanded key: it hands its key to the static contexts. There are
no threads, no callbacks and nothing is stored, so no two steps of one process
overlap; two objects of one process still interfere, between calls, through the
AES contexts.

What is hard here:

* **loops that only arithmetic bounds**: Unrank's search for a length, its scan
  of the symbols (which reads `delta_` before it knows the index is in range),
  its division by a table entry, and both cycle walks;
* **agreement between pieces that are computed apart**: the tables and the
  walks over them, the shortcut for `256`-symbol loops and the tables, Rank and
  Unrank, the widths of the two halves of a Feistel round, the count of a
  language and the ranks of its words, a message cut differently by the two
  sides of a stream cipher;
* **order of the calls**: `set_key` before or after `SetLanguages`, either of
  them several times, with keys and languages that are rejected;
* **partial failure**: `SetLanguages` refuses or throws after it has overwritten
  the object, `set_key` throws after it has replaced the key, rejected keys and
  failed ranks go unnoticed, and `DfaRanker::SetLanguage` returns false before it
  sorts a vector that is binary-searched all the same;
* **what is left of the call before**: a second text on one ranker, the working
  context of the last message, the carry of the counters;
* **state shared by accident**: the static AES contexts.

## The modules

| module | models | properties |
|---|---|---|
| `Vectors` | what `std::sort` and `std::binary_search` do with a vector | |
| `Powers` | what GMP's powers and `mpz_sizeinbase` return | |
| `DfaText` | how `SetLanguage` reads a text, as operators on the object | |
| `DfaRanker` | one `DfaRanker`, from the automaton it has read on | types, ranges of the walk, success of Unrank, Rank inverse of Unrank |
| `Ranker` | what a ranker promises, as a condition on its answers | |
| `DfaLanguage` | the language of a text, by what its lines mean, that of an automaton, by runs, and the index of a word, by counting | language, tables, order, acceptance and `AnswersAsRanker` against these definitions |
| `MCDfaRanker` | texts and callers for TLC | termination |
| `Encrypter` | what an encrypter promises: a permutation for each key and length | |
| `Ffx`, `MCFfx` | one `Ffx` with an arbitrary round function | widths, inversion, injectivity, `IsEncrypter` |
| `RabbitCryptor` | one stream cipher and a caller that keeps its protocol | place in the keystream, recovery, carries |
| `Rabbit`, `MCRabbit` | one `Rabbit` object on top of it | types, `IsEncrypter` |
| `DotWords` | the arithmetic of both dot rankers and of the conversions, as operators | |
| `DotRankers`, `MCDotRankers` | calls on one such ranker | on what the two are inverse; count; order |
| `Fte` | several `Fte` objects in one or more processes | key in use, round trip, delivery, termination |
| `MCFte`, `MCFteDot` | languages and permutations for it; the second takes the rankers of `.+` and `.*` from `DotWords` | |
| `ProofLemmas` | | facts about induction, recursive functions, powers and sizes of sets that the proofs share |
| `DfaRankerProofs`, `DfaLanguageProofs`, `DotWordsProofs`, `DotRankersProofs`, `FfxProofs`, `RabbitProofs`, `FteProofs` | | the theorems |

`Fte` meets its parts in the modules of their interfaces: a ranker and an encrypter
are constants of it, and it assumes of them what `Ranker` and `Encrypter` say and the
modules of the parts are proved to keep (below, under Fte). A composition step by
step would multiply the state spaces and add no behaviour, since each call of a part
runs to its end before `Fte` goes on.

### DfaText and DfaRanker

`DfaText` takes the object before a call of `SetLanguage` and gives it back: the
lines up to the first empty one are collected (`Read`), a line of another number
of fields ends the call, the dead state and the tables of symbols are added
(`WithDead`, `WithSymbols`), and the *whole* text, past the empty line too, is
read again for the transitions. Nothing is cleared between calls. The set of the
states and that of the symbols stand for `states_` and `symbols_`; a symbol's place
once they are sorted is the number of those below it (`Position`), and
`map::insert` keeps what is there (`Inserted`). `final_states_` is a sequence, in the
order in which its members were met (`WithFinals`). `DfaLanguage` makes the automata
of `DfaRanker` with it (`Object`), from one text or from two in turn; whether the first
call of two returned true, and so sorted the final states (`Sorted`), depends on the
maximum length it was given, and both are tried where both can be. The constant `Dfas`
is a set of such objects, which keep their texts, so that `LanguageOfText` can compare
the finished ranker with them.

The variables of `DfaRanker` carry the names of the fields and of the locals of
the running function. One step of the model is one turn of the innermost loop:

| action | code |
|---|---|
| `SetLanguage`, `FillEntry`, `FillDone` | `SetLanguage` up to the end of `PopulateCachedTable`, one `mpz_add` at a time |
| `CountWords`, `StoreCount`, `SetLanguageReturn` | `CalculateNumWordsInLanguage` and the loop around it; the result of `SetLanguage` |
| `CallUnrank`, `NextSlice`, `SliceThrows`, `FoundSlice` | the search for the length, with the `uint32_t` counter modulo `Wrap` |
| `UnrankTail`, `UnrankDense`, `UnrankSkip`, `UnrankChoose`, `UnrankReturn` | the three ways to find the next symbol, and the end |
| `CallRank`, `RankUnknownSymbol`, `RankTail`, `RankDense`, `RankAdd`, `RankNext`, `RankBeyondTable` | the walk of Rank; the last is `.at()` throwing |
| `RankRejects`, `RankAccepts`, `RankBeyondCount` | the final state, and the number of shorter words |

`SetLanguage` returns false for a language of at most one word, and returns before it
sorts `final_states_` (`dfa_ranker.cc:153-158`). The object is used all the same, so
`usable` keeps which it was, and `IsFinal` is `std::binary_search` turn by turn
(`BinarySearch` of `Vectors`) on the vector as it is then: in an unsorted one it may
miss a final state. For a text whose final states are listed as 3 and 1, with only the
word `a` up to the maximum length, `Rank("a")` is false, and `Unrank(0)` writes `a` and
returns false. The run has such a text.

A word is a sequence of bytes. `sigma` and `reverse` are `sigma_` and
`sigma_reverse_`: Unrank writes `sigma_.at(char_cursor)`, but the shortcut of a final
loop writes raw bytes, and Rank looks its bytes up; `indices` are the symbols' indices
of the word at hand. `OneToOne` says that the two tables are inverse and that, with
all byte values as symbols, each is its own index. That holds of what regex2dfa prints
(`LanguageOfText`), and not of every object that has read two texts or the symbol 256;
the properties that relate Rank, Unrank and the order of the words ask for it.

`dfa` is a total automaton: the result of parsing. `below`, `asked` and
`trail` are history variables: the partial sums of each table entry, the rank of
the last word Unrank returned, and the point of each of its symbols. They let
the range and inverse properties be stated, and carry the proofs.

### Encrypter, Ffx and Rabbit

`Encrypter` is the abstract specification: an encrypter has no state but the
last encryption under the present key, an Encrypt may return any integer of `n`
bits as long as equal plaintexts and only those have equal ciphertexts, and
Decrypt of that ciphertext returns its plaintext. `Ffx` and `Rabbit` declare the
variables of `Encrypter` under the same names, and `IsEncrypter` is
`INSTANCE Encrypter`'s specification, checked and proved of both.

`Ffx` has one action per round. `RoundFunction` draws a value of the right width
for each argument the first time it is asked, and repeats it afterwards: every
function is covered, as the AES MAC may be any. Before `SetKey` the MAC fails
and the round adds 0. `pair` remembers one ciphertext, to be decrypted or to be
compared with the next one. `trail` records the halves before each round of the
running Encrypt, and `made` those of the Encrypt that made `pair`; only the
proofs read these two.

`RabbitCryptor` computes the cipher as the code does, with the byte scaled down:
`B` values in a byte, four bytes in a word, so that shifts, rotations, squares and
wrapped sums are those of `rabbit_impl.cc` at another width. One step is one pass
of the loop of `process_bytes`, `process_blocks` or `keystream_bytes`. The caller
keeps the protocol of `rabbit_impl.h:65-101` (`open`): a key, then for each message
a vector, whole blocks, and at most one `*_bytes` call, at the end. `Stream`, a
constant, is the sequence of contexts that a message of its own would go through;
`KeystreamInOrder` compares every byte written with it. In `Rabbit` the same
cryptor belongs to a `Rabbit` object, which uses the vector of zeros for each
message and cuts the result to `n` bits; `owner` says whose it is.

### Dot rankers

`Unrank`, `Rank` and `WordsInLanguage` are one step each; the values are
computed by the operators of `DotWords` as the code does, with the conversion to
bytes done by what `mpz_export` writes: the absolute value.

### Fte

`fte[o]` is the record of an object's fields, `aes` the static key of each
process. `SetLanguages` is four actions, one for each way to end
(`SetLanguagesThrows`: a text that cannot be counted; `SetLanguagesRefuses`;
`SetLanguagesAccepts`; `SetLanguagesKeyThrows`: the new encrypter is Rabbit and
throws at the key), and each leaves behind what the code has overwritten by then.
`set_key` is two. `Encrypt` and `Decrypt` are a first step that ranks and
enciphers, a step for each turn of the walk, and the return.

Keys are of three kinds: 32 hexadecimal digits; 32 other characters (`OddKeys`), which
GMP cannot read as a number, so that Ffx refuses them and Rabbit throws; and those of
another length (`BadKeys`), which both refuse and the object ignores. Callers pass
words of the languages and others: `Lang[L].rank` is what Rank leaves in its result,
which `Encrypt` enciphers whether or not Rank succeeded. With Rabbit, the rank of a
word handed to `Encrypt` or to `Decrypt` fits the buffer of msglen bytes (`Fits`): the
argument goes there as it is (`rabbit.cc:31`), and only the result is cut to
`capacity_p` bits (`rabbit.cc:47`). For a rank that fits the bytes that is the same as
to cut the argument (`Reduce`), since the keystream is added bit by bit; Ffx cuts its
argument (`BitMask`). The ranks of all words of the plaintext language fit.

What a ranker does with a language is a record of constants (`Lang[L].rank`,
`.unrank`, `.count`): partial functions, undefined where the code throws.
`AutomatonAssumption` is the operator `IsRanker` of `Ranker` for every automaton: the
two functions are inverse on the language, ranks are below the count, and only the
empty word makes them throw. `ImplementsRanker` proves it of `DfaRanker`: the record
`Answers` of its language is such a ranker, and `Rank`, `Unrank` and the number of
words leave what that record says in their result, which is all that `Fte` looks at.
`MCFte` builds the records by the order of `DfaLanguage`, and `MCFteDot` by
`DotWords`. An encrypter is a permutation for each key and length
(`CipherAssumption`), as `Encrypter` has it; the constant `Ciphers` is a set of such
families, and a behaviour picks one and keeps it. `agreed` and `message` are history:
the languages that `SetLanguages` last accepted, and the last ciphertext with the
configuration that made it.

## The runs

| run | instance | shows |
|---|---|---|
| `dfa_ranker` | all automata of two live states and a dead one over 1 and 2 symbols whose first state leads to the second, and twelve small texts, each alone and all pairs read in turn (an empty line, a broken line, a label without a state, the symbol 256, one word with final states out of order among them); lengths to 3; all words to 4 bytes and some of 5; ranks 0..15; `Base` 2 | all properties of the ranker, and that each call ends |
| `ffx` | lengths 1, 2, 3; 4 rounds; inputs 0..7, three calls | the halves fit, Decrypt inverts, Encrypt is injective: an Encrypter |
| `rabbit` | bytes of two bits; two keys, two vectors, one content of a new object; messages of 37 bytes cut into calls of 5, 16, 17 and 32; integers of 1, 3, 4 and 5 bits | each byte meets its own byte of keystream, carries are exact, messages are recovered: an Encrypter |
| `dot_rankers` | `Base` 3, maximum lengths 1 and 2, words to 3 bytes, ranks 0..30 | on what the rankers are inverse, that a count covers all ranks and no word two bytes too long, order |
| `fte` | one object; languages of one word and of two, and one that does not parse; a good, an odd, a short and the empty key; all 24 permutations of 2 bits; bytes of 2 bits | Encrypt delivers, Decrypt recovers, the key in use, both walks end |
| `fte_pair` | two objects in two processes; a language of one word and one of three with the empty word (equal capacity gives Ffx, smaller gives Rabbit); two keys | equal configurations understand each other, keys in use, exceptions at the empty word alone, Rabbit never walks |
| `dfa_empty_word`, `dot_unrank`, `fte_shared`, `fte_refused`, `fte_foreign`, `fte_dot` | | each refutes one sentence of a comment, below |

Bounds, and why they suffice. With `Base` 2 an automaton over both symbols takes the
"256 symbols" shortcut and one over a single symbol cannot, so both walks, the dense
and the sparse transitions, dead ends, and final and non-final loops all occur; length
3 is the first at which an entry is the sum of sums. `Wrap` 6 lets the length counter
pass `fixed_slice_` and wrap round. One, two and three bits give an empty half, equal
halves and unequal ones; four rounds run each parity twice. A message of 37 bytes is
two whole blocks and a rest, with a call that ends inside a block at each of its
places; lengths of 1, 3, 4 and 5 bits need one, two and three bytes of two bits,
filled and not. The longest cycle on two bits is four, so that with two words of the
language walks of two turns past the first encipherment occur in both directions,
under every permutation. With two bits in a byte, words outside of the language have
ranks that fit the capacity, that fit only Rabbit's bytes, and that fit neither and go
to Ffx alone. One good key beside the keys that fail is enough for `fte`, two tell
keys apart in `fte_pair`, two objects can disagree. `fte_pair` uses one permutation,
the single cycle of four, which over a language of three words is not its own inverse
(over two words any is, so that `fte` could not tell deciphering from enciphering),
and symmetry in the objects, which `MCAlone` respects; it checks no liveness.

Only `ffx` really stops: `MaxCalls` bounds its number of calls, so its
deadlock check is off. In `dot_rankers` the bound `MaxCounts` disables only the
count.

Fairness is weak fairness of the steps *inside* a call (`WF_vars(Step)`): one
thread runs the call and does nothing else until it returns. No caller is
required to make a call.

### What the documentation says otherwise

* `dfa_empty_word`: "given an integer i, return the ith lexicographically ordered
  string" (`ranker.h:16`). The index of the empty word makes Unrank's counter go
  round to 0 and throw.
* `dot_unrank`: "our rank function performs the inverse operation of unrank"
  (`ranker.h:21`). A word that starts with the byte 0xff has the rank of a longer
  word.
* `fte_shared`: `Decrypt` "recovers the input plaintext" given the key
  (`ffx.h:91`). In a process with two objects, the AES key is whichever was set
  last.
* `fte_refused`: "verify that the output langauge has capacity at least as large
  as the input language" (`fte.cc:45`). A refused `SetLanguages` leaves an object
  that worked before ready to encrypt with the refused languages.
* `fte_foreign`: on a string accepted by `output_dfa`, `Decrypt` "recovers a
  plaintext" (`fte.h:83`). For a word that no `Encrypt` produced it may never
  return; `max_cycles_` is never read.
* `fte_dot`: "we can only use rabbit when we know we won't cyclewalk"
  (`fte.cc:94-95`). With `.*` on both sides Rabbit is used, and for a word of the
  plaintext language (`RabbitKnowsNoWalk`) its first result is no ciphertext's rank:
  `Encrypt` walks, and is back at the plaintext's.

The other properties are stated for what the code does: `EncryptDelivers` allows
an exception where the empty word is involved, `EncryptEnds` speaks of words of
the plaintext language (the walk of a rank beyond it need not end), `DecryptEnds`
and `RoundTrip` of ciphertexts that an `Encrypt` of such a word made, and
`KeyInUse` of keys the encrypter accepts; an object given any other key still
reports it as set. In `fte_pair` each object has a process of its own; otherwise
both `RoundTrip` and `KeyInUse` fail, as `fte_shared` shows of the first.
`LanguageReplaced` says when a second text on one ranker does no harm.

## The proofs

Every theorem is stated for all values of the constants. What is assumed of these
are the named assumptions of the modules, which TLC evaluates on every run: they
describe the inputs (an automaton is total, a key has four words) and what other
code does (the exclusive or of two bytes); nothing is assumed of numbers. What the
proofs need of powers, sizes and recursively defined values is proved in
`ProofLemmas`: a set of naturals that has 0 and every successor is all of them
(`Induction`, about a set instead of a predicate, as the provers cannot
instantiate an operator), hence the functions that the modules define by
recursion exist and take the expected values, powers grow and multiply, and a
set in bijection with another has its size.

`DfaRankerProofs` and `DfaLanguageProofs` prove, for every set of texts, every
alphabet and maximum length, and every sequence of calls:

| theorem | |
|---|---|
| `TypeCorrect` | `TypeOK` |
| `UnrankStaysInRange` | `UnrankInRange`: Unrank never scans past the symbols of a state and never divides by zero |
| `UnrankOutcome` | `UnrankSucceeds`: it throws on exactly what is no index of a non-empty word, and returns true on the rest after a `SetLanguage` that did |
| `RankIsInverse` | `RankInvertsUnrank` (under `OneToOne`) |
| `TablesCountWordsHolds` | `TablesCountWords`: the tables count the words of the language |
| `UnrankFollowsOrderHolds` | `UnrankFollowsOrder`: Unrank writes the word of the index (under `OneToOne`) |
| `RankFollowsOrderHolds` | `RankFollowsOrder`: Rank accepts non-empty words of the language alone, all of them after a `SetLanguage` that returned true, and returns their index (under `OneToOne`) |
| `ImplementsRanker` | `AnswersAsRanker`: what Rank and Unrank leave in their results is what a ranker in the sense of `Ranker` answers, whatever they return (under `OneToOne`) |
| `LanguageOfTextHolds` | `LanguageOfText`: a new object has the language of its text |
| `LanguageReplacedHolds` | `LanguageReplaced`: so has one that read another text before, when what that left does no harm |
| `ProperTextsBuild` | of such a text `SetLanguage` reads every line and comes to the counting, with a total automaton; for at most one word it then returns false |
| `TablesBuilt`, `WalksKeep`, `ExclusiveKept`, `RankOrderKept`, `UsableKept` | the inductive invariants they follow from |

The assumptions are those that `DfaRanker` and `DfaLanguage` name: each automaton is
the object that one or two texts build (`TextAssumption`) and is total (`IsDfa`,
which `ProperTextsBuild` proves for the texts the library gets from regex2dfa),
`MaxLen + 1 < Wrap` (the maximum length is below 2^32 - 1), and what callers pass.

None of these properties is inductive. That Unrank's scan stops needs that what
is left of the rank is smaller than the entry for the current state and length,
which needs that entry to be the sum over *all* the successors, in the order of
the scan: hence `below`, the partial sums, of which `TableInv` says that each is
the previous one plus the next successor's entry, that a dense state's are
multiples, and that a looping final state's entry is a power of `Base`. `TableInv`
holds at every point of the three loops that fill the table; `CountInv` adds that
the cumulative table is increasing and made of the table's entries, and
`ExclusiveInv` that the other one repeats them. Over finished tables, `UnrankInv`
says of each symbol that was chosen (`Hop`) that the remainder before it is the
partial sum below the symbol plus the remainder after it. `RankInv` reads the
same trail backwards: what Rank has added, plus what Unrank still had left at
this place, is constant.

The binary search is a fact about vectors (`BinarySearchFacts`): in every vector a
search that says true has found the number, and in a sorted one it says true of
every number that is there. So an unsorted `final_states_` can make the object miss a
final state and never invent one. The shortcuts need `IsFinal`; where it fails the
tables are walked instead, to the same word and rank, which is why `AnswersAsRanker`
needs no sorted vector.

`DfaLanguageProofs` carries this from numbers to words. The words of length `l + 1`
that a state accepts fall apart by their first symbol, each part in bijection with
the words of length `l` that the symbol's successor accepts: by induction on `l`
entry and number are the same, and `below[s][l][a]` is the number of those that
begin with a symbol less than `a`. So the partial sums that a trail or Rank's walk
adds up are, place by place, the words that agree with this one up to there and
have a smaller symbol, which are disjoint sets and together all that come before
it. For Unrank the trail gives the sums; for Rank `RankOrderInv` says that `rank`
is at each place the number of words of this length that come before by the
symbols read. A word with a symbol from outside the alphabet has no run.

For `ImplementsRanker` the indices must number the language. `Before` is a strict
total order of a finite set (`BeforeNotItself`, `BeforeTransitive`, `BeforeTotal`), so
that the number of words before a word is below the number of all and tells any two
apart (`PlacesInOrder`, `IndexNumbers`); and the empty word comes first
(`EmptyWordFirst`), which is why only its index has no answer.

That the language is the text's is a fact about the object that `SetLanguage` leaves
behind and holds in every state. `Sound` says of an object that its states have no
gaps, that `sigma_` enumerates the sorted symbols and that `sigma_reverse_` has the
place of each; a new object is sound, and a text that is `Proper` (deterministic,
states 0 to N - 1, symbols that are bytes, nothing behind an empty line) keeps it so
if the object is `Harmless`: its final states are the text's too, and no new symbol
sorts before an old one (`TextBuilds`). Symbols that come after all the old ones leave
these in their places (`PositionKept`), which is why tables that only grow stay
right (`TablesGrow`); the second condition of `LanguageReplaced` is there for no
other reason. The dead state is then the last and none of the text's, and
`delta_[s][a]` is the target of the text's transition, or the dead state if there is
none (`DeltaOfText`, `DeltaInText`). A run that ends in a final state ends in a state of
the text; only transitions of the text lead to these, so by induction from its end
the whole run is a path of the text (`WrittenAccepted`). A path of the text, in
turn, is the run over the places of its symbols (`AcceptedWritten`).

`DotRankersProofs` proves the five properties of `DotRankers` (`RankInvertsUnrank`,
`UnrankInvertsRank`, `CountCoversRanks`, `CountBoundsWords`, `RankFollowsOrder`, each
as a theorem of that name with `Holds`) for every `Base` above 1, every maximum
length and all words and integers. They are arithmetic: `DotWordsProofs` shows that
the two conversions are inverse between the words of `n` bytes and the integers
below `Base^n`, that they respect the lexicographic order, and how many digits
a sum with `Base^(n-1)` has. The invariant (`DotInv`) only says that the last two
calls were answered so and that a fresh count is one of the two closed forms.

`FfxProofs` proves, for every set of lengths and of inputs, every number of calls
and every function that `RoundFunction` may turn out to be:

| theorem | |
|---|---|
| `TypeCorrect` | `TypeOK` |
| `WidthsKept` | `HalvesFit` |
| `RoundTrips` | `DecryptInverts` |
| `NothingLost` | `EncryptInjective` |
| `ImplementsEncrypter` | `IsEncrypter`: the initial states and every step map to those of `Encrypter` |

All but the first under the condition `HalvesReturn`: the number of rounds is
even, or all lengths are. The library only uses 10 rounds, so this is a condition
of the theorems and not of the model. Beyond that the lengths are positive, inputs
are naturals and there is at least one round.

The properties compare the end of a call with its start, so the invariant
`FfxInv` has to say what happens in between. `EncryptInv` says that `trail` is a
chain of rounds (`Hop`) from the two halves of the input to `A` and `B`, and
`PairInv` the same of `made`. `DecryptInv` says that a Decrypt of the last
ciphertext is at the halves that `made` has for its round: `Backward` shows that
one turn of its loop goes to those of the round before, because the round function
repeats itself and the modulus undoes the addition. `SameInv` compares a second
Encrypt with the first: by `Alongside` they are at equal halves in one round
exactly if they were in the previous one. `HalvesReturn` enters where the two
halves are joined and split again (`LastHalves`): only then do they have the
widths that `Join` and the first split give them. That a half fits is needed for
all of this, or the modulus would lose a bit; the two widths alternate
(`WidthFacts`).

`RabbitProofs` proves, for every size of the byte, every set of keys and vectors,
every message and every way to cut it that the protocol allows:

| theorem | |
|---|---|
| `TypeCorrect` | `TypeOK`: no call reads or writes past its message |
| `KeystreamKept` | `KeystreamInOrder` |
| `Recovered` | `MessageRecovered` |
| `CountersExact` | `CountersAdd` |
| `ImplementsEncrypter` | `IsEncrypter`: the initial states and every step map to those of `Encrypter` |

The invariant is that the working context is in step with the message (`InStep`): as
long as a message is not finished, whole blocks lie behind it, and the context is the
one of `Stream` for as many steps. `Protocol` says that a call which takes part of a
block closes its message. `Recorded` adds that the bytes in `made` are the message met
by the same keystream, which `XorAssumption` then cancels. `CountersExact` needs that
all words stay words and that no constant plus a carry is a whole word
(`ContextAssumption`), or a comparison would miss a carry. `Stream` is given by its
recurrence (`StreamAssumption`); that its contexts and blocks stay words and bytes is
proved.

`ImplementsEncrypter` needs more than the round trip: two integers with equal low `n`
bits must have equal ciphertexts, and only those. The integer of a message is the
sum of its bytes times powers of `B`, so that the low `n` bits are the whole bytes
but for the first one, of which they are the low bits (`ResidueOfWords`); the
keystream that meets them depends on the key and the length alone. `BitAssumption`
enters here: a byte has `ByteBits` bits and the exclusive or is taken bit by bit, so
that the low bits of a result depend on the low bits of the arguments. `CipherInv`
says of `pair` and of the running call which bytes they are made of, whatever the
object was asked before.

`FteProofs` proves, for every set of objects, keys, permutations and automata,
with and without the empty word, and every sequence of calls:

| theorem | condition | |
|---|---|---|
| `TypeCorrect` | `OnlyAutomata` | `TypeOK` |
| `Delivered` | `OnlyAutomata` | `EncryptDelivers` |
| `NeverWalks` | `OnlyAutomata` | `RabbitNeverWalks` |
| `KeyUsed` | `OnlyAutomata`, `OwnProcess` | `KeyInUse` |
| `RoundTripHolds` | `OnlyAutomata`, `OwnProcess` | `RoundTrip` |

`OnlyAutomata` (no language is `.+` or `.*`) and `OwnProcess` (no two objects
share the AES contexts) are conditions because the model has the other cases, in
which `fte_dot` and `fte_shared` refute the properties. The assumptions are those
that `Fte` names: `IsRanker`, and that an encrypter permutes.

`ObjectsInv` says that an object whose languages were accepted has exactly those
(`Agrees`), whatever failed before, and `KeysIn` that the key in use is its own.
The round trip is an argument about paths. A `Walk` is a path of the permutation
whose inner points are not ranks of ciphertexts. `WalkInv` says that while Encrypt
runs there is one from the plaintext's rank to `x` (`Encrypting`), that the last
message has one that ends at the ciphertext's rank (`Sent`), and that Decrypt of
it is at some point of that path (`Decrypting`, `Back`). Inner points are at least
`words_c`, and `words_p <= words_c`, so Decrypt cannot stop there, and each turn
goes back by one point, since a permutation has one inverse: it stops exactly at
the plaintext's rank, which is below `words_p`.

Only model-checked: that calls end (`CallsEnd`, `EncryptEnds`, `DecryptEnds`), which is
liveness and out of the provers' reach. Every invariant and every safety property of
the passing runs has a theorem. The six violations need no proof.

## Not modelled

* A `*rank` that is not 0 when `DfaRanker::Rank` starts: it is added to
  (`dfa_ranker.cc:349`), but no caller in the library passes one; likewise a `*word`
  that is not empty when `Unrank` starts.
* `Fte::Encrypt` and `Fte::Decrypt` of a word whose rank has more bytes than Rabbit's
  buffer (`rabbit.cc:31`, `conversions.cc:25`): the code writes past it, and what
  happens then is not defined. No word of the plaintext language and no ciphertext that
  Encrypt returns has such a rank, if the languages are automata.
* Keys of 32 characters that GMP reads although they are not 32 digits: it skips blanks
  and takes a leading minus sign.
* The inside of AES, and the layout of the MAC's input: a round function is any
  function. `Base16ToBase256`: a key is a name.
* `keystream_blocks`, which `rabbit_impl.h` declares and nothing defines.
* Memory: the destructors, and the rankers and encrypters that a second
  `SetLanguages` drops. They have no effect on what a call returns.
* Third-party code, the tests, the benchmark and the build files.
