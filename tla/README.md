# Boost.Hash2 in TLA+

This directory models Boost.Hash2 (`include/boost/hash2`), checks the models with TLC and
proves part of what they claim with TLAPS. The library is a set of hash algorithms with one
interface (construct from nothing, an integer or a byte sequence; `update`; `result`) and a
function, `hash_append`, that turns C++ objects into calls of `update`.

The library is sequential: an object belongs to one caller and nothing is persisted. What is hard
about it is in the *sequences of legal calls* — the message arrives in any parts, `result` may be
repeated, `update` may follow it — and in the *boundaries*: of blocks, buffers, paddings, keys,
secrets and counters. The unit tests compare a few messages and splits with known digests; the
models go through every sequence of calls in small instances of each algorithm.

## Inventory

| component | source | state | operations |
|---|---|---|---|
| concept of a hash algorithm | `doc/hash2/hashing_bytes.adoc` | the message so far | construct, update, result |
| padded block hashes | `md5.hpp` `sha1.hpp` `ripemd.hpp` `sha2.hpp` | chaining words, `buffer_`, `m_`, `n_` | construct, update, result |
| tail hashes | `siphash.hpp` `xxhash.hpp` `legacy/murmur3.hpp` `legacy/spooky2.hpp` | words, `buffer_`, `m_`, `n_` | construct, update, result |
| xxh3 | `xxh3.hpp` | accumulators, secret, `num_stripes_`, `buffer_`, `m_`, `n_` | construct (also `with_secret`, `with_secret_and_seed`), update, result |
| sponges | `sha3.hpp` `detail/keccak.hpp` | `state_`, `m_`, `finalized_` | construct, update, result |
| blake2 | `blake2.hpp` | `h_`, `b_`, `m_`, the two words `t_` | construct, update, result |
| hmac | `hmac.hpp` | two objects of the algorithm H | construct, update, result |
| hash_append | `hash_append.hpp`, `flavor.hpp`, the traits | none; it calls `update` of a hasher, and of copies of it | `hash_append`, `_range`, `_size`, `_range_and_size`, `_unordered_range` |
| fnv1a | `fnv1a.hpp` | one word | construct, update, result |
| get_integral_result, digest | `get_integral_result.hpp` `digest.hpp` | none | conversions of results |
| 128-bit products | `detail/mul128.hpp` | none | `mul128` |
| helpers | `detail/` | none | bytes to words and back, rotations, memory |

Interaction: `hmac<H>` drives two objects of another algorithm; `hash_append` drives any algorithm
through `update`, and for unordered ranges copies the hasher and calls `get_integral_result` on
the copies; `get_integral_result` calls `result` of an algorithm once or several times; the digests
of xxh3 are folds of 128-bit products; the constructors of every algorithm call its own `update`
and mostly its `result`.

What makes each correct, beyond its arithmetic:

* the digest is a function of the message, not of its split;
* every part of the message, its length and the key enter the digest;
* the counters agree with each other and with what was absorbed, through wraps and repeated results;
* `result` leaves no byte of the message in a buffer, and leaves an object whose next result is another;
* different seeds make different objects;
* no byte nobody wrote is read, and no part of a key schedule that does not exist is used;
* equal C++ objects give one message on every platform; different ones give different messages.

`PROJECT.json` lists under `hazards` the lines where these are at risk, with the properties that
watch them.

## Modules

The compression functions are *free* throughout: what a word of an object holds is represented by
the sequence of what it has taken in. Two digests are then equal only when they commit to the same
blocks, in the same order, with the same counts and flags. This is the assumption under which a
hash function can be reasoned about at all; the arithmetic itself is covered by the test vectors.
Where arithmetic is all there is and a property depends on it, it is modelled exactly: fnv1a,
`get_integral_result`, `mul128`, and what an integer seed puts into the words of the tail hashes.

| module | what it models |
|---|---|
| `HashAlgorithm` | the promise: an object is the message it has absorbed; `update` appends; `result` appends a finalization that depends on the message alone |
| `Sponge` | the promise of sha3 and shake: `result` pads, or squeezes on when nothing was absorbed since |
| `ByteBlocks` | memcpy, memset, the loop over whole blocks |
| `MdHash` | md5_128, sha1_160, ripemd_128 and 160 and the six sha2 classes: `update` with its buffer, the padding, the counters in their width, seeds; a `result` for each class |
| `Xxh3` | xxh3_128: the five ways to construct, stripes under a moving part of the secret, scrambles, the kept last stripe, `last_round`, the digest added to the buffer, of which it changes any bytes or none |
| `Xxh3Short` | which bytes of buffer and secret the five digests of short messages read, at their true sizes |
| `Mul128` | `mul128_impl`: four half-word products added in words that wrap |
| `Hmac` | hmac over an abstract algorithm H: key padding, both passes, repeated results; keys of bytes that are given and of bytes of digests |
| `TailHash` | siphash_32 and 64, xxhash_32 and 64, murmur3_32 and 128, spooky2_128: one `update`, seven ways to finalize, constructors from bytes, one integer or two; uninitialized buffers are a value `Garbage` |
| `Keccak` | keccak_base and the six constructors; a byte is a set of bits, so exclusive or and the shared padding byte are exact |
| `Blake2` | blake2b_512 and blake2s_256: the delayed last block, the count with its carry, keys |
| `IntegralResult` | `get_integral_result`: contraction, identity, expansion of integral results |
| `Fnv1a` | fnv1a_32 and 64 on words of a few bits, several objects given the same calls of `update`, `result` and `get_integral_result` |
| `HashAppend` | two programs, each on a platform of its own byte order and evaluated at run time or at compile time, append objects of the same types to two hashers |

`update` and `result` of a class are operators on the record of its data members; the actions
`Update(p)` and `Result` are a caller's calls of them, and `Init` is any construction. A property
quantifies over the calls, never over the inside of one: each call is one step because the object
has one caller. In each module, names such as `AbsorbLate` are *slips*: a plausible mistake in the
definition that follows. Replacing the definition by its slip must violate the property
`PROJECT.json` lists with it, so that every property is known to bite.

`MC*.tla` give the constants small values. Block sizes shrink, and relations between sizes are
kept (they are the `ASSUME`s of the modules): a counter that wraps at a multiple of a block or does
not, a length field shorter than a block, a buffer of four stripes, a secret that outlasts the
buffer, keys around the limits of each constructor.

## Runs

| run | module, configuration | shows | distinct states |
|---|---|---|---|
| `md_hash` | `MCMdHash` | `MdHash` implements `HashAlgorithm` with the padding of the standards; counters, seeds, cleared buffers | 57 926 |
| `xxh3` | `MCXxh3` | stripes are taken in step with the secret whatever the split (`Streamed`); the first digest is that of the whole message as long as the buffered stripes end before the secret (`DigestInBlock`); a result differs from the one before unless it left a short message as it is (`ResultsDiffer`) | 656 676 |
| `hmac` | `MCHmac` | the first result is RFC 2104; hmac<H> is itself a hash algorithm; keys make one object for two reasons only (`SameInstanceKeys`) | 3 294 |
| `tail_hash` | `MCTailHash` | no garbage is read; counters; splits; the digest determines the message since the last result; keys up to zeroes at the end; integer seeds | 66 950 |
| `keccak` | `MCKeccak` | `Keccak` implements `Sponge` with the padding of FIPS 202; keys | 10 486 |
| `blake2` | `MCBlake2` | RFC 7693 for the first result; splits before and after results; the count; keys | 57 912 |
| `hash_append` | `MCHashAppend` | equal objects agree on all platforms; objects of types that can be read from one end differ; every object extends the message | 525 990 |
| `fnv1a` | `MCFnv1a` | an object is one `update` with all it was given; successive results differ, and so do the parts of an integer made of them; objects that differ stay different; contractions are uniform | 112 729 |
| `xxh3_split` | `MCXxh3`, `MCXxh3Split.cfg` | *violation* of `DigestIsOneShot` | |
| `xxh3_extend` | `MCXxh3`, `MCXxh3Extend.cfg` | *violation* of `StripesInSecret` | |
| `xxhash_seeds` | `MCTailHash`, `MCXxhashSeeds.cfg` | *violation* of `SeedsDiffer` | |
| `append_ambiguous` | `MCHashAppend`, `MCHashAppendMixed.cfg` | *violation* of `DifferentObjectsDiffer` | |

Two facts have no state, and are assumptions of `MCXxh3` that TLC evaluates when it starts:
`ShortDigestsReadTheMessage` (each of the 240 lengths, at the true sizes) and `FullProduct` (each
pair of 6-bit words).

### What the violations are

* **xxh3_128 depends on the split.** `last_round` accumulates the stripes left in the buffer
  without the scramble that is due when the secret is used up. With the default secret,
  `update` of 1024 bytes and then of 192 gives another digest than one `update` of the 1216, and
  with assertions fails the one at `xxh3.hpp:206`. Compiling and running the two calls shows the
  same.
* **xxh3_128 counts stripes past the secret.** Each `result` of a long message takes the buffered
  stripes in once more; after one `update` of 250 bytes a few calls of `result` fail the same
  assertion. Confirmed by running it.
* **xxhash_32 confuses integer seeds.** The documentation asks of every algorithm that distinct
  64-bit seeds construct distinct objects. `xxhash_32` starts from the low half and adds prime times
  the high half to every word, so only one sum of both halves counts. The seeds `0x100000000` and
  `0x27a143589` construct the same object; confirmed by running it. `WideSeedsDiffer` checks
  the other classes, without murmur3_32, whose state has half the bits of a seed.
* **hash_append is ambiguous for some pairs of types.** A container writes its size after its
  elements, an optional its flag before its value. `tuple<vector<unsigned char>,
  optional<unsigned char>>` under `big_endian_flavor` gives `00 00 00 00 01 00` for `({0}, nullopt)`
  and for `({}, 0)`. `ReadableObjectsDiffer` says where this cannot happen. Also outside of
  it: two variants that may be valueless next to each other, and, not modelled, containers of more
  than 2^32 elements, whose size is cut.

### Where the code keeps less than it says

In two more places the documentation promises of every algorithm what the code does not keep. No run
checks the promise there; the property states what does hold, with its exception, and the theorem proves
that there is no other.

* **A result of xxh3_128 may be the last one.** `hashing_bytes.adoc:159-164` lets `result` be called
  again and again, for a pseudorandom sequence. After a message of 1 to 240 bytes `result` adds two
  words of the digest to the first 16 bytes of the buffer and clears the others (`xxh3.hpp:759-772`),
  and the next digest is computed from the message's bytes of the buffer and nothing else that has
  changed. When what is added to each of them is zero, and those behind the first 16 were zero already,
  the next digest is the same, adds the same, and so on for ever. For a message of one byte that takes a digest whose first byte is zero, one in
  256; for two and three bytes, as many bytes of zero. The default-constructed `xxh3_128` given the
  two bytes `2f 31` does it, and so does the one with seed 323 given `"a"`; confirmed by running
  it. `ResultsDiffer` of `Xxh3` says that a result is repeated in this case and in no other. In
  the model each result draws anew what it changes, so it does not say that the repetition lasts.
* **A key of hmac and its digest make the same object.** `hashing_bytes.adoc:104` says that
  different seed sequences produce differently initialized instances. `hmac<H>` replaces a key longer
  than a block by its digest (`hmac.hpp:66-74`), as RFC 2104 prescribes, so the digest given as
  a key makes the same object. `SameInstanceKeys` names this and zeroes at the end as the only
  reasons.

Two facts of the headers in `legacy/`, which the documentation does not describe, showed up in the
same models and are not held against a claim. `result` of murmur3 hashes the tail but does not put
it in the words, and the constructor from bytes relies on `result` to absorb the seed: `"aaaaX"` and
`"aaaaY"` make the same `murmur3_32` (`KeysDifferButForZeroes` leaves murmur3 out). And 192 does
not divide 2^32, so with a 32-bit `size_t` the assertion `m_ == n_ % N` of spooky2 fails once `n_`
wraps inside `update`, after 4 GiB; the run keeps `n_` of spooky2 below its range.

Keys that differ in zeroes at their end make the same object in hmac (by RFC 2104 too),
siphash (a key of 16 zero bytes is the default), xxhash, and the seeds of murmur3 and spooky2 no
longer than the words they fill. `KeysDifferButForZeroes` of `TailHash` and `SameInstanceKeys` of `Hmac`
state the promise without them; md5, sha, ripemd, sha3 and blake2 keep it whole.

### Bounds

`MaxBytes` and `MaxResults` bound the calls and appear in the guards of the actions; `MaxBytes` also
bounds the other messages `DigestIsOfMessage` of `TailHash` compares with, and the inputs of the promise
`Hmac` is shown to keep. A caller may also stop, so deadlock is not checked. The inputs of `Update` include the empty one, one byte,
a part that ends just before, at or after a block, and one over several blocks; together with
`MaxBytes` beyond two blocks, every value of `m_` meets every path of `update`. Counters are given
ranges that wrap within the bound in `MdHash`, `Xxh3` and `Blake2`, and in `TailHash` the low byte
of `n_` that siphash hashes. Two results in a row, and updates between and after them, are reached in every
run but `tail_hash`, which has one result per behaviour after that of the construction and covers
what follows it by `start`. Bytes take two values or more, which is enough for every comparison a
property makes, since no code branches on the value of a byte. `MCFnv1a` computes with bytes of
two bits, hence words of 8 and 16 bits, and primes and multipliers with the low digits of the real
ones; its properties depend on the prime being 3 modulo 4 and the multiplier odd, which the
assumptions name. It asks for integers of 1, 2 and 8 bytes: contractions of both widths, identity and
expansion; one of 4 bytes from fnv1a_64 is left out for the time it takes to count its results. The short digests of xxh3 are checked at their true sizes. `MCHashAppend` bounds containers to
two elements and programs to four objects; its programs put next to each other what a reader could
confuse.

In `HashAppend` the sum of the digests in an unordered range is the bag of the messages that were
hashed: the sum of 64-bit results is taken to be free like the digests. Each message is that of a copy
of the hasher at that place, and is given as what the copy was passed since: two hashers that agree on
all that came before agree on the digests exactly if they agree on these.

There are no liveness properties: every operation is a loop over its input that ends, there is no
scheduler and nothing waits, so no fairness is assumed anywhere.

## Proofs

`DataLemmas` has what every component leans on: division, induction and recursion over numbers,
concatenation, copies into a buffer, cutting a sequence of bytes into whole blocks and a rest, and
what that says of bytes that come in parts. `MdHashProofs`, `KeccakProofs`, `Blake2Proofs`,
`TailHashProofs`, `Xxh3Proofs` and `Fnv1aProofs` hold the theorems about the component
they are named for, `Xxh3Proofs` also the two facts of xxh3 that have no state, and `AnyHashProofs`
those about what is built over any hash algorithm, `Hmac` and `HashAppend`. `HashAppend` calls its
specification `AppendSpec`; `Spec` is that of the other component.

| module | theorem | says |
|---|---|---|
| `MdHashProofs` | `TypeCorrect` | `Spec => []TypeOK` |
| | `CountersCorrect` | `Spec => []CountersAgree`: the assertions on `m_` and `n_` hold |
| | `NothingLeft` | `Spec => ResultLeavesNothing` |
| | `Refinement` | `Spec => ImplementsHashAlgorithm`: `MdHash` implements `HashAlgorithm` |
| | `DistinctSeeds` | `Spec => []SeedsDiffer` |
| `KeccakProofs` | `TypeCorrect` | `Spec => []TypeOK`: what is not yet absorbed is blank, and a finalized object has nothing to absorb |
| | `Refinement` | `Spec => ImplementsSponge`: `Keccak` implements `Sponge` |
| | `DistinctKeys` | `Spec => []KeysDiffer` |
| `Blake2Proofs` | `TypeCorrect` | `Spec => []TypeOK` |
| | `Splits` | `Spec => []SplitsDoNotMatter` |
| | `Counted` | `Spec => []BytesCounted`: through the carry between the two words |
| | `FirstIsRFC` | `Spec => []FirstIsRFC7693` |
| | `DistinctKeys` | `Spec => []KeysDiffer` |
| `AnyHashProofs` | `TypeCorrect` | `Spec => []TypeOK` |
| | `FirstIsRFC` | `Spec => []FirstIsRFC2104` |
| | `Refinement` | `Spec => ImplementsHashAlgorithm`: hmac<H> is a hash algorithm |
| | `DistinctKeys` | `Spec => []SameInstanceKeys` |
| | `AppendTyped` | `AppendSpec => []AppendTypeOK` |
| | `EqualAgree` | `AppendSpec => []EqualObjectsAgree`: equal objects of any type give one message on all platforms |
| | `ReadableDiffer` | `AppendSpec => []ReadableObjectsDiffer`: others give others, if messages can be read from one end |
| | `Extending` | `AppendSpec => AppendExtends`: every object appends something |
| `TailHashProofs` | `Splits` | `Spec => []SplitsDoNotMatter` |
| | `TypeCorrect` | `Spec /\ NoWrap => []TypeOK`: no byte nobody wrote counts |
| | `Counters` | `Spec /\ NoWrap => []CountersAgree` |
| | `FreshResults` | `Spec => ResultsDiffer` |
| | `Committed` | `Spec /\ []Countable => []DigestIsOfMessage` |
| | `DistinctKeys` | `Spec => []KeysDifferButForZeroes` |
| | `DistinctSeeds` | `Spec => []WideSeedsDiffer` |
| `Fnv1aProofs` | `TypeCorrect` | `Spec => []TypeOK`: also of the integers `get_integral_result` makes |
| | `OneUpdate` | `Spec => []AsOneUpdate`: neither the split nor the place of a result matters beyond the byte it stands for |
| | `DistinctResults` | `Spec => []ResultsDiffer`: four results in a row differ from each other |
| | `DifferentParts` | `Spec => []PartsDiffer` |
| | `Apart` | `Spec => StatesStayApart` |
| | `Uniformly` | `Spec => []ContractionsAreUniform` |
| `Xxh3Proofs` | `TypeCorrect` | `Spec => []TypeOK` |
| | `Splits` | `Spec => []Streamed` |
| | `InOnePiece` | `Spec => DigestInBlock` |
| | `FreshResults` | `Spec => ResultsDiffer` |
| | `WholeProduct` | `FullProduct`: `mul128_impl` is exact |
| | `ShortDigests` | every short digest of xxh3 reads all of its message and nothing else |

`MdHash`: the theorems hold for all ten classes and all block sizes, counter widths, inputs and seeds
under the named assumptions of the module: a block longer than the counter (`SizeAssumption`), a
counter range that is a multiple of the double block (`CounterAssumption`; 128 divides 2^64), powers
of the byte's range that are positive (`RadixAssumption`), inputs that are sequences of bytes, and a
`NoDigest` that is not a digest. `CountersAgree` alone is not inductive, since the next `m` depends
on the buffer having its size and `m` being below it. The invariant is `TypeOK` together with
`Counted`, the statement that `n` is the number of absorbed bytes modulo its range; `m = n % b`
follows since the block divides the range. Three lemmas carry every theorem: `update` either fills
the buffer or completes a block, in both cases the object has absorbed the concatenation; the
padding completes exactly the block the length ends; and a construction is `update` and `result` of
an empty object. The refinement maps `message` to the bytes of the absorbed blocks followed by the
first `m` of the buffer. For `SeedsDiffer`, the blocks an object is constructed with are the seed,
one byte 0x80, zeroes and a field of fixed length: the seed ends where the last byte that is not
zero stands before that field, so the blocks determine it.

`Keccak`: for every rate, any two nonempty padding bytes that share no bit (`PaddingAssumption`), and
inputs and keys of bytes. The hard part is that `update` does not write but adds: exclusive or with
the state is the byte itself only where the state is blank, and `result` leaves it otherwise. The
invariant says where it is blank, from `m_` on unless the object is finalized, and that a finalized
object has `m_ = 0`; `update` after `result` then starts from a new block. The delimiter and the
last bit are two bytes, or, when the message leaves one byte of the rate, one that holds both.
For `KeysDiffer`, two keys whose padded forms agree are of one length: where the longer one has its
delimiter, the shorter one has a blank byte or the last bit.

`Blake2`: for every even block of at least two bytes that a word can count (`block_size < Word`). The
invariant is `TypeOK`, `SplitsDoNotMatter` and `StartsFresh` (a construction or a result leaves nothing
in the buffer or, with a key, one block; one that has compressed nothing has counted nothing):
none of the first two is inductive alone, since where a full buffer is compressed depends on whether
more follows. One lemma gives `update` in closed form: of everything held and passed, all blocks but
the last are compressed, each with the count at its end; the last one, full or not, stays.
Closed forms compose, which is `SplitsDoNotMatter`, and the count is a number modulo the square of a
word written as two words (`BytesCounted`), which is where the carry is. `KeysDiffer` compares the first
blocks the constructors prescribe and, for keys that differ in zeroes only, the lengths in the
parameter word.

`Hmac`: for every algorithm H that keeps the promise of `HashAlgorithm`, with any size of its blocks
and results, neither bound by the other, and keys of any length. What an object absorbs is a
sequence of values and of finalizations that refer to such sequences again, so no set of all of them
can be named; the type of a sequence is that it is one over its own elements. `FirstIsRFC2104` needs
what both objects hold before the first result (`BeforeResult`), the refinement that `inner_` holds
the message and that the digest of `outer_` commits to it. `KeyAssumption` says no more of a key than that
its bytes are given or are those of digests. Of two keys that pad alike, two of at most a block differ in
zeroes at the end; two longer ones have the same digest, which tells what it was made of since H has no
collisions, and are the same; and of a longer and a shorter one the shorter is the digest
(`KeysApart`).

`TailHash`: for all seven classes, for every size of block, counter, byte and word under
`SizeAssumption` (a block divides the range of `n_`, but for spooky2) and keys that `n_` can count.
What an object has taken in is kept as the blocks that can be cut from what it held followed by what
was passed, and the rest (`Took`): cutting again what was left after a first cut is cutting the whole
once, so parts compose. `Splits` says nothing of what the bytes are and so holds for uninitialized
buffers too, and through every wrap of `n_`, with the invariant `Taken`. `TypeOK` and `CountersAgree`
share the invariant `Sound`: each byte that counts was written, `n_ % N = m_`. They are not invariants
of spooky2 without `NoWrap`: 192 does not divide the range of `n_`, and after a wrap inside `update`
`m_` and `n_` disagree, `result` fills the buffer from a wrong place and hashes what is there. `NoWrap`
says that no `update` of a behaviour takes spooky2 past the range of `n_`; it asks nothing of the other six, and
`result`, which rounds `n_` up, sets it to zero when that wraps. `ResultsDiffer` compares what a
second result right after the first takes in: a further block, or, of murmur3, whose words stay, an
`n_` that has moved on.

`DigestIsOfMessage` is read backwards from the digest: the blocks in the words are the whole blocks of
the message (`StateTells`), and the tail is returned (xxhash, murmur3), or copied into a last block
with a low byte of its length. Two tails that agree there have lengths that differ by a multiple of
`Radix`, and both are shorter than a block, which is shorter than `Radix`; so they are equal, where
without the byte they could differ in zeroes (`SiphashTells`, `SpookyTells`). xxhash shorter than a
block returns the message itself, and spooky2 marks it as short. `Countable` says that `n_` can count
every message looked at since the object was constructed, which every state of `tail_hash`
satisfies; two messages whose lengths differ by the range of `n_` may otherwise end alike. It implies
`NoWrap`. `KeysDifferButForZeroes` rests on the same lemmas, since a key that is hashed leaves what
its digest was made of; a key that only fills the seed leaves no words, and `Mixed`
of a key that is not empty always does.
`WideSeedsDiffer` needs that the digits of a word determine it, dropping one at a time from the
highest; the provers know nothing of `^`, so `PowerAssumption` states what it means.

`Xxh3`: for all sizes under `SizeAssumption` (the shortest secret has room for a stripe and four parts, four stripes
hold a short message and the counter can count them), all constructions, lengths and bounds.
`Streamed` is not inductive: how many stripes were taken in is not in the object, and what
completes the last stripe must also be kept while the buffer holds more than a stripe, for a later
update may go on from there. The invariant `Inv` says, before the first result, that there is a
number `d` of stripes such that the object holds the message (`Holds`): the accumulator and the place
in the secret are those after `d` stripes (`InStep`); the first `m_` bytes of the buffer are the rest of
the message; while they do not reach the last stripe of the buffer, it holds the last stripe taken
in (`Follows`); and a stripe was only taken in because more than a buffer was there, so the rest is
never empty. `update` is a composition of four steps, each of which keeps this for the message so far:
filling the buffer, taking in its four stripes, taking in whole stripes of the call, and copying the
rest (`FilledIs`, `EmptiedIs`, `AbsorbIs`). One stripe adds one step to `Accumulated`, or two where the
secret ends (`AccumulatedNext`). For `DigestInBlock`, the held stripes continue
`Accumulated` exactly as `Consume` would as long as none of them uses up the secret (`HeldContinue`), which is the
condition `InBlock` and where the finding `xxh3_split` begins. `ResultsDiffer` is an equivalence. An
empty message moves the seed and a long one the length of the accumulator, so their digests differ
(`OthersDiffer`). Of a short one the seed and the secret stay, and the digest is the same exactly when
its bytes in the buffer are, whichever of them the digest changed (`ShortRepeats`).

`Fnv1a`: they hold for words and bytes of any width, any basis, any prime that is 3 modulo 4 and
invertible (an odd number is, modulo a power of two; `WordAssumption` states it), and any number
of objects, under what exclusive or with a byte does to a word (`XorAssumption`). `StatesStayApart`
is that xor and multiplication by an invertible number are injective, which lifts from a byte to
`update` by induction over the bytes. For `ResultsDiffer`, `advance` is complement of the low byte
and a multiplication by 3 modulo 4, so the two low bits of the word run through a cycle of four; the
invariant adds that the results drawn are consecutive words and the last of them leads to the
present one. `ContractionsAreUniform` counts without a sum: multiplication by an invertible number is a
bijection of the wide words, and the words with the highest digits `t` are an interval, as long for
each `t`; so the results that give `t` are as many (`ContractsTo`). `MultiplierAssumption` says that
each multiplier of `get_integral_result` is invertible, as an odd number is modulo a power of two, and
that the values of a wide word are those of its upper and lower digits.

`HashAppend`: for all types of any nesting, any number of elements `size_type` can count, any bytes, flavors and
platforms. `TypesAssumption` says what C++ guarantees of types: none contains itself, numbers have a
size, arrays of C have elements of one type, no part is larger than the object, a `size_type` can be
the index of a variant, and a class specialized as `is_trivially_equality_comparable` holds numbers
only, without padding. A definition that calls itself for the parts of a type is a function
of types; by approximations of growing depth each of them is shown to satisfy its own equation
(`WithinIs`, `ObjectsIs`, `EqualIs`, `MemoryIs`, `HashableIs`, `HashAppendIs`), and what holds of a type
if it holds of its parts holds of all (`TypeInduction`).

`MessageIs` is such an induction: whatever the platform, and whether memory is passed or members are
visited, an object's message is the one the compiler would produce for the byte order asked for
(`Compiled`). The case that has to be right is memory: it is only passed if the order of the bytes is
that of the flavor all the way down. What remains of `EqualObjectsAgree` is that equal objects have
equal messages; the one case that is not part by part is a set, where the bijection between equal
elements permutes the bag of their messages (`BagPermuted`).

`ReadableObjectsDiffer` is not inductive: two messages that differ may agree once different objects are
appended to them, which is how the finding `append_ambiguous` comes about. The invariant `AppendInv` says that
the hashers of different objects are *apart*: read from the end (`ApartBack`) if sizes come last,
from the beginning (`ApartFront`) if flags come first, they come to a place where both have a token and the tokens
are not the same. `Different` shows, by induction over types, that the messages of two objects of a
type are the same or apart, and are the same of equal objects only. That is what can be appended, one to
another (`ApartJoined`): what is read first decides, and if it is the same, what is next to it. The size of a container is
read before its elements from the end, the flag of an optional and the index of a variant before the value
from the beginning. For sets, bags that agree give back the bijection (`BagSame`); digits
determine a number (`WordsApart`).

`Mul128`: with `h` the range of a half-word, no product of halves exceeds `(h - 1)^2`, and neither
`cross` nor `upper` reaches `h^2`.

Induction over data is done without the library's operator-parameterised theorems: a predicate is
given as the set of its counterexamples below a bound, and strict inclusion of the intervals they
start from is well-founded (`Induction`, `LeastNumber`); `Recursion` derives from it that a
function given by its first value and the step to the next one exists, so a recursive definition
satisfies its own equation.

Every property of every run but the four violations, which are findings, is the subject of a theorem. What
the proofs take from the models is what the models leave free; what the recursive operators of the `MC` modules compute is
TLC's alone. Liveness and `ENABLED` would be out of the prover's reach, but the system has none.

## Not modelled

* The arithmetic of the compression functions and final mixes, which are free, and the truncation
  of digests; with it `read`, rotations and byte order but for `write`.
* `digest`, an array of bytes with comparison and formatting, and the overload of
  `get_integral_result` for it, which reads its first 8 bytes.
* The variants of `mul128` that use the compiler's 128-bit type or an instruction. The one for
  ARM64 (`detail/mul128.hpp:72-86`) opens a second `mul128_impl` inside of `mul128`, which reads like
  a slip and cannot compile there; no model can be run against it.
* `tag_invoke` beyond the documentation's example, since it runs a user's code.
* Containers of more elements than `size_type` holds, and buffers longer than the range of `n_` in
  xxhash and spooky2.
* Macros and traits that select overloads, which appear as fields of the types in `HashAppend`;
  examples, benchmarks, tests and build files.
* Failure and concurrency: no operation reports an error, blocks, waits or persists anything.

## Plan

* Models: composition of `HashAppend` with a buffered algorithm, so that copies of a hasher with
  bytes in its buffer are covered.
