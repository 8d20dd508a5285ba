------------------------------- MODULE MdHash --------------------------------
(***************************************************************************)
(* The hash algorithms that buffer a partial block, compress whole blocks  *)
(* and finalize with a one bit, zeroes and the length of the message:      *)
(* md5.hpp, sha1.hpp, ripemd.hpp and sha2.hpp.  They share one update and  *)
(* one scheme of result, and differ in what result writes as the length:   *)
(*                                                                         *)
(*   md5_128, ripemd_128, ripemd_160         a little-endian counter       *)
(*   sha1_160, sha2_224, sha2_256            a big-endian counter          *)
(*   sha2_384, sha2_512, sha2_512_224,       a big-endian counter of twice *)
(*   sha2_512_256                            the width, its upper half     *)
(*                                           always zero; blocks are twice *)
(*                                           as long                       *)
(*                                                                         *)
(* An object is a record of the class's data members.  The compression     *)
(* function is free: state is the sequence of the blocks it has absorbed.  *)
(* No code depends on the value of a byte.                                 *)
(*                                                                         *)
(* The definitions named CountNarrow, FlushUncleared, AbsorbLate,          *)
(* PaddingOffByOne and ConstructPadded are slips of the definition after   *)
(* each, which the properties must tell from it.                           *)
(***************************************************************************)
EXTENDS ByteBlocks

CONSTANTS
  N,         (* bytes in a block of md5 and sha1: 64                       *)
  L,         (* bytes of the counter n_: 8                                 *)
  ByteBits,  (* bits in a byte: 8                                          *)
  Input,     (* the byte sequences a caller may pass to update             *)
  Seed,      (* the byte sequences a caller may construct an object with   *)
  MaxBytes,  (* bound: an object that compressed that many is left alone   *)
  NoDigest   (* no result was called yet                                   *)

Radix      == 2 ^ ByteBits
Byte       == 0 .. Radix - 1
CounterMod == Radix ^ L

Little == {"md5_128", "ripemd_128", "ripemd_160"}
Big    == {"sha1_160", "sha2_224", "sha2_256"}
Wide   == {"sha2_384", "sha2_512", "sha2_512_224", "sha2_512_256"}

Algorithm == Little \cup Big \cup Wide

block_size == [a \in Algorithm |-> IF a \in Wide THEN 2 * N ELSE N]
length_size == [a \in Algorithm |-> IF a \in Wide THEN 2 * L ELSE L]

ASSUME SizeAssumption ==
  /\ N \in Nat /\ L \in Nat /\ ByteBits \in Nat
  /\ 0 < L /\ L < N /\ 0 < ByteBits
ASSUME RadixAssumption ==
  Radix \in Nat \ {0, 1} /\ \A i \in 0 .. L : Radix ^ i \in Nat \ {0}
ASSUME CounterAssumption == CounterMod % (2 * N) = 0
ASSUME InputAssumption == Input \subseteq Seq(Byte) /\ Seed \subseteq Seq(Byte)
ASSUME DigestAssumption == \A b \in {N, 2 * N} : NoDigest \notin BlockSeq(b, Byte)
ASSUME BoundAssumption == MaxBytes \in Nat

VARIABLES
  alg,    (* the algorithm of the object, fixed by its type                *)
  h,      (* the object: state_, buffer_, m_, n_                           *)
  digest  (* the blocks the last result's digest commits to                *)

vars == <<alg, h, digest>>

------------------------------------------------------------------------------
(* Bytes and counters *)

(* detail/write.hpp: the counter as bytes, lowest first, highest first *)
write64le(v) == [i \in 1 .. L |-> (v \div Radix ^ (i - 1)) % Radix]
write64be(v) == [i \in 1 .. L |-> (v \div Radix ^ (L - i)) % Radix]

(* n_ * 8, in the 64 bits of n_ *)
BitCount(n) == (n * ByteBits) % CounterMod

(* transform: a free compression function *)
transform(state, block) == Append(state, block)

------------------------------------------------------------------------------
(* The operations of an object with blocks of b bytes *)

Default(b) == [state |-> << >>, buffer |-> Zeroes(b), m |-> 0, n |-> 0]

(* n_ += n *)
CountNarrow(o, len) == [o EXCEPT !.n = (@ + len) % Radix ^ (L - 1)]
Count(o, len) == [o EXCEPT !.n = (@ + len) % CounterMod]

(* a full buffer is compressed and cleared *)
FlushUncleared(b, o) == [o EXCEPT !.state = transform(@, o.buffer), !.m = 0]
Flush(b, o) ==
  [o EXCEPT !.state = transform(@, o.buffer), !.buffer = Zeroes(b), !.m = 0]

(* with an empty buffer: the loop over whole blocks, and a copy of the rest *)
AbsorbLate(b, o, q) ==
  LET r == IF Len(q) = 0 THEN 0 ELSE 1 + ((Len(q) - 1) % b) IN
  [o EXCEPT !.state  = @ \o Blocks(b, SubSeq(q, 1, Len(q) - r)),
            !.buffer = CopyTo(@, 0, SubSeq(q, Len(q) - r + 1, Len(q))),
            !.m      = r]
Absorb(b, o, q) ==
  LET r == Len(q) % b IN
  [o EXCEPT !.state  = @ \o Blocks(b, q),
            !.buffer = CopyTo(@, 0, SubSeq(q, Len(q) - r + 1, Len(q))),
            !.m      = r]

(* Bytes left in the buffer are completed to a block first.  The early      *)
(* return of md5, sha1 and ripemd for n == 0, which sha2 does not have,     *)
(* changes nothing.                                                         *)
update(b, o, p) ==
  LET k      == IF Len(p) < b - o.m THEN Len(p) ELSE b - o.m
      filled == [Count(o, Len(p)) EXCEPT
                   !.buffer = CopyTo(@, o.m, SubSeq(p, 1, k)), !.m = @ + k]
  IN  IF o.m = 0 THEN Absorb(b, Count(o, Len(p)), p)
      ELSE IF filled.m < b THEN filled
      ELSE Absorb(b, Flush(b, filled), SubSeq(p, k + 1, Len(p)))

(* The one bit, and the zeroes that leave room for a length field of f      *)
(* bytes at the end of this block or of the next.                           *)
OneBit(k) == [i \in 1 .. k |-> IF i = 1 THEN Radix \div 2 ELSE 0]
PaddingOffByOne(b, f, m) ==
  OneBit(IF m <= b - f THEN b - f - m ELSE 2 * b - f - m)
padding(b, f, m) ==
  OneBit(IF m < b - f THEN b - f - m ELSE 2 * b - f - m)

finalize(b, o, field) ==
  update(b, update(b, o, padding(b, Len(field), o.m)), field)

(* result of each class *)
md5_128_result(o)    == finalize(N, o, write64le(BitCount(o.n)))
ripemd_128_result(o) == finalize(N, o, write64le(BitCount(o.n)))
ripemd_160_result(o) == finalize(N, o, write64le(BitCount(o.n)))
sha1_160_result(o)   == finalize(N, o, write64be(BitCount(o.n)))
sha2_224_result(o)   == finalize(N, o, write64be(BitCount(o.n)))
sha2_256_result(o)   == finalize(N, o, write64be(BitCount(o.n)))
sha2_384_result(o)     == finalize(2 * N, o, Zeroes(L) \o write64be(BitCount(o.n)))
sha2_512_result(o)     == finalize(2 * N, o, Zeroes(L) \o write64be(BitCount(o.n)))
sha2_512_224_result(o) == finalize(2 * N, o, Zeroes(L) \o write64be(BitCount(o.n)))
sha2_512_256_result(o) == finalize(2 * N, o, Zeroes(L) \o write64be(BitCount(o.n)))

result(a, o) ==
  CASE a = "md5_128"      -> md5_128_result(o)
    [] a = "ripemd_128"   -> ripemd_128_result(o)
    [] a = "ripemd_160"   -> ripemd_160_result(o)
    [] a = "sha1_160"     -> sha1_160_result(o)
    [] a = "sha2_224"     -> sha2_224_result(o)
    [] a = "sha2_256"     -> sha2_256_result(o)
    [] a = "sha2_384"     -> sha2_384_result(o)
    [] a = "sha2_512"     -> sha2_512_result(o)
    [] a = "sha2_512_224" -> sha2_512_224_result(o)
    [] a = "sha2_512_256" -> sha2_512_256_result(o)

(* Construction from a byte sequence.  A nonzero integral seed is          *)
(* construction from its L bytes, and seed 0 from none.                    *)
ConstructPadded(a, p) ==
  result(a, update(block_size[a], Default(block_size[a]),
                   CopyTo(Zeroes(block_size[a]), 0, p)))
construct(a, p) ==
  IF p = << >> THEN Default(block_size[a])
  ELSE result(a, update(block_size[a], Default(block_size[a]), p))

------------------------------------------------------------------------------
(* The specification: a caller constructs an object and calls it *)

Init ==
  /\ alg \in Algorithm
  /\ \E p \in Seed : h = construct(alg, p)
  /\ digest = NoDigest

Update(p) ==
  /\ Len(h.state) * block_size[alg] < MaxBytes
  /\ h' = update(block_size[alg], h, p)
  /\ UNCHANGED <<alg, digest>>

Result ==
  /\ Len(h.state) * block_size[alg] < MaxBytes
  /\ h' = result(alg, h)
  /\ digest' = h'.state
  /\ UNCHANGED alg

Next == (\E p \in Input : Update(p)) \/ Result

Spec == Init /\ [][Next]_vars

------------------------------------------------------------------------------
(* Properties *)

Object(b) ==
  [state : BlockSeq(b, Byte), buffer : Block(b, Byte),
   m : 0 .. b - 1, n : 0 .. CounterMod - 1]

(* Type invariant: between calls the object's members have their types and *)
(* the buffer is never full.                                               *)
TypeOK ==
  /\ alg \in Algorithm
  /\ h \in Object(block_size[alg])
  /\ digest \in {NoDigest} \cup BlockSeq(block_size[alg], Byte)

(* What an object has absorbed: its compressed blocks and its buffer. *)
Absorbed(b, o) == BytesOf(b, o.state) \o SubSeq(o.buffer, 1, o.m)

(* m_ == n_ % N, which update asserts when it is entered and when it       *)
(* returns (md5.hpp:233, 282), and n_ counts the bytes that were absorbed, *)
(* modulo its width, across the paddings of earlier results.               *)
CountersAgree ==
  /\ h.m = h.n % block_size[alg]
  /\ h.n = Len(Absorbed(block_size[alg], h)) % CounterMod

(* After result nothing of the message is left in the object but its       *)
(* compressed blocks (test/plaintext_leak.cpp), and the buffer is empty    *)
(* (the assertion m_ == 0 of result, md5.hpp:307).                         *)
ResultLeavesNothing ==
  [][Result => h'.buffer = Zeroes(block_size[alg]) /\ h'.m = 0]_vars

(* Different seed sequences produce differently initialized instances      *)
(* (hashing_bytes.adoc:104).                                               *)
SeedsDiffer ==
  \A p, q \in Seed : construct(alg, p) = construct(alg, q) => p = q

(* The padding the standards ask for: a one bit, as few zero bytes as make *)
(* the whole a multiple of the block, and the number of bits of the        *)
(* message in the width of the counter.                                    *)
StandardPadding(a, message) ==
  LET b     == block_size[a]
      bits  == (Len(message) * ByteBits) % CounterMod
      field == IF a \in Little THEN write64le(bits)
               ELSE IF a \in Wide THEN Zeroes(L) \o write64be(bits)
               ELSE write64be(bits)
      fits(z) == (Len(message) + 1 + z + length_size[a]) % b = 0
      z     == CHOOSE z \in 0 .. b - 1 : fits(z)
  IN  <<Radix \div 2>> \o Zeroes(z) \o field

Constructed(a) ==
  {IF p = << >> THEN << >> ELSE p \o StandardPadding(a, p) : p \in Seed}

Promise == INSTANCE HashAlgorithm WITH
  Type <- Algorithm,
  Initial <- Constructed,
  Finalization <- StandardPadding,
  type <- alg,
  message <- Absorbed(block_size[alg], h),
  digest <- IF digest = NoDigest THEN NoDigest
            ELSE BytesOf(block_size[alg], digest)

(* Whatever the chunks the message arrives in, the object stands for their *)
(* concatenation, and each result absorbs the standard padding of all it   *)
(* was given so far and returns a digest of exactly that                   *)
(* (hashing_bytes.adoc:122, 151).                                          *)
ImplementsHashAlgorithm == Promise!ASpec
==============================================================================
