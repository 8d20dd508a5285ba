------------------------------- MODULE TailHash -------------------------------
(***************************************************************************)
(* The hash algorithms that finalize the buffered tail of the message      *)
(* without padding it by update: siphash.hpp, xxhash.hpp,                  *)
(* legacy/murmur3.hpp and legacy/spooky2.hpp.  They share one update; what *)
(* result absorbs, returns and leaves behind is different in each.         *)
(*                                                                         *)
(*   siphash_32, siphash_64, xxhash_32, xxhash_64,                         *)
(*   murmur3_32, murmur3_128, spooky2_128                                  *)
(*                                                                         *)
(* The arithmetic is free: an object keeps what it was seeded with and the *)
(* sequence of what its words have taken in since.  Only the sum by which  *)
(* xxhash_32 mixes the halves of an integral seed is computed: it is where *)
(* seeds can meet.  The buffers of murmur3 and spooky2 are not initialized:*)
(* their bytes are Garbage until a call writes them.                       *)
(*                                                                         *)
(* The definitions named AbsorbLate, WipeUncounted, SiphashTailBare,       *)
(* XxhashStill, SpookyReadsBlock and LowHalf are slips of the definition   *)
(* after each, which the properties must tell from it.                     *)
(***************************************************************************)
EXTENDS ByteBlocks

CONSTANTS
  Algorithm,   (* the algorithms looked at                                 *)
  Size,        (* of each, the bytes in a block: 4 to 32, spooky2_128 192  *)
  HalfBytes,   (* bytes in half of an integral seed: 4                     *)
  P2,          (* the prime of xxhash_32                                   *)
  Radix,       (* the values of a byte: 256                                *)
  SizeMod,     (* the range of n_                                          *)
  Input,       (* the byte sequences a caller may pass to update           *)
  Key,         (* the byte sequences a caller may construct with           *)
  Seed,        (* the integers a caller may construct with: their halves,  *)
               (* lower half first                                         *)
  MaxBytes,    (* bound: a text that long is not extended                  *)
  MaxResults,  (* bound: the calls of result                               *)
  Garbage,     (* a byte nobody wrote                                      *)
  NoDigest     (* no result was called yet                                 *)

ASSUME AlgorithmAssumption ==
  Algorithm \subseteq {"siphash_32", "siphash_64", "xxhash_32", "xxhash_64",
                       "murmur3_32", "murmur3_128", "spooky2_128"}
ASSUME SizeAssumption ==
  /\ Size \in [Algorithm -> Nat]
  /\ \A a \in Algorithm : 1 < Size[a] /\ Size[a] < SizeMod /\ Size[a] < Radix
  /\ \A a \in Algorithm \ {"spooky2_128"} : SizeMod % Size[a] = 0
  /\ "spooky2_128" \in Algorithm => Size["spooky2_128"] % 2 = 0
  /\ {SizeMod, Radix, HalfBytes, P2} \subseteq Nat \ {0}
  /\ \A i \in 0 .. HalfBytes : Radix ^ i \in Nat \ {0}
ASSUME PowerAssumption ==   (* of the powers of Radix, what ^ means *)
  Radix ^ 0 = 1 /\ \A i \in 0 .. HalfBytes - 1 : Radix ^ (i + 1) = Radix * Radix ^ i
ASSUME BoundAssumption == MaxBytes \in Nat /\ MaxResults \in Nat

Byte    == 0 .. Radix - 1
HalfMod == Radix ^ HalfBytes

Siphash == {"siphash_32", "siphash_64"}
Xxhash  == {"xxhash_32", "xxhash_64"}
Murmur3 == {"murmur3_32", "murmur3_128"}

ASSUME InputAssumption ==
  /\ Input \subseteq Seq(Byte) /\ Key \subseteq Seq(Byte)
  /\ \A p \in Key : Len(p) < SizeMod
ASSUME SeedAssumption == Seed \subseteq (0 .. HalfMod - 1) \X (0 .. HalfMod - 1)

(* The bytes an object is seeded with: one word of 4 bytes, two of them or *)
(* one of 8, or two of 8.                                                  *)
SeedSize ==
  [a \in Algorithm |->
     HalfBytes * (IF a \in {"xxhash_32", "murmur3_32"} THEN 1
                  ELSE IF a \in {"siphash_32", "xxhash_64"} THEN 2 ELSE 4)]

VARIABLES
  alg,      (* the algorithm of the object, fixed by its type              *)
  h,        (* the object                                                  *)
  start,    (* history: the object as construction or a result left it     *)
  text,     (* history: the bytes passed to update since                   *)
  results,  (* history: the calls of result                                *)
  digest    (* what the last one returned                                  *)

vars == <<alg, h, start, text, results, digest>>

------------------------------------------------------------------------------
(* Objects *)

Token(op, bytes, n) == [op |-> op, bytes |-> bytes, n |-> n]

(* spooky2_128 takes in a block as two halves. *)
Unit(a) == IF a = "spooky2_128" THEN Size[a] \div 2 ELSE Size[a]

Initialized(a) == a \in Siphash \cup Xxhash

(* An object whose words are seeded by these bytes. *)
seeded(a, seed) ==
  [seed |-> seed, state |-> << >>, m |-> 0, n |-> 0,
   buffer |-> IF Initialized(a) THEN Zeroes(Size[a]) ELSE [i \in 1 .. Size[a] |-> Garbage]]

Default(a) == seeded(a, Zeroes(SeedSize[a]))

(* update_( p, k ) *)
update_(a, o, p) ==
  LET units == Blocks(Unit(a), p) IN
  [o EXCEPT !.state = @ \o [j \in 1 .. Len(units) |-> Token("block", units[j], 0)]]

(* A full buffer; only siphash clears it. *)
Flush(a, o) ==
  [update_(a, o, o.buffer) EXCEPT
     !.m = 0, !.buffer = IF a \in Siphash THEN Zeroes(Size[a]) ELSE @]

(* With an empty buffer: the whole blocks, and a copy of the rest. *)
AbsorbLate(a, o, q) ==
  LET r == IF Len(q) = 0 THEN 0 ELSE 1 + ((Len(q) - 1) % Size[a]) IN
  [update_(a, o, SubSeq(q, 1, Len(q) - r)) EXCEPT
     !.buffer = CopyTo(@, 0, SubSeq(q, Len(q) - r + 1, Len(q))), !.m = r]
Absorb(a, o, q) ==
  LET r == Len(q) % Size[a] IN
  [update_(a, o, SubSeq(q, 1, Len(q) - r)) EXCEPT
     !.buffer = CopyTo(@, 0, SubSeq(q, Len(q) - r + 1, Len(q))), !.m = r]

update(a, o, p) ==
  LET c == [o EXCEPT !.n = (@ + Len(p)) % SizeMod]
      k == IF Len(p) < Size[a] - o.m THEN Len(p) ELSE Size[a] - o.m
      filled == [c EXCEPT !.buffer = CopyTo(@, o.m, SubSeq(p, 1, k)), !.m = @ + k]
  IN  IF o.m = 0 THEN Absorb(a, c, p)
      ELSE IF filled.m < Size[a] THEN filled
      ELSE Absorb(a, Flush(a, filled), SubSeq(p, k + 1, Len(p)))

------------------------------------------------------------------------------
(* Results: what is returned, and the object that is left *)

Held(o) == SubSeq(o.buffer, 1, o.m)

(* n_ is rounded up, the buffer is empty and holds nothing. *)
WipeUncounted(a, o) == [o EXCEPT !.m = 0, !.buffer = Zeroes(Size[a])]
Wipe(a, o) ==
  [o EXCEPT !.n = (@ + Size[a] - o.m) % SizeMod, !.m = 0, !.buffer = Zeroes(Size[a])]

(* siphash: the tail, zeroes and the low byte of n_ make a last block. *)
SiphashTailBare(a, o) == CopyTo(Zeroes(Size[a]), 0, Held(o))
siphash_tail(a, o) ==
  CopyTo(CopyTo(Zeroes(Size[a]), 0, Held(o)), Size[a] - 1, <<o.n % Radix>>)
siphash_last(a, o) ==
  [o EXCEPT !.state = @ \o <<Token("block", siphash_tail(a, o), 0), Token("end", << >>, 0)>>]

(* xxhash: the hash of the four words, or of the third of them when no      *)
(* block was taken in, with n_ and the tail; all words are perturbed by it. *)
Third(a, state) ==
  LET w == Size[a] \div 4 IN
  [j \in 1 .. Len(state) |->
     IF state[j].op = "block"
     THEN [state[j] EXCEPT !.bytes = SubSeq(@, 2 * w + 1, 3 * w)] ELSE state[j]]
XxhashStill(o) == o
xxhash_perturb(o) == [o EXCEPT !.state = Append(@, Token("perturb", Held(o), o.n))]

(* spooky2_128: a message shorter than a block is hashed from the buffer,  *)
(* of which n_ bytes are read; of a longer one, a last half block is the   *)
(* tail with zeroes and its length.                                        *)
SpookyReadsBlock(o) == SubSeq(o.buffer, 1, Size["spooky2_128"])
spooky2_short(o) == SubSeq(o.buffer, 1, o.n)
spooky2_last(o) ==
  LET half == Unit("spooky2_128")
      most == IF o.m >= half THEN SubSeq(o.buffer, 1, half) ELSE << >>
      rest == SubSeq(o.buffer, Len(most) + 1, o.m)
      end  == CopyTo(CopyTo(Zeroes(half), 0, rest), half - 1, <<Len(rest) % Radix>>)
  IN  IF o.n < Size["spooky2_128"]
      THEN [o EXCEPT !.state = Append(@, Token("short", spooky2_short(o), o.n))]
      ELSE [update_("spooky2_128", o, most) EXCEPT !.state = Append(@, Token("end", end, 0))]

(* It wraps n_ to zero, not to what the sum leaves. *)
spooky2_wrap(o) == IF o.n < Size["spooky2_128"] THEN [o EXCEPT !.n = 0] ELSE o

Digest(o, state, tail, n) == [seed |-> o.seed, state |-> state, tail |-> tail, n |-> n]

(* murmur3 hashes its words, the tail and n_, and leaves its words alone. *)
ResultOf(a, o) ==
  CASE a \in Siphash -> Digest(o, siphash_last(a, o).state, << >>, 0)
    [] a \in Xxhash  -> Digest(o, IF o.n >= Size[a] THEN o.state ELSE Third(a, o.state), Held(o), o.n)
    [] a \in Murmur3 -> Digest(o, o.state, Held(o), o.n)
    [] a = "spooky2_128" -> Digest(o, spooky2_last(o).state, << >>, 0)

result(a, o) ==
  CASE a \in Siphash -> Wipe(a, siphash_last(a, o))
    [] a \in Xxhash  -> Wipe(a, xxhash_perturb(o))
    [] a \in Murmur3 -> Wipe(a, o)
    [] a = "spooky2_128" -> spooky2_wrap(Wipe(a, spooky2_last(o)))

------------------------------------------------------------------------------
(* Construction from a byte sequence *)

Pad(k, p) == CopyTo(Zeroes(k), 0, p)

Mixed(a, o, p) == IF p = << >> THEN o ELSE result(a, update(a, o, p))

siphash_key(a, p) ==
  IF Len(p) = SeedSize[a] THEN seeded(a, p) ELSE Mixed(a, Default(a), p)

xxhash_key(a, p) == Mixed(a, Default(a), p)

(* The first bytes are the seed and the rest is hashed. *)
Split(a, k, p) ==
  IF Len(p) <= k THEN seeded(a, Pad(k, p))
  ELSE Mixed(a, seeded(a, SubSeq(p, 1, k)), SubSeq(p, k + 1, Len(p)))

murmur3_32_key(p) == Split("murmur3_32", SeedSize["murmur3_32"], p)

murmur3_128_key(p) ==
  LET k == SeedSize["murmur3_128"] IN
  IF Len(p) <= k \div 2
  THEN seeded("murmur3_128", Pad(k \div 2, p) \o Pad(k \div 2, p))
  ELSE Split("murmur3_128", k, p)

spooky2_key(p) == Split("spooky2_128", SeedSize["spooky2_128"], p)

construct(a, p) ==
  CASE a \in Siphash     -> siphash_key(a, p)
    [] a \in Xxhash      -> xxhash_key(a, p)
    [] a = "murmur3_32"  -> murmur3_32_key(p)
    [] a = "murmur3_128" -> murmur3_128_key(p)
    [] a = "spooky2_128" -> spooky2_key(p)

------------------------------------------------------------------------------
(* Construction from integers, given by their halves *)

(* The bytes of a word, and of an integral seed. *)
HalfWord(v) == [i \in 1 .. HalfBytes |-> (v \div Radix ^ (i - 1)) % Radix]
LowHalf(s) == HalfWord(s[1]) \o Zeroes(HalfBytes)
Bytes64(s) == HalfWord(s[1]) \o HalfWord(s[2])

(* round( v_i, s1 ) is a bijection of v_i + s1 * P2, and v_i of s0 + v_i: *)
(* after the four rounds the words hold nothing but the sum of both.       *)
xxhash_32_seed(s) ==
  IF s[2] = 0 THEN seeded("xxhash_32", HalfWord(s[1]))
  ELSE [seeded("xxhash_32", HalfWord((s[1] + s[2] * P2) % HalfMod))
          EXCEPT !.state = <<Token("round", << >>, 0)>>]

(* mix( h_, k ) is what update_ does to a block that holds k. *)
murmur3_32_seed(s) ==
  LET o == seeded("murmur3_32", HalfWord(s[1])) IN
  IF s[2] = 0 THEN o ELSE [o EXCEPT !.state = <<Token("block", HalfWord(s[2]), 0)>>]

(* murmur3_128( seed1, seed2 ), spooky2_128( seed1, seed2 ) *)
two_seeds(a, s, t) == seeded(a, Bytes64(s) \o Bytes64(t))

(* siphash_64 mixes the seed with half of its words, as a key whose second *)
(* half is zero.                                                           *)
from_integer(a, s) ==
  CASE a \in {"siphash_32", "xxhash_64"} -> seeded(a, Bytes64(s))
    [] a = "siphash_64"  -> seeded(a, Bytes64(s) \o Zeroes(2 * HalfBytes))
    [] a = "xxhash_32"   -> xxhash_32_seed(s)
    [] a = "murmur3_32"  -> murmur3_32_seed(s)
    [] a = "murmur3_128" -> two_seeds(a, s, s)
    [] a = "spooky2_128" -> two_seeds(a, s, <<0, 0>>)

------------------------------------------------------------------------------
(* The specification *)

Init ==
  /\ alg \in Algorithm
  /\ \/ \E p \in Key : h = construct(alg, p)
     \/ \E s \in Seed : h = from_integer(alg, s)
     \/ /\ alg \in {"murmur3_128", "spooky2_128"}
        /\ \E s, t \in Seed : h = two_seeds(alg, s, t)
  /\ start = h
  /\ text = << >>
  /\ results = 0
  /\ digest = NoDigest

Update(p) ==
  /\ Len(text) < MaxBytes
  /\ h' = update(alg, h, p)
  /\ text' = text \o p
  /\ UNCHANGED <<alg, start, results, digest>>

Result ==
  /\ results < MaxResults
  /\ digest' = ResultOf(alg, h)
  /\ h' = result(alg, h)
  /\ start' = h'
  /\ text' = << >>
  /\ results' = results + 1
  /\ UNCHANGED alg

Next == (\E p \in Input : Update(p)) \/ Result

Spec == Init /\ [][Next]_vars

------------------------------------------------------------------------------
(* Properties *)

(* Type invariant: nothing an object took in or has buffered is Garbage,   *)
(* so no uninitialized byte is ever read.                                  *)
TypeOK ==
  /\ h.m \in 0 .. Size[alg] - 1 /\ h.n \in 0 .. SizeMod - 1
  /\ Held(h) \in Seq(Byte)
  /\ h.state \in Seq([op : {"block", "end", "short", "perturb", "round"},
                      bytes : Seq(Byte), n : 0 .. SizeMod - 1])

(* m_ == n_ % N, which update and result assert on entry                   *)
(* (legacy/spooky2.hpp:282, 330, 335; the others alike).                   *)
CountersAgree == h.m = h.n % Size[alg]

(* What later calls can depend on. *)
Visible(o) == <<o.seed, o.state, Held(o), o.n>>

(* The way a message is split into parts does not matter: the object is    *)
(* what one update with the concatenation makes it                         *)
(* (hashing_bytes.adoc:122).                                               *)
SplitsDoNotMatter == Visible(h) = Visible(update(alg, start, text))

(* The digest is of the whole message: no other bytes passed to the same   *)
(* object give the same digest (hashing_objects.adoc:28 relies on it).     *)
DigestIsOfMessage ==
  \A p \in Input : \A k \in 0 .. Len(text) :
    LET q == SubSeq(text, 1, k) \o p IN
    (q # text /\ Len(q) <= MaxBytes) =>
      ResultOf(alg, update(alg, start, q)) # ResultOf(alg, h)

(* A second result, called at once, is not the first one again             *)
(* (hashing_bytes.adoc:159).                                               *)
ResultsDiffer == [][Result => ResultOf(alg, h') # digest']_vars

(* Different seed sequences produce differently initialized instances      *)
(* (hashing_bytes.adoc:104), up to zeroes at the end.  murmur3 drops the   *)
(* tail of a long key, in the call of result that ends construction.       *)
KeysDifferButForZeroes ==
  alg \notin Murmur3 =>
    \A p, q \in Key : Visible(construct(alg, p)) = Visible(construct(alg, q))
                        => WithoutZeroes(p) = WithoutZeroes(q)

(* Distinct seed values cause the internal state to be initialized         *)
(* differently (hashing_bytes.adoc:89), and 0 is no seed (line 87).        *)
SeedsDiffer ==
  /\ from_integer(alg, <<0, 0>>) = Default(alg)
  /\ \A s, t \in Seed :
       Visible(from_integer(alg, s)) = Visible(from_integer(alg, t)) => s = t

(* ... which xxhash_32 does not keep, and murmur3_32 cannot: its state is  *)
(* half as wide as the seed.                                               *)
WideSeedsDiffer == alg \notin {"xxhash_32", "murmur3_32"} => SeedsDiffer
==============================================================================
