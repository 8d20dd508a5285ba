-------------------------------- MODULE Keccak ---------------------------------
(***************************************************************************)
(* keccak_base of sha3.hpp: sha3_224 ... sha3_512, shake_128, shake_256.   *)
(* There is no buffer: the bytes of a message are added to the state by    *)
(* exclusive or as they come, and m_ is the place of the next one.         *)
(*                                                                         *)
(* A byte is the set of its one bits, so that exclusive or is the          *)
(* symmetric difference and the two ends of the padding may share a byte.  *)
(* The permutation is free: a state is the sequence of the blocks that     *)
(* were added to it before each permutation, and what was added since.     *)
(*                                                                         *)
(* The definitions named PermuteLate, PadBare and FreshOnce are slips of   *)
(* the definition after each, which the properties must tell from it.      *)
(***************************************************************************)
EXTENDS ByteBlocks

CONSTANTS
  Algorithm,   (* the algorithms: names                                    *)
  Rate,        (* of each, block_size: the bytes between permutations      *)
  Delim,       (* of each, PaddingDelim: 0x06 for sha3, 0x1f for shake     *)
  LastBit,     (* 0x80                                                     *)
  Bits,        (* the bits of a byte                                       *)
  Input,       (* the byte sequences a caller may pass to update           *)
  Key,         (* the byte sequences a caller may construct with           *)
  MaxBytes,    (* bound: a state that absorbed that many is left alone     *)
  NoDigest     (* no result was called yet                                 *)

Byte == SUBSET Bits

ASSUME RateAssumption == Rate \in [Algorithm -> Nat \ {0}]
ASSUME PaddingAssumption ==
  /\ Delim \in [Algorithm -> Byte \ {{}}] /\ LastBit \in Byte \ {{}}
  /\ \A a \in Algorithm : Delim[a] \cap LastBit = {}
ASSUME InputAssumption == Input \subseteq Seq(Byte) /\ Key \subseteq Seq(Byte)
ASSUME DigestAssumption == \A a \in Algorithm : NoDigest \notin BlockSeq(Rate[a], Byte)
ASSUME BoundAssumption == MaxBytes \in Nat

VARIABLES
  alg,     (* the algorithm of the object, fixed by its type               *)
  h,       (* the object: state_, m_, finalized_                           *)
  digest   (* the blocks the last result's digest commits to               *)

vars == <<alg, h, digest>>

------------------------------------------------------------------------------
(* The state *)

Blank(r) == [i \in 1 .. r |-> {}]

Xor(x, y) == (x \ y) \cup (y \ x)

(* state_[ m + i ] ^= p[ i ] *)
Add(added, m, p) ==
  [i \in 1 .. Len(added) |->
     IF m < i /\ i <= m + Len(p) THEN Xor(added[i], p[i - m]) ELSE added[i]]

keccak_permute(o) ==
  [o EXCEPT !.blocks = Append(@, o.added), !.added = Blank(Len(@))]

Default(r) == [blocks |-> << >>, added |-> Blank(r), m |-> 0, finalized |-> FALSE]

------------------------------------------------------------------------------
(* Operations *)

(* With m_ = 0: the whole blocks, and then the rest. *)
PermuteLate(r, o, q) ==
  LET rest == IF Len(q) = 0 THEN 0 ELSE 1 + ((Len(q) - 1) % r) IN
  [o EXCEPT !.blocks = @ \o Blocks(r, SubSeq(q, 1, Len(q) - rest)),
            !.added  = Add(@, 0, SubSeq(q, Len(q) - rest + 1, Len(q))),
            !.m      = rest]
Absorb(r, o, q) ==
  LET rest == Len(q) % r IN
  [o EXCEPT !.blocks = @ \o Blocks(r, q),
            !.added  = Add(@, 0, SubSeq(q, Len(q) - rest + 1, Len(q))),
            !.m      = rest]

(* An update that absorbs nothing still ends the squeezing. *)
update(r, o, p) ==
  LET k     == IF Len(p) < r - o.m THEN Len(p) ELSE r - o.m
      fresh == [o EXCEPT !.finalized = FALSE]
      added == [fresh EXCEPT !.added = Add(@, o.m, SubSeq(p, 1, k)), !.m = @ + k]
  IN  IF o.m = 0 THEN Absorb(r, fresh, p)
      ELSE IF added.m < r THEN added
      ELSE Absorb(r, [keccak_permute(added) EXCEPT !.m = 0], SubSeq(p, k + 1, Len(p)))

PadBare(r, o, delim) == Add(o.added, r - 1, <<LastBit>>)
pad(r, o, delim) == Add(Add(o.added, o.m, <<delim>>), r - 1, <<LastBit>>)

result(r, o, delim) ==
  keccak_permute(
    IF o.finalized THEN o
    ELSE [o EXCEPT !.added = pad(r, o, delim), !.m = 0, !.finalized = TRUE])

(* The constructors of the six classes; a nonzero integral seed is the     *)
(* sequence of its bytes, and seed 0 the empty one.                        *)
FreshOnce(a, p) ==
  IF p = << >> THEN Default(Rate[a])
  ELSE result(Rate[a], update(Rate[a], Default(Rate[a]), p), Delim[a])
construct(a, p) ==
  IF p = << >> THEN Default(Rate[a])
  ELSE update(Rate[a],
         result(Rate[a], update(Rate[a], Default(Rate[a]), p), Delim[a]), << >>)

------------------------------------------------------------------------------
(* The specification *)

Init ==
  /\ alg \in Algorithm
  /\ \E p \in Key : h = construct(alg, p)
  /\ digest = NoDigest

Update(p) ==
  /\ Len(h.blocks) * Rate[alg] < MaxBytes
  /\ h' = update(Rate[alg], h, p)
  /\ UNCHANGED <<alg, digest>>

Result ==
  /\ Len(h.blocks) * Rate[alg] < MaxBytes
  /\ h' = result(Rate[alg], h, Delim[alg])
  /\ digest' = h'.blocks
  /\ UNCHANGED alg

Next == (\E p \in Input : Update(p)) \/ Result

Spec == Init /\ [][Next]_vars

------------------------------------------------------------------------------
(* Properties *)

Object(r) ==
  [blocks : BlockSeq(r, Byte), added : Block(r, Byte),
   m : 0 .. r - 1, finalized : BOOLEAN]

BlankFrom(r, x, m) == \A i \in m + 1 .. r : x[i] = {}

(* Nothing was added at or after m_, and a finalized object has nothing to *)
(* absorb.                                                                 *)
Clean(r, o) == BlankFrom(r, o.added, o.m) /\ (o.finalized => o.m = 0)

(* Type invariant: between calls m_ is a place in a block, and an update   *)
(* can add to the state from there on as if it wrote to it.                *)
TypeOK ==
  /\ alg \in Algorithm
  /\ h \in Object(Rate[alg]) /\ Clean(Rate[alg], h)
  /\ digest \in {NoDigest} \cup BlockSeq(Rate[alg], Byte)

(* The padding of FIPS 202: the domain bits and a one bit, zeroes, and a   *)
(* one bit at the end of a block.  The sum of its two ends when they meet. *)
StandardPadding(a, absorbed) ==
  LET k == Rate[a] - (Len(absorbed) % Rate[a]) IN
  [i \in 1 .. k |-> (IF i = 1 THEN Delim[a] ELSE {}) \cup (IF i = k THEN LastBit ELSE {})]

Absorbed(r, o) == BytesOf(r, o.blocks) \o SubSeq(o.added, 1, o.m)

Promise == INSTANCE Sponge WITH
  Type <- Algorithm,
  Initial <- LAMBDA a : {IF p = << >> THEN << >> ELSE p \o StandardPadding(a, p) : p \in Key},
  Padding <- StandardPadding,
  Zeroes <- LAMBDA a : Blank(Rate[a]),
  type <- alg,
  absorbed <- Absorbed(Rate[alg], h),
  squeezing <- h.finalized,
  digest <- IF digest = NoDigest THEN NoDigest ELSE BytesOf(Rate[alg], digest)

(* Whatever the parts a message arrives in, an object is a sponge that has *)
(* absorbed their concatenation, and each result is padded once, squeezes  *)
(* again when it is repeated and not when there was an update since        *)
(* (hashing_bytes.adoc:122, 151; the comment at sha3.hpp:152).             *)
ImplementsSponge == Promise!SSpec

(* Different seed sequences produce differently initialized instances      *)
(* (hashing_bytes.adoc:104).                                               *)
KeysDiffer ==
  \A p, q \in Key : construct(alg, p) = construct(alg, q) => p = q
==============================================================================
