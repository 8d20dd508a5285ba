----------------------------- MODULE ByteBlocks ------------------------------
(***************************************************************************)
(* Buffers of bytes and sequences of blocks, as the hash algorithms use    *)
(* them: detail/memcpy.hpp, detail/memset.hpp and the loops over blocks.   *)
(***************************************************************************)
EXTENDS Integers, Sequences

(* A sequence, whatever its elements are. *)
IsSequence(s) == s \in Seq({s[i] : i \in 1 .. Len(s)})

(* k zero bytes: memset( buffer, 0, k ) *)
Zeroes(k) == [i \in 1 .. k |-> 0]

(* memcpy( buffer + offset, p, Len(p) ) *)
CopyTo(buffer, offset, p) ==
  [i \in 1 .. Len(buffer) |->
     IF offset < i /\ i <= offset + Len(p) THEN p[i - offset] ELSE buffer[i]]

(* Blocks of b bytes of B, and sequences of them. *)
Block(b, B)    == [1 .. b -> B]
BlockSeq(b, B) == Seq(Block(b, B))

(* The whole blocks of b bytes at the start of q, in order: the blocks      *)
(* while( n >= N ) { transform( p ); p += N; n -= N; } goes through.        *)
Blocks(b, q) == [j \in 1 .. Len(q) \div b |-> SubSeq(q, (j - 1) * b + 1, j * b)]

(* The bytes of a sequence of blocks of b bytes. *)
BytesOf(b, blocks) ==
  [i \in 1 .. Len(blocks) * b |-> blocks[1 + ((i - 1) \div b)][1 + ((i - 1) % b)]]

(* p up to its last byte that is not zero. *)
Stripped(p) ==
  {q \in {SubSeq(p, 1, k) : k \in 0 .. Len(p)} :
     /\ q = << >> \/ q[Len(q)] # 0
     /\ \A i \in Len(q) + 1 .. Len(p) : p[i] = 0}
WithoutZeroes(p) == CHOOSE q \in Stripped(p) : TRUE
==============================================================================
