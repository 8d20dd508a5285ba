------------------------------ MODULE Xxh3Short ------------------------------
(***************************************************************************)
(* Which bytes of the buffer and of the secret the digests of xxh3_128 for *)
(* messages of 1 to 240 bytes read (xxh3.hpp), at their true sizes.        *)
(* Offsets are counted from 0, as in the code.                             *)
(***************************************************************************)
EXTENDS Integers

(* xxh3_128::min_secret_len *)
shortest_secret == 136

Bytes16(from) == from .. from + 15

(* mix_two_chunks( x, y, secret_offset ) *)
Reads(x, y, secret_offset) ==
  [buffer |-> Bytes16(x) \cup Bytes16(y),
   secret |-> Bytes16(secret_offset) \cup Bytes16(secret_offset + 16)]

Both(S) == [buffer |-> UNION {r.buffer : r \in S}, secret |-> UNION {r.secret : r \in S}]

digest_1to3(n) == [buffer |-> {n - 1, 0, n \div 2}, secret |-> 0 .. 15]

digest_4to8(n) == [buffer |-> 0 .. 3 \cup n - 4 .. n - 1, secret |-> 16 .. 31]

digest_9to16(n) == [buffer |-> 0 .. 7 \cup n - 8 .. n - 1, secret |-> 32 .. 63]

digest_17to128(n) ==
  Both({Reads(16 * i, n - 16 * i - 16, 32 * i) : i \in 0 .. (n - 1) \div 32})

digest_129to240(n) ==
  Both({Reads(32 * i, 32 * i + 16, 32 * i) : i \in 0 .. 3}
    \cup {Reads(32 * i, 32 * i + 16, 32 * (i - 4) + 3) : i \in 4 .. (n \div 32) - 1}
    \cup {Reads(n - 16, n - 32, 103)})

digest_short_reads(n) ==
  IF n < 4 THEN digest_1to3(n)
  ELSE IF n < 9 THEN digest_4to8(n)
  ELSE IF n < 17 THEN digest_9to16(n)
  ELSE IF n < 129 THEN digest_17to128(n)
  ELSE digest_129to240(n)

(* Every byte of a short message is read by its digest, no other byte of   *)
(* the buffer is, and nothing beyond the shortest secret, whose length     *)
(* with_secret accepts (xxh3.hpp:264-412).                                 *)
ShortDigestsReadTheMessage ==
  \A n \in 1 .. 240 :
    /\ digest_short_reads(n).buffer = 0 .. n - 1
    /\ digest_short_reads(n).secret \subseteq 0 .. shortest_secret - 1
==============================================================================
