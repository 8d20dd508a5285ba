------------------------------- MODULE MCHmac --------------------------------
(* hmac<H> with blocks of 3 bytes and digests of 2, and keys around them:   *)
(* bytes that are given, and the digests of a key that is hashed and of one *)
(* that is not, with zeroes after them or without.                          *)
EXTENDS Hmac

Given ==
  {<< >>, <<0>>, <<1>>, <<1, 0>>, <<0, 1>>, <<1, 2, 3>>, <<1, 2, 0>>,
   <<1, 2, 3, 4>>, <<1, 2, 3, 0>>, <<1, 2, 3, 4, 5>>}

Digests == {H_digest(Plain(k)) : k \in {<<1, 2, 3>>, <<1, 2, 3, 4>>}}

MCKeys ==
  {Plain(k) : k \in Given}
    \cup {SubSeq(d \o <<Zero, Zero>>, 1, len) : d \in Digests, len \in 1 .. 4}
==============================================================================
