------------------------------ MODULE MCMdHash -------------------------------
(* MdHash on blocks of 4 and 8 bytes of 2 bits, with a counter of 2 bytes:  *)
(* n_ wraps after 16 bytes and the bit count after 8.                       *)
EXTENDS MdHash, TLC

Chunk(len) == [i \in 1 .. len |-> 1 + (i % 3)]

MCInput == {Chunk(len) : len \in {0, 1, 3, 9}}
MCSeed  == {<< >>, <<1>>, <<2, 0>>, <<2, 0, 0>>, <<1, 2, 3, 1, 2, 3, 1, 2, 3>>}
==============================================================================
