------------------------------- MODULE MCBlake2 --------------------------------
(* Blocks of 4 bytes and keys around the half of one; the low word of the   *)
(* count wraps after two blocks.                                            *)
EXTENDS Blake2

Chunk(len) == [i \in 1 .. len |-> i % 3]

MCInput == {Chunk(len) : len \in {0, 1, 4, 9}}
MCKey ==
  {<< >>, <<0>>, <<1>>, <<1, 0>>, <<1, 2>>, <<1, 2, 0>>, <<1, 2, 3>>, <<1, 2, 3, 4, 5, 6, 7>>}
==============================================================================
