------------------------------ MODULE MCTailHash ------------------------------
(* Blocks of 2 or 4 bytes, and of 6 for spooky2_128; integers of two bytes; *)
(* a low byte of n_ that wraps after 8.                                     *)
EXTENDS TailHash

MCSize == [a \in Algorithm |-> IF a = "spooky2_128" THEN 6
                               ELSE IF a = "siphash_32" THEN 2 ELSE 4]

Chunk(len) == [i \in 1 .. len |-> i % 3]

MCInput == {<< >>, <<1>>, <<2, 0, 0>>, Chunk(9)}
MCKey ==
  {<< >>, <<1>>, <<1, 0>>, <<1, 2, 3>>, <<1, 2, 3, 4>>, <<1, 2, 3, 4, 1>>,
   <<1, 2, 3, 4, 2>>, <<1, 2, 3, 4, 5, 0, 0, 0>>, Chunk(9)}
MCSeed == {<<0, 0>>, <<3, 0>>, <<0, 3>>, <<3, 7>>}

MCAllSeeds == (0 .. HalfMod - 1) \X (0 .. HalfMod - 1)
==============================================================================
