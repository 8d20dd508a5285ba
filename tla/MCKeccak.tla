------------------------------- MODULE MCKeccak --------------------------------
(* Rates of 3 and 4 bytes of 3 bits; the messages have bytes that look like *)
(* padding and bytes that are zero.                                         *)
EXTENDS Keccak

MCRate  == [a \in Algorithm |-> IF a = "sha3" THEN 3 ELSE 4]
MCDelim == [a \in Algorithm |-> IF a = "sha3" THEN {1} ELSE {1, 2}]

MCInput == {<< >>, <<{}>>, <<{1}>>, <<{2}, {}, {1, 3}, {2}, {3}, {}, {2}, {1}>>}
MCKey ==
  {<< >>, <<{}>>, <<{2}>>, <<{2}, {}>>, <<{2}, {1}, {3}>>, <<{2}, {1, 2}, {}, {3}>>}
==============================================================================
