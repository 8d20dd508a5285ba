------------------------------- MODULE MCXxh3 --------------------------------
(* xxh3_128 with stripes of 2 bytes, a buffer of 8, and secrets that last   *)
(* for 5 to 8 stripes; a counter of 32 values; products of words of 6 bits. *)
EXTENDS Xxh3, Xxh3Short, Mul128

MCConstruction ==
  {<<"default", 0, 0>>, <<"seed", 1, 0>>, <<"bytes", 0, 3>>,
   <<"with_secret", 0, 7>>, <<"with_secret_and_seed", 1, 3>>,
   <<"with_secret_and_seed", 0, 11>>}

(* The short digests read all of their message, for every length, and a     *)
(* product is whole, for all operands.  Neither is about the state.         *)
ASSUME ShortAssumption == ShortDigestsReadTheMessage
ASSUME ProductAssumption == FullProduct
==============================================================================
