------------------------------- MODULE MCFnv1a -------------------------------
(* Bytes of two bits, so that words of 4 and 8 bytes have 2^8 and 2^16      *)
(* values; primes and multipliers with the low digits of the real ones.     *)
EXTENDS Fnv1a, Bitwise

MCSize       == [a \in Algorithm |-> IF a = "fnv1a_32" THEN 4 ELSE 8]
MCBasis      == [a \in Algorithm |-> IF a = "fnv1a_32" THEN 197 ELSE 8997]
MCPrime      == [a \in Algorithm |-> IF a = "fnv1a_32" THEN 71 ELSE 1031]
MCMultiplier == [k \in {4, 8} |-> IF k = 4 THEN 99 ELSE 10699]
(* Only the low byte of a word changes. *)
MCXor(x, b)  == x - (x % Radix) + ((x % Radix) ^^ b)

MCInput == {<< >>, <<0>>, <<1>>, <<3, 2>>}
MCKey   == {<<0>>, <<2, 3, 1>>}
==============================================================================
