---------------------------- MODULE IntegralResult ----------------------------
(***************************************************************************)
(* get_integral_result.hpp: a result of a hash algorithm as an integer of  *)
(* another width.  R and T are the sizes, in bytes, of the result and of   *)
(* the integer asked for; an integer is its value as an unsigned one.      *)
(*                                                                         *)
(* contraction_cut and expansion_late are slips of the definition after    *)
(* each, which the properties must tell from it.                           *)
(***************************************************************************)
EXTENDS Integers, FiniteSets, Sequences

CONSTANTS
  ByteBits,       (* the bits of a byte: 8                                 *)
  Multiplier,     (* of 4 and of 8, the width it is multiplied in, the     *)
                  (* constant results are multiplied by                    *)
  IntegralSizes   (* the sizes of the integers asked for: {1, 2, 4, 8}     *)

(* The values of an unsigned integer of k bytes. *)
Values(k) == 2^(ByteBits * k)

ASSUME IntegralAssumption ==
  /\ ByteBits \in Nat \ {0}
  /\ IntegralSizes \subseteq {1, 2, 4, 8}
  /\ Multiplier \in [{4, 8} -> Nat]
  /\ \A k \in {4, 8} : Multiplier[k] % 2 = 1
  /\ \A k \in 0 .. 8 : Values(k) \in Nat \ {0}
  /\ Values(0) = 1 /\ Values(4) * Values(4) = Values(8)

(* No odd number is a zero divisor of a power of two, and powers multiply.  *)
ASSUME MultiplierAssumption ==
  \A k \in {4, 8} :
    /\ \E i \in 0 .. Values(k) - 1 : (Multiplier[k] * i) % Values(k) = 1
    /\ \A T \in 1 .. k - 1 : Values(T) * Values(k - T) = Values(k)

(* get_result_multiplier<R>, and the width its type gives to the product *)
Wide(R) == IF R <= 4 THEN 4 ELSE 8

contraction_cut(R, T, r) ==
  (((r * Multiplier[Wide(R)]) % Values(Wide(R))) % Values(T)) \div Values(R - T)
contraction(R, T, r) ==
  (((r * Multiplier[Wide(R)]) % Values(Wide(R))) \div Values(R - T)) % Values(T)

(* How many results an integer takes, and the integer made of them. *)
Calls(R, T) == IF R < T THEN T \div R ELSE 1

expansion_late(R, rs) ==
  LET u[i \in 0 .. Len(rs)] ==
        IF i = 0 THEN 0 ELSE u[i - 1] + rs[i] * Values(R * i)
  IN  u[Len(rs)]
expansion(R, rs) ==
  LET u[i \in 0 .. Len(rs)] ==
        IF i = 0 THEN 0 ELSE u[i - 1] + rs[i] * Values(R * (i - 1))
  IN  u[Len(rs)]

integral(R, T, rs) ==
  IF R > T THEN contraction(R, T, rs[1])
  ELSE IF R = T THEN rs[1]
  ELSE expansion(R, rs)
==============================================================================
