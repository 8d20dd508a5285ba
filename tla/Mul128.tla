------------------------------- MODULE Mul128 --------------------------------
(***************************************************************************)
(* The product of two words in two words (detail/mul128.hpp), by the       *)
(* portable mul128_impl, which multiplies half-words in words that wrap.   *)
(* The other variants of mul128 ask the compiler or the processor for the  *)
(* product.                                                                *)
(***************************************************************************)
EXTENDS Integers

CONSTANT Half   (* the range of a half-word: 2^32                          *)

ASSUME HalfAssumption == Half \in Nat \ {0}

WordMod  == Half * Half
WordType == 0 .. WordMod - 1

(* x & 0xffffffff, x >> 32 and x << 32 *)
low(x)  == x % Half
high(x) == x \div Half
shl(x)  == (x * Half) % WordMod

(* struct uint128 *)
uint128 == [low : WordType, high : WordType]

(* The operands of | have no bit in common: it is a sum. *)
mul128_impl(x, y) ==
  LET lo_lo == (low(x) * low(y)) % WordMod
      hi_lo == (high(x) * low(y)) % WordMod
      lo_hi == (low(x) * high(y)) % WordMod
      hi_hi == (high(x) * high(y)) % WordMod
      cross == (high(lo_lo) + low(hi_lo) + lo_hi) % WordMod
      upper == (high(hi_lo) + high(cross) + hi_hi) % WordMod
      lower == shl(cross) + low(lo_lo)
  IN  [low |-> lower, high |-> upper]

(* The two words are the whole product, which is what the variants with a  *)
(* native multiplication return: no sum of mul128_impl wraps (xxh3_128     *)
(* folds both words into its digests, xxh3.hpp:133, 241, 308, 343).        *)
FullProduct ==
  \A x, y \in WordType :
    LET r == mul128_impl(x, y) IN
    r \in uint128 /\ r.high * WordMod + r.low = x * y
==============================================================================
