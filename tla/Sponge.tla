-------------------------------- MODULE Sponge ---------------------------------
(***************************************************************************)
(* What the sponge functions of sha3.hpp promise their caller, whatever    *)
(* the rate and the buffering.  A sponge absorbs bytes; result pads what   *)
(* it absorbed to whole blocks and squeezes, and a result that follows     *)
(* another squeezes again, until there is another update.                  *)
(*                                                                         *)
(* The permutation is free, so a digest commits to every byte that was     *)
(* absorbed before it, and a squeeze absorbs a block of zeroes.            *)
(***************************************************************************)
EXTENDS Sequences

CONSTANTS
  Type,          (* the types of objects                                   *)
  Input,         (* the byte sequences a caller may pass to update         *)
  Initial(_),    (* what a constructor may leave an object with            *)
  Padding(_, _), (* what result appends to what a type has absorbed        *)
  Zeroes(_),     (* a block of zeroes                                      *)
  NoDigest       (* the value of digest before the first result            *)

VARIABLES
  type,          (* the object's type                                      *)
  absorbed,      (* every byte absorbed since construction                 *)
  squeezing,     (* the last call was result                               *)
  digest         (* what the last result returned                          *)

sVars == <<type, absorbed, squeezing, digest>>

SInit ==
  /\ type \in Type
  /\ absorbed \in Initial(type)
  /\ squeezing = FALSE
  /\ digest = NoDigest

SUpdate ==
  /\ \E p \in Input : absorbed' = absorbed \o p
  /\ squeezing' = FALSE
  /\ UNCHANGED <<type, digest>>

SResult ==
  /\ absorbed' = absorbed \o IF squeezing THEN Zeroes(type) ELSE Padding(type, absorbed)
  /\ squeezing' = TRUE
  /\ digest' = absorbed'
  /\ UNCHANGED type

SSpec == SInit /\ [][SUpdate \/ SResult]_sVars
==============================================================================
