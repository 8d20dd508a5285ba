---------------------------- MODULE HashAlgorithm ----------------------------
(***************************************************************************)
(* What a hash algorithm of the library promises its caller, whatever its  *)
(* block size and its buffering (doc/hash2/hashing_bytes.adoc): an object  *)
(* stands for the sequence of tokens it has absorbed and for nothing else. *)
(*                                                                         *)
(*   - update appends the bytes it is given, so several calls are one call *)
(*     with the concatenation of their arguments;                          *)
(*   - result appends a finalization that depends on the message alone,    *)
(*     returns a digest of everything absorbed, and may be called again.   *)
(*                                                                         *)
(* A digest is represented by the tokens it commits to: the compression    *)
(* functions are taken to be free, so two digests are equal only when they *)
(* commit to the same tokens.                                              *)
(***************************************************************************)
EXTENDS Sequences

CONSTANTS
  Type,               (* the types of objects                              *)
  Input,              (* the byte sequences a caller may pass to update    *)
  Initial(_),         (* the messages a constructor may leave an object of *)
                      (* a type with                                       *)
  Finalization(_, _), (* what result appends to a message, for a type      *)
  NoDigest            (* the value of digest before the first result       *)

VARIABLES
  type,               (* the object's type                                 *)
  message,            (* every token absorbed since construction           *)
  digest              (* what the last result returned                     *)

aVars == <<type, message, digest>>

AInit ==
  /\ type \in Type
  /\ message \in Initial(type)
  /\ digest = NoDigest

AUpdate ==
  /\ \E p \in Input : message' = message \o p
  /\ UNCHANGED <<type, digest>>

AResult ==
  /\ message' = message \o Finalization(type, message)
  /\ digest' = message'
  /\ UNCHANGED type

ANext == AUpdate \/ AResult

ASpec == AInit /\ [][ANext]_aVars
==============================================================================
