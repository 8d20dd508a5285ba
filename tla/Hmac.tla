-------------------------------- MODULE Hmac ---------------------------------
(***************************************************************************)
(* hmac<H> of hmac.hpp, over a hash algorithm H that keeps the promise of  *)
(* HashAlgorithm: an object of H is the sequence of tokens it absorbed,    *)
(* update appends bytes to it, and result appends a finalization and       *)
(* returns result_size bytes that stand for all it absorbed.               *)
(*                                                                         *)
(* A token is a byte that is given, a byte of the digest of a sequence, or *)
(* a finalization; bytes of a key may be xored with one of the two pads.   *)
(* H has no collisions: digests of different sequences are different       *)
(* bytes, and none is one that is given.  A caller who has computed a      *)
(* digest may give its bytes as a key.                                     *)
(*                                                                         *)
(* The definitions named PadKeyStrictly, PadKeyCut, ResultUnchained and    *)
(* ResultOfCopy are slips of the definition after each, which the          *)
(* properties must tell from it.                                           *)
(***************************************************************************)
EXTENDS ByteBlocks

CONSTANTS
  block_size,   (* of H                                                    *)
  result_size,  (* of H::result_type                                       *)
  Keys,         (* the sequences of bytes a caller constructs with         *)
  Lengths,      (* the numbers of bytes a caller passes to update          *)
  MaxBytes,     (* bound: a stream that long is not extended               *)
  MaxResults,   (* bound: the calls of result                              *)
  NoDigest      (* no result was called yet                                *)

ASSUME SizeAssumption == block_size \in Nat \ {0} /\ result_size \in Nat \ {0}
ASSUME BoundAssumption == Lengths \subseteq Nat /\ MaxBytes \in Nat /\ MaxResults \in Nat

VARIABLES
  outer,    (* outer_ : what it absorbed                                   *)
  inner,    (* inner_                                                      *)
  key,      (* history: what the object was constructed with               *)
  message,  (* history: the values of the bytes passed to update           *)
  results,  (* history: the calls of result                                *)
  digest    (* what the last one returned                                  *)

vars == <<outer, inner, key, message, results, digest>>

------------------------------------------------------------------------------
(* Tokens, and the objects of H *)

Token(value, of, pad) == [value |-> value, of |-> of, pad |-> pad]

Plain(p) == [i \in 1 .. Len(p) |-> Token(p[i], << >>, "none")]

Zero == Token(0, << >>, "none")

End == Token(0, << >>, "end")

(* The bytes of a key are given, or they are bytes of digests. *)
IsKey(p) ==
  /\ IsSequence(p)
  /\ \A i \in 1 .. Len(p) : p[i].value \in Nat /\ p[i] = Token(p[i].value, p[i].of, "none")

ASSUME KeyAssumption == \A p \in Keys : IsKey(p)

(* The bytes of the digest of everything in the sequence s. *)
DigestOf(s) == [i \in 1 .. result_size |-> Token(i, s, "none")]

H_update(o, p)    == o \o p
H_finalization(o) == <<End>>
H_result(o)       == o \o H_finalization(o)
H_digest(o)       == DigestOf(H_result(o))

------------------------------------------------------------------------------
(* Construction *)

(* Byte i of p when zeroes follow it. *)
ByteAt(p, i) == IF i <= Len(p) THEN p[i] ELSE Zero

(* The first bytes of p and zeroes up to the size of a block. *)
Fill(p) == [i \in 1 .. block_size |-> ByteAt(p, i)]

(* A key of at most a block is padded, a longer one is hashed first. *)
PadKeyStrictly(p) == Fill(IF Len(p) < block_size THEN p ELSE H_digest(p))
PadKeyCut(p) == Fill(p)
PadKey(p) == Fill(IF Len(p) <= block_size THEN p ELSE H_digest(p))

Xor(k, pad) == [i \in 1 .. block_size |-> [k[i] EXCEPT !.pad = pad]]

(* init: seed 0 and an empty sequence give the key of zeroes, another seed *)
(* the key of its eight bytes.                                             *)
init(p) ==
  [inner |-> H_update(<< >>, Xor(PadKey(p), "ipad")),
   outer |-> H_update(<< >>, Xor(PadKey(p), "opad"))]

------------------------------------------------------------------------------
(* Operations *)

update(o, p) == [o EXCEPT !.inner = H_update(@, p)]

ResultUnchained(o) ==
  [inner |-> H_result(o.inner), outer |-> H_result(o.outer)]
ResultOfCopy(o) ==
  [inner |-> o.inner, outer |-> H_result(H_update(o.outer, H_digest(o.inner)))]
result(o) ==
  [inner |-> H_result(o.inner), outer |-> H_result(H_update(o.outer, H_digest(o.inner)))]

------------------------------------------------------------------------------
(* The specification *)

hmac == [inner |-> inner, outer |-> outer]

Init ==
  /\ key \in Keys
  /\ outer = init(key).outer /\ inner = init(key).inner
  /\ message = << >>
  /\ results = 0
  /\ digest = NoDigest

Update(len) ==
  /\ Len(message) < MaxBytes
  /\ LET p == [i \in 1 .. len |-> Len(message) + i] IN
       /\ inner' = update(hmac, Plain(p)).inner
       /\ message' = message \o p
  /\ UNCHANGED <<outer, key, results, digest>>

Result ==
  /\ results < MaxResults
  /\ inner' = result(hmac).inner
  /\ outer' = result(hmac).outer
  /\ digest' = DigestOf(outer')
  /\ results' = results + 1
  /\ UNCHANGED <<key, message>>

Next == (\E len \in Lengths : Update(len)) \/ Result

Spec == Init /\ [][Next]_vars

------------------------------------------------------------------------------
(* Properties *)

(* Type invariant: outer_ holds its pad and one digest of inner_ for each  *)
(* result, and the last result is of what outer_ holds.                    *)
TypeOK ==
  /\ key \in Keys /\ message \in Seq(Nat) /\ results \in 0 .. MaxResults
  /\ IsSequence(inner) /\ Len(inner) = block_size + Len(message) + results
  /\ IsSequence(outer) /\ Len(outer) = block_size + results * (result_size + 1)
  /\ digest = IF results = 0 THEN NoDigest ELSE DigestOf(outer)

(* HMAC as RFC 2104 defines it:                                            *)
(*   H( K xor opad, H( K xor ipad, text ) )                                *)
(* where K is the key, hashed when it exceeds a block, followed by zeroes. *)
RFC2104(k, text) ==
  LET hashed == IF Len(k) > block_size THEN DigestOf(k \o <<End>>) ELSE k
      zeroes == [i \in 1 .. block_size - Len(hashed) |-> Zero]
      K      == hashed \o zeroes
      xored(pad) == [i \in 1 .. block_size |-> Token(K[i].value, K[i].of, pad)]
      H(s)   == DigestOf(s \o <<End>>)
  IN  H(xored("opad") \o H(xored("ipad") \o Plain(text)))

(* The first result is the HMAC of the key and the message, however the    *)
(* message is split.                                                       *)
FirstIsRFC2104 ==
  [][(Result /\ results = 0) => digest' = RFC2104(key, message)]_vars

SameButForZeroes(p, q) ==
  \A i \in (1 .. Len(p)) \cup (1 .. Len(q)) : ByteAt(p, i) = ByteAt(q, i)

(* p is what init replaces q by, with or without zeroes after it. *)
IsDigestOf(p, q) ==
  /\ Len(p) <= block_size /\ Len(q) > block_size
  /\ \A i \in 1 .. block_size : ByteAt(p, i) = ByteAt(H_digest(q), i)

(* Two keys give the same instance for two reasons and for no other: they  *)
(* are the same up to zeroes at the end, or one is longer than a block and *)
(* the other is its digest.  hashing_bytes.adoc:104 promises more, that    *)
(* different seeds give differently seeded instances; the code does what   *)
(* RFC 2104 does with keys.                                                *)
SameInstanceKeys ==
  \A p \in Keys : init(p) = init(key) =>
    SameButForZeroes(p, key) \/ IsDigestOf(p, key) \/ IsDigestOf(key, p)

Promise == INSTANCE HashAlgorithm WITH
  Type <- {"hmac"},
  Input <- UNION {{Plain([i \in 1 .. len |-> k + i]) : k \in 0 .. MaxBytes} : len \in Lengths},
  Initial <- LAMBDA t : {init(p).inner : p \in Keys},
  Finalization <- LAMBDA t, m : H_finalization(m),
  type <- "hmac",
  message <- inner,
  digest <- IF results = 0 THEN NoDigest ELSE outer[Len(outer) - 1].of

(* hmac<H> is itself a hash algorithm: its message is what inner_ has      *)
(* absorbed, and each result commits, through the last bytes outer_ was    *)
(* given, to all of it (hashing_bytes.adoc:343).                           *)
ImplementsHashAlgorithm == Promise!ASpec
==============================================================================
