-------------------------------- MODULE Blake2 ---------------------------------
(***************************************************************************)
(* blake2b_512 and blake2s_256 of blake2.hpp.  The last block of a message *)
(* is compressed differently from the others, so a full buffer waits until *)
(* there is more, or result makes it the last one.  A key is a first block *)
(* of its own.  The bytes compressed so far are counted in two words.      *)
(*                                                                         *)
(* The compression function is free: the chain is the sequence of what was *)
(* compressed, with the count and the flag that went in with each block.   *)
(*                                                                         *)
(* The definitions named IncrLow, EagerFrom, ClearNothing and KeyBlockOnly *)
(* are slips of the definition after each, which the properties must tell  *)
(* from it.                                                                *)
(***************************************************************************)
EXTENDS ByteBlocks

CONSTANTS
  block_size,  (* 128 for blake2b, 64 for blake2s                          *)
  Word,        (* the values of a word of the count: 2^64, 2^32            *)
  Input,       (* the byte sequences a caller may pass to update           *)
  Key,         (* the byte sequences a caller may construct with           *)
  MaxBytes,    (* bound: a text that long is not extended                  *)
  MaxResults,  (* bound: the calls of result                               *)
  NoDigest     (* no result was called yet                                 *)

ASSUME SizeAssumption ==
  /\ block_size \in Nat /\ Word \in Nat
  /\ block_size > 1 /\ block_size % 2 = 0 /\ block_size < Word
ASSUME InputAssumption == Input \subseteq Seq(Nat) /\ Key \subseteq Seq(Nat)
ASSUME BoundAssumption == MaxBytes \in Nat /\ MaxResults \in Nat

VARIABLES
  blake,    (* the object: h_, b_, m_, t_                                  *)
  start,    (* history: the object as construction or a result left it     *)
  text,     (* history: the bytes passed to update since                   *)
  results,  (* history: the calls of result                                *)
  digest    (* what the last one returned                                  *)

vars == <<blake, start, text, results, digest>>

------------------------------------------------------------------------------
(* The object: h_ is keylen, which init mixes into it, and the chain. *)

init(keylen) ==
  [keylen |-> keylen, chain |-> << >>, b |-> Zeroes(block_size), m |-> 0, t |-> <<0, 0>>]

Compressed(block, t, final) == [block |-> block, t |-> t, final |-> final]

transform(o, block, final) ==
  [o EXCEPT !.chain = Append(@, Compressed(block, o.t, final))]

IncrLow(t, n) == <<(t[1] + n) % Word, t[2]>>
incr_len(t, n) ==
  LET low == (t[1] + n) % Word IN
  <<low, IF low < n THEN (t[2] + 1) % Word ELSE t[2]>>

(* One block of update. *)
Consume(o, block) == transform([o EXCEPT !.t = incr_len(@, block_size)], block, FALSE)

(* The loop of update over whole blocks. *)
Consumed(o, blocks) ==
  LET after[n \in 0 .. Len(blocks)] ==
        IF n = 0 THEN o ELSE Consume(after[n - 1], blocks[n])
  IN  after[Len(blocks)]

(* while( n > block_size ): of q, the bytes that stay, at least one. *)
EagerFrom(q) == Len(q) % block_size
StayFrom(q) == 1 + ((Len(q) - 1) % block_size)

ClearNothing(b) == b
Clear(b) == Zeroes(block_size)

update(o, p) ==
  LET k    == block_size - o.m
      full == Consume(o, CopyTo(o.b, o.m, SubSeq(p, 1, k)))
      q    == SubSeq(p, k + 1, Len(p))
      rest == StayFrom(q)
      done == Consumed(full, Blocks(block_size, SubSeq(q, 1, Len(q) - rest)))
  IN  IF Len(p) <= k
      THEN [o EXCEPT !.b = CopyTo(@, o.m, p), !.m = @ + Len(p)]
      ELSE [done EXCEPT !.b = CopyTo(Zeroes(block_size), 0, SubSeq(q, Len(q) - rest + 1, Len(q))),
                        !.m = rest]

result(o) ==
  [transform([o EXCEPT !.t = incr_len(@, o.m)],
             CopyTo(Zeroes(block_size), 0, SubSeq(o.b, 1, o.m)), TRUE)
     EXCEPT !.b = Clear(@), !.m = 0]

(* Construction from a key; a nonzero integral seed is the key of its eight *)
(* bytes and seed 0 is no key.  What does not fit half a block is hashed    *)
(* as a message.                                                            *)
KeyBlockOnly(p) ==
  LET k == IF Len(p) < block_size \div 2 THEN Len(p) ELSE block_size \div 2 IN
  IF p = << >> THEN init(0)
  ELSE [update(init(k), SubSeq(p, 1, k)) EXCEPT !.m = block_size]
construct(p) ==
  LET k     == IF Len(p) < block_size \div 2 THEN Len(p) ELSE block_size \div 2
      keyed == [update(init(k), SubSeq(p, 1, k)) EXCEPT !.m = block_size]
  IN  IF p = << >> THEN init(0)
      ELSE IF Len(p) = k THEN keyed
      ELSE result(update(keyed, SubSeq(p, k + 1, Len(p))))

------------------------------------------------------------------------------
(* The specification *)

Init ==
  /\ \E p \in Key : blake = construct(p)
  /\ start = blake
  /\ text = << >>
  /\ results = 0
  /\ digest = NoDigest

Update(p) ==
  /\ Len(text) < MaxBytes
  /\ blake' = update(blake, p)
  /\ text' = text \o p
  /\ UNCHANGED <<start, results, digest>>

Result ==
  /\ results < MaxResults
  /\ blake' = result(blake)
  /\ digest' = [keylen |-> blake'.keylen, chain |-> blake'.chain]
  /\ start' = blake'
  /\ text' = << >>
  /\ results' = results + 1

Next == (\E p \in Input : Update(p)) \/ Result

Spec == Init /\ [][Next]_vars

------------------------------------------------------------------------------
(* Properties *)

Compression == [block : Block(block_size, Nat), t : (0 .. Word - 1) \X (0 .. Word - 1),
                final : BOOLEAN]

Object ==
  [keylen : 0 .. block_size \div 2, chain : Seq(Compression),
   b : Block(block_size, Nat), m : 0 .. block_size, t : (0 .. Word - 1) \X (0 .. Word - 1)]

Clean(o) == \A i \in o.m + 1 .. block_size : o.b[i] = 0

(* Type invariant: the buffer may be full but not overfull, and holds      *)
(* zeroes where it holds no byte of the message.                           *)
TypeOK ==
  /\ blake \in Object /\ Clean(blake)
  /\ start \in Object /\ Clean(start)
  /\ text \in Seq(Nat) /\ results \in 0 .. MaxResults
  /\ digest \in {NoDigest} \cup [keylen : 0 .. block_size \div 2, chain : Seq(Compression)]

Value(t) == t[1] + (Word * t[2])

(* The two words of t_, carried from one to the other, count every byte    *)
(* that was given, whatever the parts, and across results.                 *)
BytesCounted ==
  (Value(blake.t) + blake.m) % (Word * Word)
    = (Value(start.t) + start.m + Len(text)) % (Word * Word)

(* The chain RFC 7693 prescribes for an object keyed but not used yet: the *)
(* key block and the message in blocks; each with the bytes up to its end; *)
(* the last, and only the last, short perhaps, and final.                  *)
RFC7693(o, message) ==
  LET data  == (IF o.m = 0 THEN << >> ELSE o.b) \o message
      last  == IF data = << >> THEN 0 ELSE (Len(data) - 1) \div block_size
      byte(i) == IF i <= Len(data) THEN data[i] ELSE 0
      upto(i) == IF i = last THEN Len(data) ELSE (i + 1) * block_size
  IN  [j \in 1 .. last + 1 |->
         Compressed([i \in 1 .. block_size |-> byte(((j - 1) * block_size) + i)],
                    <<upto(j - 1) % Word, (upto(j - 1) \div Word) % Word>>,
                    j = last + 1)]

(* However the message is split, the first result of an object with a key  *)
(* of at most half a block is the BLAKE2 of the key and the message        *)
(* (hashing_bytes.adoc:122).                                               *)
FirstIsRFC7693 ==
  [][(Result /\ results = 0 /\ start.chain = << >>)
       => digest' = [keylen |-> start.keylen, chain |-> RFC7693(start, text)]]_vars

(* An update in parts is one update with the concatenation, before and     *)
(* after results (hashing_bytes.adoc:122).                                 *)
SplitsDoNotMatter == blake = update(start, text)

(* Different seed sequences produce differently initialized instances      *)
(* (hashing_bytes.adoc:104): also those that differ by zeroes at the end,  *)
(* or beyond the half block that fits a key.                               *)
KeysDiffer ==
  \A p, q \in Key : (construct(p) = start /\ construct(q) = start) => p = q
==============================================================================
