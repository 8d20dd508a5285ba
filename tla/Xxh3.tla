-------------------------------- MODULE Xxh3 ---------------------------------
(***************************************************************************)
(* xxh3_128 of xxh3.hpp: a buffer of four stripes, an accumulator that     *)
(* takes in one stripe at a time under a moving part of the secret, and a  *)
(* scramble each time the secret is used up.                               *)
(*                                                                         *)
(* The arithmetic is free: the accumulator is the sequence of what was     *)
(* done to it, and the digest of a short message is the part of the object *)
(* it is computed from (Xxh3Short says which bytes it reads).  No code     *)
(* depends on the value of a byte, so byte i of the stream a caller hands  *)
(* to update is the number i: a byte out of place is always noticed.       *)
(*                                                                         *)
(* The program is built without assertions: the one of last_round is the   *)
(* property StripesInSecret.                                               *)
(*                                                                         *)
(* The definitions named KeepNothing, FitsStrictly, HeldWithLast and       *)
(* PerturbLong are slips of the definition after each, which the           *)
(* properties must tell from it.                                           *)
(***************************************************************************)
EXTENDS ByteBlocks

CONSTANTS
  Stripe,              (* bytes in a stripe: 64                            *)
  Word,                (* bytes the secret moves by, per stripe: 8         *)
  default_secret_len,  (* 192                                              *)
  min_secret_len,      (* 136                                              *)
  Short,               (* bytes in the longest message that is not hashed  *)
                       (* by stripes: 240                                  *)
  Mixed,               (* bytes of the buffer the digest is added to: 16   *)
  SizeMod,             (* the range of std::size_t                         *)
  Construction,        (* <<how, seed, length of the key or secret>>       *)
  Lengths,             (* the numbers of bytes a caller passes to update   *)
  MaxBytes,            (* bound: a stream that long is not extended        *)
  MaxResults,          (* bound: the calls of result                       *)
  NoDigest             (* no result was called yet                         *)

buffer_size == 4 * Stripe

ASSUME SizeAssumption ==
  /\ {Stripe, Word, default_secret_len, min_secret_len, Short, Mixed, SizeMod} \subseteq Nat \ {0}
  /\ min_secret_len < default_secret_len /\ Stripe + 4 * Word < min_secret_len
  /\ Mixed <= Stripe /\ 3 * Stripe < Short /\ Short < buffer_size /\ buffer_size < SizeMod
ASSUME ConstructionAssumption ==
  Construction \subseteq
    {"default", "seed", "bytes", "with_secret", "with_secret_and_seed"} \X Nat \X Nat
ASSUME BoundAssumption == Lengths \subseteq Nat /\ MaxBytes \in Nat /\ MaxResults \in Nat

VARIABLES
  xxh,      (* the object                                                  *)
  message,  (* history: the bytes passed to update                         *)
  results,  (* history: the calls of result                                *)
  digest    (* what the last one returned                                  *)

vars == <<xxh, message, results, digest>>

------------------------------------------------------------------------------
(* Construction *)

(* The data members with a secret of len bytes and its origin. *)
Object(secret, len, seed, own) ==
  [secret |-> secret, secret_len |-> len, seed |-> seed, with_secret |-> own,
   buffer |-> Zeroes(buffer_size), acc |-> << >>, n |-> 0, m |-> 0, num_stripes |-> 0]

default_secret == <<"default", 0>>

(* xxh3_128( seed ): words of the default secret, plus and minus the seed. *)
seeded(seed) == Object(<<"seed", seed>>, default_secret_len, seed, FALSE)

(* xxh3_128( p, n ): the default secret and the seed mixed with the bytes;  *)
(* k stands for a sequence of k bytes.                                      *)
keyed(k) ==
  IF k = 0 THEN Object(default_secret, default_secret_len, 0, FALSE)
  ELSE Object(<<"key", k>>, default_secret_len, k, TRUE)

(* with_secret and with_secret_and_seed, from a secret of k bytes. *)
secret_of(k, seed, own) ==
  Object(<<"secret", k>>,
         IF k < min_secret_len \/ k > default_secret_len THEN default_secret_len ELSE k,
         seed, own)

construct(how, seed, k) ==
  CASE how = "default"              -> Object(default_secret, default_secret_len, 0, FALSE)
    [] how = "seed"                 -> seeded(seed)
    [] how = "bytes"                -> keyed(k)
    [] how = "with_secret"          -> secret_of(k, 0, TRUE)
    [] how = "with_secret_and_seed" -> secret_of(k, seed, FALSE)

------------------------------------------------------------------------------
(* The accumulator *)

Step(op, at, stripe) == [op |-> op, at |-> at, stripe |-> stripe]

stripes_per_block(o) == (o.secret_len - Stripe) \div Word

accumulate(o, stripe, at) ==
  [o EXCEPT !.acc = Append(@, Step("accumulate", at, stripe))]
scramble(o) == [o EXCEPT !.acc = Append(@, Step("scramble", 0, << >>))]

(* update's step for one stripe. *)
Consume(o, stripe) ==
  LET a == [accumulate(o, stripe, o.num_stripes) EXCEPT !.num_stripes = @ + 1] IN
  IF a.num_stripes = stripes_per_block(o)
  THEN [scramble(a) EXCEPT !.num_stripes = 0]
  ELSE a

(* update's loop over stripes. *)
ConsumeAll(o, stripes) ==
  LET after[j \in 0 .. Len(stripes)] ==
        IF j = 0 THEN o ELSE Consume(after[j - 1], stripes[j])
  IN  after[Len(stripes)]

(* The last stripe consumed is kept at the end of the buffer. *)
KeepNothing(buffer, stripe) == buffer
KeepLast(buffer, stripe) == CopyTo(buffer, buffer_size - Stripe, stripe)

(* The bytes of a call that come after a full buffer was consumed: all but  *)
(* the last stripe's worth are consumed when they exceed a buffer.          *)
Absorb(o, q) ==
  LET w    == (Len(q) - 1) \div Stripe
      last == SubSeq(q, (w - 1) * Stripe + 1, w * Stripe)
  IN  IF Len(q) <= buffer_size
      THEN [o EXCEPT !.buffer = CopyTo(@, 0, q), !.m = Len(q)]
      ELSE [ConsumeAll(o, Blocks(Stripe, SubSeq(q, 1, w * Stripe))) EXCEPT
              !.buffer = CopyTo(KeepLast(@, last), 0, SubSeq(q, w * Stripe + 1, Len(q))),
              !.m = Len(q) - w * Stripe]

(* A full buffer stays until there is more. *)
FitsStrictly(o, p) == Len(p) < buffer_size - o.m
Fits(o, p) == Len(p) <= buffer_size - o.m

update(o, p) ==
  LET c == [o EXCEPT !.n = (@ + Len(p)) % SizeMod]
      k == IF o.m > 0 THEN buffer_size - o.m ELSE 0
      full == CopyTo(o.buffer, o.m, SubSeq(p, 1, k))
  IN  IF Len(p) = 0 THEN o
      ELSE IF Fits(o, p) THEN [c EXCEPT !.buffer = CopyTo(@, o.m, p), !.m = @ + Len(p)]
      ELSE IF o.m = 0 THEN Absorb(c, p)
      ELSE Absorb([ConsumeAll(c, Blocks(Stripe, full)) EXCEPT !.buffer = full],
                  SubSeq(p, k + 1, Len(p)))

------------------------------------------------------------------------------
(* Results *)

(* The stripes in the buffer that are not the last one of the message. *)
HeldWithLast(o) == o.m \div Stripe
Held(o) == IF o.m = 0 THEN 0 ELSE (o.m - 1) \div Stripe

(* They are accumulated without a scramble, and then the last stripe of     *)
(* the message, part of which may be at the end of the buffer.              *)
held_steps(o) ==
  [j \in 1 .. Held(o) |->
     Step("accumulate", o.num_stripes + j - 1, Blocks(Stripe, o.buffer)[j])]

last_stripe(o) ==
  IF o.m >= Stripe THEN SubSeq(o.buffer, o.m - Stripe + 1, o.m)
  ELSE SubSeq(o.buffer, buffer_size - (Stripe - o.m) + 1, buffer_size)
         \o SubSeq(o.buffer, 1, o.m)

last_round(o) ==
  [o EXCEPT !.acc = Append(@ \o held_steps(o), Step("last", 0, last_stripe(o))),
            !.num_stripes = @ + Held(o)]

(* The digests of up to Short bytes, from the buffer alone. *)
digest_short(o, bytes) ==
  [secret |-> IF o.with_secret THEN o.secret ELSE default_secret,
   seed |-> o.seed, n |-> Len(bytes), bytes |-> bytes, acc |-> << >>]

(* final_merge of the accumulator and the length. *)
digest_long(o, acc, len) ==
  [secret |-> o.secret, seed |-> 0, n |-> len, bytes |-> << >>, acc |-> acc]

(* What a result changes so that the next one differs. *)
PerturbLong(o) ==
  IF o.n > Short THEN [o EXCEPT !.acc = Append(@, Step("perturb", 0, << >>))] ELSE o
Perturb(o) ==
  IF o.n = 0 THEN [o EXCEPT !.seed = @ + 1]
  ELSE IF o.n <= Short THEN o
  ELSE [o EXCEPT !.acc = Append(@, Step("perturb", 0, << >>))]

(* Words of the digest are added to the start of the buffer and the rest   *)
(* is cleared.  The words of digest number d are unknown: d stands for     *)
(* what they add to a byte, and changed, any set of the bytes, is those to *)
(* which that is not zero, carry included.                                 *)
Mix(o, d, changed) ==
  [o EXCEPT !.buffer =
     [i \in 1 .. buffer_size |->
        IF i > Mixed THEN 0 ELSE IF i \in changed THEN @[i] + d * SizeMod ELSE @[i]]]

(* result: the value returned, and the object it leaves. *)
ResultOf(o) ==
  IF o.n <= Short THEN digest_short(o, SubSeq(o.buffer, 1, o.n))
  ELSE digest_long(o, last_round(o).acc, o.n)
result(o, d, changed) ==
  Mix(Perturb(IF o.n <= Short THEN o ELSE last_round(o)), d, changed)

------------------------------------------------------------------------------
(* The specification *)

Bytes(from, len) == [i \in 1 .. len |-> from + i]

Init ==
  /\ \E c \in Construction : xxh = construct(c[1], c[2], c[3])
  /\ message = << >>
  /\ results = 0
  /\ digest = NoDigest

Update(len) ==
  /\ Len(message) < MaxBytes
  /\ LET p == Bytes(Len(message), len) IN
       /\ xxh' = update(xxh, p)
       /\ message' = message \o p
  /\ UNCHANGED <<results, digest>>

(* The bytes of the buffer that a digest changes. *)
Changes == SUBSET (1 .. Mixed)

ResultMixing(changed) ==
  /\ results < MaxResults
  /\ digest' = ResultOf(xxh)
  /\ results' = results + 1
  /\ xxh' = result(xxh, results', changed)
  /\ UNCHANGED message

Result == \E changed \in Changes : ResultMixing(changed)

Next == (\E len \in Lengths : Update(len)) \/ Result

Spec == Init /\ [][Next]_vars

------------------------------------------------------------------------------
(* Properties *)

StepType ==
  [op : {"accumulate", "scramble", "last", "perturb"}, at : Nat,
   stripe : {<< >>} \cup Block(Stripe, Nat)]

Secret == {"default", "seed", "key", "secret"} \X Nat

Digest ==
  [secret : Secret, seed : Nat, n : 0 .. SizeMod - 1, bytes : Seq(Nat), acc : Seq(StepType)]

(* Type invariant.  Once bytes were given the buffer is never empty again, *)
(* and it may be full.                                                     *)
TypeOK ==
  /\ xxh.secret \in Secret
  /\ xxh.secret_len \in min_secret_len .. default_secret_len
  /\ xxh.seed \in Nat /\ xxh.with_secret \in BOOLEAN
  /\ xxh.buffer \in Block(buffer_size, Nat) /\ xxh.acc \in Seq(StepType)
  /\ xxh.n = Len(message) % SizeMod
  /\ xxh.m \in 0 .. buffer_size /\ (xxh.m = 0 <=> message = << >>)
  /\ xxh.num_stripes \in Nat
  /\ results \in 0 .. MaxResults
  /\ digest \in IF results = 0 THEN {NoDigest} ELSE Digest

(* What the algorithm accumulates from the first k stripes of a message:   *)
(* each stripe under the next part of the secret, and a scramble after     *)
(* every one that took the last part.                                      *)
StripeOf(bytes, j) == SubSeq(bytes, (j - 1) * Stripe + 1, j * Stripe)

Accumulated(parts, bytes, k) ==
  [i \in 1 .. k + (k \div parts) |->
     LET scrambles == i \div (parts + 1)
         part      == i % (parts + 1)
     IN  IF part = 0 THEN Step("scramble", 0, << >>)
         ELSE Step("accumulate", part - 1, StripeOf(bytes, i - scrambles))]

(* The digest of a message that arrives in one piece. *)
OneShot(o, bytes) ==
  LET len  == Len(bytes)
      last == SubSeq(bytes, len - Stripe + 1, len)
  IN  IF len <= Short THEN digest_short(o, bytes)
      ELSE digest_long(o, Append(Accumulated(stripes_per_block(o), bytes, (len - 1) \div Stripe),
                                 Step("last", 0, last)), len)

(* Before the first result, and however the message was split, the         *)
(* accumulator has taken in a whole number of stripes of the message, in   *)
(* step with the secret; the buffer holds the rest, and when that is less  *)
(* than a stripe it still holds what completes the last stripe             *)
(* (hashing_bytes.adoc:122).                                               *)
Streamed ==
  results = 0 =>
    LET len  == Len(message)
        done == (len - xxh.m) \div Stripe
        k    == Stripe - xxh.m
    IN  /\ len = done * Stripe + xxh.m
        /\ xxh.acc = Accumulated(stripes_per_block(xxh), message, done)
        /\ xxh.num_stripes = done % stripes_per_block(xxh)
        /\ SubSeq(xxh.buffer, 1, xxh.m) = SubSeq(message, len - xxh.m + 1, len)
        /\ (done > 0 /\ k > 0) =>
             SubSeq(xxh.buffer, buffer_size - k + 1, buffer_size)
               = SubSeq(message, len - Stripe + 1, len - xxh.m)

(* The stripes last_round takes from the buffer leave part of the secret   *)
(* unused.                                                                 *)
InBlock(o) == o.n <= Short \/ o.num_stripes + Held(o) < stripes_per_block(o)

(* The first result of a message that does not wrap the counter is the     *)
(* digest of the message in one piece, whenever the stripes that are left  *)
(* in the buffer end before the secret does (hashing_bytes.adoc:122).      *)
DigestInBlock ==
  [][(Result /\ results = 0 /\ InBlock(xxh) /\ Len(message) < SizeMod)
       => digest' = OneShot(xxh, message)]_vars

(* The same without the restriction to the secret, which is what           *)
(* hashing_bytes.adoc:122 says: the way the message is split into parts    *)
(* does not affect the final hash value.                                   *)
DigestIsOneShot ==
  [][(Result /\ results = 0) => digest' = OneShot(xxh, message)]_vars

(* The assertion of last_round (xxh3.hpp:206): no stripe is accumulated    *)
(* under a part of the secret there is not.                                *)
StripesInSecret == [][Result => xxh'.num_stripes <= stripes_per_block(xxh)]_vars

(* The digest of a short message leaves the bytes it was computed from as  *)
(* they are: a byte that is mixed is not changed, one that is cleared was  *)
(* zero.                                                                   *)
LeavesMessage(o, changed) ==
  /\ o.n \in 1 .. Short
  /\ \A i \in 1 .. o.n : IF i <= Mixed THEN i \notin changed ELSE o.buffer[i] = 0

(* A second result, called at once, is the first one again in one case and *)
(* in no other: the message is short and not empty, and the digest left    *)
(* the bytes of it that are in the buffer as they are.                     *)
(* hashing_bytes.adoc:159 promises more, a sequence of results of any      *)
(* length.  In the code (xxh3.hpp:759-772) the result that is the same is  *)
(* followed by the same for ever, as it adds the same again: for a message *)
(* of one byte, when the digest begins with a byte of zero (one in 256).   *)
ResultsDiffer ==
  [][\A changed \in Changes : ResultMixing(changed) =>
       (ResultOf(xxh') = digest' <=> LeavesMessage(xxh, changed))]_vars
==============================================================================
