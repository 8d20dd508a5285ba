---------------------------- MODULE AnyHashProofs -----------------------------
(***************************************************************************)
(* Proofs about what is built over any hash algorithm: Hmac, for every     *)
(* size of a block and of a digest, and for every key and message; and     *)
(* HashAppend, for all types and objects, platforms and flavors.           *)
(***************************************************************************)
EXTENDS Hmac, HashAppend, DataLemmas

(* Tokens refer to sequences of tokens, so no set has all of them: the     *)
(* sequences here are sequences over what they have.                       *)

------------------------------------------------------------------------------
(* Tokens *)

LEMMA TokenIs ==
  ASSUME NEW v, NEW s, NEW pad
  PROVE  /\ Token(v, s, pad).value = v
         /\ Token(v, s, pad).of = s
         /\ Token(v, s, pad).pad = pad
  BY DEF Token

LEMMA PlainIs ==
  ASSUME NEW p \in Seq(Nat)
  PROVE  /\ IsSequence(Plain(p)) /\ Len(Plain(p)) = Len(p)
         /\ \A i \in 1 .. Len(p) : Plain(p)[i] = Token(p[i], << >>, "none")
<1> DEFINE B == {Token(p[i], << >>, "none") : i \in 1 .. Len(p)}
<1>1. Len(p) \in Nat
  OBVIOUS
<1>2. Plain(p) \in [1 .. Len(p) -> B]
  BY DEF Plain
<1>3. Plain(p) \in Seq(B) /\ Len(Plain(p)) = Len(p)
  BY <1>1, <1>2, SMTT(30)
<1>4. \A i \in 1 .. Len(p) : Plain(p)[i] = Token(p[i], << >>, "none")
  BY DEF Plain
<1> HIDE DEF B
<1> QED BY <1>3, <1>4, SequenceIs

LEMMA PlainConcat ==
  ASSUME NEW p \in Seq(Nat), NEW q \in Seq(Nat)
  PROVE  Plain(p \o q) = Plain(p) \o Plain(q)
<1> DEFINE a == Plain(p)
           b == Plain(q)
           c == Plain(p \o q)
<1>1. /\ p \o q \in Seq(Nat) /\ Len(p \o q) = Len(p) + Len(q)
      /\ Len(p) \in Nat /\ Len(q) \in Nat
      /\ \A i \in 1 .. Len(p) + Len(q) :
           (p \o q)[i] = IF i <= Len(p) THEN p[i] ELSE q[i - Len(p)]
  BY ConcatProperties, LenProperties
<1>2. /\ IsSequence(a) /\ Len(a) = Len(p)
      /\ \A i \in 1 .. Len(p) : a[i] = Token(p[i], << >>, "none")
  BY PlainIs
<1>3. /\ IsSequence(b) /\ Len(b) = Len(q)
      /\ \A i \in 1 .. Len(q) : b[i] = Token(q[i], << >>, "none")
  BY PlainIs
<1>4. /\ IsSequence(c) /\ Len(c) = Len(p) + Len(q)
      /\ \A i \in 1 .. Len(p) + Len(q) : c[i] = Token((p \o q)[i], << >>, "none")
  BY <1>1, PlainIs
<1> HIDE DEF a, b, c
<1>5. /\ IsSequence(a \o b) /\ Len(a \o b) = Len(p) + Len(q)
      /\ \A i \in 1 .. Len(p) : (a \o b)[i] = a[i]
      /\ \A i \in 1 .. Len(q) : (a \o b)[Len(p) + i] = b[i]
  <2>1. Len(a) = Len(p) /\ Len(b) = Len(q)
    BY <1>2, <1>3
  <2>3. IsSequence(a) /\ IsSequence(b)
    BY <1>2, <1>3
  <2>2. /\ IsSequence(a \o b) /\ Len(a \o b) = Len(a) + Len(b)
        /\ \A i \in 1 .. Len(a) : (a \o b)[i] = a[i]
        /\ \A i \in 1 .. Len(b) : (a \o b)[Len(a) + i] = b[i]
    BY <2>3, Joined
  <2> QED BY <2>1, <2>2, Zenon
<1>6. ASSUME NEW i \in 1 .. Len(p) + Len(q) PROVE c[i] = (a \o b)[i]
  <2>1. CASE i <= Len(p)
    <3>1. i \in 1 .. Len(p)
      BY <1>1, <2>1
    <3> QED BY <1>1, <1>2, <1>4, <1>5, <2>1, <3>1
  <2>2. CASE ~(i <= Len(p))
    <3>1. PICK j \in 1 .. Len(q) : i = Len(p) + j
      <4>1. i - Len(p) \in 1 .. Len(q) /\ i = Len(p) + (i - Len(p))
        BY <1>1, <2>2
      <4> QED BY <4>1
    <3>2. i - Len(p) = j
      BY <1>1, <3>1
    <3>3. (p \o q)[i] = q[j]
      BY <1>1, <2>2, <3>2
    <3>4. (a \o b)[i] = b[j]
      BY <1>5, <3>1
    <3> QED BY <1>3, <1>4, <3>3, <3>4
  <2> QED BY <2>1, <2>2
<1>7. c = a \o b
  BY <1>4, <1>5, <1>6, SameElements
<1> QED BY <1>7 DEF a, b, c

LEMMA EndIs ==
  IsSequence(<<End>>) /\ Len(<<End>>) = 1 /\ <<End>>[1] = End
<1>1. <<End>> \in Seq({End})
  OBVIOUS
<1> QED BY <1>1, SequenceIs

LEMMA DigestIs ==
  ASSUME NEW s
  PROVE  /\ IsSequence(DigestOf(s)) /\ Len(DigestOf(s)) = result_size
         /\ \A i \in 1 .. result_size : DigestOf(s)[i] = Token(i, s, "none")
<1> DEFINE B == {Token(i, s, "none") : i \in 1 .. result_size}
<1>1. result_size \in Nat
  BY SizeAssumption
<1>2. DigestOf(s) \in [1 .. result_size -> B]
  BY DEF DigestOf
<1>4. \A i \in 1 .. result_size : DigestOf(s)[i] = Token(i, s, "none")
  BY DEF DigestOf
<1> HIDE DEF B
<1>3. DigestOf(s) \in Seq(B) /\ Len(DigestOf(s)) = result_size
  BY <1>1, <1>2, FunctionIs
<1> QED BY <1>3, <1>4, SequenceIs

------------------------------------------------------------------------------
(* Keys *)

(* What a key is turned into before it is filled up. *)
KeyTokens(p) == IF Len(p) <= block_size THEN p ELSE DigestOf(p \o <<End>>)

(* Token i of the key of an instance. *)
Padded(p, i) == ByteAt(KeyTokens(p), i)

LEMMA PadKeyIs ==
  ASSUME NEW p
  PROVE  PadKey(p) = [i \in 1 .. block_size |-> Padded(p, i)]
  BY DEF PadKey, Fill, Padded, KeyTokens, H_digest, H_result, H_finalization

LEMMA KeyTokensAre ==
  ASSUME NEW p, IsKey(p)
  PROVE  /\ IsSequence(KeyTokens(p))
         /\ \A i \in 1 .. Len(KeyTokens(p)) :
              KeyTokens(p)[i] = Token(KeyTokens(p)[i].value, KeyTokens(p)[i].of, "none")
<1>1. CASE Len(p) <= block_size
  <2>1. KeyTokens(p) = p
    BY <1>1 DEF KeyTokens
  <2> QED BY <2>1, Zenon DEF IsKey
<1>2. CASE ~(Len(p) <= block_size)
  <2> DEFINE s == p \o <<End>>
  <2>1. KeyTokens(p) = DigestOf(s)
    BY <1>2 DEF KeyTokens
  <2> HIDE DEF s
  <2>2. IsSequence(DigestOf(s)) /\ Len(DigestOf(s)) = result_size
    BY DigestIs
  <2>3. ASSUME NEW i \in 1 .. result_size
        PROVE  DigestOf(s)[i] = Token(DigestOf(s)[i].value, DigestOf(s)[i].of, "none")
    BY DigestIs, TokenIs
  <2> QED BY <2>1, <2>2, <2>3, Zenon
<1> QED BY <1>1, <1>2

LEMMA PaddedIs ==
  ASSUME NEW p, IsKey(p), NEW i \in 1 .. block_size
  PROVE  Padded(p, i) = Token(Padded(p, i).value, Padded(p, i).of, "none")
<1>1. CASE i <= Len(KeyTokens(p))
  <2>1. IsSequence(KeyTokens(p))
    BY KeyTokensAre
  <2>2. i \in 1 .. Len(KeyTokens(p))
    BY <1>1, <2>1, SizeAssumption
  <2>3. Padded(p, i) = KeyTokens(p)[i]
    BY <1>1, Zenon DEF Padded, ByteAt
  <2> QED BY <2>2, <2>3, KeyTokensAre
<1>2. CASE ~(i <= Len(KeyTokens(p)))
  <2>1. Padded(p, i) = Zero
    BY <1>2, Zenon DEF Padded, ByteAt
  <2> QED BY <2>1, TokenIs DEF Zero
<1> QED BY <1>1, <1>2

(* The blocks both passes begin with. *)
LEMMA XoredIs ==
  ASSUME NEW p, IsKey(p), NEW pad
  PROVE  /\ IsSequence(Xor(PadKey(p), pad)) /\ Len(Xor(PadKey(p), pad)) = block_size
         /\ \A i \in 1 .. block_size :
              Xor(PadKey(p), pad)[i] = Token(Padded(p, i).value, Padded(p, i).of, pad)
<1>1. \A i \in 1 .. block_size : PadKey(p)[i] = Padded(p, i)
  BY PadKeyIs
<1>2. ASSUME NEW i \in 1 .. block_size
      PROVE  Padded(p, i) = Token(Padded(p, i).value, Padded(p, i).of, "none")
  BY PaddedIs
<1>3. ASSUME NEW i \in 1 .. block_size
      PROVE  [Padded(p, i) EXCEPT !.pad = pad] = Token(Padded(p, i).value, Padded(p, i).of, pad)
  <2> DEFINE x == Padded(p, i)
  <2>1. x = [value |-> x.value, of |-> x.of, pad |-> "none"]
    BY <1>2 DEF Token
  <2> HIDE DEF x
  <2>2. [x EXCEPT !.pad = pad] = [value |-> x.value, of |-> x.of, pad |-> pad]
    BY <2>1
  <2> QED BY <2>2 DEF Token, x
<1> DEFINE X == Xor(PadKey(p), pad)
           e(i) == Token(Padded(p, i).value, Padded(p, i).of, pad)
           B == {e(i) : i \in 1 .. block_size}
<1>4. X = [i \in 1 .. block_size |-> e(i)]
  BY <1>1, <1>3 DEF Xor
<1> HIDE DEF X, e
<1>5. X \in [1 .. block_size -> B] /\ \A i \in 1 .. block_size : X[i] = e(i)
  BY <1>4
<1> HIDE DEF B
<1>6. X \in Seq(B) /\ Len(X) = block_size
  BY <1>5, SizeAssumption, FunctionIs
<1>7. IsSequence(X)
  BY <1>6, SequenceIs
<1> QED BY <1>5, <1>6, <1>7 DEF X, e

LEMMA InitIs ==
  ASSUME NEW p, IsKey(p)
  PROVE  /\ init(p).inner = Xor(PadKey(p), "ipad")
         /\ init(p).outer = Xor(PadKey(p), "opad")
<1>1. << >> \o Xor(PadKey(p), "ipad") = Xor(PadKey(p), "ipad")
  BY XoredIs, WithNothing
<1>2. << >> \o Xor(PadKey(p), "opad") = Xor(PadKey(p), "opad")
  BY XoredIs, WithNothing
<1> QED BY <1>1, <1>2 DEF init, H_update

LEMMA KeyIs ==
  ASSUME NEW p \in Keys
  PROVE  IsKey(p)
  BY KeyAssumption

------------------------------------------------------------------------------
(* Types *)

(* The bytes a call of update passes. *)
Passed(len) == [i \in 1 .. len |-> Len(message) + i]

LEMMA PassedIs ==
  ASSUME message \in Seq(Nat), NEW len \in Lengths
  PROVE  Passed(len) \in Seq(Nat) /\ Len(Passed(len)) = len /\ len \in Nat
<1>1. len \in Nat /\ Len(message) \in Nat
  BY BoundAssumption
<1>2. Passed(len) \in [1 .. len -> Nat]
  BY <1>1 DEF Passed
<1> QED BY <1>1, <1>2

(* What the actions do to the two objects. *)
LEMMA UpdateIs ==
  ASSUME NEW len \in Lengths, Update(len)
  PROVE  /\ inner' = inner \o Plain(Passed(len)) /\ message' = message \o Passed(len)
         /\ outer' = outer /\ key' = key /\ results' = results /\ digest' = digest
         /\ Len(message) < MaxBytes
  BY DEF Update, update, hmac, H_update, Passed

LEMMA ResultIs ==
  ASSUME Result
  PROVE  /\ inner' = inner \o <<End>>
         /\ outer' = (outer \o DigestOf(inner \o <<End>>)) \o <<End>>
         /\ digest' = DigestOf(outer') /\ results' = results + 1 /\ results < MaxResults
         /\ key' = key /\ message' = message
  BY DEF Result, result, hmac, H_update, H_result, H_finalization, H_digest

LEMMA InitType == Init => TypeOK
<1> SUFFICES ASSUME Init PROVE TypeOK
  OBVIOUS
<1>1. key \in Keys /\ IsKey(key)
  BY KeyIs DEF Init
<1>2. inner = Xor(PadKey(key), "ipad") /\ outer = Xor(PadKey(key), "opad")
  BY <1>1, InitIs DEF Init
<1>3. /\ IsSequence(inner) /\ Len(inner) = block_size
      /\ IsSequence(outer) /\ Len(outer) = block_size
  BY <1>1, <1>2, XoredIs
<1>4. message = << >> /\ results = 0 /\ digest = NoDigest
  BY DEF Init
<1>5. block_size \in Nat /\ result_size \in Nat /\ MaxResults \in Nat
  BY SizeAssumption, BoundAssumption
<1>6. message \in Seq(Nat) /\ Len(message) = 0
  BY <1>4
<1>7. /\ Len(inner) = block_size + Len(message) + results
      /\ Len(outer) = block_size + results * (result_size + 1)
  BY <1>3, <1>4, <1>5, <1>6
<1> QED BY <1>1, <1>3, <1>4, <1>5, <1>6, <1>7 DEF TypeOK

LEMMA NextType == TypeOK /\ [Next]_vars => TypeOK'
<1> SUFFICES ASSUME TypeOK, [Next]_vars PROVE TypeOK'
  OBVIOUS
<1>1. /\ IsSequence(inner) /\ IsSequence(outer) /\ message \in Seq(Nat) /\ key \in Keys
      /\ Len(inner) = block_size + Len(message) + results
      /\ Len(outer) = block_size + results * (result_size + 1)
      /\ results \in Nat /\ results \in 0 .. MaxResults /\ Len(message) \in Nat
      /\ digest = IF results = 0 THEN NoDigest ELSE DigestOf(outer)
  BY BoundAssumption DEF TypeOK
<1>2. block_size \in Nat /\ result_size \in Nat /\ MaxResults \in Nat
  BY SizeAssumption, BoundAssumption
<1>3. ASSUME NEW len \in Lengths, Update(len) PROVE TypeOK'
  <2> DEFINE p == Passed(len)
  <2>1. /\ inner' = inner \o Plain(p) /\ message' = message \o p
        /\ outer' = outer /\ key' = key /\ results' = results /\ digest' = digest
    BY <1>3, UpdateIs
  <2>2. p \in Seq(Nat) /\ Len(p) = len /\ len \in Nat
    BY <1>1, PassedIs
  <2> HIDE DEF p
  <2>3. IsSequence(Plain(p)) /\ Len(Plain(p)) = len
    BY <2>2, PlainIs
  <2>4. IsSequence(inner') /\ Len(inner') = Len(inner) + len
    BY <1>1, <2>1, <2>3, Joined
  <2>5. message' \in Seq(Nat) /\ Len(message') = Len(message) + len
    BY <1>1, <2>1, <2>2, ConcatProperties
  <2>6. Len(inner') = block_size + Len(message') + results'
    BY <1>1, <1>2, <2>1, <2>2, <2>4, <2>5
  <2> QED BY <1>1, <2>1, <2>4, <2>5, <2>6 DEF TypeOK
<1>4. ASSUME Result PROVE TypeOK'
  <2> DEFINE e == <<End>>
             s == inner \o e
             d == DigestOf(s)
             o == outer \o d
  <2>1. /\ inner' = s /\ outer' = o \o e /\ message' = message /\ key' = key
        /\ digest' = DigestOf(outer') /\ results' = results + 1 /\ results < MaxResults
    BY <1>4, ResultIs
  <2>11. IsSequence(e) /\ Len(e) = 1
    BY EndIs
  <2> HIDE DEF e
  <2>2. IsSequence(s) /\ Len(s) = Len(inner) + 1
    <3>1. IsSequence(inner) /\ IsSequence(e)
      BY <1>1, <2>11
    <3>2. IsSequence(s) /\ Len(s) = Len(inner) + Len(e)
      BY <3>1, Joined
    <3> QED BY <2>11, <3>2
  <2>3. IsSequence(d) /\ Len(d) = result_size
    BY DigestIs
  <2> HIDE DEF s, d
  <2>4. IsSequence(o) /\ Len(o) = Len(outer) + result_size
    BY <1>1, <2>3, Joined
  <2> HIDE DEF o
  <2>5. IsSequence(outer') /\ Len(outer') = Len(outer) + result_size + 1
    <3>1. IsSequence(o \o e) /\ Len(o \o e) = Len(o) + Len(e)
      BY <2>4, <2>11, Joined
    <3> QED BY <1>1, <1>2, <2>1, <2>4, <2>11, <3>1, SMT
  <2>6. (results + 1) * (result_size + 1) = results * (result_size + 1) + result_size + 1
    BY <1>1, <1>2
  <2>7. results * (result_size + 1) \in Nat
    BY <1>1, <1>2
  <2>8. Len(outer') = block_size + results' * (result_size + 1)
    BY <1>1, <1>2, <2>1, <2>5, <2>6, <2>7
  <2>9. Len(inner') = block_size + Len(message') + results'
    BY <1>1, <1>2, <2>1, <2>2
  <2>10. results' \in 0 .. MaxResults /\ results' # 0
    BY <1>1, <1>2, <2>1
  <2> QED BY <1>1, <2>1, <2>2, <2>5, <2>8, <2>9, <2>10 DEF TypeOK
<1>5. CASE UNCHANGED vars
  BY <1>5 DEF vars, TypeOK
<1> QED BY <1>3, <1>4, <1>5 DEF Next

(* The objects hold what the calls have put in them (hmac.hpp:123-140).    *)
THEOREM TypeCorrect == Spec => []TypeOK
<1> QED BY InitType, NextType, PTL DEF Spec
------------------------------------------------------------------------------
(* RFC 2104 *)

(* What both objects have absorbed before the first result. *)
BeforeResult ==
  results = 0 => /\ inner = Xor(PadKey(key), "ipad") \o Plain(message)
                 /\ outer = Xor(PadKey(key), "opad")

LEMMA InitBefore == Init => BeforeResult
<1> SUFFICES ASSUME Init PROVE BeforeResult
  OBVIOUS
<1>1. IsKey(key)
  BY KeyIs DEF Init
<1> DEFINE x == Xor(PadKey(key), "ipad")
<1>2. inner = x /\ outer = Xor(PadKey(key), "opad") /\ message = << >>
  BY <1>1, InitIs DEF Init
<1>3. Plain(message) = << >>
  <2>1. Plain(message) = [i \in 1 .. 0 |-> Token(message[i], << >>, "none")]
    BY <1>2 DEF Plain
  <2> QED BY <2>1
<1>4. x \o << >> = x
  BY <1>1, XoredIs, WithNothing
<1> QED BY <1>2, <1>3, <1>4 DEF BeforeResult

LEMMA NextBefore == TypeOK /\ BeforeResult /\ [Next]_vars => BeforeResult'
<1> SUFFICES ASSUME TypeOK, BeforeResult, [Next]_vars PROVE BeforeResult'
  OBVIOUS
<1>1. message \in Seq(Nat) /\ IsKey(key) /\ results \in Nat
  BY KeyIs, BoundAssumption DEF TypeOK
<1>2. ASSUME NEW len \in Lengths, Update(len) PROVE BeforeResult'
  <2> DEFINE p == Passed(len)
             x == Xor(PadKey(key), "ipad")
             m == Plain(message)
             q == Plain(p)
  <2>1. /\ inner' = inner \o q /\ message' = message \o p
        /\ outer' = outer /\ key' = key /\ results' = results
    BY <1>2, UpdateIs
  <2>2. p \in Seq(Nat)
    BY <1>1, PassedIs
  <2>3. Plain(message') = m \o q
    <3> HIDE DEF p
    <3> QED BY <1>1, <2>1, <2>2, PlainConcat
  <2>4. IsSequence(x) /\ IsSequence(m) /\ IsSequence(q)
    <3> HIDE DEF p
    <3> QED BY <1>1, <2>2, XoredIs, PlainIs
  <2>5. results = 0 => inner = x \o m /\ outer = Xor(PadKey(key), "opad")
    BY DEF BeforeResult
  <2>6. x' = x
    BY <2>1
  <2> HIDE DEF x, m, q
  <2>7. (x \o m) \o q = x \o (m \o q)
    BY <2>4, Regrouped, SMTT(30)
  <2>8. results = 0 => inner' = x \o Plain(message')
    BY <2>1, <2>3, <2>5, <2>7
  <2> QED BY <2>1, <2>5, <2>8 DEF BeforeResult, x
<1>3. ASSUME Result PROVE BeforeResult'
  <2>1. results' = results + 1
    BY <1>3, ResultIs
  <2> QED BY <1>1, <2>1 DEF BeforeResult
<1>4. CASE UNCHANGED vars
  BY <1>4 DEF vars, BeforeResult
<1> QED BY <1>2, <1>3, <1>4 DEF Next

(* The key of the RFC. *)
Zeroed(k) == [i \in 1 .. block_size - Len(KeyTokens(k)) |-> Zero]

LEMMA ZeroedIs ==
  ASSUME NEW k, IsKey(k)
  PROVE  /\ IsSequence(Zeroed(k))
         /\ Len(Zeroed(k)) >= block_size - Len(KeyTokens(k))
         /\ \A i \in 1 .. Len(Zeroed(k)) : Zeroed(k)[i] = Zero
<1> DEFINE l == Len(KeyTokens(k))
           t == Zero
<1>1. l \in Nat /\ block_size \in Nat
  <2>1. IsSequence(KeyTokens(k))
    BY KeyTokensAre
  <2> QED BY <2>1, SizeAssumption, LenProperties DEF IsSequence
<1> HIDE DEF l, t
<1>2. Zeroed(k) = [i \in 1 .. block_size - l |-> t]
  BY DEF Zeroed, l, t
<1>3. CASE l <= block_size
  <2>1. PICK n \in Nat : n = block_size - l
    BY <1>1, <1>3
  <2>2. Zeroed(k) \in [1 .. n -> {t}] /\ \A i \in 1 .. n : Zeroed(k)[i] = t
    BY <1>2, <2>1
  <2>3. Zeroed(k) \in Seq({t}) /\ Len(Zeroed(k)) = n
    BY <2>2, FunctionIs
  <2>4. IsSequence(Zeroed(k))
    BY <2>3, SequenceIs
  <2> QED BY <2>1, <2>2, <2>3, <2>4 DEF t, l
<1>4. CASE ~(l <= block_size)
  <2>1. Zeroed(k) = << >>
    <3>1. 1 .. block_size - l = {}
      BY <1>1, <1>4
    <3>2. Zeroed(k) = [i \in {} |-> t]
      BY <1>2, <3>1
    <3> QED BY <3>2
  <2>2. << >> \in Seq({t}) /\ Len(<< >>) = 0
    OBVIOUS
  <2>3. IsSequence(Zeroed(k)) /\ Len(Zeroed(k)) = 0
    BY <2>1, <2>2, SequenceIs
  <2> QED BY <1>1, <1>4, <2>3 DEF l
<1> QED BY <1>1, <1>3, <1>4

LEMMA KeyOfRFC ==
  ASSUME NEW k, IsKey(k), NEW i \in 1 .. block_size
  PROVE  (KeyTokens(k) \o Zeroed(k))[i] = Padded(k, i)
<1> DEFINE a == KeyTokens(k)
           z == Zeroed(k)
<1>1. IsSequence(a)
  BY KeyTokensAre
<1>2. /\ IsSequence(z) /\ Len(z) >= block_size - Len(a)
      /\ \A j \in 1 .. Len(z) : z[j] = Zero
  BY ZeroedIs
<1>3. Padded(k, i) = IF i <= Len(a) THEN a[i] ELSE Zero
  BY Zenon DEF Padded, ByteAt
<1> HIDE DEF a, z
<1>4. IsSequence(z)
  BY <1>2
<1>5. /\ Len(a) \in Nat /\ Len(z) \in Nat
      /\ \A j \in 1 .. Len(a) : (a \o z)[j] = a[j]
      /\ \A j \in 1 .. Len(z) : (a \o z)[Len(a) + j] = z[j]
  BY <1>1, <1>4, Joined
<1>6. CASE i <= Len(a)
  <2>1. i \in 1 .. Len(a)
    BY <1>5, <1>6, SizeAssumption
  <2>2. (a \o z)[i] = a[i]
    BY <1>5, <2>1
  <2>3. Padded(k, i) = a[i]
    BY <1>3, <1>6, Zenon
  <2> QED BY <2>2, <2>3 DEF a, z
<1>7. CASE ~(i <= Len(a))
  <2>1. PICK j \in 1 .. Len(z) : i = Len(a) + j
    <3>1. i - Len(a) \in 1 .. Len(z) /\ i = Len(a) + (i - Len(a))
      BY <1>2, <1>5, <1>7, SizeAssumption
    <3> QED BY <3>1
  <2>2. (a \o z)[i] = z[j]
    BY <1>5, <2>1
  <2>3. Padded(k, i) = Zero
    BY <1>3, <1>7, Zenon
  <2>4. z[j] = Zero
    BY <1>2
  <2> QED BY <2>2, <2>3, <2>4 DEF a, z
<1> QED BY <1>6, <1>7

(* The RFC in the terms of the code. *)
LEMMA RFCIs ==
  ASSUME NEW k, IsKey(k), NEW text
  PROVE  RFC2104(k, text) =
           DigestOf((Xor(PadKey(k), "opad")
                       \o DigestOf((Xor(PadKey(k), "ipad") \o Plain(text)) \o <<End>>))
                      \o <<End>>)
<1> DEFINE K == KeyTokens(k) \o Zeroed(k)
           xored(pad) == [i \in 1 .. block_size |-> Token(K[i].value, K[i].of, pad)]
<1>1. ASSUME NEW pad PROVE xored(pad) = Xor(PadKey(k), pad)
  <2>1. \A i \in 1 .. block_size : K[i] = Padded(k, i)
    BY KeyOfRFC
  <2>2. xored(pad) = [i \in 1 .. block_size |-> Token(Padded(k, i).value, Padded(k, i).of, pad)]
    BY <2>1
  <2> DEFINE e(i) == Token(Padded(k, i).value, Padded(k, i).of, pad)
             y == xored(pad)
             x == Xor(PadKey(k), pad)
  <2>3. IsSequence(x) /\ Len(x) = block_size /\ \A i \in 1 .. block_size : x[i] = e(i)
    BY XoredIs
  <2>4. y = [i \in 1 .. block_size |-> e(i)]
    BY <2>2
  <2> HIDE DEF e, y, x
  <2>5. block_size \in Nat
    BY SizeAssumption
  <2>6. y \in [1 .. block_size -> {e(i) : i \in 1 .. block_size}]
        /\ \A i \in 1 .. block_size : y[i] = e(i)
    BY <2>4
  <2>7. IsSequence(y) /\ Len(y) = block_size
    BY <2>5, <2>6, FunctionIs, SequenceIs
  <2>8. Len(x) = Len(y) /\ \A i \in 1 .. Len(x) : x[i] = y[i]
    BY <2>3, <2>6, <2>7
  <2>9. IsSequence(x) /\ IsSequence(y)
    BY <2>3, <2>7
  <2>10. x = y
    BY <2>8, <2>9, SameElements
  <2> QED BY <2>10 DEF x, y
<1>2. xored("opad") = Xor(PadKey(k), "opad") /\ xored("ipad") = Xor(PadKey(k), "ipad")
  BY <1>1
<1>3. (IF Len(k) > block_size THEN DigestOf(k \o <<End>>) ELSE k) = KeyTokens(k)
  <2>1. block_size \in Nat /\ Len(k) \in Nat
    BY SizeAssumption, LenProperties DEF IsKey, IsSequence
  <2> QED BY <2>1 DEF KeyTokens
<1> DEFINE hashed == IF Len(k) > block_size THEN DigestOf(k \o <<End>>) ELSE k
           zeroes == [i \in 1 .. block_size - Len(hashed) |-> Zero]
           L == hashed \o zeroes
           mixed(pad) == [i \in 1 .. block_size |-> Token(L[i].value, L[i].of, pad)]
           H(s) == DigestOf(s \o <<End>>)
<1>4. RFC2104(k, text) = H(mixed("opad") \o H(mixed("ipad") \o Plain(text)))
  BY DEF RFC2104
<1>5. hashed = KeyTokens(k)
  BY <1>3
<1>6. zeroes = Zeroed(k)
  BY <1>5, Zenon DEF Zeroed
<1>7. L = K
  BY <1>5, <1>6, Zenon
<1>8. mixed("opad") = xored("opad") /\ mixed("ipad") = xored("ipad")
  <2> HIDE DEF L, K
  <2> QED BY <1>7, Zenon
<1> HIDE DEF mixed, xored
<1> QED BY <1>2, <1>4, <1>8, Zenon

(* The first result is the HMAC of RFC 2104 of the key and the message,    *)
(* for keys of every length and however the message is split.              *)
THEOREM FirstIsRFC == Spec => FirstIsRFC2104
<1>1. Spec => [](TypeOK /\ BeforeResult)
  <2>1. TypeOK /\ BeforeResult /\ [Next]_vars => (TypeOK /\ BeforeResult)'
    BY NextType, NextBefore
  <2>2. Init => TypeOK /\ BeforeResult
    BY InitType, InitBefore
  <2> QED BY <2>1, <2>2, PTL DEF Spec
<1>2. TypeOK /\ BeforeResult /\ [Next]_vars =>
        [(Result /\ results = 0) => digest' = RFC2104(key, message)]_vars
  <2> SUFFICES ASSUME TypeOK, BeforeResult, Result, results = 0
               PROVE  digest' = RFC2104(key, message)
    OBVIOUS
  <2>1. IsKey(key)
    BY KeyIs DEF TypeOK
  <2>2. inner = Xor(PadKey(key), "ipad") \o Plain(message) /\ outer = Xor(PadKey(key), "opad")
    BY DEF BeforeResult
  <2>3. digest' = DigestOf((outer \o DigestOf(inner \o <<End>>)) \o <<End>>)
    BY ResultIs
  <2>4. RFC2104(key, message) = DigestOf((outer \o DigestOf(inner \o <<End>>)) \o <<End>>)
    BY <2>1, <2>2, RFCIs
  <2> QED BY <2>3, <2>4
<1> QED BY <1>1, <1>2, PTL DEF Spec, FirstIsRFC2104
------------------------------------------------------------------------------
(* hmac<H> is a hash algorithm *)

(* What outer_ holds before its last finalization is of all inner_ holds.  *)
LEMMA LastOfOuter ==
  ASSUME TypeOK, Result
  PROVE  outer'[Len(outer') - 1].of = inner \o <<End>>
<1> DEFINE e == <<End>>
           s == inner \o e
           d == DigestOf(s)
           o == outer \o d
<1>1. outer' = o \o e
  BY ResultIs
<1>2. IsSequence(e) /\ Len(e) = 1
  BY EndIs
<1>3. IsSequence(d) /\ Len(d) = result_size /\ result_size \in 1 .. Len(d)
      /\ d[result_size] = Token(result_size, s, "none")
  <2>1. result_size \in 1 .. result_size
    BY SizeAssumption
  <2> HIDE DEF s
  <2> QED BY <2>1, DigestIs
<1>4. IsSequence(outer)
  BY DEF TypeOK
<1> HIDE DEF e, d
<1>5. /\ IsSequence(o) /\ Len(outer) \in Nat /\ Len(o) = Len(outer) + result_size
      /\ o[Len(outer) + result_size] = d[result_size]
  <2>1. IsSequence(d)
    BY <1>3
  <2>2. /\ IsSequence(o) /\ Len(outer) \in Nat /\ Len(o) = Len(outer) + Len(d)
        /\ \A i \in 1 .. Len(d) : o[Len(outer) + i] = d[i]
    BY <1>4, <2>1, Joined
  <2> QED BY <1>3, <2>2
<1> HIDE DEF o, s
<1>6. /\ Len(o \o e) = Len(o) + 1 /\ Len(o) \in Nat
      /\ \A i \in 1 .. Len(o) : (o \o e)[i] = o[i]
  <2>1. IsSequence(o) /\ IsSequence(e)
    BY <1>2, <1>5
  <2>2. /\ Len(o \o e) = Len(o) + Len(e) /\ Len(o) \in Nat
        /\ \A i \in 1 .. Len(o) : (o \o e)[i] = o[i]
    BY <2>1, Joined
  <2> QED BY <1>2, <2>2
<1>7. Len(o) \in 1 .. Len(o) /\ Len(outer') - 1 = Len(o)
  BY <1>1, <1>5, <1>6, SizeAssumption
<1>8. outer'[Len(outer') - 1] = d[result_size]
  BY <1>1, <1>5, <1>6, <1>7
<1>9. outer'[Len(outer') - 1].of = s
  BY <1>3, <1>8, TokenIs
<1> QED BY <1>9 DEF s, e

(* hmac<H> implements HashAlgorithm: its message is what inner_ has        *)
(* absorbed, and each result commits to all of it.                         *)
THEOREM Refinement == Spec => ImplementsHashAlgorithm
<1> DEFINE committed == IF results = 0 THEN NoDigest ELSE outer[Len(outer) - 1].of
<1>1. Init => Promise!AInit
  <2> SUFFICES ASSUME Init PROVE Promise!AInit
    OBVIOUS
  <2>1. key \in Keys /\ inner = init(key).inner /\ results = 0
    BY DEF Init
  <2>2. inner \in {init(p).inner : p \in Keys}
    BY <2>1
  <2>3. committed = NoDigest
    BY <2>1
  <2> QED BY <2>2, <2>3 DEF Promise!AInit
<1>2. TypeOK /\ [Next]_vars => [Promise!ANext]_(Promise!aVars)
  <2> SUFFICES ASSUME TypeOK, [Next]_vars PROVE [Promise!ANext]_(Promise!aVars)
    OBVIOUS
  <2>1. message \in Seq(Nat) /\ Len(message) \in Nat /\ results \in Nat
    BY BoundAssumption DEF TypeOK
  <2>2. ASSUME NEW len \in Lengths, Update(len) PROVE Promise!AUpdate
    <3> DEFINE p == Passed(len)
               Input == UNION {{Plain([i \in 1 .. l |-> k + i]) : k \in 0 .. MaxBytes} : l \in Lengths}
    <3>1. /\ inner' = inner \o Plain(p) /\ outer' = outer /\ results' = results
          /\ Len(message) < MaxBytes
      BY <2>2, UpdateIs
    <3>2. PICK k \in 0 .. MaxBytes : k = Len(message)
      BY <2>1, <3>1, BoundAssumption
    <3>3. Plain(p) = Plain([i \in 1 .. len |-> k + i])
      BY <3>2 DEF Passed
    <3>4. Plain(p) \in Input
      <4>1. Plain([i \in 1 .. len |-> k + i]) \in
              {Plain([i \in 1 .. len |-> j + i]) : j \in 0 .. MaxBytes}
        OBVIOUS
      <4> QED BY <3>3, <4>1, ZenonT(60)
    <3>5. committed' = committed
      BY <3>1
    <3> HIDE DEF p, committed
    <3>6. \E q \in Input : inner' = inner \o q
      BY <3>1, <3>4
    <3> QED BY <3>5, <3>6 DEF Promise!AUpdate, committed
  <2>3. ASSUME Result PROVE Promise!AResult
    <3>1. inner' = inner \o <<End>> /\ results' = results + 1
      BY <2>3, ResultIs
    <3>2. outer'[Len(outer') - 1].of = inner'
      BY <2>3, <3>1, LastOfOuter
    <3>3. results' # 0
      BY <2>1, <3>1
    <3>4. committed' = inner'
      BY <3>2, <3>3
    <3> QED BY <3>1, <3>4 DEF Promise!AResult, H_finalization
  <2>4. CASE UNCHANGED vars
    BY <2>4 DEF vars, Promise!aVars
  <2> QED BY <2>2, <2>3, <2>4 DEF Next, Promise!ANext
<1> QED BY <1>1, <1>2, TypeCorrect, PTL DEF Spec, ImplementsHashAlgorithm, Promise!ASpec

------------------------------------------------------------------------------
(* Different keys *)

LEMMA SamePadding ==
  ASSUME NEW p, IsKey(p), NEW q, IsKey(q), init(p) = init(q), NEW i \in 1 .. block_size
  PROVE  Padded(p, i) = Padded(q, i)
<1> DEFINE x == Xor(PadKey(p), "ipad")
           y == Xor(PadKey(q), "ipad")
           a == Padded(p, i)
           b == Padded(q, i)
<1>1. x = y
  <2>1. init(p).inner = init(q).inner
    OBVIOUS
  <2> QED BY <2>1, InitIs
<1>2. x[i] = Token(a.value, a.of, "ipad") /\ y[i] = Token(b.value, b.of, "ipad")
  BY XoredIs
<1>3. a = Token(a.value, a.of, "none") /\ b = Token(b.value, b.of, "none")
  BY PaddedIs
<1> HIDE DEF x, y, a, b
<1>4. Token(a.value, a.of, "ipad") = Token(b.value, b.of, "ipad")
  BY <1>1, <1>2, Zenon
<1>5. a.value = b.value /\ a.of = b.of
  <2> DEFINE t == Token(a.value, a.of, "ipad")
             u == Token(b.value, b.of, "ipad")
  <2>1. t.value = a.value /\ t.of = a.of
    BY TokenIs
  <2>2. u.value = b.value /\ u.of = b.of
    BY TokenIs
  <2> HIDE DEF t, u
  <2>3. t = u
    BY <1>4 DEF t, u
  <2> QED BY <2>1, <2>2, <2>3, Zenon
<1>6. a = b
  BY <1>3, <1>5, Zenon
<1> QED BY <1>6 DEF a, b

(* What is finalized was finalized as a whole. *)
LEMMA SameEnded ==
  ASSUME NEW p, IsSequence(p), NEW q, IsSequence(q), p \o <<End>> = q \o <<End>>
  PROVE  p = q
<1> DEFINE e == <<End>>
           y == p \o e
           z == q \o e
<1>1. IsSequence(e) /\ Len(e) = 1
  BY EndIs
<1>2. y = z
  OBVIOUS
<1> HIDE DEF e
<1>3. /\ Len(p) \in Nat /\ Len(y) = Len(p) + 1
      /\ \A i \in 1 .. Len(p) : y[i] = p[i]
  <2>1. IsSequence(e)
    BY <1>1
  <2>2. Len(p) \in Nat /\ Len(y) = Len(p) + Len(e) /\ \A i \in 1 .. Len(p) : y[i] = p[i]
    BY <2>1, Joined
  <2> QED BY <1>1, <2>2, Zenon
<1>4. /\ Len(q) \in Nat /\ Len(z) = Len(q) + 1
      /\ \A i \in 1 .. Len(q) : z[i] = q[i]
  <2>1. IsSequence(e)
    BY <1>1
  <2>2. Len(q) \in Nat /\ Len(z) = Len(q) + Len(e) /\ \A i \in 1 .. Len(q) : z[i] = q[i]
    BY <2>1, Joined
  <2> QED BY <1>1, <2>2, Zenon
<1> HIDE DEF y, z
<1>5. Len(p) = Len(q)
  <2>1. Len(y) = Len(z)
    BY <1>2
  <2> QED BY <1>3, <1>4, <2>1
<1>6. \A i \in 1 .. Len(p) : p[i] = q[i]
  BY <1>2, <1>3, <1>4, <1>5, Zenon
<1> QED BY <1>5, <1>6, SameElements

(* Digests of sequences tell the sequences apart. *)
LEMMA SameDigest ==
  ASSUME NEW s, NEW t, ByteAt(DigestOf(s), 1) = ByteAt(DigestOf(t), 1)
  PROVE  s = t
<1>1. 1 \in 1 .. result_size /\ 1 <= result_size
  BY SizeAssumption
<1>2. ASSUME NEW r PROVE ByteAt(DigestOf(r), 1) = Token(1, r, "none")
  <2> DEFINE d == DigestOf(r)
  <2>1. d[1] = Token(1, r, "none") /\ 1 <= Len(d)
    BY <1>1, DigestIs
  <2> HIDE DEF d
  <2>2. ByteAt(d, 1) = Token(1, r, "none")
    BY <2>1, Zenon DEF ByteAt
  <2> QED BY <2>2 DEF d
<1>3. Token(1, s, "none").of = Token(1, t, "none").of
  BY <1>2
<1> QED BY <1>3, TokenIs

LEMMA KeysApart ==
  ASSUME NEW p, IsKey(p), NEW q, IsKey(q), init(p) = init(q)
  PROVE  SameButForZeroes(p, q) \/ IsDigestOf(p, q) \/ IsDigestOf(q, p)
<1>1. /\ 1 \in 1 .. block_size /\ block_size \in Nat /\ Len(p) \in Nat /\ Len(q) \in Nat
      /\ IsSequence(p) /\ IsSequence(q)
  <2>1. IsSequence(p) /\ IsSequence(q)
    BY DEF IsKey
  <2>2. Len(p) \in Nat /\ Len(q) \in Nat
    BY <2>1, LenProperties DEF IsSequence
  <2> QED BY <2>1, <2>2, SizeAssumption
<1>2. \A i \in 1 .. block_size : ByteAt(KeyTokens(p), i) = ByteAt(KeyTokens(q), i)
  BY SamePadding, Zenon DEF Padded
<1>3. ASSUME NEW k
      PROVE  /\ Len(k) <= block_size => KeyTokens(k) = k
             /\ ~(Len(k) <= block_size) => KeyTokens(k) = H_digest(k)
  BY DEF KeyTokens, H_digest, H_result, H_finalization
<1>4. CASE Len(p) <= block_size /\ Len(q) <= block_size
  <2>1. (1 .. Len(p)) \cup (1 .. Len(q)) \subseteq 1 .. block_size
    BY <1>1, <1>4
  <2>2. \A i \in 1 .. block_size : ByteAt(p, i) = ByteAt(q, i)
    BY <1>2, <1>3, <1>4, Zenon
  <2> QED BY <2>1, <2>2, Zenon DEF SameButForZeroes
<1>5. CASE ~(Len(p) <= block_size) /\ ~(Len(q) <= block_size)
  <2>1. ByteAt(DigestOf(p \o <<End>>), 1) = ByteAt(DigestOf(q \o <<End>>), 1)
    BY <1>1, <1>2, <1>5, Zenon DEF KeyTokens
  <2>2. p = q
    BY <1>1, <2>1, SameDigest, SameEnded
  <2> QED BY <2>2, Zenon DEF SameButForZeroes
<1>6. CASE Len(p) <= block_size /\ ~(Len(q) <= block_size)
  <2>1. \A i \in 1 .. block_size : ByteAt(p, i) = ByteAt(H_digest(q), i)
    BY <1>2, <1>3, <1>6, Zenon
  <2>2. Len(q) > block_size
    BY <1>1, <1>6
  <2> QED BY <1>6, <2>1, <2>2, Zenon DEF IsDigestOf
<1>7. CASE ~(Len(p) <= block_size) /\ Len(q) <= block_size
  <2>1. \A i \in 1 .. block_size : ByteAt(q, i) = ByteAt(H_digest(p), i)
    BY <1>2, <1>3, <1>7, Zenon
  <2>2. Len(p) > block_size
    BY <1>1, <1>7
  <2> QED BY <1>7, <2>1, <2>2, Zenon DEF IsDigestOf
<1> QED BY <1>4, <1>5, <1>6, <1>7

(* Keys that give the same instance are the same up to zeroes at the end,  *)
(* or one of them is the digest that the other, longer than a block, is    *)
(* replaced by: whatever bytes the keys consist of, the bytes of digests   *)
(* included.                                                               *)
THEOREM DistinctKeys == Spec => []SameInstanceKeys
<1>1. TypeOK => SameInstanceKeys
  <2> SUFFICES ASSUME TypeOK, NEW p \in Keys, init(p) = init(key)
               PROVE  SameButForZeroes(p, key) \/ IsDigestOf(p, key) \/ IsDigestOf(key, p)
    BY DEF SameInstanceKeys
  <2>1. IsKey(p) /\ IsKey(key)
    BY KeyIs DEF TypeOK
  <2> QED BY <2>1, KeysApart
<1> QED BY <1>1, TypeCorrect, PTL

------------------------------------------------------------------------------
(* Types *)

LEMMA TypeIs ==
  ASSUME NEW t \in Types
  PROVE  /\ t.kind \in Kinds /\ t.size \in Nat /\ t.parts \in Seq(Types)
         /\ DOMAIN t.parts = 1 .. Len(t.parts) /\ Len(t.parts) \in Nat
         /\ \A i \in DOMAIN t.parts : t.parts[i] \in Types
<1>1. t \in [kind : Kinds, size : Nat, parts : Seq(Types)] BY TypesAssumption, Zenon
<1>2. t.kind \in Kinds /\ t.size \in Nat /\ t.parts \in Seq(Types) BY <1>1
<1>3. /\ DOMAIN t.parts = 1 .. Len(t.parts) /\ Len(t.parts) \in Nat
      /\ \A i \in DOMAIN t.parts : t.parts[i] \in Types
  BY <1>2, LenProperties, ElementOfSeq
<1> QED BY <1>2, <1>3

Depth(t) == Cardinality(Within[t])

LEMMA Deeper ==
  ASSUME NEW t \in Types
  PROVE  /\ Depth(t) \in Nat
         /\ \A i \in DOMAIN t.parts : Depth(t.parts[i]) < Depth(t)
  BY TypesAssumption, FS_CardinalityType, Zenon DEF Depth

(* What holds of a type when it holds of its parts holds of all types. *)
LEMMA TypeInduction ==
  ASSUME NEW S,
         \A t \in Types : (\A i \in DOMAIN t.parts : t.parts[i] \in S) => t \in S
  PROVE  \A t \in Types : t \in S
<1> DEFINE D == {Depth(t) : t \in Types \ S}
<1> SUFFICES ASSUME Types \ S # {} PROVE FALSE OBVIOUS
<1>1. D \subseteq Nat BY Deeper
<1>2. PICK d \in D : \A e \in D : d <= e
  <2>1. D # {} OBVIOUS
  <2> HIDE DEF D
  <2> QED BY <1>1, <2>1, LeastNumber
<1>3. PICK t \in Types \ S : d = Depth(t) BY <1>2
<1>4. PICK i \in DOMAIN t.parts : t.parts[i] \notin S OBVIOUS
<1>5. t.parts[i] \in Types \ S BY <1>4, TypeIs
<1>6. Depth(t.parts[i]) \in D BY <1>5
<1>7. Depth(t.parts[i]) < d /\ d \in Nat /\ Depth(t.parts[i]) \in Nat BY <1>3, <1>5, Deeper
<1> QED BY <1>2, <1>6, <1>7

------------------------------------------------------------------------------
(* Recursion: what calls itself for the parts of a type satisfies its own  *)
(* definition.  The functions that do so for the types up to a depth are   *)
(* extended from one depth to the next.                                    *)

Below(n) == {t \in Types : Depth(t) < n}

LEMMA BelowIs ==
  /\ Below(0) = {}
  /\ \A t \in Types : t \in Below(Depth(t) + 1)
  /\ \A n \in Nat : \A t \in Below(n + 1) :
       t \in Types /\ \A i \in DOMAIN t.parts : t.parts[i] \in Below(n)
<1>1. Below(0) = {} BY Deeper DEF Below
<1>2. ASSUME NEW t \in Types PROVE t \in Below(Depth(t) + 1) BY Deeper DEF Below
<1>3. ASSUME NEW n \in Nat, NEW t \in Below(n + 1), NEW i \in DOMAIN t.parts
      PROVE  t.parts[i] \in Below(n)
  <2>1. t \in Types /\ Depth(t) < n + 1 BY DEF Below
  <2>2. t.parts[i] \in Types BY <2>1, TypeIs
  <2>3. Depth(t.parts[i]) < Depth(t) /\ Depth(t) \in Nat /\ Depth(t.parts[i]) \in Nat
    BY <2>1, <2>2, Deeper
  <2> QED BY <2>1, <2>2, <2>3 DEF Below
<1>4. \A n \in Nat : \A t \in Below(n + 1) : t \in Types BY DEF Below
<1> QED BY <1>1, <1>2, <1>3, <1>4

LEMMA BelowBoth ==
  ASSUME NEW n \in Nat, NEW m \in Nat
  PROVE  /\ Below(n) \cap Below(m) \subseteq Types
         /\ \A s \in Below(n) \cap Below(m) : \A i \in DOMAIN s.parts :
              s.parts[i] \in Below(n) \cap Below(m)
<1>1. ASSUME NEW s \in Below(n) \cap Below(m), NEW i \in DOMAIN s.parts
      PROVE  s.parts[i] \in Below(n) \cap Below(m)
  <2>1. s \in Types /\ Depth(s) < n /\ Depth(s) < m BY DEF Below
  <2>2. s.parts[i] \in Types BY <2>1, TypeIs
  <2>3. Depth(s.parts[i]) < Depth(s) /\ Depth(s) \in Nat /\ Depth(s.parts[i]) \in Nat
    BY <2>1, <2>2, Deeper
  <2> QED BY <2>1, <2>2, <2>3 DEF Below
<1>2. Below(n) \cap Below(m) \subseteq Types BY DEF Below
<1> QED BY <1>1, <1>2

(* The same for the types of a set that has the parts of its types.        *)
LEMMA InductionOn ==
  ASSUME NEW B, B \subseteq Types, \A s \in B : \A i \in DOMAIN s.parts : s.parts[i] \in B,
         NEW S, \A s \in B : (\A i \in DOMAIN s.parts : s.parts[i] \in S) => s \in S
  PROVE  \A s \in B : s \in S
<1> DEFINE R == {s \in Types : s \in B => s \in S}
<1>1. \A s \in Types : (\A i \in DOMAIN s.parts : s.parts[i] \in R) => s \in R OBVIOUS
<1>2. \A s \in Types : s \in R
  <2> HIDE DEF R
  <2> QED BY <1>1, TypeInduction
<1> QED BY <1>2

LEMMA WithinIs ==
  ASSUME NEW t \in Types
  PROVE  Within[t] =
           LET p == [i \in DOMAIN t.parts |-> Within[t.parts[i]]] IN
           {t} \cup UNION {p[i] : i \in DOMAIN p}
<1> DEFINE P(g, s) == [i \in DOMAIN s.parts |-> g[s.parts[i]]]
           Of(s, p) == 
             {s} \cup UNION {p[i] : i \in DOMAIN p}
           Solves(g, n) == g = [s \in Below(n) |-> Of(s, P(g, s))]
           f == [s \in Types |-> (CHOOSE g : Solves(g, Depth(s) + 1))[s]]
<1>1. Within = CHOOSE g : g = [s \in Types |-> Of(s, P(g, s))]
  BY Zenon DEF Within
<1> HIDE DEF Of
<1>2. ASSUME NEW n \in Nat PROVE \E g : Solves(g, n)
  <2> DEFINE S == {m \in Nat : \E g : Solves(g, m)}
  <2>1. 0 \in S
    <3>1. Solves([s \in {} |-> 0], 0) BY BelowIs
    <3> QED BY <3>1
  <2>2. ASSUME NEW m \in 0 .. n - 1, m \in S PROVE m + 1 \in S
    <3>1. PICK g : Solves(g, m) BY <2>2
    <3> DEFINE k == [s \in Below(m + 1) |-> Of(s, P(g, s))]
    <3>2. ASSUME NEW s \in Below(m + 1) PROVE P(k, s) = P(g, s)
      <4>1. ASSUME NEW i \in DOMAIN s.parts PROVE k[s.parts[i]] = g[s.parts[i]]
        <5>1. s.parts[i] \in Below(m) /\ s.parts[i] \in Types BY BelowIs DEF Below
        <5>2. s.parts[i] \in Below(m + 1) BY <5>1, Deeper DEF Below
        <5>3. k[s.parts[i]] = Of(s.parts[i], P(g, s.parts[i])) BY <5>2
        <5>4. g[s.parts[i]] = Of(s.parts[i], P(g, s.parts[i])) BY <3>1, <5>1
        <5> QED BY <5>3, <5>4
      <4> HIDE DEF k
      <4> QED BY <4>1
    <3>3. k = [s \in Below(m + 1) |-> Of(s, P(k, s))]
      <4>1. \A s \in Below(m + 1) : P(k, s) = P(g, s) BY <3>2
      <4> HIDE DEF P
      <4> QED BY <4>1
    <3>4. m + 1 \in Nat OBVIOUS
    <3> HIDE DEF k
    <3> QED BY <3>3, <3>4
  <2>3. \A m \in 0 .. n : m \in S
    <3> HIDE DEF S
    <3> QED BY <2>1, <2>2, Induction
  <2> QED BY <2>3
<1>3. ASSUME NEW s \in Types, NEW n \in Nat, NEW g, s \in Below(n), Solves(g, n)
      PROVE  f[s] = g[s]
  <2>1. PICK m \in Nat : m = Depth(s) + 1 BY Deeper
  <2>2. PICK k : k = CHOOSE j : Solves(j, m) OBVIOUS
  <2>3. Solves(k, m) BY <1>2, <2>2
  <2>4. ASSUME NEW q \in Below(n) \cap Below(m),
               \A i \in DOMAIN q.parts : g[q.parts[i]] = k[q.parts[i]]
        PROVE  g[q] = k[q]
    <3>1. P(g, q) = P(k, q) BY <2>4
    <3>2. g[q] = Of(q, P(g, q)) /\ k[q] = Of(q, P(k, q)) BY <1>3, <2>3
    <3> QED BY <3>1, <3>2
  <2>5. \A q \in Below(n) \cap Below(m) : g[q] = k[q]
    <3> DEFINE B == Below(n) \cap Below(m)
    <3>1. B \subseteq Types /\ \A q \in B : \A i \in DOMAIN q.parts : q.parts[i] \in B
      BY BelowBoth
    <3> DEFINE S == {q \in B : g[q] = k[q]}
    <3>2. \A q \in B : (\A i \in DOMAIN q.parts : q.parts[i] \in S) => q \in S
      BY <2>4
    <3>3. \A q \in B : q \in S
      <4> HIDE DEF S, B
      <4> QED BY <3>1, <3>2, InductionOn
    <3> QED BY <3>3
  <2>6. s \in Below(n) \cap Below(m) BY <1>3, <2>1, BelowIs
  <2>7. f[s] = k[s] BY <2>1, <2>2
  <2> QED BY <2>5, <2>6, <2>7
<1>4. f = [s \in Types |-> Of(s, P(f, s))]
  <2>1. ASSUME NEW s \in Types PROVE f[s] = Of(s, P(f, s))
    <3>1. PICK n \in Nat : n = Depth(s) + 1 BY Deeper
    <3>2. PICK g : Solves(g, n) BY <1>2
    <3>3. s \in Below(n) BY <3>1, BelowIs
    <3>4. ASSUME NEW i \in DOMAIN s.parts PROVE f[s.parts[i]] = g[s.parts[i]]
      <4>1. s.parts[i] \in Types /\ s.parts[i] \in Below(n)
        <5>1. s.parts[i] \in Types BY TypeIs
        <5>2. Depth(s.parts[i]) < n BY <3>1, <5>1, Deeper
        <5> QED BY <5>1, <5>2 DEF Below
      <4> HIDE DEF f, Solves
      <4> QED BY <1>3, <3>2, <4>1
    <3>5. P(f, s) = P(g, s)
      <4> HIDE DEF f
      <4> QED BY <3>4
    <3>6. f[s] = g[s] BY <1>3, <3>2, <3>3
    <3>7. g[s] = Of(s, P(g, s)) BY <3>2, <3>3
    <3> QED BY <3>5, <3>6, <3>7
  <2>2. f = [s \in Types |-> f[s]] OBVIOUS
  <2> HIDE DEF f, P
  <2> QED BY <2>1, <2>2
<1>5. Within = [s \in Types |-> Of(s, P(Within, s))]
  <2> HIDE DEF f, P
  <2> QED BY <1>1, <1>4
<1>6. Within[t] = Of(t, P(Within, t)) BY <1>5
<1> QED BY <1>6, Zenon DEF Of

LEMMA ObjectsIs ==
  ASSUME NEW t \in Types
  PROVE  Objects[t] =
           LET p == [i \in DOMAIN t.parts |-> Objects[t.parts[i]]] IN
           CASE t.kind \in Scalars \cup {"float"} -> 0 .. (Radix ^ t.size) - 1
             [] t.kind \in Units -> {0}
             [] t.kind \in Products -> Product(p)
             [] t.kind \in Containers -> UNION {[1 .. n -> p[1]] : n \in SizesOf(t)}
             [] t.kind = "variant" ->
                  (UNION {{<<i - 1, x>> : x \in p[i]} : i \in DOMAIN p})
                    \cup (IF t.size = 1 THEN {<< >>} ELSE {})
<1> DEFINE P(g, s) == [i \in DOMAIN s.parts |-> g[s.parts[i]]]
           Of(s, p) == 
             CASE s.kind \in Scalars \cup {"float"} -> 0 .. (Radix ^ s.size) - 1
               [] s.kind \in Units -> {0}
               [] s.kind \in Products -> Product(p)
               [] s.kind \in Containers -> UNION {[1 .. n -> p[1]] : n \in SizesOf(s)}
               [] s.kind = "variant" ->
                    (UNION {{<<i - 1, x>> : x \in p[i]} : i \in DOMAIN p})
                      \cup (IF s.size = 1 THEN {<< >>} ELSE {})
           Solves(g, n) == g = [s \in Below(n) |-> Of(s, P(g, s))]
           f == [s \in Types |-> (CHOOSE g : Solves(g, Depth(s) + 1))[s]]
<1>1. Objects = CHOOSE g : g = [s \in Types |-> Of(s, P(g, s))]
  BY Zenon DEF Objects
<1> HIDE DEF Of
<1>2. ASSUME NEW n \in Nat PROVE \E g : Solves(g, n)
  <2> DEFINE S == {m \in Nat : \E g : Solves(g, m)}
  <2>1. 0 \in S
    <3>1. Solves([s \in {} |-> 0], 0) BY BelowIs
    <3> QED BY <3>1
  <2>2. ASSUME NEW m \in 0 .. n - 1, m \in S PROVE m + 1 \in S
    <3>1. PICK g : Solves(g, m) BY <2>2
    <3> DEFINE k == [s \in Below(m + 1) |-> Of(s, P(g, s))]
    <3>2. ASSUME NEW s \in Below(m + 1) PROVE P(k, s) = P(g, s)
      <4>1. ASSUME NEW i \in DOMAIN s.parts PROVE k[s.parts[i]] = g[s.parts[i]]
        <5>1. s.parts[i] \in Below(m) /\ s.parts[i] \in Types BY BelowIs DEF Below
        <5>2. s.parts[i] \in Below(m + 1) BY <5>1, Deeper DEF Below
        <5>3. k[s.parts[i]] = Of(s.parts[i], P(g, s.parts[i])) BY <5>2
        <5>4. g[s.parts[i]] = Of(s.parts[i], P(g, s.parts[i])) BY <3>1, <5>1
        <5> QED BY <5>3, <5>4
      <4> HIDE DEF k
      <4> QED BY <4>1
    <3>3. k = [s \in Below(m + 1) |-> Of(s, P(k, s))]
      <4>1. \A s \in Below(m + 1) : P(k, s) = P(g, s) BY <3>2
      <4> HIDE DEF P
      <4> QED BY <4>1
    <3>4. m + 1 \in Nat OBVIOUS
    <3> HIDE DEF k
    <3> QED BY <3>3, <3>4
  <2>3. \A m \in 0 .. n : m \in S
    <3> HIDE DEF S
    <3> QED BY <2>1, <2>2, Induction
  <2> QED BY <2>3
<1>3. ASSUME NEW s \in Types, NEW n \in Nat, NEW g, s \in Below(n), Solves(g, n)
      PROVE  f[s] = g[s]
  <2>1. PICK m \in Nat : m = Depth(s) + 1 BY Deeper
  <2>2. PICK k : k = CHOOSE j : Solves(j, m) OBVIOUS
  <2>3. Solves(k, m) BY <1>2, <2>2
  <2>4. ASSUME NEW q \in Below(n) \cap Below(m),
               \A i \in DOMAIN q.parts : g[q.parts[i]] = k[q.parts[i]]
        PROVE  g[q] = k[q]
    <3>1. P(g, q) = P(k, q) BY <2>4
    <3>2. g[q] = Of(q, P(g, q)) /\ k[q] = Of(q, P(k, q)) BY <1>3, <2>3
    <3> QED BY <3>1, <3>2
  <2>5. \A q \in Below(n) \cap Below(m) : g[q] = k[q]
    <3> DEFINE B == Below(n) \cap Below(m)
    <3>1. B \subseteq Types /\ \A q \in B : \A i \in DOMAIN q.parts : q.parts[i] \in B
      BY BelowBoth
    <3> DEFINE S == {q \in B : g[q] = k[q]}
    <3>2. \A q \in B : (\A i \in DOMAIN q.parts : q.parts[i] \in S) => q \in S
      BY <2>4
    <3>3. \A q \in B : q \in S
      <4> HIDE DEF S, B
      <4> QED BY <3>1, <3>2, InductionOn
    <3> QED BY <3>3
  <2>6. s \in Below(n) \cap Below(m) BY <1>3, <2>1, BelowIs
  <2>7. f[s] = k[s] BY <2>1, <2>2
  <2> QED BY <2>5, <2>6, <2>7
<1>4. f = [s \in Types |-> Of(s, P(f, s))]
  <2>1. ASSUME NEW s \in Types PROVE f[s] = Of(s, P(f, s))
    <3>1. PICK n \in Nat : n = Depth(s) + 1 BY Deeper
    <3>2. PICK g : Solves(g, n) BY <1>2
    <3>3. s \in Below(n) BY <3>1, BelowIs
    <3>4. ASSUME NEW i \in DOMAIN s.parts PROVE f[s.parts[i]] = g[s.parts[i]]
      <4>1. s.parts[i] \in Types /\ s.parts[i] \in Below(n)
        <5>1. s.parts[i] \in Types BY TypeIs
        <5>2. Depth(s.parts[i]) < n BY <3>1, <5>1, Deeper
        <5> QED BY <5>1, <5>2 DEF Below
      <4> HIDE DEF f, Solves
      <4> QED BY <1>3, <3>2, <4>1
    <3>5. P(f, s) = P(g, s)
      <4> HIDE DEF f
      <4> QED BY <3>4
    <3>6. f[s] = g[s] BY <1>3, <3>2, <3>3
    <3>7. g[s] = Of(s, P(g, s)) BY <3>2, <3>3
    <3> QED BY <3>5, <3>6, <3>7
  <2>2. f = [s \in Types |-> f[s]] OBVIOUS
  <2> HIDE DEF f, P
  <2> QED BY <2>1, <2>2
<1>5. Objects = [s \in Types |-> Of(s, P(Objects, s))]
  <2> HIDE DEF f, P
  <2> QED BY <1>1, <1>4
<1>6. Objects[t] = Of(t, P(Objects, t)) BY <1>5
<1> QED BY <1>6, Zenon DEF Of

LEMMA EqualIs ==
  ASSUME NEW t \in Types
  PROVE  Equal[t] =
           LET p == [i \in DOMAIN t.parts |-> Equal[t.parts[i]]] IN
           [v \in Objects[t] |-> [w \in Objects[t] |->
              CASE t.kind \in Scalars \cup Units -> v = w
                [] t.kind = "float" -> v = w \/ {v, w} = {0, NegativeZero(t)}
                [] t.kind = "variant" ->
                     IF << >> \in {v, w} THEN v = w ELSE v[1] = w[1] /\ p[v[1] + 1][v[2]][w[2]]
                [] t.kind = "set" ->
                     /\ Len(v) = Len(w)
                     /\ \E q \in [1 .. Len(v) -> 1 .. Len(v)] :
                          /\ \A i, j \in 1 .. Len(v) : q[i] = q[j] => i = j
                          /\ \A i \in 1 .. Len(v) : p[1][v[i]][w[q[i]]]
                [] OTHER -> Len(v) = Len(w) /\ \A i \in 1 .. Len(v) : Nth(p, i)[v[i]][w[i]]]]
<1> DEFINE P(g, s) == [i \in DOMAIN s.parts |-> g[s.parts[i]]]
           Of(s, p) == 
             [v \in Objects[s] |-> [w \in Objects[s] |->
                CASE s.kind \in Scalars \cup Units -> v = w
                  [] s.kind = "float" -> v = w \/ {v, w} = {0, NegativeZero(s)}
                  [] s.kind = "variant" ->
                       IF << >> \in {v, w} THEN v = w ELSE v[1] = w[1] /\ p[v[1] + 1][v[2]][w[2]]
                  [] s.kind = "set" ->
                       /\ Len(v) = Len(w)
                       /\ \E q \in [1 .. Len(v) -> 1 .. Len(v)] :
                            /\ \A i, j \in 1 .. Len(v) : q[i] = q[j] => i = j
                            /\ \A i \in 1 .. Len(v) : p[1][v[i]][w[q[i]]]
                  [] OTHER -> Len(v) = Len(w) /\ \A i \in 1 .. Len(v) : Nth(p, i)[v[i]][w[i]]]]
           Solves(g, n) == g = [s \in Below(n) |-> Of(s, P(g, s))]
           f == [s \in Types |-> (CHOOSE g : Solves(g, Depth(s) + 1))[s]]
<1>1. Equal = CHOOSE g : g = [s \in Types |-> Of(s, P(g, s))]
  BY Zenon DEF Equal
<1> HIDE DEF Of
<1>2. ASSUME NEW n \in Nat PROVE \E g : Solves(g, n)
  <2> DEFINE S == {m \in Nat : \E g : Solves(g, m)}
  <2>1. 0 \in S
    <3>1. Solves([s \in {} |-> 0], 0) BY BelowIs
    <3> QED BY <3>1
  <2>2. ASSUME NEW m \in 0 .. n - 1, m \in S PROVE m + 1 \in S
    <3>1. PICK g : Solves(g, m) BY <2>2
    <3> DEFINE k == [s \in Below(m + 1) |-> Of(s, P(g, s))]
    <3>2. ASSUME NEW s \in Below(m + 1) PROVE P(k, s) = P(g, s)
      <4>1. ASSUME NEW i \in DOMAIN s.parts PROVE k[s.parts[i]] = g[s.parts[i]]
        <5>1. s.parts[i] \in Below(m) /\ s.parts[i] \in Types BY BelowIs DEF Below
        <5>2. s.parts[i] \in Below(m + 1) BY <5>1, Deeper DEF Below
        <5>3. k[s.parts[i]] = Of(s.parts[i], P(g, s.parts[i])) BY <5>2
        <5>4. g[s.parts[i]] = Of(s.parts[i], P(g, s.parts[i])) BY <3>1, <5>1
        <5> QED BY <5>3, <5>4
      <4> HIDE DEF k
      <4> QED BY <4>1
    <3>3. k = [s \in Below(m + 1) |-> Of(s, P(k, s))]
      <4>1. \A s \in Below(m + 1) : P(k, s) = P(g, s) BY <3>2
      <4> HIDE DEF P
      <4> QED BY <4>1
    <3>4. m + 1 \in Nat OBVIOUS
    <3> HIDE DEF k
    <3> QED BY <3>3, <3>4
  <2>3. \A m \in 0 .. n : m \in S
    <3> HIDE DEF S
    <3> QED BY <2>1, <2>2, Induction
  <2> QED BY <2>3
<1>3. ASSUME NEW s \in Types, NEW n \in Nat, NEW g, s \in Below(n), Solves(g, n)
      PROVE  f[s] = g[s]
  <2>1. PICK m \in Nat : m = Depth(s) + 1 BY Deeper
  <2>2. PICK k : k = CHOOSE j : Solves(j, m) OBVIOUS
  <2>3. Solves(k, m) BY <1>2, <2>2
  <2>4. ASSUME NEW q \in Below(n) \cap Below(m),
               \A i \in DOMAIN q.parts : g[q.parts[i]] = k[q.parts[i]]
        PROVE  g[q] = k[q]
    <3>1. P(g, q) = P(k, q) BY <2>4
    <3>2. g[q] = Of(q, P(g, q)) /\ k[q] = Of(q, P(k, q)) BY <1>3, <2>3
    <3> QED BY <3>1, <3>2
  <2>5. \A q \in Below(n) \cap Below(m) : g[q] = k[q]
    <3> DEFINE B == Below(n) \cap Below(m)
    <3>1. B \subseteq Types /\ \A q \in B : \A i \in DOMAIN q.parts : q.parts[i] \in B
      BY BelowBoth
    <3> DEFINE S == {q \in B : g[q] = k[q]}
    <3>2. \A q \in B : (\A i \in DOMAIN q.parts : q.parts[i] \in S) => q \in S
      BY <2>4
    <3>3. \A q \in B : q \in S
      <4> HIDE DEF S, B
      <4> QED BY <3>1, <3>2, InductionOn
    <3> QED BY <3>3
  <2>6. s \in Below(n) \cap Below(m) BY <1>3, <2>1, BelowIs
  <2>7. f[s] = k[s] BY <2>1, <2>2
  <2> QED BY <2>5, <2>6, <2>7
<1>4. f = [s \in Types |-> Of(s, P(f, s))]
  <2>1. ASSUME NEW s \in Types PROVE f[s] = Of(s, P(f, s))
    <3>1. PICK n \in Nat : n = Depth(s) + 1 BY Deeper
    <3>2. PICK g : Solves(g, n) BY <1>2
    <3>3. s \in Below(n) BY <3>1, BelowIs
    <3>4. ASSUME NEW i \in DOMAIN s.parts PROVE f[s.parts[i]] = g[s.parts[i]]
      <4>1. s.parts[i] \in Types /\ s.parts[i] \in Below(n)
        <5>1. s.parts[i] \in Types BY TypeIs
        <5>2. Depth(s.parts[i]) < n BY <3>1, <5>1, Deeper
        <5> QED BY <5>1, <5>2 DEF Below
      <4> HIDE DEF f, Solves
      <4> QED BY <1>3, <3>2, <4>1
    <3>5. P(f, s) = P(g, s)
      <4> HIDE DEF f
      <4> QED BY <3>4
    <3>6. f[s] = g[s] BY <1>3, <3>2, <3>3
    <3>7. g[s] = Of(s, P(g, s)) BY <3>2, <3>3
    <3> QED BY <3>5, <3>6, <3>7
  <2>2. f = [s \in Types |-> f[s]] OBVIOUS
  <2> HIDE DEF f, P
  <2> QED BY <2>1, <2>2
<1>5. Equal = [s \in Types |-> Of(s, P(Equal, s))]
  <2> HIDE DEF f, P
  <2> QED BY <1>1, <1>4
<1>6. Equal[t] = Of(t, P(Equal, t)) BY <1>5
<1> QED BY <1>6, Zenon DEF Of

LEMMA MemoryIs ==
  ASSUME NEW t \in Types
  PROVE  memory[t] =
           LET p == [i \in DOMAIN t.parts |-> memory[t.parts[i]]] IN
           [v \in Objects[t] |-> [native \in ByteOrders |->
              CASE t.kind \in Scalars -> write(t.size, v, native)
                [] t.kind \in {"carray", "plain"} -> Concat([i \in 1 .. Len(v) |-> p[i][v[i]][native]])
                [] OTHER -> << >>]]
<1> DEFINE P(g, s) == [i \in DOMAIN s.parts |-> g[s.parts[i]]]
           Of(s, p) == 
             [v \in Objects[s] |-> [native \in ByteOrders |->
                CASE s.kind \in Scalars -> write(s.size, v, native)
                  [] s.kind \in {"carray", "plain"} -> Concat([i \in 1 .. Len(v) |-> p[i][v[i]][native]])
                  [] OTHER -> << >>]]
           Solves(g, n) == g = [s \in Below(n) |-> Of(s, P(g, s))]
           f == [s \in Types |-> (CHOOSE g : Solves(g, Depth(s) + 1))[s]]
<1>1. memory = CHOOSE g : g = [s \in Types |-> Of(s, P(g, s))]
  BY Zenon DEF memory
<1> HIDE DEF Of
<1>2. ASSUME NEW n \in Nat PROVE \E g : Solves(g, n)
  <2> DEFINE S == {m \in Nat : \E g : Solves(g, m)}
  <2>1. 0 \in S
    <3>1. Solves([s \in {} |-> 0], 0) BY BelowIs
    <3> QED BY <3>1
  <2>2. ASSUME NEW m \in 0 .. n - 1, m \in S PROVE m + 1 \in S
    <3>1. PICK g : Solves(g, m) BY <2>2
    <3> DEFINE k == [s \in Below(m + 1) |-> Of(s, P(g, s))]
    <3>2. ASSUME NEW s \in Below(m + 1) PROVE P(k, s) = P(g, s)
      <4>1. ASSUME NEW i \in DOMAIN s.parts PROVE k[s.parts[i]] = g[s.parts[i]]
        <5>1. s.parts[i] \in Below(m) /\ s.parts[i] \in Types BY BelowIs DEF Below
        <5>2. s.parts[i] \in Below(m + 1) BY <5>1, Deeper DEF Below
        <5>3. k[s.parts[i]] = Of(s.parts[i], P(g, s.parts[i])) BY <5>2
        <5>4. g[s.parts[i]] = Of(s.parts[i], P(g, s.parts[i])) BY <3>1, <5>1
        <5> QED BY <5>3, <5>4
      <4> HIDE DEF k
      <4> QED BY <4>1
    <3>3. k = [s \in Below(m + 1) |-> Of(s, P(k, s))]
      <4>1. \A s \in Below(m + 1) : P(k, s) = P(g, s) BY <3>2
      <4> HIDE DEF P
      <4> QED BY <4>1
    <3>4. m + 1 \in Nat OBVIOUS
    <3> HIDE DEF k
    <3> QED BY <3>3, <3>4
  <2>3. \A m \in 0 .. n : m \in S
    <3> HIDE DEF S
    <3> QED BY <2>1, <2>2, Induction
  <2> QED BY <2>3
<1>3. ASSUME NEW s \in Types, NEW n \in Nat, NEW g, s \in Below(n), Solves(g, n)
      PROVE  f[s] = g[s]
  <2>1. PICK m \in Nat : m = Depth(s) + 1 BY Deeper
  <2>2. PICK k : k = CHOOSE j : Solves(j, m) OBVIOUS
  <2>3. Solves(k, m) BY <1>2, <2>2
  <2>4. ASSUME NEW q \in Below(n) \cap Below(m),
               \A i \in DOMAIN q.parts : g[q.parts[i]] = k[q.parts[i]]
        PROVE  g[q] = k[q]
    <3>1. P(g, q) = P(k, q) BY <2>4
    <3>2. g[q] = Of(q, P(g, q)) /\ k[q] = Of(q, P(k, q)) BY <1>3, <2>3
    <3> QED BY <3>1, <3>2
  <2>5. \A q \in Below(n) \cap Below(m) : g[q] = k[q]
    <3> DEFINE B == Below(n) \cap Below(m)
    <3>1. B \subseteq Types /\ \A q \in B : \A i \in DOMAIN q.parts : q.parts[i] \in B
      BY BelowBoth
    <3> DEFINE S == {q \in B : g[q] = k[q]}
    <3>2. \A q \in B : (\A i \in DOMAIN q.parts : q.parts[i] \in S) => q \in S
      BY <2>4
    <3>3. \A q \in B : q \in S
      <4> HIDE DEF S, B
      <4> QED BY <3>1, <3>2, InductionOn
    <3> QED BY <3>3
  <2>6. s \in Below(n) \cap Below(m) BY <1>3, <2>1, BelowIs
  <2>7. f[s] = k[s] BY <2>1, <2>2
  <2> QED BY <2>5, <2>6, <2>7
<1>4. f = [s \in Types |-> Of(s, P(f, s))]
  <2>1. ASSUME NEW s \in Types PROVE f[s] = Of(s, P(f, s))
    <3>1. PICK n \in Nat : n = Depth(s) + 1 BY Deeper
    <3>2. PICK g : Solves(g, n) BY <1>2
    <3>3. s \in Below(n) BY <3>1, BelowIs
    <3>4. ASSUME NEW i \in DOMAIN s.parts PROVE f[s.parts[i]] = g[s.parts[i]]
      <4>1. s.parts[i] \in Types /\ s.parts[i] \in Below(n)
        <5>1. s.parts[i] \in Types BY TypeIs
        <5>2. Depth(s.parts[i]) < n BY <3>1, <5>1, Deeper
        <5> QED BY <5>1, <5>2 DEF Below
      <4> HIDE DEF f, Solves
      <4> QED BY <1>3, <3>2, <4>1
    <3>5. P(f, s) = P(g, s)
      <4> HIDE DEF f
      <4> QED BY <3>4
    <3>6. f[s] = g[s] BY <1>3, <3>2, <3>3
    <3>7. g[s] = Of(s, P(g, s)) BY <3>2, <3>3
    <3> QED BY <3>5, <3>6, <3>7
  <2>2. f = [s \in Types |-> f[s]] OBVIOUS
  <2> HIDE DEF f, P
  <2> QED BY <2>1, <2>2
<1>5. memory = [s \in Types |-> Of(s, P(memory, s))]
  <2> HIDE DEF f, P
  <2> QED BY <1>1, <1>4
<1>6. memory[t] = Of(t, P(memory, t)) BY <1>5
<1> QED BY <1>6, Zenon DEF Of

LEMMA HashableIs ==
  ASSUME NEW t \in Types
  PROVE  is_contiguously_hashable[t] =
           LET p == [i \in DOMAIN t.parts |-> is_contiguously_hashable[t.parts[i]]] IN
           [c \in Contexts |->
              \/ t.kind \in Scalars \cup {"plain"} /\ InOrder(t.size, c)
              \/ t.kind = "carray" /\ p[1][c]]
<1> DEFINE P(g, s) == [i \in DOMAIN s.parts |-> g[s.parts[i]]]
           Of(s, p) == 
             [c \in Contexts |->
                \/ s.kind \in Scalars \cup {"plain"} /\ InOrder(s.size, c)
                \/ s.kind = "carray" /\ p[1][c]]
           Solves(g, n) == g = [s \in Below(n) |-> Of(s, P(g, s))]
           f == [s \in Types |-> (CHOOSE g : Solves(g, Depth(s) + 1))[s]]
<1>1. is_contiguously_hashable = CHOOSE g : g = [s \in Types |-> Of(s, P(g, s))]
  BY Zenon DEF is_contiguously_hashable
<1> HIDE DEF Of
<1>2. ASSUME NEW n \in Nat PROVE \E g : Solves(g, n)
  <2> DEFINE S == {m \in Nat : \E g : Solves(g, m)}
  <2>1. 0 \in S
    <3>1. Solves([s \in {} |-> 0], 0) BY BelowIs
    <3> QED BY <3>1
  <2>2. ASSUME NEW m \in 0 .. n - 1, m \in S PROVE m + 1 \in S
    <3>1. PICK g : Solves(g, m) BY <2>2
    <3> DEFINE k == [s \in Below(m + 1) |-> Of(s, P(g, s))]
    <3>2. ASSUME NEW s \in Below(m + 1) PROVE P(k, s) = P(g, s)
      <4>1. ASSUME NEW i \in DOMAIN s.parts PROVE k[s.parts[i]] = g[s.parts[i]]
        <5>1. s.parts[i] \in Below(m) /\ s.parts[i] \in Types BY BelowIs DEF Below
        <5>2. s.parts[i] \in Below(m + 1) BY <5>1, Deeper DEF Below
        <5>3. k[s.parts[i]] = Of(s.parts[i], P(g, s.parts[i])) BY <5>2
        <5>4. g[s.parts[i]] = Of(s.parts[i], P(g, s.parts[i])) BY <3>1, <5>1
        <5> QED BY <5>3, <5>4
      <4> HIDE DEF k
      <4> QED BY <4>1
    <3>3. k = [s \in Below(m + 1) |-> Of(s, P(k, s))]
      <4>1. \A s \in Below(m + 1) : P(k, s) = P(g, s) BY <3>2
      <4> HIDE DEF P
      <4> QED BY <4>1
    <3>4. m + 1 \in Nat OBVIOUS
    <3> HIDE DEF k
    <3> QED BY <3>3, <3>4
  <2>3. \A m \in 0 .. n : m \in S
    <3> HIDE DEF S
    <3> QED BY <2>1, <2>2, Induction
  <2> QED BY <2>3
<1>3. ASSUME NEW s \in Types, NEW n \in Nat, NEW g, s \in Below(n), Solves(g, n)
      PROVE  f[s] = g[s]
  <2>1. PICK m \in Nat : m = Depth(s) + 1 BY Deeper
  <2>2. PICK k : k = CHOOSE j : Solves(j, m) OBVIOUS
  <2>3. Solves(k, m) BY <1>2, <2>2
  <2>4. ASSUME NEW q \in Below(n) \cap Below(m),
               \A i \in DOMAIN q.parts : g[q.parts[i]] = k[q.parts[i]]
        PROVE  g[q] = k[q]
    <3>1. P(g, q) = P(k, q) BY <2>4
    <3>2. g[q] = Of(q, P(g, q)) /\ k[q] = Of(q, P(k, q)) BY <1>3, <2>3
    <3> QED BY <3>1, <3>2
  <2>5. \A q \in Below(n) \cap Below(m) : g[q] = k[q]
    <3> DEFINE B == Below(n) \cap Below(m)
    <3>1. B \subseteq Types /\ \A q \in B : \A i \in DOMAIN q.parts : q.parts[i] \in B
      BY BelowBoth
    <3> DEFINE S == {q \in B : g[q] = k[q]}
    <3>2. \A q \in B : (\A i \in DOMAIN q.parts : q.parts[i] \in S) => q \in S
      BY <2>4
    <3>3. \A q \in B : q \in S
      <4> HIDE DEF S, B
      <4> QED BY <3>1, <3>2, InductionOn
    <3> QED BY <3>3
  <2>6. s \in Below(n) \cap Below(m) BY <1>3, <2>1, BelowIs
  <2>7. f[s] = k[s] BY <2>1, <2>2
  <2> QED BY <2>5, <2>6, <2>7
<1>4. f = [s \in Types |-> Of(s, P(f, s))]
  <2>1. ASSUME NEW s \in Types PROVE f[s] = Of(s, P(f, s))
    <3>1. PICK n \in Nat : n = Depth(s) + 1 BY Deeper
    <3>2. PICK g : Solves(g, n) BY <1>2
    <3>3. s \in Below(n) BY <3>1, BelowIs
    <3>4. ASSUME NEW i \in DOMAIN s.parts PROVE f[s.parts[i]] = g[s.parts[i]]
      <4>1. s.parts[i] \in Types /\ s.parts[i] \in Below(n)
        <5>1. s.parts[i] \in Types BY TypeIs
        <5>2. Depth(s.parts[i]) < n BY <3>1, <5>1, Deeper
        <5> QED BY <5>1, <5>2 DEF Below
      <4> HIDE DEF f, Solves
      <4> QED BY <1>3, <3>2, <4>1
    <3>5. P(f, s) = P(g, s)
      <4> HIDE DEF f
      <4> QED BY <3>4
    <3>6. f[s] = g[s] BY <1>3, <3>2, <3>3
    <3>7. g[s] = Of(s, P(g, s)) BY <3>2, <3>3
    <3> QED BY <3>5, <3>6, <3>7
  <2>2. f = [s \in Types |-> f[s]] OBVIOUS
  <2> HIDE DEF f, P
  <2> QED BY <2>1, <2>2
<1>5. is_contiguously_hashable = [s \in Types |-> Of(s, P(is_contiguously_hashable, s))]
  <2> HIDE DEF f, P
  <2> QED BY <1>1, <1>4
<1>6. is_contiguously_hashable[t] = Of(t, P(is_contiguously_hashable, t)) BY <1>5
<1> QED BY <1>6, Zenon DEF Of

LEMMA HashAppendIs ==
  ASSUME NEW t \in Types
  PROVE  hash_append[t] =
           LET p == [i \in DOMAIN t.parts |-> hash_append[t.parts[i]]] IN
           [v \in Objects[t] |-> [c \in Contexts |->
              IF ~c.constant /\ is_contiguously_hashable[t][c]
              THEN Bytes(memory[t][v][c.native])
              ELSE do_hash_append(t, p, v, c)]]
<1> DEFINE P(g, s) == [i \in DOMAIN s.parts |-> g[s.parts[i]]]
           Of(s, p) == 
             [v \in Objects[s] |-> [c \in Contexts |->
                IF ~c.constant /\ is_contiguously_hashable[s][c]
                THEN Bytes(memory[s][v][c.native])
                ELSE do_hash_append(s, p, v, c)]]
           Solves(g, n) == g = [s \in Below(n) |-> Of(s, P(g, s))]
           f == [s \in Types |-> (CHOOSE g : Solves(g, Depth(s) + 1))[s]]
<1>1. hash_append = CHOOSE g : g = [s \in Types |-> Of(s, P(g, s))]
  BY Zenon DEF hash_append
<1> HIDE DEF Of
<1>2. ASSUME NEW n \in Nat PROVE \E g : Solves(g, n)
  <2> DEFINE S == {m \in Nat : \E g : Solves(g, m)}
  <2>1. 0 \in S
    <3>1. Solves([s \in {} |-> 0], 0) BY BelowIs
    <3> QED BY <3>1
  <2>2. ASSUME NEW m \in 0 .. n - 1, m \in S PROVE m + 1 \in S
    <3>1. PICK g : Solves(g, m) BY <2>2
    <3> DEFINE k == [s \in Below(m + 1) |-> Of(s, P(g, s))]
    <3>2. ASSUME NEW s \in Below(m + 1) PROVE P(k, s) = P(g, s)
      <4>1. ASSUME NEW i \in DOMAIN s.parts PROVE k[s.parts[i]] = g[s.parts[i]]
        <5>1. s.parts[i] \in Below(m) /\ s.parts[i] \in Types BY BelowIs DEF Below
        <5>2. s.parts[i] \in Below(m + 1) BY <5>1, Deeper DEF Below
        <5>3. k[s.parts[i]] = Of(s.parts[i], P(g, s.parts[i])) BY <5>2
        <5>4. g[s.parts[i]] = Of(s.parts[i], P(g, s.parts[i])) BY <3>1, <5>1
        <5> QED BY <5>3, <5>4
      <4> HIDE DEF k
      <4> QED BY <4>1
    <3>3. k = [s \in Below(m + 1) |-> Of(s, P(k, s))]
      <4>1. \A s \in Below(m + 1) : P(k, s) = P(g, s) BY <3>2
      <4> HIDE DEF P
      <4> QED BY <4>1
    <3>4. m + 1 \in Nat OBVIOUS
    <3> HIDE DEF k
    <3> QED BY <3>3, <3>4
  <2>3. \A m \in 0 .. n : m \in S
    <3> HIDE DEF S
    <3> QED BY <2>1, <2>2, Induction
  <2> QED BY <2>3
<1>3. ASSUME NEW s \in Types, NEW n \in Nat, NEW g, s \in Below(n), Solves(g, n)
      PROVE  f[s] = g[s]
  <2>1. PICK m \in Nat : m = Depth(s) + 1 BY Deeper
  <2>2. PICK k : k = CHOOSE j : Solves(j, m) OBVIOUS
  <2>3. Solves(k, m) BY <1>2, <2>2
  <2>4. ASSUME NEW q \in Below(n) \cap Below(m),
               \A i \in DOMAIN q.parts : g[q.parts[i]] = k[q.parts[i]]
        PROVE  g[q] = k[q]
    <3>1. P(g, q) = P(k, q) BY <2>4
    <3>2. g[q] = Of(q, P(g, q)) /\ k[q] = Of(q, P(k, q)) BY <1>3, <2>3
    <3> QED BY <3>1, <3>2
  <2>5. \A q \in Below(n) \cap Below(m) : g[q] = k[q]
    <3> DEFINE B == Below(n) \cap Below(m)
    <3>1. B \subseteq Types /\ \A q \in B : \A i \in DOMAIN q.parts : q.parts[i] \in B
      BY BelowBoth
    <3> DEFINE S == {q \in B : g[q] = k[q]}
    <3>2. \A q \in B : (\A i \in DOMAIN q.parts : q.parts[i] \in S) => q \in S
      BY <2>4
    <3>3. \A q \in B : q \in S
      <4> HIDE DEF S, B
      <4> QED BY <3>1, <3>2, InductionOn
    <3> QED BY <3>3
  <2>6. s \in Below(n) \cap Below(m) BY <1>3, <2>1, BelowIs
  <2>7. f[s] = k[s] BY <2>1, <2>2
  <2> QED BY <2>5, <2>6, <2>7
<1>4. f = [s \in Types |-> Of(s, P(f, s))]
  <2>1. ASSUME NEW s \in Types PROVE f[s] = Of(s, P(f, s))
    <3>1. PICK n \in Nat : n = Depth(s) + 1 BY Deeper
    <3>2. PICK g : Solves(g, n) BY <1>2
    <3>3. s \in Below(n) BY <3>1, BelowIs
    <3>4. ASSUME NEW i \in DOMAIN s.parts PROVE f[s.parts[i]] = g[s.parts[i]]
      <4>1. s.parts[i] \in Types /\ s.parts[i] \in Below(n)
        <5>1. s.parts[i] \in Types BY TypeIs
        <5>2. Depth(s.parts[i]) < n BY <3>1, <5>1, Deeper
        <5> QED BY <5>1, <5>2 DEF Below
      <4> HIDE DEF f, Solves
      <4> QED BY <1>3, <3>2, <4>1
    <3>5. P(f, s) = P(g, s)
      <4> HIDE DEF f
      <4> QED BY <3>4
    <3>6. f[s] = g[s] BY <1>3, <3>2, <3>3
    <3>7. g[s] = Of(s, P(g, s)) BY <3>2, <3>3
    <3> QED BY <3>5, <3>6, <3>7
  <2>2. f = [s \in Types |-> f[s]] OBVIOUS
  <2> HIDE DEF f, P
  <2> QED BY <2>1, <2>2
<1>5. hash_append = [s \in Types |-> Of(s, P(hash_append, s))]
  <2> HIDE DEF f, P
  <2> QED BY <1>1, <1>4
<1>6. hash_append[t] = Of(t, P(hash_append, t)) BY <1>5
<1> QED BY <1>6, Zenon DEF Of

------------------------------------------------------------------------------
(* Sequences of sequences, and of sets *)

LEMMA ListIs ==
  ASSUME NEW n \in Nat, NEW s, s = [i \in 1 .. n |-> s[i]]
  PROVE  IsSequence(s) /\ Len(s) = n
<1>1. s \in [1 .. n -> {s[i] : i \in 1 .. n}] BY Zenon
<1>2. s \in Seq({s[i] : i \in 1 .. n}) /\ Len(s) = n BY <1>1, FunctionIs
<1> QED BY <1>2, SequenceIs

LEMMA SequenceFunction ==
  ASSUME NEW s, IsSequence(s)
  PROVE  s = [i \in 1 .. Len(s) |-> s[i]] /\ Len(s) \in Nat /\ DOMAIN s = 1 .. Len(s)
  BY LenProperties DEF IsSequence

(* u goes through the sequences that begin the concatenation of s. *)
Joins(s, u) ==
  /\ u[0] = << >>
  /\ \A i \in 1 .. Len(s) : u[i] = u[i - 1] \o s[i]
  /\ \A i \in 0 .. Len(s) : IsSequence(u[i])

LEMMA ConcatJoins ==
  ASSUME NEW s, IsSequence(s), \A i \in 1 .. Len(s) : IsSequence(s[i])
  PROVE  \E u : Joins(s, u) /\ Concat(s) = u[Len(s)]
<1> DEFINE n == Len(s)
           A == UNION {Elements(s[i]) : i \in 1 .. n}
           W == Seq(A)
           F == [i \in 1 .. n |-> [x \in W |-> x \o s[i]]]
           Loop(w) == [i \in 0 .. n |-> IF i = 0 THEN << >> ELSE w[i - 1] \o s[i]]
           w == CHOOSE w : w = Loop(w)
<1>1. n \in Nat BY LenProperties DEF IsSequence
<1>2. \A i \in 1 .. n : s[i] \in W
  <2>1. ASSUME NEW i \in 1 .. n PROVE s[i] \in W
    <3>1. s[i] \in Seq(Elements(s[i])) BY DEF IsSequence, Elements
    <3>2. Elements(s[i]) \subseteq A OBVIOUS
    <3> QED BY <3>1, <3>2, SeqMonotonic
  <2> QED BY <2>1
<1>3. F \in [1 .. n -> [W -> W]]
  <2>1. \A i \in 1 .. n, x \in W : x \o s[i] \in W BY <1>2, ConcatProperties
  <2> QED BY <2>1
<1>4. << >> \in W OBVIOUS
<1>5. PICK f \in [0 .. n -> W] : f[0] = << >> /\ \A i \in 1 .. n : f[i] = F[i][f[i - 1]]
  <2> HIDE DEF F, n, W
  <2>1. Loops(W, << >>, n, F) # {} BY <1>1, <1>3, <1>4, Recursion
  <2> QED BY <2>1 DEF Loops
<1>6. ASSUME NEW i \in 1 .. n PROVE f[i] = f[i - 1] \o s[i]
  <2>1. i - 1 \in 0 .. n BY <1>1
  <2>2. f[i - 1] \in W BY <2>1
  <2> QED BY <1>5, <2>2
<1> HIDE DEF F, n, W
<1>7. f = Loop(f)
  <2>1. \A i \in 0 .. n : f[i] = IF i = 0 THEN << >> ELSE f[i - 1] \o s[i]
    <3>1. \A i \in 0 .. n : i = 0 \/ i \in 1 .. n BY <1>1
    <3> QED BY <1>1, <1>5, <1>6, <3>1, Zenon
  <2>2. f = [i \in 0 .. n |-> f[i]] BY <1>5
  <2> QED BY <2>1, <2>2, Zenon
<1>8. w = Loop(w) BY <1>7, Zenon
<1>9. Concat(s) = w[n] BY DEF Concat, n
<1> HIDE DEF w
<1>10. w[0] = << >> /\ \A i \in 1 .. n : w[i] = w[i - 1] \o s[i]
  <2>1. 0 \in 0 .. n /\ \A i \in 1 .. n : i \in 0 .. n /\ i # 0 BY <1>1
  <2> QED BY <1>8, <2>1, Zenon
<1>11. \A i \in 0 .. n : IsSequence(w[i])
  <2> DEFINE S == {i \in 0 .. n : IsSequence(w[i])}
  <2>1. 0 \in S
    <3>1. IsSequence(<< >>) BY <1>4, SequenceIs DEF W
    <3> QED BY <1>1, <1>10, <3>1
  <2>2. ASSUME NEW i \in 0 .. n - 1, i \in S PROVE i + 1 \in S
    <3>1. i + 1 \in 1 .. n /\ (i + 1) - 1 = i BY <1>1
    <3>2. w[i + 1] = w[i] \o s[i + 1] BY <1>10, <3>1
    <3>3. IsSequence(s[i + 1]) /\ IsSequence(w[i]) BY <2>2, <3>1 DEF n
    <3>4. IsSequence(w[i + 1]) BY <3>2, <3>3, Joined
    <3> QED BY <1>1, <3>1, <3>4
  <2>3. \A i \in 0 .. n : i \in S
    <3> HIDE DEF S
    <3> QED BY <1>1, <2>1, <2>2, Induction
  <2> QED BY <2>3
<1> QED BY <1>9, <1>10, <1>11 DEF Joins, n

LEMMA ProductIs ==
  ASSUME NEW s, IsSequence(s), NEW v \in Product(s)
  PROVE  IsSequence(v) /\ Len(v) = Len(s) /\ \A i \in 1 .. Len(s) : v[i] \in s[i]
<1> DEFINE n == Len(s)
           A == UNION {s[i] : i \in 1 .. n}
           W == SUBSET Seq(A)
           F == [i \in 1 .. n |-> [X \in W |-> Longer(X, s[i])]]
           Loop(w) ==
             [i \in 0 .. n |->
                IF i = 0 THEN {<< >>} ELSE Longer(w[i - 1], s[i])]
           w == CHOOSE w : w = Loop(w)
<1>1. n \in Nat BY LenProperties DEF IsSequence
<1>2. F \in [1 .. n -> [W -> W]]
  <2>1. ASSUME NEW i \in 1 .. n, NEW X \in W PROVE Longer(X, s[i]) \in W
    <3>1. ASSUME NEW x \in X, NEW y \in s[i] PROVE Append(x, y) \in Seq(A)
      <4>1. x \in Seq(A) /\ y \in A OBVIOUS
      <4> HIDE DEF A
      <4> QED BY <4>1, AppendProperties
    <3> HIDE DEF A
    <3> QED BY <3>1 DEF Longer
  <2> HIDE DEF W
  <2> QED BY <2>1
<1>3. {<< >>} \in W OBVIOUS
<1>4. PICK f \in [0 .. n -> W] : f[0] = {<< >>} /\ \A i \in 1 .. n : f[i] = F[i][f[i - 1]]
  <2> HIDE DEF F, n, W
  <2>1. Loops(W, {<< >>}, n, F) # {} BY <1>1, <1>2, <1>3, Recursion
  <2> QED BY <2>1 DEF Loops
<1>5. ASSUME NEW i \in 1 .. n PROVE f[i] = Longer(f[i - 1], s[i])
  <2>1. i - 1 \in 0 .. n BY <1>1
  <2> HIDE DEF W
  <2>2. f[i - 1] \in W BY <2>1
  <2>3. F[i] = [X \in W |-> Longer(X, s[i])] OBVIOUS
  <2>4. f[i] = F[i][f[i - 1]] BY <1>4
  <2> QED BY <2>2, <2>3, <2>4, Zenon
<1> HIDE DEF F, n, W
<1>6. f = Loop(f)
  <2>1. \A i \in 0 .. n : f[i] =
          IF i = 0 THEN {<< >>} ELSE Longer(f[i - 1], s[i])
    <3>1. \A i \in 0 .. n : i = 0 \/ i \in 1 .. n BY <1>1
    <3> QED BY <1>1, <1>4, <1>5, <3>1, Zenon
  <2>2. f = [i \in 0 .. n |-> f[i]] BY <1>4
  <2> QED BY <2>1, <2>2, Zenon
<1>7. w = Loop(w) BY <1>6, Zenon
<1>8. Product(s) = w[n] BY DEF Product, n
<1> HIDE DEF w
<1>9. w[0] = {<< >>} /\ \A i \in 1 .. n : w[i] = Longer(w[i - 1], s[i])
  <2>1. 0 \in 0 .. n /\ \A i \in 1 .. n : i \in 0 .. n /\ i # 0 BY <1>1
  <2> QED BY <1>7, <2>1, Zenon
<1> DEFINE Good(i, x) == x \in Seq(A) /\ Len(x) = i /\ \A j \in 1 .. i : x[j] \in s[j]
           S == {i \in 0 .. n : \A x \in w[i] : Good(i, x)}
<1>10. 0 \in S
  <2>1. << >> \in Seq(A) /\ Len(<< >>) = 0
    <3> HIDE DEF A
    <3> QED OBVIOUS
  <2>2. Good(0, << >>) BY <2>1
  <2> HIDE DEF Good
  <2> QED BY <1>1, <1>9, <2>2
<1>11. ASSUME NEW i \in 0 .. n - 1, i \in S PROVE i + 1 \in S
  <2>1. i + 1 \in 1 .. n /\ (i + 1) - 1 = i BY <1>1
  <2>2. ASSUME NEW z \in w[i + 1] PROVE Good(i + 1, z)
    <3>1. PICK x \in w[i], y \in s[i + 1] : z = Append(x, y)
      <4>1. w[i + 1] = Longer(w[i], s[i + 1]) BY <1>9, <2>1
      <4> QED BY <2>2, <4>1 DEF Longer
    <3>2. Good(i, x) BY <1>11
    <3>3. y \in A BY <2>1 DEF n
    <3>4. /\ z \in Seq(A) /\ Len(z) = i + 1
          /\ \A j \in 1 .. i : z[j] = x[j]
          /\ z[i + 1] = y
      <4> HIDE DEF A
      <4> QED BY <3>1, <3>2, <3>3, AppendProperties
    <3>5. \A j \in 1 .. i + 1 : z[j] \in s[j]
      <4>1. \A j \in 1 .. i + 1 : j = i + 1 \/ j \in 1 .. i OBVIOUS
      <4> QED BY <3>1, <3>2, <3>4, <4>1
    <3> QED BY <3>4, <3>5
  <2> HIDE DEF Good
  <2> QED BY <1>1, <2>1, <2>2
<1>12. \A i \in 0 .. n : i \in S
  <2> HIDE DEF S
  <2> QED BY <1>1, <1>10, <1>11, Induction
<1>13. Good(n, v) BY <1>1, <1>8, <1>12
<1> QED BY <1>13, SequenceIs DEF n

------------------------------------------------------------------------------
(* Objects and their parts *)

(* The type of element i. *)
Elem(t, i) == Nth(t.parts, i)

LEMMA NthIs ==
  ASSUME NEW t \in Types, NEW g, NEW p, p = [i \in DOMAIN t.parts |-> g[t.parts[i]]],
         NEW i \in 1 .. IF Len(t.parts) = 1 THEN MaxLength + 1 ELSE Len(t.parts)
  PROVE  Nth(p, i) = g[Elem(t, i)] /\ \E j \in DOMAIN t.parts : Elem(t, i) = t.parts[j]
<1>1. DOMAIN t.parts = 1 .. Len(t.parts) /\ Len(t.parts) \in Nat BY TypeIs
<1>2. p = [j \in 1 .. Len(t.parts) |-> p[j]] BY <1>1
<1>3. Len(p) = Len(t.parts) BY <1>1, <1>2, ListIs
<1>4. CASE Len(t.parts) = 1
  <2>1. Nth(p, i) = p[1] /\ Elem(t, i) = t.parts[1] BY <1>3, <1>4 DEF Nth, Elem
  <2>2. 1 \in DOMAIN t.parts BY <1>1, <1>4
  <2> QED BY <2>1, <2>2
<1>5. CASE Len(t.parts) # 1
  <2>1. Nth(p, i) = p[i] /\ Elem(t, i) = t.parts[i] BY <1>3, <1>5 DEF Nth, Elem
  <2>2. i \in DOMAIN t.parts BY <1>1, <1>5
  <2> QED BY <2>1, <2>2
<1> QED BY <1>4, <1>5

Sized == Scalars \cup {"float", "nullptr"}

LEMMA KindsApart ==
  ASSUME NEW t \in Types
  PROVE  /\ t.kind \in Scalars \cup {"float"} =>
              ~(t.kind \in Units) /\ ~(t.kind \in Products) /\ ~(t.kind \in Containers) /\ t.kind # "variant"
         /\ t.kind \in Units =>
              ~(t.kind \in Scalars \cup {"float"}) /\ ~(t.kind \in Products)
              /\ ~(t.kind \in Containers) /\ t.kind # "variant"
         /\ t.kind \in Products =>
              ~(t.kind \in Scalars \cup {"float"}) /\ ~(t.kind \in Units)
              /\ ~(t.kind \in Containers) /\ t.kind # "variant"
         /\ t.kind \in Containers =>
              ~(t.kind \in Scalars \cup {"float"}) /\ ~(t.kind \in Units)
              /\ ~(t.kind \in Products) /\ t.kind # "variant"
         /\ t.kind = "variant" =>
              ~(t.kind \in Scalars \cup {"float"}) /\ ~(t.kind \in Units)
              /\ ~(t.kind \in Products) /\ ~(t.kind \in Containers)
         /\ \/ t.kind \in Scalars \cup {"float"} \/ t.kind \in Units \/ t.kind \in Products
            \/ t.kind \in Containers \/ t.kind = "variant"
  BY TypeIs DEF Kinds, Scalars, Units, Products, Containers

(* The powers of Radix that are used are positive. *)
LEMMA PowerIs ==
  ASSUME NEW n \in Widths
  PROVE  n \in Nat /\ \A i \in 0 .. n : Radix ^ i \in Nat \ {0}
<1>1. n \in Nat BY RadixAssumption, TypeIs DEF Widths
<1>2. Radix ^ 0 = 1 /\ \A i \in 0 .. n - 1 : Radix ^ (i + 1) = Radix * Radix ^ i BY PowerAssumption, Zenon
<1> DEFINE S == {i \in 0 .. n : Radix ^ i \in Nat \ {0}}
<1>3. 0 \in S BY <1>1, <1>2
<1>4. ASSUME NEW i \in 0 .. n - 1, i \in S PROVE i + 1 \in S
  <2>1. PICK x \in Nat \ {0} : x = Radix ^ i BY <1>4
  <2>2. Radix * x \in Nat \ {0} BY RadixAssumption
  <2>3. Radix ^ (i + 1) = Radix * x BY <1>2, <2>1
  <2>4. i + 1 \in 0 .. n BY <1>1
  <2> QED BY <2>2, <2>3, <2>4
<1>5. \A i \in 0 .. n : i \in S
  <2> HIDE DEF S
  <2> QED BY <1>1, <1>3, <1>4, Induction
<1> QED BY <1>1, <1>5

LEMMA WidthsAre ==
  /\ 1 \in Widths /\ SizeWidth \in Widths /\ \A t \in Types : t.size \in Widths
  /\ SizeWidth \in Nat /\ Radix \in Nat /\ Radix > 1
  /\ Radix ^ 0 = 1 /\ Radix ^ 1 = Radix
<1>1. 1 \in Widths /\ SizeWidth \in Widths /\ \A t \in Types : t.size \in Widths BY DEF Widths
<1>2. Radix \in Nat /\ Radix > 1 /\ SizeWidth \in Nat BY RadixAssumption
<1>3. Radix ^ 0 = 1 /\ Radix ^ (0 + 1) = Radix * Radix ^ 0
  <2>1. 0 \in 0 .. 1 - 1 OBVIOUS
  <2> QED BY <1>1, <2>1, PowerAssumption, Zenon
<1>4. Radix ^ 1 = Radix
  <2>1. 0 + 1 = 1 /\ Radix * 1 = Radix BY <1>2
  <2> QED BY <1>3, <2>1, Zenon
<1> QED BY <1>1, <1>2, <1>3, <1>4

LEMMA NumberObjects ==
  ASSUME NEW t \in Types, t.kind \in Scalars \cup {"float"}
  PROVE  Objects[t] = 0 .. (Radix ^ t.size) - 1
  BY ObjectsIs, KindsApart, Zenon

LEMMA UnitObjects ==
  ASSUME NEW t \in Types, t.kind \in Units
  PROVE  Objects[t] = {0}
  BY ObjectsIs, KindsApart, Zenon

LEMMA ProductObjects ==
  ASSUME NEW t \in Types, t.kind \in Products, NEW v \in Objects[t]
  PROVE  /\ IsSequence(v) /\ Len(v) = Len(t.parts)
         /\ \A i \in 1 .. Len(v) : i \in DOMAIN t.parts /\ v[i] \in Objects[t.parts[i]] /\ Elem(t, i) = t.parts[i]
<1> DEFINE p == [i \in DOMAIN t.parts |-> Objects[t.parts[i]]]
<1>2. Objects[t] = Product(p) BY ObjectsIs, KindsApart, Zenon
<1>3. DOMAIN t.parts = 1 .. Len(t.parts) /\ Len(t.parts) \in Nat BY TypeIs
<1>4. IsSequence(p) /\ Len(p) = Len(t.parts)
  <2>1. p = [i \in 1 .. Len(t.parts) |-> p[i]] BY <1>3
  <2> HIDE DEF p
  <2> QED BY <1>3, <2>1, ListIs
<1>5. IsSequence(v) /\ Len(v) = Len(p) /\ \A i \in 1 .. Len(p) : v[i] \in p[i]
  <2> HIDE DEF p
  <2> QED BY <1>2, <1>4, ProductIs
<1>6. \A i \in 1 .. Len(v) : Elem(t, i) = t.parts[i] BY <1>3, <1>4, <1>5 DEF Elem, Nth
<1> QED BY <1>3, <1>4, <1>5, <1>6

LEMMA ContainerObjects ==
  ASSUME NEW t \in Types, t.kind \in Containers, NEW v \in Objects[t]
  PROVE  /\ IsSequence(v) /\ Len(v) \in SizesOf(t) /\ 1 \in DOMAIN t.parts
         /\ \A i \in 1 .. Len(v) : v[i] \in Objects[t.parts[1]]
         /\ \A i : Elem(t, i) = t.parts[1]
<1>2. Len(t.parts) = 1 BY TypesAssumption, Zenon
<1>3. 1 \in DOMAIN t.parts BY <1>2, TypeIs
<1>4. Objects[t] = UNION {[1 .. n -> Objects[t.parts[1]]] : n \in SizesOf(t)}
  <2>1. Objects[t] = LET p == [i \in DOMAIN t.parts |-> Objects[t.parts[i]]] IN
                     UNION {[1 .. n -> p[1]] : n \in SizesOf(t)}
    BY ObjectsIs, KindsApart, Zenon
  <2> QED BY <1>3, <2>1
<1>5. PICK n \in SizesOf(t) : v \in [1 .. n -> Objects[t.parts[1]]] BY <1>4
<1>6. n \in Nat BY <1>5, LengthAssumption DEF SizesOf
<1>7. v \in Seq(Objects[t.parts[1]]) /\ Len(v) = n BY <1>5, <1>6, FunctionIs
<1>8. IsSequence(v) BY <1>7, SequenceIs
<1>9. \A i : Elem(t, i) = t.parts[1] BY <1>2 DEF Elem, Nth
<1> QED BY <1>3, <1>5, <1>7, <1>8, <1>9

LEMMA VariantObjects ==
  ASSUME NEW t \in Types, t.kind = "variant", NEW v \in Objects[t]
  PROVE  \/ v = << >> /\ t.size = 1
         \/ /\ v # << >> /\ v = <<v[1], v[2]>> /\ v[1] \in Nat
            /\ v[1] + 1 \in DOMAIN t.parts /\ v[1] < Radix ^ SizeWidth
            /\ v[2] \in Objects[t.parts[v[1] + 1]]
<1> DEFINE p == [i \in DOMAIN t.parts |-> Objects[t.parts[i]]]
<1>2. Objects[t] = (UNION {{<<i - 1, x>> : x \in p[i]} : i \in DOMAIN p})
                     \cup (IF t.size = 1 THEN {<< >>} ELSE {})
  BY ObjectsIs, KindsApart, Zenon
<1>3. DOMAIN t.parts = 1 .. Len(t.parts) /\ Len(t.parts) \in Nat BY TypeIs
<1>4. Len(t.parts) \in 1 .. Radix ^ SizeWidth BY TypesAssumption, Zenon
<1>5. CASE v = << >> /\ t.size = 1 BY <1>5
<1>6. ASSUME NEW i \in DOMAIN t.parts, NEW x \in Objects[t.parts[i]], v = <<i - 1, x>>
      PROVE  /\ v # << >> /\ v = <<v[1], v[2]>> /\ v[1] \in Nat
             /\ v[1] + 1 \in DOMAIN t.parts /\ v[1] < Radix ^ SizeWidth
             /\ v[2] \in Objects[t.parts[v[1] + 1]]
  <2>1. v[1] = i - 1 /\ v[2] = x /\ v # << >> BY <1>6
  <2>2. (i - 1) + 1 = i /\ i - 1 \in Nat /\ i - 1 < Radix ^ SizeWidth
    <3>1. PICK y \in Nat : y = Radix ^ SizeWidth BY WidthsAre, PowerIs
    <3> QED BY <1>3, <1>4, <3>1
  <2> QED BY <1>6, <2>1, <2>2
<1>7. \/ v = << >> /\ t.size = 1
      \/ \E i \in DOMAIN t.parts : \E x \in Objects[t.parts[i]] : v = <<i - 1, x>>
  <2>1. v \in UNION {{<<i - 1, x>> : x \in p[i]} : i \in DOMAIN p} \/ (v = << >> /\ t.size = 1)
    <3> DEFINE U == UNION {{<<i - 1, x>> : x \in p[i]} : i \in DOMAIN p}
    <3>1. Objects[t] = U \cup (IF t.size = 1 THEN {<< >>} ELSE {}) BY <1>2, Zenon
    <3> HIDE DEF U
    <3>2. v \in U \/ (v = << >> /\ t.size = 1) BY <3>1
    <3> QED BY <3>2 DEF U
  <2>2. ASSUME NEW i \in DOMAIN p, v \in {<<i - 1, x>> : x \in p[i]}
        PROVE  i \in DOMAIN t.parts /\ \E x \in Objects[t.parts[i]] : v = <<i - 1, x>>
    BY <2>2
  <2>3. v \in UNION {{<<i - 1, x>> : x \in p[i]} : i \in DOMAIN p} =>
          \E i \in DOMAIN p : v \in {<<i - 1, x>> : x \in p[i]}
    <3> HIDE DEF p
    <3> QED OBVIOUS
  <2> HIDE DEF p
  <2> QED BY <2>1, <2>2, <2>3
<1> QED BY <1>6, <1>7

------------------------------------------------------------------------------
(* Bytes and words *)

LEMMA BytesIs ==
  ASSUME NEW b, IsSequence(b)
  PROVE  /\ IsSequence(Bytes(b)) /\ Len(Bytes(b)) = Len(b) /\ Len(b) \in Nat
         /\ \A i \in 1 .. Len(b) : Bytes(b)[i] = [byte |-> b[i]]
<1>1. Len(b) \in Nat BY SequenceFunction
<1>2. Bytes(b) = [i \in 1 .. Len(b) |-> Bytes(b)[i]] BY DEF Bytes
<1>3. IsSequence(Bytes(b)) /\ Len(Bytes(b)) = Len(b) BY <1>1, <1>2, ListIs
<1>4. \A i \in 1 .. Len(b) : Bytes(b)[i] = [byte |-> b[i]] BY DEF Bytes
<1> QED BY <1>1, <1>3, <1>4

(* z has the elements of x, then those of y. *)
OneThenOther(x, y, z) ==
  /\ Len(z) = Len(x) + Len(y)
  /\ \A i \in 1 .. Len(x) : z[i] = x[i]
  /\ \A i \in 1 .. Len(y) : z[Len(x) + i] = y[i]

LEMMA JoinedIs ==
  ASSUME NEW x, IsSequence(x), NEW y, IsSequence(y), NEW z, IsSequence(z), OneThenOther(x, y, z)
  PROVE  z = x \o y
<1> USE DEF OneThenOther
<1>1. /\ IsSequence(x \o y) /\ Len(x) \in Nat /\ Len(y) \in Nat
      /\ Len(x \o y) = Len(x) + Len(y)
      /\ \A i \in 1 .. Len(x) : (x \o y)[i] = x[i]
      /\ \A i \in 1 .. Len(y) : (x \o y)[Len(x) + i] = y[i]
  BY Joined
<1>2. ASSUME NEW i \in 1 .. Len(z) PROVE z[i] = (x \o y)[i]
  <2>1. CASE i \in 1 .. Len(x) BY <1>1, <2>1
  <2>2. CASE i \notin 1 .. Len(x)
    <3>1. i - Len(x) \in 1 .. Len(y) /\ i = Len(x) + (i - Len(x)) BY <1>1, <2>2
    <3>2. PICK j \in 1 .. Len(y) : i = Len(x) + j BY <3>1
    <3> QED BY <1>1, <3>2
  <2> QED BY <2>1, <2>2
<1>3. Len(z) = Len(x \o y) BY <1>1
<1> QED BY <1>1, <1>2, <1>3, SameElements

LEMMA BytesJoined ==
  ASSUME NEW a, IsSequence(a), NEW b, IsSequence(b)
  PROVE  Bytes(a \o b) = Bytes(a) \o Bytes(b)
<1>1. /\ IsSequence(a \o b) /\ Len(a) \in Nat /\ Len(b) \in Nat /\ Len(a \o b) = Len(a) + Len(b)
      /\ \A i \in 1 .. Len(a) : (a \o b)[i] = a[i]
      /\ \A i \in 1 .. Len(b) : (a \o b)[Len(a) + i] = b[i]
  BY Joined
<1>2. /\ IsSequence(Bytes(a)) /\ Len(Bytes(a)) = Len(a)
      /\ \A i \in 1 .. Len(a) : Bytes(a)[i] = [byte |-> a[i]]
  BY BytesIs
<1>3. /\ IsSequence(Bytes(b)) /\ Len(Bytes(b)) = Len(b)
      /\ \A i \in 1 .. Len(b) : Bytes(b)[i] = [byte |-> b[i]]
  BY BytesIs
<1>4. /\ IsSequence(Bytes(a \o b)) /\ Len(Bytes(a \o b)) = Len(a \o b)
      /\ \A i \in 1 .. Len(a \o b) : Bytes(a \o b)[i] = [byte |-> (a \o b)[i]]
  BY <1>1, BytesIs
<1>5. ASSUME NEW i \in 1 .. Len(Bytes(a)) PROVE Bytes(a \o b)[i] = Bytes(a)[i]
  <2>1. i \in 1 .. Len(a) /\ i \in 1 .. Len(a \o b) BY <1>1, <1>2
  <2> QED BY <1>1, <1>2, <1>4, <2>1
<1>6. ASSUME NEW i \in 1 .. Len(Bytes(b)) PROVE Bytes(a \o b)[Len(Bytes(a)) + i] = Bytes(b)[i]
  <2>1. i \in 1 .. Len(b) /\ Len(a) + i \in 1 .. Len(a \o b) BY <1>1, <1>3
  <2> QED BY <1>1, <1>2, <1>3, <1>4, <2>1
<1>7. Len(Bytes(a \o b)) = Len(Bytes(a)) + Len(Bytes(b)) BY <1>1, <1>2, <1>3, <1>4
<1>8. OneThenOther(Bytes(a), Bytes(b), Bytes(a \o b)) BY <1>5, <1>6, <1>7 DEF OneThenOther
<1> QED BY <1>2, <1>3, <1>4, <1>8, JoinedIs

LEMMA BytesConcat ==
  ASSUME NEW s, IsSequence(s), \A i \in 1 .. Len(s) : IsSequence(s[i])
  PROVE  Bytes(Concat(s)) = Concat([i \in 1 .. Len(s) |-> Bytes(s[i])])
<1> DEFINE n == Len(s)
           r == [i \in 1 .. n |-> Bytes(s[i])]
<1>1. n \in Nat BY SequenceFunction
<1>2. IsSequence(r) /\ Len(r) = n
  <2>1. r = [i \in 1 .. n |-> r[i]] OBVIOUS
  <2> HIDE DEF r, n
  <2> QED BY <1>1, <2>1, ListIs
<1>3. \A i \in 1 .. n : r[i] = Bytes(s[i]) OBVIOUS
<1>4. \A i \in 1 .. Len(r) : IsSequence(r[i]) BY <1>2, <1>3, BytesIs
<1> HIDE DEF r
<1>5. PICK u : Joins(s, u) /\ Concat(s) = u[n] BY ConcatJoins
<1>6. PICK w : Joins(r, w) /\ Concat(r) = w[n] BY <1>2, <1>4, ConcatJoins
<1> DEFINE S == {i \in 0 .. n : Bytes(u[i]) = w[i]}
<1>7. 0 \in S
  <2>1. u[0] = << >> /\ w[0] = << >> BY <1>5, <1>6 DEF Joins
  <2>2. Bytes(<< >>) = << >> BY DEF Bytes
  <2> QED BY <1>1, <2>1, <2>2
<1>8. ASSUME NEW i \in 0 .. n - 1, i \in S PROVE i + 1 \in S
  <2>1. i + 1 \in 1 .. n /\ (i + 1) - 1 = i /\ i \in 0 .. n BY <1>1
  <2>2. u[i + 1] = u[i] \o s[i + 1] /\ IsSequence(u[i]) BY <1>5, <2>1 DEF Joins
  <2>3. w[i + 1] = w[i] \o r[i + 1] BY <1>2, <1>6, <2>1 DEF Joins
  <2>4. Bytes(u[i + 1]) = Bytes(u[i]) \o Bytes(s[i + 1]) BY <2>1, <2>2, BytesJoined
  <2>5. Bytes(u[i + 1]) = w[i + 1] BY <1>3, <1>8, <2>1, <2>3, <2>4
  <2> QED BY <1>1, <2>1, <2>5
<1>9. \A i \in 0 .. n : i \in S
  <2> HIDE DEF S
  <2> QED BY <1>1, <1>7, <1>8, Induction
<1>10. Bytes(u[n]) = w[n] BY <1>1, <1>9
<1> QED BY <1>5, <1>6, <1>10 DEF r

(* n bytes of a number: the tokens of an integer. *)
Word(n, v, o) == Bytes(write(n, v, o))

LEMMA WriteIs ==
  ASSUME NEW n \in Widths, NEW v \in Nat, NEW o
  PROVE  /\ n \in Nat /\ IsSequence(write(n, v, o)) /\ Len(write(n, v, o)) = n
         /\ \A i \in 1 .. n : write(n, v, o)[i] \in 0 .. Radix - 1
<1>1. n \in Nat /\ \A i \in 0 .. n : Radix ^ i \in Nat \ {0} BY PowerIs
<1>2. write(n, v, o) = [i \in 1 .. n |-> write(n, v, o)[i]] BY DEF write
<1>3. IsSequence(write(n, v, o)) /\ Len(write(n, v, o)) = n BY <1>1, <1>2, ListIs
<1>4. ASSUME NEW i \in 1 .. n PROVE write(n, v, o)[i] \in 0 .. Radix - 1
  <2>1. PICK j \in 0 .. n : write(n, v, o)[i] = Digit(v, j)
    <3>1. i - 1 \in 0 .. n /\ n - i \in 0 .. n BY <1>1
    <3>2. write(n, v, o)[i] = Digit(v, IF o = "little" THEN i - 1 ELSE n - i) BY DEF write
    <3> QED BY <3>1, <3>2
  <2>2. PICK x \in Nat \ {0} : x = Radix ^ j BY <1>1
  <2>3. v \div x \in Nat BY DivMod
  <2>4. (v \div x) % Radix \in 0 .. Radix - 1 BY <2>3, WidthsAre, DivMod
  <2> QED BY <2>1, <2>2, <2>4 DEF Digit
<1> QED BY <1>1, <1>3, <1>4

LEMMA WriteInOrder ==
  ASSUME NEW n, NEW v, NEW c \in Contexts, InOrder(n, c)
  PROVE  write(n, v, c.native) = write(n, v, c.order)
<1>1. CASE c.order = c.native BY <1>1
<1>2. CASE n = 1
  <2>1. \A i \in 1 .. 1 : i - 1 = 0 /\ 1 - i = 0 OBVIOUS
  <2>2. \A o : write(1, v, o) = [i \in 1 .. 1 |-> Digit(v, 0)]
    <3>1. ASSUME NEW o, NEW i \in 1 .. 1 PROVE Digit(v, IF o = "little" THEN i - 1 ELSE 1 - i) = Digit(v, 0)
      BY <2>1, Zenon
    <3> QED BY <3>1 DEF write
  <2>3. write(1, v, c.native) = write(1, v, c.order) BY <2>2, Zenon
  <2> QED BY <1>2, <2>3
<1> QED BY <1>1, <1>2 DEF InOrder

LEMMA WordIs ==
  ASSUME NEW n \in Widths, NEW v \in Nat, NEW o
  PROVE  /\ n \in Nat /\ IsSequence(Word(n, v, o)) /\ Len(Word(n, v, o)) = n
         /\ \A i \in 1 .. n : Word(n, v, o)[i] = [byte |-> write(n, v, o)[i]]
         /\ \A i \in 1 .. n : Word(n, v, o)[i] \in [byte : 0 .. Radix - 1]
<1>1. /\ n \in Nat /\ IsSequence(write(n, v, o)) /\ Len(write(n, v, o)) = n
      /\ \A i \in 1 .. n : write(n, v, o)[i] \in 0 .. Radix - 1
  BY WriteIs
<1>2. /\ IsSequence(Word(n, v, o)) /\ Len(Word(n, v, o)) = n
      /\ \A i \in 1 .. n : Word(n, v, o)[i] = [byte |-> write(n, v, o)[i]]
  BY <1>1, BytesIs DEF Word
<1> QED BY <1>1, <1>2

------------------------------------------------------------------------------
(* What a message is: that of the compiler, on a platform of the byte      *)
(* order asked for.  An object's message is made of those of its parts,    *)
(* and is the same in every context that asks for that byte order.         *)

Compiled(o) == [order |-> o, native |-> o, constant |-> TRUE]
Message(t, v, o) == hash_append[t][v][Compiled(o)]
MessagesOf(t, v, o) == [i \in 1 .. Len(v) |-> Message(Elem(t, i), v[i], o)]

Positive(t, v) == IF v = NegativeZero(t) THEN 0 ELSE v

Form(t, v, o, m) ==
  /\ t.kind \in Scalars \cup {"nullptr"} => m = Word(t.size, v, o)
  /\ t.kind = "float" => m = Word(t.size, Positive(t, v), o)
  /\ t.kind = "monostate" => m = Word(1, 0, o)
  /\ t.kind \in Products =>
       m = IF v = << >> THEN Word(1, 0, o) ELSE Concat(MessagesOf(t, v, o))
  /\ t.kind \in {"vector", "list", "custom"} =>
       m = Concat(MessagesOf(t, v, o)) \o Word(SizeWidth, Len(v), o)
  /\ t.kind = "set" =>
       m = <<[sum |-> BagOf(MessagesOf(t, v, o))]>> \o Word(SizeWidth, Len(v), o)
  /\ t.kind = "optional" => m = Word(1, Len(v), o) \o Concat(MessagesOf(t, v, o))
  /\ t.kind = "variant" =>
       m = IF v = << >> THEN Word(1, 0, o)
           ELSE Word(SizeWidth, v[1], o) \o Message(t.parts[v[1] + 1], v[2], o)

Uniform(t) ==
  \A v \in Objects[t], c \in Contexts :
    /\ hash_append[t][v][c] = Message(t, v, c.order)
    /\ is_contiguously_hashable[t][c] =>
         Bytes(memory[t][v][c.native]) = Message(t, v, c.order)

LEMMA FormUnique ==
  ASSUME NEW t \in Types, NEW v, NEW o, NEW m, NEW n, Form(t, v, o, m), Form(t, v, o, n)
  PROVE  m = n
<1>1. t.kind \in Kinds BY TypeIs
<1>2. \/ t.kind \in Scalars \cup {"nullptr"} \/ t.kind = "float" \/ t.kind = "monostate"
      \/ t.kind \in Products \/ t.kind \in {"vector", "list", "custom"} \/ t.kind = "set"
      \/ t.kind = "optional" \/ t.kind = "variant"
  BY <1>1 DEF Kinds, Units, Containers
<1>3. /\ t.kind \in Scalars \cup {"nullptr"} => m = n
      /\ t.kind = "float" => m = n
      /\ t.kind = "monostate" => m = n
      /\ t.kind \in Products => m = n
      /\ t.kind \in {"vector", "list", "custom"} => m = n
      /\ t.kind = "set" => m = n
      /\ t.kind = "optional" => m = n
      /\ t.kind = "variant" => m = n
  BY Zenon DEF Form
<1> QED BY <1>2, <1>3, Zenon

LEMMA ContextIs ==
  ASSUME NEW c \in Contexts
  PROVE  /\ c.order \in ByteOrders /\ c.native \in ByteOrders /\ c.constant \in BOOLEAN
         /\ Compiled(c.order) \in Contexts /\ Compiled(c.order).order = c.order
         /\ Compiled(c.order).constant
  BY DEF Contexts, Compiled

LEMMA IntegralIs ==
  ASSUME NEW n, NEW v, NEW c \in Contexts
  PROVE  /\ hash_append_integral(n, v, c) = Word(n, v, c.order)
         /\ do_integral(n, v, c) = Word(n, v, c.order)
<1>1. do_integral(n, v, c) = Word(n, v, c.order) BY DEF do_integral, Word
<1>2. CASE ~c.constant /\ InOrder(n, c)
  <2>1. write(n, v, c.native) = write(n, v, c.order) BY <1>2, WriteInOrder
  <2> QED BY <1>1, <1>2, <2>1 DEF hash_append_integral, Word
<1>3. CASE ~(~c.constant /\ InOrder(n, c)) BY <1>1, <1>3 DEF hash_append_integral
<1> QED BY <1>1, <1>2, <1>3

LEMMA SizeIs ==
  ASSUME NEW n \in Nat, n < Radix ^ SizeWidth, NEW c \in Contexts
  PROVE  hash_append_size(n, c) = Word(SizeWidth, n, c.order)
<1>1. PICK x \in Nat \ {0} : x = Radix ^ SizeWidth
  <2>1. SizeWidth \in Widths /\ SizeWidth \in 0 .. SizeWidth BY WidthsAre
  <2> QED BY <2>1, PowerIs
<1>2. n % x = n
  <2>1. n = 0 * x + n /\ n \in 0 .. x - 1 BY <1>1
  <2> QED BY <1>1, <2>1, DivModUnique
<1> QED BY <1>1, <1>2, IntegralIs DEF hash_append_size

LEMMA PartsOf ==
  ASSUME NEW t \in Types, t.kind \in Products \cup Containers, NEW v \in Objects[t]
  PROVE  /\ IsSequence(v) /\ Len(v) \in Nat
         /\ \A i \in 1 .. Len(v) :
              /\ i \in 1 .. IF Len(t.parts) = 1 THEN MaxLength + 1 ELSE Len(t.parts)
              /\ \E j \in DOMAIN t.parts : Elem(t, i) = t.parts[j]
              /\ Elem(t, i) \in Types
              /\ v[i] \in Objects[Elem(t, i)]
<1>1. CASE t.kind \in Products
  <2>1. /\ IsSequence(v) /\ Len(v) = Len(t.parts)
        /\ \A i \in 1 .. Len(v) :
             i \in DOMAIN t.parts /\ v[i] \in Objects[t.parts[i]] /\ Elem(t, i) = t.parts[i]
    BY <1>1, ProductObjects
  <2>2. Len(v) \in Nat BY <2>1, TypeIs
  <2>3. \A i \in 1 .. Len(v) : i \in 1 .. IF Len(t.parts) = 1 THEN MaxLength + 1 ELSE Len(t.parts)
    BY <2>1, <2>2, LengthAssumption
  <2>4. \A i \in 1 .. Len(v) : Elem(t, i) \in Types BY <2>1, TypeIs
  <2> QED BY <2>1, <2>2, <2>3, <2>4
<1>2. CASE t.kind \in Containers
  <2>1. /\ IsSequence(v) /\ Len(v) \in SizesOf(t) /\ 1 \in DOMAIN t.parts
        /\ \A i \in 1 .. Len(v) : v[i] \in Objects[t.parts[1]]
        /\ \A i : Elem(t, i) = t.parts[1]
    BY <1>2, ContainerObjects
  <2>2. Len(v) \in 0 .. MaxLength + 1 BY <2>1, LengthAssumption DEF SizesOf
  <2>3. Len(t.parts) = 1 BY <1>2, TypesAssumption, Zenon
  <2>4. t.parts[1] \in Types BY <2>1, TypeIs
  <2>5. \A i \in 1 .. Len(v) : i \in 1 .. MaxLength + 1 BY <2>2, LengthAssumption
  <2>6. Len(v) \in Nat BY <2>2, LengthAssumption
  <2> QED BY <2>1, <2>3, <2>4, <2>5, <2>6
<1> QED BY <1>1, <1>2

LEMMA EachIs ==
  ASSUME NEW t \in Types, t.kind \in Products \cup Containers,
         \A i \in DOMAIN t.parts : Uniform(t.parts[i]),
         NEW v \in Objects[t], NEW c \in Contexts,
         NEW p, p = [i \in DOMAIN t.parts |-> hash_append[t.parts[i]]]
  PROVE  each(p, v, c) = Concat(MessagesOf(t, v, c.order))
<1>1. ASSUME NEW i \in 1 .. Len(v)
      PROVE  Nth(p, i)[v[i]][c] = Message(Elem(t, i), v[i], c.order)
  <2>1. /\ i \in 1 .. IF Len(t.parts) = 1 THEN MaxLength + 1 ELSE Len(t.parts)
        /\ v[i] \in Objects[Elem(t, i)]
        /\ \E j \in DOMAIN t.parts : Elem(t, i) = t.parts[j]
    BY PartsOf
  <2>2. Nth(p, i) = hash_append[Elem(t, i)] BY <2>1, NthIs
  <2>3. Uniform(Elem(t, i)) BY <2>1
  <2>4. hash_append[Elem(t, i)][v[i]][c] = Message(Elem(t, i), v[i], c.order)
    BY <2>1, <2>3, Zenon DEF Uniform
  <2> QED BY <2>2, <2>4
<1>2. [i \in 1 .. Len(v) |-> Nth(p, i)[v[i]][c]] = MessagesOf(t, v, c.order)
  BY <1>1, Zenon DEF MessagesOf
<1> QED BY <1>2, Zenon DEF each

LEMMA MemoryOf ==
  ASSUME NEW t \in Types, NEW v \in Objects[t], NEW o \in ByteOrders
  PROVE  /\ t.kind \in Scalars => memory[t][v][o] = write(t.size, v, o)
         /\ t.kind \in {"carray", "plain"} =>
              memory[t][v][o] = Concat([i \in 1 .. Len(v) |-> memory[t.parts[i]][v[i]][o]])
         /\ ~(t.kind \in Scalars \cup {"carray", "plain"}) => memory[t][v][o] = << >>
<1> DEFINE p == [i \in DOMAIN t.parts |-> memory[t.parts[i]]]
           At(x, q) ==
             CASE t.kind \in Scalars -> write(t.size, x, q)
               [] t.kind \in {"carray", "plain"} -> Concat([i \in 1 .. Len(x) |-> p[i][x[i]][q]])
               [] OTHER -> << >>
<1>1. memory[t] = [x \in Objects[t] |-> [q \in ByteOrders |-> At(x, q)]] BY MemoryIs, Zenon
<1>2. memory[t][v][o] = At(v, o)
  <2> HIDE DEF At
  <2> QED BY <1>1
<1>3. t.kind \in Scalars => ~(t.kind \in {"carray", "plain"}) BY DEF Scalars
<1>4. t.kind \in Scalars => At(v, o) = write(t.size, v, o) BY <1>3, Zenon
<1>5. ~(t.kind \in Scalars \cup {"carray", "plain"}) => At(v, o) = << >> BY <1>3, Zenon
<1>6. ASSUME t.kind \in {"carray", "plain"}
      PROVE  At(v, o) = Concat([i \in 1 .. Len(v) |-> memory[t.parts[i]][v[i]][o]])
  <2>1. At(v, o) = Concat([i \in 1 .. Len(v) |-> p[i][v[i]][o]]) BY <1>3, <1>6, Zenon
  <2>2. t.kind \in Products BY <1>6 DEF Products
  <2>3. \A i \in 1 .. Len(v) : i \in DOMAIN t.parts BY <2>2, ProductObjects
  <2>4. \A i \in 1 .. Len(v) : p[i][v[i]][o] = memory[t.parts[i]][v[i]][o] BY <2>3
  <2>5. [i \in 1 .. Len(v) |-> p[i][v[i]][o]]
          = [i \in 1 .. Len(v) |-> memory[t.parts[i]][v[i]][o]]
    <3> HIDE DEF p
    <3> QED BY <2>4
  <2> QED BY <2>1, <2>5, Zenon
<1> HIDE DEF At
<1> QED BY <1>2, <1>4, <1>5, <1>6

LEMMA MemorySequence ==
  ASSUME NEW t \in Types, NEW v \in Objects[t], NEW o \in ByteOrders
  PROVE  IsSequence(memory[t][v][o])
<1> DEFINE S == {s \in Types : \A x \in Objects[s] : IsSequence(memory[s][x][o])}
<1>1. ASSUME NEW s \in Types, \A i \in DOMAIN s.parts : s.parts[i] \in S PROVE s \in S
  <2> SUFFICES ASSUME NEW x \in Objects[s] PROVE IsSequence(memory[s][x][o]) OBVIOUS
  <2>1. CASE s.kind \in Scalars
    <3>1. x \in Nat
      <4>1. Objects[s] = 0 .. Radix ^ s.size - 1 BY <2>1, NumberObjects
      <4>2. s.size \in Widths /\ s.size \in 0 .. s.size BY TypeIs, WidthsAre
      <4>3. PICK n \in Nat : n = Radix ^ s.size BY <4>2, PowerIs
      <4> QED BY <4>1, <4>3
    <3>2. IsSequence(write(s.size, x, o)) BY <3>1, WriteIs, WidthsAre
    <3> QED BY <2>1, <3>2, MemoryOf
  <2>2. CASE s.kind \in {"carray", "plain"}
    <3> DEFINE m == [i \in 1 .. Len(x) |-> memory[s.parts[i]][x[i]][o]]
    <3>1. /\ IsSequence(x)
          /\ \A i \in 1 .. Len(x) : i \in DOMAIN s.parts /\ x[i] \in Objects[s.parts[i]]
      BY <2>2, ProductObjects DEF Products
    <3>2. \A i \in 1 .. Len(x) : IsSequence(m[i]) BY <1>1, <3>1
    <3>3. Len(x) \in Nat BY <3>1, SequenceFunction
    <3>4. m = [i \in 1 .. Len(x) |-> m[i]] OBVIOUS
    <3>5. memory[s][x][o] = Concat(m) BY <2>2, MemoryOf
    <3> HIDE DEF m
    <3>6. IsSequence(m) /\ Len(m) = Len(x) BY <3>3, <3>4, ListIs
    <3>7. \A i \in 1 .. Len(m) : IsSequence(m[i]) BY <3>2, <3>6
    <3>8. PICK u : Joins(m, u) /\ Concat(m) = u[Len(m)] BY <3>6, <3>7, ConcatJoins
    <3>9. IsSequence(u[Len(m)]) BY <3>3, <3>6, <3>8 DEF Joins
    <3> QED BY <3>5, <3>8, <3>9
  <2>3. CASE ~(s.kind \in Scalars \cup {"carray", "plain"})
    <3>1. memory[s][x][o] = << >> BY <2>3, MemoryOf
    <3>2. IsSequence(<< >>)
      <4>1. << >> \in Seq({}) OBVIOUS
      <4> QED BY <4>1, SequenceIs
    <3> QED BY <3>1, <3>2
  <2> QED BY <2>1, <2>2, <2>3
<1>2. \A s \in Types : s \in S
  <2> HIDE DEF S
  <2> QED BY <1>1, TypeInduction
<1> QED BY <1>2

LEMMA HashableOf ==
  ASSUME NEW t \in Types, NEW c \in Contexts
  PROVE  is_contiguously_hashable[t][c] <=>
           \/ t.kind \in Scalars \cup {"plain"} /\ InOrder(t.size, c)
           \/ t.kind = "carray" /\ is_contiguously_hashable[t.parts[1]][c]
<1> DEFINE p == [i \in DOMAIN t.parts |-> is_contiguously_hashable[t.parts[i]]]
           At(d) ==
             \/ t.kind \in Scalars \cup {"plain"} /\ InOrder(t.size, d)
             \/ t.kind = "carray" /\ p[1][d]
<1>1. is_contiguously_hashable[t] = [d \in Contexts |-> At(d)] BY HashableIs, Zenon
<1>2. is_contiguously_hashable[t][c] = At(c)
  <2> HIDE DEF At
  <2> QED BY <1>1
<1>3. ASSUME t.kind = "carray" PROVE p[1][c] = is_contiguously_hashable[t.parts[1]][c]
  <2>1. t.parts # << >> /\ t.parts \in Seq(Types) BY <1>3, TypeIs, TypesAssumption, Zenon
  <2>2. 1 \in DOMAIN t.parts BY <2>1
  <2> QED BY <2>2
<1> HIDE DEF p
<1> QED BY <1>2, <1>3, Zenon

(* Nothing but numbers, without padding. *)
Flat(t) == \A s \in Within[t] : s.kind \in Scalars \cup {"plain", "carray"}

LEMMA WithinPart ==
  ASSUME NEW t \in Types, NEW i \in DOMAIN t.parts
  PROVE  t \in Within[t] /\ Within[t.parts[i]] \subseteq Within[t]
<1> DEFINE p == [j \in DOMAIN t.parts |-> Within[t.parts[j]]]
<1>1. Within[t] = {t} \cup UNION {p[j] : j \in DOMAIN p} BY WithinIs, Zenon
<1>2. p[i] = Within[t.parts[i]] /\ i \in DOMAIN p OBVIOUS
<1> HIDE DEF p
<1> QED BY <1>1, <1>2

LEMMA WithinItself ==
  ASSUME NEW t \in Types
  PROVE  t \in Within[t]
<1> DEFINE p == [j \in DOMAIN t.parts |-> Within[t.parts[j]]]
<1>1. Within[t] = {t} \cup UNION {p[j] : j \in DOMAIN p} BY WithinIs, Zenon
<1> HIDE DEF p
<1> QED BY <1>1

LEMMA FlatIsHashable ==
  ASSUME NEW t \in Types, Flat(t), NEW c \in Contexts, c.order = c.native \/ t.size <= 1
  PROVE  is_contiguously_hashable[t][c]
<1> DEFINE S == {s \in Types : Flat(s) /\ (c.order = c.native \/ s.size <= 1)
                                 => is_contiguously_hashable[s][c]}
<1>1. ASSUME NEW s \in Types, \A i \in DOMAIN s.parts : s.parts[i] \in S PROVE s \in S
  <2> SUFFICES ASSUME Flat(s), c.order = c.native \/ s.size <= 1
               PROVE  is_contiguously_hashable[s][c]
    OBVIOUS
  <2>1. s.kind \in Scalars \cup {"plain", "carray"} BY WithinItself DEF Flat
  <2>2. CASE s.kind \in Scalars \cup {"plain"}
    <3>1. s.kind \in Scalars \cup {"float", "nullptr", "plain"} BY <2>2
    <3>2. s.size > 0 /\ s.size \in Nat BY <3>1, TypesAssumption, TypeIs, Zenon
    <3>3. InOrder(s.size, c) BY <3>2 DEF InOrder
    <3> QED BY <2>2, <3>3, HashableOf
  <2>3. CASE s.kind = "carray"
    <3>1. s.kind \in {"carray", "plain"} BY <2>3
    <3>2. s.parts # << >> /\ \A i \in DOMAIN s.parts : s.parts[i].size <= s.size
      BY <3>1, TypesAssumption, Zenon
    <3>3. s.parts \in Seq(Types) BY TypeIs
    <3>4. 1 \in DOMAIN s.parts BY <3>2, <3>3
    <3>5. Flat(s.parts[1]) BY <3>4, WithinPart DEF Flat
    <3>6. s.size \in Nat /\ s.parts[1].size \in Nat BY <3>4, TypeIs
    <3>7. c.order = c.native \/ s.parts[1].size <= 1 BY <3>2, <3>4, <3>6
    <3>8. is_contiguously_hashable[s.parts[1]][c] BY <1>1, <3>4, <3>5, <3>7
    <3> QED BY <2>3, <3>8, HashableOf
  <2> QED BY <2>1, <2>2, <2>3
<1>2. \A s \in Types : s \in S
  <2> HIDE DEF S
  <2> QED BY <1>1, TypeInduction
<1> QED BY <1>2

(* The bytes of elements in memory are the messages of the elements. *)
InMemoryAs(n, m, s) ==
  /\ m = [i \in 1 .. n |-> m[i]] /\ s = [i \in 1 .. n |-> s[i]]
  /\ \A i \in 1 .. n : IsSequence(m[i]) /\ Bytes(m[i]) = s[i]

LEMMA InMemory ==
  ASSUME NEW n \in Nat, NEW m, NEW s, InMemoryAs(n, m, s)
  PROVE  Bytes(Concat(m)) = Concat(s)
<1> USE DEF InMemoryAs
<1>1. IsSequence(m) /\ Len(m) = n BY ListIs
<1>2. Bytes(Concat(m)) = Concat([i \in 1 .. n |-> Bytes(m[i])]) BY <1>1, BytesConcat
<1>3. [i \in 1 .. n |-> Bytes(m[i])] = s
  <2>1. \A i \in 1 .. n : Bytes(m[i]) = s[i] OBVIOUS
  <2>2. [i \in 1 .. n |-> Bytes(m[i])] = [i \in 1 .. n |-> s[i]] BY <2>1
  <2> QED BY <2>2, Zenon
<1> QED BY <1>2, <1>3

LEMMA RangeIs ==
  ASSUME NEW t \in Types, t.kind \in Products \cup Containers,
         t.kind \in {"carray", "array"} => t.parts # << >>,
         \A i \in DOMAIN t.parts : Uniform(t.parts[i]),
         NEW v \in Objects[t], NEW c \in Contexts,
         NEW p, p = [i \in DOMAIN t.parts |-> hash_append[t.parts[i]]]
  PROVE  hash_append_range(t, p, v, c) = Concat(MessagesOf(t, v, c.order))
<1>1. each(p, v, c) = Concat(MessagesOf(t, v, c.order)) BY EachIs
<1>2. ASSUME t.kind \in {"carray", "array", "vector", "custom"},
             is_contiguously_hashable[t.parts[1]][c]
      PROVE  Bytes(Concat([i \in 1 .. Len(v) |-> memory[t.parts[1]][v[i]][c.native]]))
               = Concat(MessagesOf(t, v, c.order))
  <2> DEFINE m == [i \in 1 .. Len(v) |-> memory[t.parts[1]][v[i]][c.native]]
             s == MessagesOf(t, v, c.order)
  <2>1. Len(v) \in Nat BY PartsOf
  <2>2. 1 \in DOMAIN t.parts
    <3>1. CASE t.kind \in {"carray", "array"}
      <4>1. t.parts # << >> /\ t.parts \in Seq(Types) BY <3>1, TypeIs
      <4> QED BY <4>1
    <3>2. CASE t.kind \in {"vector", "custom"} BY <3>2, ContainerObjects DEF Containers
    <3> QED BY <1>2, <3>1, <3>2
  <2>3. \A i \in 1 .. Len(v) : Elem(t, i) = t.parts[1] /\ v[i] \in Objects[t.parts[1]]
    <3>1. CASE t.kind \in {"carray", "array"}
      <4>1. \A i \in 1 .. Len(v) :
              i \in DOMAIN t.parts /\ v[i] \in Objects[t.parts[i]] /\ Elem(t, i) = t.parts[i]
        BY <3>1, ProductObjects DEF Products
      <4>2. \A i \in DOMAIN t.parts : t.parts[i] = t.parts[1] BY <3>1, TypesAssumption, Zenon
      <4> QED BY <4>1, <4>2, Zenon
    <3>2. CASE t.kind \in {"vector", "custom"} BY <3>2, ContainerObjects DEF Containers
    <3> QED BY <1>2, <3>1, <3>2
  <2>4. t.parts[1] \in Types /\ Uniform(t.parts[1]) BY <2>2, TypeIs
  <2>5. c.native \in ByteOrders BY ContextIs
  <2>6. ASSUME NEW i \in 1 .. Len(v) PROVE IsSequence(m[i]) /\ Bytes(m[i]) = s[i]
    <3>1. m[i] = memory[t.parts[1]][v[i]][c.native] OBVIOUS
    <3>2. s[i] = Message(t.parts[1], v[i], c.order) BY <2>3 DEF MessagesOf
    <3>3. v[i] \in Objects[t.parts[1]] BY <2>3
    <3>4. Bytes(memory[t.parts[1]][v[i]][c.native]) = Message(t.parts[1], v[i], c.order)
      BY <1>2, <2>4, <3>3, Zenon DEF Uniform
    <3>5. IsSequence(memory[t.parts[1]][v[i]][c.native]) BY <2>4, <2>5, <3>3, MemorySequence
    <3> QED BY <3>1, <3>2, <3>4, <3>5
  <2>7. m = [i \in 1 .. Len(v) |-> m[i]] /\ s = [i \in 1 .. Len(v) |-> s[i]] BY DEF MessagesOf
  <2> HIDE DEF m, s
  <2>8. InMemoryAs(Len(v), m, s) BY <2>6, <2>7 DEF InMemoryAs
  <2>9. Bytes(Concat(m)) = Concat(s) BY <2>1, <2>8, InMemory
  <2> QED BY <2>9 DEF m, s
<1> QED BY <1>1, <1>2, Zenon DEF hash_append_range

LEMMA DoIs ==
  ASSUME NEW t \in Types, \A i \in DOMAIN t.parts : Uniform(t.parts[i]),
         NEW v \in Objects[t], NEW c \in Contexts,
         NEW p, p = [i \in DOMAIN t.parts |-> hash_append[t.parts[i]]]
  PROVE  Form(t, v, c.order, do_hash_append(t, p, v, c))
<1> DEFINE m == do_hash_append(t, p, v, c)
           s == MessagesOf(t, v, c.order)
<1>1. zero_byte(c) = Word(1, 0, c.order) BY IntegralIs DEF zero_byte
<1>2. ASSUME t.kind \in Scalars \cup {"nullptr"} PROVE m = Word(t.size, v, c.order)
  <2>1. t.kind = "int" => m = do_integral(t.size, v, c) BY Zenon DEF do_hash_append
  <2>2. t.kind \in {"enum", "pointer", "nullptr"} => m = hash_append_integral(t.size, v, c)
    BY Zenon DEF do_hash_append
  <2>3. t.kind = "int" \/ t.kind \in {"enum", "pointer", "nullptr"} BY <1>2 DEF Scalars
  <2> HIDE DEF m
  <2> QED BY <2>1, <2>2, <2>3, IntegralIs
<1>3. ASSUME t.kind = "float" PROVE m = Word(t.size, Positive(t, v), c.order)
  <2>1. m = do_floating_point(t, v, c) BY <1>3, Zenon DEF do_hash_append
  <2>2. do_floating_point(t, v, c) = hash_append_integral(t.size, Positive(t, v), c)
    BY Zenon DEF do_floating_point, Positive
  <2> HIDE DEF m
  <2> QED BY <2>1, <2>2, IntegralIs
<1>4. ASSUME t.kind = "monostate" PROVE m = Word(1, 0, c.order)
  <2>1. m = zero_byte(c) BY <1>4, Zenon DEF do_hash_append
  <2> QED BY <1>1, <2>1
<1>5. ASSUME t.kind \in Products
      PROVE  m = IF v = << >> THEN Word(1, 0, c.order) ELSE Concat(s)
  <2>1. IsSequence(v) /\ Len(v) = Len(t.parts) /\ t.parts \in Seq(Types)
    BY <1>5, ProductObjects, TypeIs
  <2>2. CASE t.kind \in {"carray", "array"}
    <3>1. t.kind = "carray" => m = hash_append_range(t, p, v, c) BY Zenon DEF do_hash_append
    <3>2. t.kind = "array" => m = IF v = << >> THEN zero_byte(c) ELSE hash_append_range(t, p, v, c)
      BY Zenon DEF do_hash_append, do_constant_size
    <3>3. t.kind = "carray" => t.parts # << >> BY TypesAssumption, Zenon
    <3>4. v # << >> => t.parts # << >>
      <4>1. t.parts = << >> => Len(v) = 0 BY <2>1
      <4>2. Len(v) = 0 => v = << >>
        <5>1. v \in Seq(Elements(v)) BY <2>1 DEF IsSequence, Elements
        <5> QED BY <5>1
      <4> QED BY <4>1, <4>2
    <3>5. t.kind = "carray" => v # << >>
      <4>1. t.parts # << >> => Len(t.parts) # 0 BY <2>1
      <4>2. v = << >> => Len(v) = 0 OBVIOUS
      <4> QED BY <2>1, <3>3, <4>1, <4>2
    <3>6. v # << >> => hash_append_range(t, p, v, c) = Concat(s)
      <4>1. t.kind \in Products \cup Containers BY <1>5
      <4> HIDE DEF s
      <4> SUFFICES ASSUME v # << >> PROVE hash_append_range(t, p, v, c) = Concat(s) OBVIOUS
      <4>2. t.kind \in {"carray", "array"} => t.parts # << >> BY <3>4
      <4> QED BY <4>1, <4>2, RangeIs DEF s
    <3> HIDE DEF m, s
    <3> QED BY <1>1, <2>2, <3>1, <3>2, <3>5, <3>6
  <2>3. CASE t.kind \in {"tuple", "class", "plain"}
    <3>1. m = IF v = << >> THEN zero_byte(c) ELSE each(p, v, c)
      BY <2>3, Zenon DEF do_hash_append, do_members
    <3>2. each(p, v, c) = Concat(s) BY <1>5, EachIs
    <3> HIDE DEF m, s
    <3> QED BY <1>1, <3>1, <3>2
  <2> QED BY <1>5, <2>2, <2>3 DEF Products
<1>6. ASSUME t.kind \in Containers
      PROVE  /\ IsSequence(v) /\ Len(v) \in Nat
             /\ t.kind # "optional" => hash_append_size(Len(v), c) = Word(SizeWidth, Len(v), c.order)
  <2>1. IsSequence(v) /\ Len(v) \in SizesOf(t) BY <1>6, ContainerObjects
  <2>2. Len(v) \in Nat BY <2>1, LengthAssumption DEF SizesOf
  <2>3. ASSUME t.kind # "optional"
        PROVE  hash_append_size(Len(v), c) = Word(SizeWidth, Len(v), c.order)
    <3>1. PICK x \in Nat \ {0} : x = Radix ^ SizeWidth
      <4>1. SizeWidth \in Widths /\ SizeWidth \in 0 .. SizeWidth BY WidthsAre
      <4> QED BY <4>1, PowerIs
    <3>2. Len(v) <= MaxLength /\ MaxLength \in Nat BY <2>1, <2>3, LengthAssumption DEF SizesOf
    <3>3. Len(v) < Radix ^ SizeWidth BY <2>2, <3>1, <3>2, LengthAssumption
    <3> QED BY <2>2, <3>3, SizeIs
  <2> QED BY <2>1, <2>2, <2>3
<1>7. ASSUME t.kind \in {"vector", "list", "custom"}
      PROVE  m = Concat(s) \o Word(SizeWidth, Len(v), c.order)
  <2>1. m = hash_append_range(t, p, v, c) \o hash_append_size(Len(v), c)
    BY <1>7, Zenon DEF do_hash_append, do_range_and_size, do_tag_invoke
  <2>2. t.kind \in Products \cup Containers /\ t.kind \in Containers /\ t.kind # "optional"
        /\ (t.kind \in {"carray", "array"} => t.parts # << >>)
    BY <1>7 DEF Containers
  <2>3. hash_append_range(t, p, v, c) = Concat(s) BY <2>2, RangeIs
  <2>4. hash_append_size(Len(v), c) = Word(SizeWidth, Len(v), c.order) BY <1>6, <2>2
  <2> QED BY <2>1, <2>3, <2>4, Zenon
<1>8. ASSUME t.kind = "set"
      PROVE  m = <<[sum |-> BagOf(s)]>> \o Word(SizeWidth, Len(v), c.order)
  <2> DEFINE r == [i \in 1 .. Len(v) |-> p[1][v[i]][c]]
  <2>1. m = <<[sum |-> BagOf(r)]>> \o hash_append_size(Len(v), c)
    BY <1>8, Zenon DEF do_hash_append, hash_append_unordered_range
  <2>2. t.kind \in Containers BY <1>8 DEF Containers
  <2>3. hash_append_size(Len(v), c) = Word(SizeWidth, Len(v), c.order) BY <1>6, <1>8, <2>2
  <2>4. r = s
    <3>1. /\ 1 \in DOMAIN t.parts /\ \A i \in 1 .. Len(v) : v[i] \in Objects[t.parts[1]]
          /\ \A i : Elem(t, i) = t.parts[1]
      BY <2>2, ContainerObjects
    <3>2. p[1] = hash_append[t.parts[1]] /\ Uniform(t.parts[1]) BY <3>1
    <3>3. \A i \in 1 .. Len(v) : hash_append[t.parts[1]][v[i]][c] = Message(t.parts[1], v[i], c.order)
      BY <3>1, <3>2, Zenon DEF Uniform
    <3>4. \A i \in 1 .. Len(v) : p[1][v[i]][c] = Message(Elem(t, i), v[i], c.order)
      BY <3>1, <3>2, <3>3
    <3> QED BY <3>4, Zenon DEF MessagesOf
  <2> QED BY <2>1, <2>3, <2>4, Zenon
<1>9. ASSUME t.kind = "optional" PROVE m = Word(1, Len(v), c.order) \o Concat(s)
  <2>1. m = hash_append_integral(1, Len(v), c) \o each(p, v, c)
    BY <1>9, Zenon DEF do_hash_append, do_optional
  <2>2. t.kind \in Products \cup Containers BY <1>9 DEF Containers
  <2>3. each(p, v, c) = Concat(s) BY <2>2, EachIs
  <2> QED BY <2>1, <2>3, IntegralIs, Zenon
<1>10. ASSUME t.kind = "variant"
       PROVE  m = IF v = << >> THEN Word(1, 0, c.order)
                  ELSE Word(SizeWidth, v[1], c.order) \o Message(t.parts[v[1] + 1], v[2], c.order)
  <2>1. m = IF v = << >> THEN zero_byte(c)
            ELSE hash_append_size(v[1], c) \o p[v[1] + 1][v[2]][c]
    BY <1>10, Zenon DEF do_hash_append, do_variant
  <2>2. CASE v = << >> BY <1>1, <2>1, <2>2
  <2>3. CASE v # << >>
    <3>1. /\ v[1] \in Nat /\ v[1] + 1 \in DOMAIN t.parts /\ v[1] < Radix ^ SizeWidth
          /\ v[2] \in Objects[t.parts[v[1] + 1]]
      BY <1>10, <2>3, VariantObjects
    <3>2. hash_append_size(v[1], c) = Word(SizeWidth, v[1], c.order) BY <3>1, SizeIs
    <3>3. p[v[1] + 1] = hash_append[t.parts[v[1] + 1]] /\ Uniform(t.parts[v[1] + 1]) BY <3>1
    <3>4. p[v[1] + 1][v[2]][c] = Message(t.parts[v[1] + 1], v[2], c.order)
      BY <3>1, <3>3, Zenon DEF Uniform
    <3> QED BY <2>1, <2>3, <3>2, <3>4, Zenon
  <2> QED BY <2>2, <2>3
<1> HIDE DEF m, s
<1>11. Form(t, v, c.order, m)
  BY <1>2, <1>3, <1>4, <1>5, <1>7, <1>8, <1>9, <1>10, Zenon DEF Form, s
<1> QED BY <1>11 DEF m

LEMMA MemoryForm ==
  ASSUME NEW t \in Types, \A i \in DOMAIN t.parts : Uniform(t.parts[i]),
         NEW v \in Objects[t], NEW c \in Contexts, is_contiguously_hashable[t][c]
  PROVE  Form(t, v, c.order, Bytes(memory[t][v][c.native]))
<1> DEFINE m == Bytes(memory[t][v][c.native])
           s == MessagesOf(t, v, c.order)
<1>1. c.native \in ByteOrders BY ContextIs
<1>2. CASE t.kind \in Scalars
  <2>1. t.kind # "carray" BY <1>2 DEF Scalars
  <2>2. InOrder(t.size, c) BY <2>1, HashableOf
  <2>3. memory[t][v][c.native] = write(t.size, v, c.native)
    <3>1. PICK o \in ByteOrders : o = c.native BY <1>1
    <3>2. memory[t][v][o] = write(t.size, v, o) BY <1>2, MemoryOf
    <3> QED BY <3>1, <3>2
  <2>4. m = Word(t.size, v, c.order) BY <2>2, <2>3, WriteInOrder DEF Word
  <2>5. /\ t.kind # "float" /\ t.kind # "monostate" /\ ~(t.kind \in Products)
        /\ ~(t.kind \in {"vector", "list", "custom"}) /\ t.kind # "set"
        /\ t.kind # "optional" /\ t.kind # "variant"
    BY <1>2 DEF Scalars, Products
  <2> HIDE DEF m
  <2>6. Form(t, v, c.order, m) BY <2>4, <2>5, Zenon DEF Form
  <2> QED BY <2>6 DEF m
<1>3. CASE t.kind \in {"carray", "plain"}
  <2> DEFINE b == [i \in 1 .. Len(v) |-> memory[t.parts[i]][v[i]][c.native]]
  <2>1. t.kind \in Products BY <1>3 DEF Products
  <2>2. /\ IsSequence(v) /\ Len(v) = Len(t.parts) /\ Len(v) \in Nat /\ t.parts \in Seq(Types)
        /\ \A i \in 1 .. Len(v) :
             i \in DOMAIN t.parts /\ v[i] \in Objects[t.parts[i]] /\ Elem(t, i) = t.parts[i]
    BY <2>1, ProductObjects, TypeIs
  <2>3. t.parts # << >> /\ \A i \in DOMAIN t.parts : t.parts[i].size <= t.size
    BY <1>3, TypesAssumption, Zenon
  <2>4. ASSUME NEW i \in 1 .. Len(v) PROVE is_contiguously_hashable[t.parts[i]][c]
    <3>1. i \in DOMAIN t.parts /\ t.parts[i] \in Types BY <2>2, TypeIs
    <3>2. CASE t.kind = "carray"
      <4>1. is_contiguously_hashable[t.parts[1]][c] BY <3>2, HashableOf DEF Scalars
      <4>2. t.kind \in {"carray", "array"} BY <3>2
      <4>3. t.parts[i] = t.parts[1] BY <3>1, <4>2, TypesAssumption, Zenon
      <4> QED BY <4>1, <4>3
    <3>3. CASE t.kind = "plain"
      <4>1. InOrder(t.size, c) BY <3>3, HashableOf
      <4>2. Flat(t.parts[i])
        <5>1. \A q \in Within[t] : q.kind \in Scalars \cup {"plain", "carray"}
          BY <3>3, TypesAssumption, Zenon
        <5> QED BY <3>1, <5>1, WithinPart DEF Flat
      <4>3. t.parts[i].size <= t.size /\ t.parts[i].size \in Nat /\ t.size \in Nat
        BY <2>3, <3>1, TypeIs
      <4>4. c.order = c.native \/ t.parts[i].size <= 1 BY <4>1, <4>3 DEF InOrder
      <4> QED BY <3>1, <4>2, <4>4, FlatIsHashable
    <3> QED BY <1>3, <3>2, <3>3
  <2>5. ASSUME NEW i \in 1 .. Len(v) PROVE IsSequence(b[i]) /\ Bytes(b[i]) = s[i]
    <3>1. b[i] = memory[t.parts[i]][v[i]][c.native] OBVIOUS
    <3>2. i \in DOMAIN t.parts /\ v[i] \in Objects[t.parts[i]] /\ Elem(t, i) = t.parts[i]
          /\ t.parts[i] \in Types
      BY <2>2, TypeIs
    <3>3. s[i] = Message(t.parts[i], v[i], c.order) BY <3>2 DEF MessagesOf
    <3>4. Uniform(t.parts[i]) BY <3>2
    <3>5. Bytes(memory[t.parts[i]][v[i]][c.native]) = Message(t.parts[i], v[i], c.order)
      BY <2>4, <3>2, <3>4, Zenon DEF Uniform
    <3>6. IsSequence(memory[t.parts[i]][v[i]][c.native]) BY <1>1, <3>2, MemorySequence
    <3> QED BY <3>1, <3>3, <3>5, <3>6
  <2>6. b = [i \in 1 .. Len(v) |-> b[i]] /\ s = [i \in 1 .. Len(v) |-> s[i]] BY DEF MessagesOf
  <2>7. memory[t][v][c.native] = Concat(b) BY <1>1, <1>3, MemoryOf
  <2> HIDE DEF b, s
  <2>8. InMemoryAs(Len(v), b, s) BY <2>5, <2>6 DEF InMemoryAs
  <2>9. m = Concat(s) BY <2>2, <2>7, <2>8, InMemory
  <2>10. v # << >>
    <3>1. v = << >> => Len(v) = 0 OBVIOUS
    <3>2. Len(t.parts) # 0 BY <2>2, <2>3
    <3> QED BY <2>2, <3>1, <3>2
  <2>11. /\ t.kind # "float" /\ t.kind # "monostate" /\ ~(t.kind \in Scalars \cup {"nullptr"})
         /\ ~(t.kind \in {"vector", "list", "custom"}) /\ t.kind # "set"
         /\ t.kind # "optional" /\ t.kind # "variant"
    BY <1>3 DEF Scalars
  <2> HIDE DEF m
  <2>12. Form(t, v, c.order, m) BY <2>9, <2>10, <2>11, Zenon DEF Form, s
  <2> QED BY <2>12 DEF m
<1>4. t.kind \in Scalars \/ t.kind \in {"carray", "plain"} BY HashableOf
<1> QED BY <1>2, <1>3, <1>4

LEMMA HashAppendOf ==
  ASSUME NEW t \in Types, NEW v \in Objects[t], NEW c \in Contexts,
         NEW p, p = [i \in DOMAIN t.parts |-> hash_append[t.parts[i]]]
  PROVE  hash_append[t][v][c] =
           IF ~c.constant /\ is_contiguously_hashable[t][c]
           THEN Bytes(memory[t][v][c.native])
           ELSE do_hash_append(t, p, v, c)
<1> DEFINE At(x, d) ==
             IF ~d.constant /\ is_contiguously_hashable[t][d]
             THEN Bytes(memory[t][x][d.native])
             ELSE do_hash_append(t, p, x, d)
<1>1. hash_append[t] = [x \in Objects[t] |-> [d \in Contexts |-> At(x, d)]]
  BY HashAppendIs, Zenon
<1>2. hash_append[t][v][c] = At(v, c)
  <2> HIDE DEF At
  <2> QED BY <1>1
<1> QED BY <1>2, Zenon

LEMMA UniformIs ==
  ASSUME NEW t \in Types, \A i \in DOMAIN t.parts : Uniform(t.parts[i])
  PROVE  /\ Uniform(t)
         /\ \A v \in Objects[t], o \in ByteOrders : Form(t, v, o, Message(t, v, o))
<1>1. PICK p : p = [i \in DOMAIN t.parts |-> hash_append[t.parts[i]]] OBVIOUS
<1>2. ASSUME NEW v \in Objects[t], NEW o \in ByteOrders
      PROVE  Form(t, v, o, Message(t, v, o))
  <2>1. Compiled(o) \in Contexts /\ Compiled(o).constant /\ Compiled(o).order = o
    BY DEF Contexts, Compiled
  <2>2. Message(t, v, o) = do_hash_append(t, p, v, Compiled(o))
    <3>1. PICK d : d = Compiled(o) OBVIOUS
    <3>2. d \in Contexts /\ ~(~d.constant /\ is_contiguously_hashable[t][d]) BY <2>1, <3>1
    <3>3. hash_append[t][v][d] = do_hash_append(t, p, v, d)
      <4>1. hash_append[t][v][d] = IF ~d.constant /\ is_contiguously_hashable[t][d]
                                   THEN Bytes(memory[t][v][d.native])
                                   ELSE do_hash_append(t, p, v, d)
        BY <1>1, <3>2, HashAppendOf
      <4> QED BY <3>2, <4>1, Zenon
    <3> QED BY <3>1, <3>3 DEF Message
  <2>3. Form(t, v, o, do_hash_append(t, p, v, Compiled(o))) BY <1>1, <2>1, DoIs
  <2> QED BY <2>2, <2>3
<1>3. ASSUME NEW v \in Objects[t], NEW c \in Contexts
      PROVE  /\ hash_append[t][v][c] = Message(t, v, c.order)
             /\ is_contiguously_hashable[t][c] =>
                  Bytes(memory[t][v][c.native]) = Message(t, v, c.order)
  <2>1. Form(t, v, c.order, Message(t, v, c.order)) BY <1>2, ContextIs
  <2>2. Form(t, v, c.order, do_hash_append(t, p, v, c)) BY <1>1, DoIs
  <2>3. do_hash_append(t, p, v, c) = Message(t, v, c.order) BY <2>1, <2>2, FormUnique
  <2>4. ASSUME is_contiguously_hashable[t][c]
        PROVE  Bytes(memory[t][v][c.native]) = Message(t, v, c.order)
    BY <2>1, <2>4, MemoryForm, FormUnique
  <2>5. hash_append[t][v][c] = IF ~c.constant /\ is_contiguously_hashable[t][c]
                               THEN Bytes(memory[t][v][c.native])
                               ELSE do_hash_append(t, p, v, c)
    BY <1>1, HashAppendOf, ZenonT(60)
  <2> QED BY <2>3, <2>4, <2>5, Zenon
<1> QED BY <1>2, <1>3 DEF Uniform

(* An object's message, in every context of a byte order. *)
LEMMA MessageIs ==
  ASSUME NEW t \in Types
  PROVE  /\ \A v \in Objects[t], c \in Contexts :
              hash_append[t][v][c] = Message(t, v, c.order)
         /\ \A v \in Objects[t], o \in ByteOrders : Form(t, v, o, Message(t, v, o))
<1> DEFINE S == {s \in Types : Uniform(s)}
<1>1. ASSUME NEW s \in Types, \A i \in DOMAIN s.parts : s.parts[i] \in S PROVE s \in S
  <2>1. \A i \in DOMAIN s.parts : Uniform(s.parts[i]) BY <1>1
  <2> QED BY <2>1, UniformIs
<1>2. \A s \in Types : s \in S
  <2> HIDE DEF S
  <2> QED BY <1>1, TypeInduction
<1>3. \A i \in DOMAIN t.parts : Uniform(t.parts[i]) BY <1>2, TypeIs
<1>4. Uniform(t) BY <1>2
<1>5. \A v \in Objects[t], o \in ByteOrders : Form(t, v, o, Message(t, v, o)) BY <1>3, UniformIs
<1> QED BY <1>4, <1>5 DEF Uniform

------------------------------------------------------------------------------
(* Tokens *)

Sound(x) ==
  \/ x \in [byte : 0 .. Radix - 1]
  \/ DOMAIN x = {"sum"} /\ << >> \notin DOMAIN x.sum

Proper(m) == IsSequence(m) /\ \A i \in 1 .. Len(m) : Sound(m[i])

LEMMA EmptyIs == IsSequence(<< >>) /\ Proper(<< >>)
<1>1. << >> \in Seq({}) OBVIOUS
<1>2. IsSequence(<< >>) BY <1>1, SequenceIs
<1>3. \A i : ~(i \in 1 .. Len(<< >>)) OBVIOUS
<1> QED BY <1>2, <1>3 DEF Proper

LEMMA ProperJoined ==
  ASSUME NEW x, Proper(x), NEW y, Proper(y)
  PROVE  Proper(x \o y) /\ Len(x \o y) = Len(x) + Len(y) /\ Len(x) \in Nat /\ Len(y) \in Nat
<1>1. /\ IsSequence(x \o y) /\ Len(x) \in Nat /\ Len(y) \in Nat /\ Len(x \o y) = Len(x) + Len(y)
      /\ \A i \in 1 .. Len(x) : (x \o y)[i] = x[i]
      /\ \A i \in 1 .. Len(y) : (x \o y)[Len(x) + i] = y[i]
  BY Joined DEF Proper
<1>2. ASSUME NEW i \in 1 .. Len(x \o y) PROVE Sound((x \o y)[i])
  <2>1. CASE i \in 1 .. Len(x) BY <1>1, <2>1 DEF Proper
  <2>2. CASE i \notin 1 .. Len(x)
    <3>1. i - Len(x) \in 1 .. Len(y) /\ i = Len(x) + (i - Len(x)) BY <1>1, <2>2
    <3>2. PICK j \in 1 .. Len(y) : i = Len(x) + j BY <3>1
    <3> QED BY <1>1, <3>2 DEF Proper
  <2> QED BY <2>1, <2>2
<1> QED BY <1>1, <1>2 DEF Proper

LEMMA ConcatProper ==
  ASSUME NEW s, IsSequence(s), \A i \in 1 .. Len(s) : Proper(s[i])
  PROVE  /\ Proper(Concat(s))
         /\ Len(s) > 0 /\ Len(s[1]) > 0 => Len(Concat(s)) > 0
<1> DEFINE n == Len(s)
<1>1. n \in Nat BY SequenceFunction
<1>2. \A i \in 1 .. n : IsSequence(s[i]) BY DEF Proper
<1>3. PICK u : Joins(s, u) /\ Concat(s) = u[n] BY <1>2, ConcatJoins
<1> DEFINE S == {i \in 0 .. n : /\ Proper(u[i])
                                /\ i > 0 /\ Len(s[1]) > 0 => Len(u[i]) > 0}
<1>4. 0 \in S
  <2>1. u[0] = << >> BY <1>3 DEF Joins
  <2> QED BY <1>1, <2>1, EmptyIs
<1>5. ASSUME NEW i \in 0 .. n - 1, i \in S PROVE i + 1 \in S
  <2>1. i + 1 \in 1 .. n /\ (i + 1) - 1 = i /\ i + 1 \in 0 .. n BY <1>1
  <2>2. u[i + 1] = u[i] \o s[i + 1] BY <1>3, <2>1 DEF Joins
  <2>3. Proper(u[i]) /\ Proper(s[i + 1]) BY <1>5, <2>1
  <2>4. Proper(u[i + 1]) /\ Len(u[i + 1]) = Len(u[i]) + Len(s[i + 1])
        /\ Len(u[i]) \in Nat /\ Len(s[i + 1]) \in Nat
    BY <2>2, <2>3, ProperJoined
  <2>5. ASSUME Len(s[1]) > 0 PROVE Len(u[i + 1]) > 0
    <3>1. PICK x, y \in Nat : x = Len(u[i]) /\ y = Len(s[i + 1]) BY <2>4
    <3>2. Len(u[i + 1]) = x + y BY <2>4, <3>1
    <3>3. x > 0 \/ y > 0
      <4>1. CASE i = 0
        <5>1. s[i + 1] = s[1] BY <4>1
        <5> QED BY <2>5, <3>1, <5>1
      <4>2. CASE i # 0 BY <1>5, <2>5, <3>1, <4>2
      <4> QED BY <4>1, <4>2
    <3>4. PICK z \in Nat : z = x + y /\ z > 0 BY <3>3
    <3> QED BY <3>2, <3>4
  <2> QED BY <2>1, <2>4, <2>5
<1>6. \A i \in 0 .. n : i \in S
  <2> HIDE DEF S
  <2> QED BY <1>1, <1>4, <1>5, Induction
<1>7. n \in 0 .. n BY <1>1
<1>8. n \in S BY <1>6, <1>7
<1> QED BY <1>1, <1>3, <1>8

LEMMA WordProper ==
  ASSUME NEW n \in Widths, NEW v \in Nat, NEW o
  PROVE  Proper(Word(n, v, o)) /\ Len(Word(n, v, o)) = n /\ n \in Nat
  BY WordIs DEF Proper, Sound

LEMMA SumProper ==
  ASSUME NEW s, \A i \in 1 .. Len(s) : Proper(s[i]) /\ Len(s[i]) > 0
  PROVE  Proper(<<[sum |-> BagOf(s)]>>) /\ Len(<<[sum |-> BagOf(s)]>>) = 1
<1> DEFINE x == [sum |-> BagOf(s)]
<1>1. DOMAIN BagOf(s) = {s[i] : i \in 1 .. Len(s)} BY DEF BagOf
<1>2. \A i \in 1 .. Len(s) : s[i] # << >>
  <2>1. Len(<< >>) = 0 OBVIOUS
  <2> QED BY <2>1
<1>3. << >> \notin DOMAIN BagOf(s) BY <1>1, <1>2
<1>4. DOMAIN x = {"sum"} /\ x.sum = BagOf(s) OBVIOUS
<1>5. Sound(x) BY <1>3, <1>4 DEF Sound
<1> HIDE DEF x
<1>6. <<x>> \in Seq({x}) /\ Len(<<x>>) = 1 /\ <<x>>[1] = x OBVIOUS
<1>7. IsSequence(<<x>>) BY <1>6, SequenceIs
<1>8. \A i \in 1 .. Len(<<x>>) : Sound(<<x>>[i])
  <2>1. \A i \in 1 .. 1 : i = 1 OBVIOUS
  <2> QED BY <1>5, <1>6, <2>1
<1>9. Proper(<<x>>) BY <1>7, <1>8 DEF Proper
<1> QED BY <1>6, <1>9 DEF x

LEMMA NumbersAre ==
  ASSUME NEW t \in Types, t.kind \in Scalars \cup {"float", "nullptr"}, NEW v \in Objects[t]
  PROVE  /\ t.size \in Widths /\ t.size > 0 /\ t.size \in Nat
         /\ v \in 0 .. Radix ^ t.size - 1 /\ v \in Nat /\ Radix ^ t.size \in Nat \ {0}
<1>1. t.size \in Widths /\ t.size \in Nat BY TypeIs, WidthsAre
<1>2. t.kind \in Scalars \cup {"float", "nullptr", "plain"} OBVIOUS
<1>3. t.size > 0 BY <1>2, TypesAssumption, Zenon
<1>4. t.size \in 0 .. t.size BY <1>1
<1>5. Radix ^ t.size \in Nat \ {0} BY <1>1, <1>4, PowerIs
<1>6. v \in 0 .. Radix ^ t.size - 1
  <2>1. CASE t.kind \in Scalars \cup {"float"} BY <2>1, NumberObjects
  <2>2. CASE t.kind = "nullptr"
    <3>1. v = 0 BY <2>2, UnitObjects DEF Units
    <3> QED BY <1>5, <3>1
  <2> QED BY <2>1, <2>2
<1> QED BY <1>1, <1>3, <1>5, <1>6

LEMMA MessageProper ==
  ASSUME NEW t \in Types, NEW v \in Objects[t], NEW o \in ByteOrders
  PROVE  Proper(Message(t, v, o)) /\ Len(Message(t, v, o)) \in Nat \ {0}
<1> DEFINE Fit(m) == Proper(m) /\ Len(m) \in Nat \ {0}
           S == {s \in Types : \A x \in Objects[s] : Fit(Message(s, x, o))}
<1>1. ASSUME NEW s \in Types, \A i \in DOMAIN s.parts : s.parts[i] \in S PROVE s \in S
  <2> SUFFICES ASSUME NEW x \in Objects[s] PROVE Fit(Message(s, x, o)) OBVIOUS
  <2> DEFINE m == Message(s, x, o)
             r == MessagesOf(s, x, o)
  <2>1. Form(s, x, o, m) BY MessageIs
  <2>2. \A n \in Widths, k \in Nat : Proper(Word(n, k, o)) /\ Len(Word(n, k, o)) = n
    BY WordProper
  <2>3. 1 \in Widths /\ SizeWidth \in Widths /\ SizeWidth \in Nat \ {0} /\ 1 \in Nat \ {0} /\ 0 \in Nat
    BY WidthsAre, RadixAssumption
  <2>4. CASE s.kind \in Scalars \cup {"nullptr"}
    <3>1. s.size \in Widths /\ s.size \in Nat \ {0} /\ x \in Nat BY <2>4, NumbersAre
    <3>2. m = Word(s.size, x, o) BY <2>1, <2>4 DEF Form
    <3> QED BY <2>2, <3>1, <3>2
  <2>5. CASE s.kind = "float"
    <3>1. s.size \in Widths /\ s.size \in Nat \ {0} /\ x \in Nat BY <2>5, NumbersAre
    <3>2. Positive(s, x) \in Nat BY <3>1 DEF Positive
    <3>3. m = Word(s.size, Positive(s, x), o) BY <2>1, <2>5 DEF Form
    <3> QED BY <2>2, <3>1, <3>2, <3>3
  <2>6. CASE s.kind = "monostate"
    <3>1. m = Word(1, 0, o) BY <2>1, <2>6 DEF Form
    <3> QED BY <2>2, <2>3, <3>1
  <2>7. ASSUME s.kind \in Products \cup Containers
        PROVE  /\ IsSequence(x) /\ Len(x) \in Nat /\ IsSequence(r) /\ Len(r) = Len(x)
               /\ \A i \in 1 .. Len(x) : Fit(r[i])
               /\ Proper(Concat(r)) /\ (Len(x) > 0 => Len(Concat(r)) > 0)
    <3>1. /\ IsSequence(x) /\ Len(x) \in Nat
          /\ \A i \in 1 .. Len(x) :
               /\ \E j \in DOMAIN s.parts : Elem(s, i) = s.parts[j]
               /\ x[i] \in Objects[Elem(s, i)]
      BY <2>7, PartsOf
    <3>2. ASSUME NEW i \in 1 .. Len(x) PROVE Fit(r[i])
      <4>1. Elem(s, i) \in S /\ x[i] \in Objects[Elem(s, i)] BY <1>1, <3>1
      <4>2. Fit(Message(Elem(s, i), x[i], o)) BY <4>1
      <4>3. r[i] = Message(Elem(s, i), x[i], o) BY DEF MessagesOf
      <4> QED BY <4>2, <4>3
    <3>3. r = [i \in 1 .. Len(x) |-> r[i]] BY DEF MessagesOf
    <3> HIDE DEF r
    <3>4. IsSequence(r) /\ Len(r) = Len(x) BY <3>1, <3>3, ListIs
    <3>5. \A i \in 1 .. Len(r) : Proper(r[i]) BY <3>2, <3>4
    <3>6. Proper(Concat(r)) /\ (Len(r) > 0 /\ Len(r[1]) > 0 => Len(Concat(r)) > 0)
      BY <3>4, <3>5, ConcatProper
    <3>7. ASSUME Len(x) > 0 PROVE Len(r) > 0 /\ Len(r[1]) > 0
      <4>1. 1 \in 1 .. Len(x) BY <3>1, <3>7
      <4>2. Fit(r[1]) BY <3>2, <4>1
      <4> QED BY <3>1, <3>4, <3>7, <4>2
    <3> QED BY <3>1, <3>2, <3>4, <3>6, <3>7
  <2>8. CASE s.kind \in Products
    <3>1. m = IF x = << >> THEN Word(1, 0, o) ELSE Concat(r) BY <2>1, <2>8 DEF Form
    <3>2. Proper(Concat(r)) /\ (Len(x) > 0 => Len(Concat(r)) > 0) /\ IsSequence(x) /\ Len(x) \in Nat
      BY <2>7, <2>8
    <3>3. x # << >> => Len(x) > 0
      <4>1. x \in Seq(Elements(x)) BY <3>2 DEF IsSequence, Elements
      <4> QED BY <4>1
    <3>4. Len(Concat(r)) \in Nat BY <3>2, SequenceFunction DEF Proper
    <3> HIDE DEF r, m
    <3>5. ASSUME x = << >> PROVE Fit(m)
      <4>1. m = Word(1, 0, o) BY <3>1, <3>5
      <4>2. Proper(m) /\ Len(m) = 1 BY <2>2, <2>3, <4>1
      <4> QED BY <4>2
    <3>6. ASSUME x # << >> PROVE Fit(m)
      <4>1. m = Concat(r) BY <3>1, <3>6
      <4>2. Len(Concat(r)) > 0 BY <3>2, <3>3, <3>6
      <4> QED BY <3>2, <3>4, <4>1, <4>2
    <3> HIDE DEF Fit
    <3> QED BY <3>5, <3>6 DEF m
  <2>9. CASE s.kind \in {"vector", "list", "custom"}
    <3>1. m = Concat(r) \o Word(SizeWidth, Len(x), o) BY <2>1, <2>9 DEF Form
    <3>2. Proper(Concat(r)) /\ Len(x) \in Nat BY <2>7, <2>9 DEF Containers
    <3> HIDE DEF r, m
    <3>3. Proper(m) /\ Len(m) = Len(Concat(r)) + Len(Word(SizeWidth, Len(x), o))
          /\ Len(Concat(r)) \in Nat
      BY <2>2, <2>3, <3>1, <3>2, ProperJoined
    <3>4. Len(m) \in Nat \ {0} BY <2>2, <2>3, <3>2, <3>3
    <3> QED BY <3>3, <3>4 DEF m
  <2>10. CASE s.kind = "set"
    <3>1. m = <<[sum |-> BagOf(r)]>> \o Word(SizeWidth, Len(x), o) BY <2>1, <2>10 DEF Form
    <3>2. Len(x) \in Nat /\ Len(r) = Len(x) /\ \A i \in 1 .. Len(x) : Fit(r[i])
      BY <2>7, <2>10 DEF Containers
    <3> HIDE DEF r, m
    <3>3. Proper(<<[sum |-> BagOf(r)]>>) /\ Len(<<[sum |-> BagOf(r)]>>) = 1
      BY <3>2, SumProper
    <3>4. PICK z : z = <<[sum |-> BagOf(r)]>> OBVIOUS
    <3>5. Proper(m) /\ Len(m) = Len(z) + Len(Word(SizeWidth, Len(x), o))
      BY <2>2, <2>3, <3>1, <3>2, <3>3, <3>4, ProperJoined
    <3>6. Len(m) \in Nat \ {0} BY <2>2, <2>3, <3>2, <3>3, <3>4, <3>5
    <3> QED BY <3>5, <3>6 DEF m
  <2>11. CASE s.kind = "optional"
    <3>1. m = Word(1, Len(x), o) \o Concat(r) BY <2>1, <2>11 DEF Form
    <3>2. Proper(Concat(r)) /\ Len(x) \in Nat BY <2>7, <2>11 DEF Containers
    <3> HIDE DEF r, m
    <3>3. Proper(m) /\ Len(m) = Len(Word(1, Len(x), o)) + Len(Concat(r)) /\ Len(Concat(r)) \in Nat
      BY <2>2, <2>3, <3>1, <3>2, ProperJoined
    <3>4. Len(m) \in Nat \ {0} BY <2>2, <2>3, <3>2, <3>3
    <3> QED BY <3>3, <3>4 DEF m
  <2>12. CASE s.kind = "variant"
    <3>1. m = IF x = << >> THEN Word(1, 0, o)
              ELSE Word(SizeWidth, x[1], o) \o Message(s.parts[x[1] + 1], x[2], o)
      BY <2>1, <2>12 DEF Form
    <3>2. CASE x = << >> BY <2>2, <2>3, <3>1, <3>2
    <3>3. CASE x # << >>
      <4>1. x[1] \in Nat /\ x[1] + 1 \in DOMAIN s.parts /\ x[2] \in Objects[s.parts[x[1] + 1]]
        BY <2>12, <3>3, VariantObjects
      <4>2. PICK y : y = Message(s.parts[x[1] + 1], x[2], o) OBVIOUS
      <4>3. Fit(y) BY <1>1, <4>1, <4>2
      <4>4. m = Word(SizeWidth, x[1], o) \o y BY <3>1, <3>3, <4>2
      <4> HIDE DEF m
      <4>5. Proper(m) /\ Len(m) = Len(Word(SizeWidth, x[1], o)) + Len(y) /\ Len(y) \in Nat
        BY <2>2, <2>3, <4>1, <4>3, <4>4, ProperJoined
      <4>6. Len(m) \in Nat \ {0} BY <2>2, <2>3, <4>1, <4>5
      <4> QED BY <4>5, <4>6 DEF m
    <3> QED BY <3>2, <3>3
  <2>13. \/ s.kind \in Scalars \cup {"nullptr"} \/ s.kind = "float" \/ s.kind = "monostate"
         \/ s.kind \in Products \/ s.kind \in {"vector", "list", "custom"} \/ s.kind = "set"
         \/ s.kind = "optional" \/ s.kind = "variant"
    BY TypeIs DEF Kinds, Units, Containers
  <2> HIDE DEF Fit
  <2> QED BY <2>4, <2>5, <2>6, <2>8, <2>9, <2>10, <2>11, <2>12, <2>13
<1>2. \A s \in Types : s \in S
  <2> HIDE DEF S
  <2> QED BY <1>1, TypeInduction
<1> QED BY <1>2

------------------------------------------------------------------------------
(* Equal objects *)

(* q puts the places 1 .. n in another order. *)
Permutes(n, q) == q \in [1 .. n -> 1 .. n] /\ \A i, j \in 1 .. n : q[i] = q[j] => i = j
Matched(f, v, w) ==
  Len(v) = Len(w) /\ \E q : Permutes(Len(v), q) /\ \A i \in 1 .. Len(v) : f[v[i]][w[q[i]]]

(* Equal floating-point numbers: the zeroes are. *)
SameNumber(t, v, w) == v = w \/ {v, w} = {0, NegativeZero(t)}

(* The kinds of which objects of one length are equal part by part. *)
Listed == Products \cup {"vector", "list", "custom", "optional"}

LEMMA EqualOf ==
  ASSUME NEW t \in Types, NEW v \in Objects[t], NEW w \in Objects[t]
  PROVE  /\ t.kind \in Scalars \cup Units => (Equal[t][v][w] <=> v = w)
         /\ t.kind = "float" => (Equal[t][v][w] <=> SameNumber(t, v, w))
         /\ t.kind = "variant" =>
              (Equal[t][v][w] <=>
                 IF << >> \in {v, w} THEN v = w
                 ELSE v[1] = w[1] /\ Equal[t.parts[v[1] + 1]][v[2]][w[2]])
         /\ t.kind = "set" => (Equal[t][v][w] <=> Matched(Equal[t.parts[1]], v, w))
         /\ t.kind \in Listed =>
              (Equal[t][v][w] <=>
                 Len(v) = Len(w) /\ \A i \in 1 .. Len(v) : Equal[Elem(t, i)][v[i]][w[i]])
<1> DEFINE p == [i \in DOMAIN t.parts |-> Equal[t.parts[i]]]
           At(x, y) ==
             CASE t.kind \in Scalars \cup Units -> x = y
               [] t.kind = "float" -> x = y \/ {x, y} = {0, NegativeZero(t)}
               [] t.kind = "variant" ->
                    IF << >> \in {x, y} THEN x = y ELSE x[1] = y[1] /\ p[x[1] + 1][x[2]][y[2]]
               [] t.kind = "set" ->
                    /\ Len(x) = Len(y)
                    /\ \E q \in [1 .. Len(x) -> 1 .. Len(x)] :
                         /\ \A i, j \in 1 .. Len(x) : q[i] = q[j] => i = j
                         /\ \A i \in 1 .. Len(x) : p[1][x[i]][y[q[i]]]
               [] OTHER -> Len(x) = Len(y) /\ \A i \in 1 .. Len(x) : Nth(p, i)[x[i]][y[i]]
<1>1. Equal[t] = [x \in Objects[t] |-> [y \in Objects[t] |-> At(x, y)]] BY EqualIs, Zenon
<1>2. Equal[t][v][w] = At(v, w)
  <2> HIDE DEF At
  <2> QED BY <1>1
<1>3. /\ t.kind \in Scalars \cup Units => t.kind # "float" /\ t.kind # "variant" /\ t.kind # "set"
                                          /\ ~(t.kind \in Listed)
      /\ t.kind \in Listed => /\ t.kind # "float" /\ t.kind # "variant" /\ t.kind # "set"
                              /\ ~(t.kind \in Scalars \cup Units)
      /\ ~("float" \in Scalars \cup Units) /\ ~("variant" \in Scalars \cup Units)
      /\ ~("set" \in Scalars \cup Units)
  BY DEF Scalars, Units, Listed, Products
<1>4. t.kind \in Scalars \cup Units => (At(v, w) <=> v = w) BY <1>3, Zenon
<1>5. t.kind = "float" => (At(v, w) <=> SameNumber(t, v, w)) BY <1>3, Zenon DEF SameNumber
<1>6. ASSUME t.kind = "variant"
      PROVE  At(v, w) <=>
               IF << >> \in {v, w} THEN v = w
               ELSE v[1] = w[1] /\ Equal[t.parts[v[1] + 1]][v[2]][w[2]]
  <2>1. At(v, w) <=> IF << >> \in {v, w} THEN v = w ELSE v[1] = w[1] /\ p[v[1] + 1][v[2]][w[2]]
    BY <1>3, <1>6, Zenon
  <2>2. v # << >> => p[v[1] + 1] = Equal[t.parts[v[1] + 1]]
    <3>1. v # << >> => v[1] + 1 \in DOMAIN t.parts BY <1>6, VariantObjects
    <3> QED BY <3>1
  <2> HIDE DEF At, p
  <2> QED BY <2>1, <2>2, Zenon
<1>7. ASSUME t.kind = "set"
      PROVE  At(v, w) <=> Matched(Equal[t.parts[1]], v, w)
  <2>1. At(v, w) <=> Matched(p[1], v, w)
    <3>1. At(v, w) <=>
            /\ Len(v) = Len(w)
            /\ \E q \in [1 .. Len(v) -> 1 .. Len(v)] :
                 /\ \A i, j \in 1 .. Len(v) : q[i] = q[j] => i = j
                 /\ \A i \in 1 .. Len(v) : p[1][v[i]][w[q[i]]]
      BY <1>3, <1>7, Zenon
    <3> HIDE DEF At, p
    <3> QED BY <3>1, Zenon DEF Matched, Permutes
  <2>2. p[1] = Equal[t.parts[1]]
    <3>1. 1 \in DOMAIN t.parts BY <1>7, ContainerObjects DEF Containers
    <3> QED BY <3>1
  <2> HIDE DEF At, p
  <2> QED BY <2>1, <2>2, Zenon
<1>8. ASSUME t.kind \in Listed
      PROVE  At(v, w) <=>
               Len(v) = Len(w) /\ \A i \in 1 .. Len(v) : Equal[Elem(t, i)][v[i]][w[i]]
  <2>1. At(v, w) <=> Len(v) = Len(w) /\ \A i \in 1 .. Len(v) : Nth(p, i)[v[i]][w[i]]
    BY <1>3, <1>8, Zenon
  <2>2. ASSUME NEW i \in 1 .. Len(v) PROVE Nth(p, i) = Equal[Elem(t, i)]
    <3>1. t.kind \in Products \cup Containers BY <1>8 DEF Listed, Containers
    <3>2. i \in 1 .. IF Len(t.parts) = 1 THEN MaxLength + 1 ELSE Len(t.parts) BY <3>1, PartsOf
    <3> QED BY <3>2, NthIs
  <2> HIDE DEF At, p
  <2> QED BY <2>1, <2>2, Zenon
<1> HIDE DEF At
<1> QED BY <1>2, <1>4, <1>5, <1>6, <1>7, <1>8, Zenon

(* Counting does not depend on the order. *)
Follows(n, s, r, q) == \A i \in 1 .. n : s[i] = r[q[i]]
LEMMA BagPermuted ==
  ASSUME NEW n \in Nat, NEW s, IsSequence(s), Len(s) = n, NEW r, IsSequence(r), Len(r) = n,
         NEW q, Permutes(n, q), Follows(n, s, r, q)
  PROVE  BagOf(s) = BagOf(r)
<1> USE DEF Permutes, Follows
<1> DEFINE I == 1 .. n
<1>1. IsFiniteSet(I) /\ Cardinality(I) = n BY FS_Interval
<1>2. q \in Injection(I, I) BY DEF Injection, IsInjective
<1>3. q \in Surjection(I, I) BY <1>1, <1>2, FS_Injection
<1>4. \A j \in I : \E i \in I : q[i] = j BY <1>3 DEF Surjection
<1> DEFINE C(x) == Cardinality({i \in I : s[i] = x})
           D(x) == Cardinality({i \in I : r[i] = x})
<1>5. ASSUME NEW x PROVE C(x) = D(x)
  <2> DEFINE A == {i \in I : s[i] = x}
             B == {i \in I : r[i] = x}
             f == [i \in A |-> q[i]]
  <2>1. f \in Bijection(A, B)
    <3>1. f \in [A -> B] OBVIOUS
    <3>2. \A i, j \in A : f[i] = f[j] => i = j OBVIOUS
    <3>3. ASSUME NEW j \in B PROVE \E i \in A : f[i] = j
      <4>1. PICK i \in I : q[i] = j BY <1>4
      <4>2. i \in A BY <4>1
      <4> QED BY <4>1, <4>2
    <3> HIDE DEF f, A, B
    <3> QED BY <3>1, <3>2, <3>3 DEF Bijection, Injection, Surjection, IsInjective
  <2>2. IsFiniteSet(A) BY <1>1, FS_Subset
  <2> HIDE DEF A, B, f
  <2>3. ExistsBijection(A, B) BY <2>1 DEF ExistsBijection
  <2>4. Cardinality(A) = Cardinality(B) BY <2>2, <2>3, FS_Bijection
  <2> QED BY <2>4 DEF A, B
<1>6. {s[i] : i \in I} = {r[i] : i \in I}
  <2>1. \A i \in I : q[i] \in I /\ s[i] = r[q[i]] OBVIOUS
  <2>2. \A j \in I : \E i \in I : r[j] = s[i]
    <3>1. ASSUME NEW j \in I PROVE \E i \in I : r[j] = s[i]
      <4>1. PICK i \in I : q[i] = j BY <1>4
      <4>2. s[i] = r[q[i]] OBVIOUS
      <4> QED BY <4>1, <4>2
    <3> QED BY <3>1
  <2>3. ASSUME NEW x \in {s[i] : i \in I} PROVE x \in {r[i] : i \in I}
    <3>1. PICK i \in I : x = s[i] OBVIOUS
    <3>2. x = r[q[i]] /\ q[i] \in I BY <2>1, <3>1
    <3> QED BY <3>2
  <2>4. ASSUME NEW x \in {r[i] : i \in I} PROVE x \in {s[i] : i \in I}
    <3>1. PICK j \in I : x = r[j] OBVIOUS
    <3>2. \E i \in I : x = s[i] BY <2>2, <3>1
    <3> QED BY <3>2
  <2> HIDE DEF I
  <2> QED BY <2>3, <2>4, Zenon
<1> HIDE DEF I, C, D
<1>7. PICK X : X = {s[i] : i \in I} /\ X = {r[i] : i \in I} BY <1>6, Zenon
<1>8. [x \in X |-> C(x)] = [x \in X |-> D(x)] BY <1>5
<1>9. BagOf(s) = [x \in X |-> C(x)] BY <1>7 DEF BagOf, I, C
<1>10. BagOf(r) = [x \in X |-> D(x)] BY <1>7 DEF BagOf, I, D
<1> QED BY <1>8, <1>9, <1>10, Zenon

LEMMA KindCases ==
  ASSUME NEW t \in Types
  PROVE  \/ t.kind \in Scalars \cup Units \/ t.kind = "float" \/ t.kind \in Listed
         \/ t.kind = "set" \/ t.kind = "variant"
  BY TypeIs DEF Kinds, Listed, Containers

(* What the messages of two lists of objects have to do with those of      *)
(* their parts.                                                            *)
LEMMA ListedForm ==
  ASSUME NEW t \in Types, t.kind \in Listed, NEW v \in Objects[t], NEW w \in Objects[t],
         NEW o \in ByteOrders
  PROVE  MessagesOf(t, v, o) = MessagesOf(t, w, o) /\ Len(v) = Len(w)
           => Message(t, v, o) = Message(t, w, o)
<1>1. Form(t, v, o, Message(t, v, o)) /\ Form(t, w, o, Message(t, w, o)) BY MessageIs
<1>2. t.kind \in Products \/ t.kind \in {"vector", "list", "custom"} \/ t.kind = "optional"
  BY DEF Listed
<1>3. v = << >> <=> Len(v) = 0
  <2>1. IsSequence(v) BY PartsOf DEF Listed, Containers
  <2>2. v \in Seq(Elements(v)) BY <2>1 DEF IsSequence, Elements
  <2> QED BY <2>2
<1>4. w = << >> <=> Len(w) = 0
  <2>1. IsSequence(w) BY PartsOf DEF Listed, Containers
  <2>2. w \in Seq(Elements(w)) BY <2>1 DEF IsSequence, Elements
  <2> QED BY <2>2
<1>5. CASE t.kind \in Products
  <2>1. /\ Message(t, v, o) = IF v = << >> THEN Word(1, 0, o) ELSE Concat(MessagesOf(t, v, o))
        /\ Message(t, w, o) = IF w = << >> THEN Word(1, 0, o) ELSE Concat(MessagesOf(t, w, o))
    BY <1>1, <1>5 DEF Form
  <2> QED BY <1>3, <1>4, <2>1
<1>6. CASE t.kind \in {"vector", "list", "custom"} BY <1>1, <1>6 DEF Form
<1>7. CASE t.kind = "optional" BY <1>1, <1>7 DEF Form
<1> QED BY <1>2, <1>5, <1>6, <1>7

LEMMA EqualMessages ==
  ASSUME NEW t \in Types, NEW v \in Objects[t], NEW w \in Objects[t], NEW o \in ByteOrders,
         Equal[t][v][w]
  PROVE  Message(t, v, o) = Message(t, w, o)
<1> DEFINE S == {s \in Types : \A x, y \in Objects[s] :
                   Equal[s][x][y] => Message(s, x, o) = Message(s, y, o)}
<1>1. ASSUME NEW s \in Types, \A i \in DOMAIN s.parts : s.parts[i] \in S PROVE s \in S
  <2> SUFFICES ASSUME NEW x \in Objects[s], NEW y \in Objects[s], Equal[s][x][y]
               PROVE  Message(s, x, o) = Message(s, y, o)
    OBVIOUS
  <2>1. Form(s, x, o, Message(s, x, o)) /\ Form(s, y, o, Message(s, y, o)) BY MessageIs
  <2>2. CASE s.kind \in Scalars \cup Units
    <3>1. x = y BY <2>2, EqualOf
    <3> QED BY <3>1
  <2>3. CASE s.kind = "float"
    <3>1. x = y \/ {x, y} = {0, NegativeZero(s)}
      <4>1. SameNumber(s, x, y) BY <2>3, EqualOf
      <4> QED BY <4>1 DEF SameNumber
    <3>2. Positive(s, x) = Positive(s, y)
      <4>1. CASE x = y BY <4>1
      <4>2. CASE {x, y} = {0, NegativeZero(s)}
        <5>1. (x = 0 /\ y = NegativeZero(s)) \/ (y = 0 /\ x = NegativeZero(s)) BY <4>2
        <5> QED BY <5>1 DEF Positive
      <4> QED BY <3>1, <4>1, <4>2
    <3>3. Message(s, x, o) = Word(s.size, Positive(s, x), o) BY <2>1, <2>3 DEF Form
    <3>4. Message(s, y, o) = Word(s.size, Positive(s, y), o) BY <2>1, <2>3 DEF Form
    <3> QED BY <3>2, <3>3, <3>4
  <2>4. CASE s.kind \in Listed
    <3>1. Len(x) = Len(y) /\ \A i \in 1 .. Len(x) : Equal[Elem(s, i)][x[i]][y[i]]
      BY <2>4, EqualOf
    <3>2. s.kind \in Products \cup Containers BY <2>4 DEF Listed, Containers
    <3>3. ASSUME NEW i \in 1 .. Len(x)
          PROVE  Message(Elem(s, i), x[i], o) = Message(Elem(s, i), y[i], o)
      <4>1. /\ \E j \in DOMAIN s.parts : Elem(s, i) = s.parts[j]
            /\ x[i] \in Objects[Elem(s, i)]
        BY <3>2, PartsOf
      <4>2. y[i] \in Objects[Elem(s, i)] BY <3>1, <3>2, PartsOf
      <4>3. Elem(s, i) \in S BY <1>1, <4>1
      <4> QED BY <3>1, <4>1, <4>2, <4>3
    <3>4. MessagesOf(s, x, o) = MessagesOf(s, y, o) BY <3>1, <3>3 DEF MessagesOf
    <3> QED BY <2>4, <3>1, <3>4, ListedForm
  <2>5. CASE s.kind = "set"
    <3>0. Matched(Equal[s.parts[1]], x, y) BY <2>5, EqualOf
    <3>1. Len(x) = Len(y) BY <3>0 DEF Matched
    <3>2. PICK q : Permutes(Len(x), q) /\ \A i \in 1 .. Len(x) : Equal[s.parts[1]][x[i]][y[q[i]]]
      BY <3>0 DEF Matched
    <3>3. /\ IsSequence(x) /\ Len(x) \in Nat /\ 1 \in DOMAIN s.parts
          /\ \A i \in 1 .. Len(x) : x[i] \in Objects[s.parts[1]]
          /\ \A i : Elem(s, i) = s.parts[1]
      BY <2>5, ContainerObjects, SequenceFunction DEF Containers
    <3>4. \A i \in 1 .. Len(y) : y[i] \in Objects[s.parts[1]]
      BY <2>5, ContainerObjects DEF Containers
    <3> DEFINE r(z) == MessagesOf(s, z, o)
    <3>5. \A z : r(z) = [i \in 1 .. Len(z) |-> r(z)[i]] BY DEF MessagesOf
    <3>6. \A z : \A i \in 1 .. Len(z) : r(z)[i] = Message(s.parts[1], z[i], o)
      BY <3>3 DEF MessagesOf
    <3>7. ASSUME NEW i \in 1 .. Len(x) PROVE r(x)[i] = r(y)[q[i]]
      <4>1. q[i] \in 1 .. Len(x) BY <3>2 DEF Permutes
      <4>2. x[i] \in Objects[s.parts[1]] /\ y[q[i]] \in Objects[s.parts[1]] BY <3>1, <3>3, <3>4, <4>1
      <4>3. Equal[s.parts[1]][x[i]][y[q[i]]] BY <3>2
      <4>4. s.parts[1] \in S BY <1>1, <3>3
      <4>5. Message(s.parts[1], x[i], o) = Message(s.parts[1], y[q[i]], o) BY <4>2, <4>3, <4>4
      <4> HIDE DEF r
      <4>6. r(x)[i] = Message(s.parts[1], x[i], o) BY <3>6
      <4>7. r(y)[q[i]] = Message(s.parts[1], y[q[i]], o) BY <3>1, <3>6, <4>1
      <4> QED BY <4>5, <4>6, <4>7
    <3> HIDE DEF r
    <3>8. /\ IsSequence(r(x)) /\ Len(r(x)) = Len(x) /\ IsSequence(r(y)) /\ Len(r(y)) = Len(x)
      BY <3>1, <3>3, <3>5, ListIs
    <3>9. BagOf(r(x)) = BagOf(r(y))
      <4>1. Follows(Len(x), r(x), r(y), q) BY <3>7 DEF Follows
      <4> QED BY <3>2, <3>3, <3>8, <4>1, BagPermuted
    <3>10. Message(s, x, o) = <<[sum |-> BagOf(r(x))]>> \o Word(SizeWidth, Len(x), o)
      BY <2>1, <2>5 DEF Form, r
    <3>11. Message(s, y, o) = <<[sum |-> BagOf(r(y))]>> \o Word(SizeWidth, Len(y), o)
      BY <2>1, <2>5 DEF Form, r
    <3> QED BY <3>1, <3>9, <3>10, <3>11
  <2>6. CASE s.kind = "variant"
    <3>1. CASE x = << >> \/ y = << >>
      <4>1. x = y BY <2>6, <3>1, EqualOf
      <4> QED BY <4>1
    <3>2. CASE x # << >> /\ y # << >>
      <4>1. x[1] = y[1] /\ Equal[s.parts[x[1] + 1]][x[2]][y[2]] BY <2>6, <3>2, EqualOf
      <4>2. x[1] + 1 \in DOMAIN s.parts /\ x[2] \in Objects[s.parts[x[1] + 1]]
        BY <2>6, <3>2, VariantObjects
      <4>3. y[2] \in Objects[s.parts[x[1] + 1]] BY <2>6, <3>2, <4>1, VariantObjects
      <4>4. s.parts[x[1] + 1] \in S BY <1>1, <4>2
      <4>5. Message(s.parts[x[1] + 1], x[2], o) = Message(s.parts[x[1] + 1], y[2], o)
        BY <4>1, <4>2, <4>3, <4>4
      <4>6. Message(s, x, o) = Word(SizeWidth, x[1], o) \o Message(s.parts[x[1] + 1], x[2], o)
        BY <2>1, <2>6, <3>2, Zenon DEF Form
      <4>7. Message(s, y, o) = Word(SizeWidth, y[1], o) \o Message(s.parts[y[1] + 1], y[2], o)
        BY <2>1, <2>6, <3>2, Zenon DEF Form
      <4> QED BY <4>1, <4>5, <4>6, <4>7
    <3> QED BY <3>1, <3>2
  <2> QED BY <2>2, <2>3, <2>4, <2>5, <2>6, KindCases
<1>2. \A s \in Types : s \in S
  <2> HIDE DEF S
  <2> QED BY <1>1, TypeInduction
<1> QED BY <1>2

(* A vector and a list with the same elements have the same message. *)
LEMMA AlikeMessages ==
  ASSUME NEW t \in Types, NEW u \in Alike(t), u \in Types
  PROVE  /\ Objects[u] = Objects[t]
         /\ \A v \in Objects[t], o \in ByteOrders : Message(u, v, o) = Message(t, v, o)
<1>1. CASE u = t BY <1>1
<1>2. CASE u # t
  <2>1. t.kind = "vector" /\ u = [t EXCEPT !.kind = "list"] BY <1>2 DEF Alike
  <2>2. t \in [kind : Kinds, size : Nat, parts : Seq(Types)] BY TypesAssumption, Zenon
  <2>3. u.kind = "list" /\ u.parts = t.parts /\ u.size = t.size BY <2>1, <2>2
  <2>4. ASSUME NEW s \in Types, s.kind \in {"vector", "list"}
        PROVE  Objects[s] = UNION {[1 .. n -> Objects[s.parts[1]]] : n \in 0 .. MaxLength}
    <3>1. s.kind \in Containers /\ s.kind # "optional" BY <2>4 DEF Containers
    <3>2. Objects[s] = LET p == [i \in DOMAIN s.parts |-> Objects[s.parts[i]]] IN
                       UNION {[1 .. n -> p[1]] : n \in SizesOf(s)}
      BY <3>1, ObjectsIs, KindsApart, Zenon
    <3>3. SizesOf(s) = 0 .. MaxLength BY <3>1 DEF SizesOf
    <3>4. Len(s.parts) = 1 BY <3>1, TypesAssumption, Zenon
    <3>5. 1 \in DOMAIN s.parts BY <3>4, TypeIs
    <3> QED BY <3>2, <3>3, <3>5
  <2>5. Objects[u] = Objects[t]
    <3>1. Objects[u] = UNION {[1 .. n -> Objects[u.parts[1]]] : n \in 0 .. MaxLength} BY <2>3, <2>4
    <3>2. Objects[t] = UNION {[1 .. n -> Objects[t.parts[1]]] : n \in 0 .. MaxLength} BY <2>1, <2>4
    <3> QED BY <2>3, <3>1, <3>2
  <2>6. ASSUME NEW v \in Objects[t], NEW o \in ByteOrders
        PROVE  Message(u, v, o) = Message(t, v, o)
    <3>1. Form(t, v, o, Message(t, v, o)) BY MessageIs
    <3>2. Form(u, v, o, Message(u, v, o)) BY <2>5, MessageIs
    <3>3. MessagesOf(u, v, o) = MessagesOf(t, v, o) BY <2>3 DEF MessagesOf, Elem
    <3>4. Message(t, v, o) = Concat(MessagesOf(t, v, o)) \o Word(SizeWidth, Len(v), o)
      BY <2>1, <3>1 DEF Form
    <3>5. Message(u, v, o) = Concat(MessagesOf(u, v, o)) \o Word(SizeWidth, Len(v), o)
      BY <2>3, <3>2 DEF Form
    <3> QED BY <3>3, <3>4, <3>5
  <2> QED BY <2>5, <2>6
<1> QED BY <1>1, <1>2

------------------------------------------------------------------------------
(* Messages apart: they differ at a place of both, counted from the        *)
(* beginning, or from the end.                                             *)

ApartFront(x, y) == \E i \in 1 .. Len(x) : i <= Len(y) /\ x[i] # y[i]
ApartBack(x, y) == \E i \in 1 .. Len(x) : i <= Len(y) /\ x[Len(x) + 1 - i] # y[Len(y) + 1 - i]
Apart(back, x, y) == IF back THEN ApartBack(x, y) ELSE ApartFront(x, y)
SameOrApart(back, x, y) == x = y \/ Apart(back, x, y)

LEMMA ApartDiffer ==
  ASSUME NEW b, NEW x, NEW y, Apart(b, x, y)
  PROVE  x # y
  BY DEF Apart, ApartFront, ApartBack

(* What comes first, or last, decides, and then what is next to it. *)
Decided(back, x, y, z, u) ==
  IF back THEN Apart(back, y, u) \/ (y = u /\ Apart(back, x, z))
  ELSE Apart(back, x, z) \/ (x = z /\ Apart(back, y, u))

LEMMA ApartJoined ==
  ASSUME NEW b, NEW x, IsSequence(x), NEW y, IsSequence(y), NEW z, IsSequence(z), NEW u, IsSequence(u),
         Decided(b, x, y, z, u)
  PROVE  Apart(b, x \o y, z \o u)
<1>1. /\ Len(x) \in Nat /\ Len(y) \in Nat /\ Len(x \o y) = Len(x) + Len(y)
      /\ \A i \in 1 .. Len(x) : (x \o y)[i] = x[i]
      /\ \A i \in 1 .. Len(y) : (x \o y)[Len(x) + i] = y[i]
  BY Joined
<1>2. /\ Len(z) \in Nat /\ Len(u) \in Nat /\ Len(z \o u) = Len(z) + Len(u)
      /\ \A i \in 1 .. Len(z) : (z \o u)[i] = z[i]
      /\ \A i \in 1 .. Len(u) : (z \o u)[Len(z) + i] = u[i]
  BY Joined
<1>3. CASE ~b
  <2>1. CASE Apart(b, x, z)
    <3>1. PICK i \in 1 .. Len(x) : i <= Len(z) /\ x[i] # z[i]
      BY <1>3, <2>1 DEF Apart, ApartFront
    <3>2. i \in 1 .. Len(z) /\ i \in 1 .. Len(x \o y) /\ i <= Len(z \o u) BY <1>1, <1>2, <3>1
    <3>3. (x \o y)[i] # (z \o u)[i] BY <1>1, <1>2, <3>1, <3>2
    <3>4. ApartFront(x \o y, z \o u) BY <3>2, <3>3 DEF ApartFront
    <3> QED BY <1>3, <3>4 DEF Apart
  <2>2. CASE x = z /\ Apart(b, y, u)
    <3>1. PICK i \in 1 .. Len(y) : i <= Len(u) /\ y[i] # u[i]
      BY <1>3, <2>2 DEF Apart, ApartFront
    <3>2. i \in 1 .. Len(u) /\ Len(x) + i \in 1 .. Len(x \o y) /\ Len(x) + i <= Len(z \o u)
      BY <1>1, <1>2, <2>2, <3>1
    <3>3. (x \o y)[Len(x) + i] # (z \o u)[Len(x) + i] BY <1>1, <1>2, <2>2, <3>1, <3>2
    <3>4. ApartFront(x \o y, z \o u) BY <3>2, <3>3 DEF ApartFront
    <3> QED BY <1>3, <3>4 DEF Apart
  <2> QED BY <1>3, <2>1, <2>2 DEF Decided
<1>4. CASE b
  <2>1. CASE Apart(b, y, u)
    <3>1. PICK i \in 1 .. Len(y) : i <= Len(u) /\ y[Len(y) + 1 - i] # u[Len(u) + 1 - i]
      BY <1>4, <2>1 DEF Apart, ApartBack
    <3>2. /\ Len(y) + 1 - i \in 1 .. Len(y) /\ Len(u) + 1 - i \in 1 .. Len(u)
          /\ i \in 1 .. Len(x \o y) /\ i <= Len(z \o u)
          /\ Len(x \o y) + 1 - i = Len(x) + (Len(y) + 1 - i)
          /\ Len(z \o u) + 1 - i = Len(z) + (Len(u) + 1 - i)
      BY <1>1, <1>2, <3>1
    <3>3. (x \o y)[Len(x \o y) + 1 - i] = y[Len(y) + 1 - i] BY <1>1, <3>2
    <3>4. (z \o u)[Len(z \o u) + 1 - i] = u[Len(u) + 1 - i] BY <1>2, <3>2
    <3>5. ApartBack(x \o y, z \o u) BY <3>1, <3>2, <3>3, <3>4 DEF ApartBack
    <3> QED BY <1>4, <3>5 DEF Apart
  <2>2. CASE y = u /\ Apart(b, x, z)
    <3>1. PICK i \in 1 .. Len(x) : i <= Len(z) /\ x[Len(x) + 1 - i] # z[Len(z) + 1 - i]
      BY <1>4, <2>2 DEF Apart, ApartBack
    <3>2. PICK j : j = Len(y) + i OBVIOUS
    <3>3. /\ Len(x) + 1 - i \in 1 .. Len(x) /\ Len(z) + 1 - i \in 1 .. Len(z)
          /\ j \in 1 .. Len(x \o y) /\ j <= Len(z \o u)
          /\ Len(x \o y) + 1 - j = Len(x) + 1 - i
          /\ Len(z \o u) + 1 - j = Len(z) + 1 - i
      BY <1>1, <1>2, <2>2, <3>1, <3>2
    <3>4. (x \o y)[Len(x \o y) + 1 - j] = x[Len(x) + 1 - i] BY <1>1, <3>3
    <3>5. (z \o u)[Len(z \o u) + 1 - j] = z[Len(z) + 1 - i] BY <1>2, <3>3
    <3>6. ApartBack(x \o y, z \o u) BY <3>1, <3>3, <3>4, <3>5 DEF ApartBack
    <3> QED BY <1>4, <3>6 DEF Apart
  <2> QED BY <1>4, <2>1, <2>2 DEF Decided
<1> QED BY <1>3, <1>4

LEMMA ApartBoth ==
  ASSUME NEW b, NEW x, IsSequence(x), NEW y, IsSequence(y), NEW z, IsSequence(z), NEW u, IsSequence(u),
         SameOrApart(b, x, z), SameOrApart(b, y, u)
  PROVE  /\ SameOrApart(b, x \o y, z \o u)
         /\ ~(x = z /\ y = u) => Apart(b, x \o y, z \o u)
<1>1. ASSUME ~(x = z /\ y = u) PROVE Apart(b, x \o y, z \o u)
  <2>1. Decided(b, x, y, z, u) BY <1>1 DEF Decided, SameOrApart
  <2> QED BY <2>1, ApartJoined
<1>2. x = z /\ y = u => x \o y = z \o u OBVIOUS
<1> QED BY <1>1, <1>2 DEF SameOrApart

LEMMA ApartConcat ==
  ASSUME NEW b, NEW s, IsSequence(s), NEW r, IsSequence(r), Len(s) = Len(r),
         \A i \in 1 .. Len(s) : /\ IsSequence(s[i]) /\ IsSequence(r[i])
                                /\ SameOrApart(b, s[i], r[i])
  PROVE  SameOrApart(b, Concat(s), Concat(r)) /\ (s # r => Concat(s) # Concat(r))
<1> DEFINE n == Len(s)
<1>1. n \in Nat BY SequenceFunction
<1>2. PICK u : Joins(s, u) /\ Concat(s) = u[n] BY ConcatJoins
<1>3. PICK w : Joins(r, w) /\ Concat(r) = w[n]
  <2>1. \A i \in 1 .. Len(r) : IsSequence(r[i]) OBVIOUS
  <2> QED BY <2>1, ConcatJoins
<1> DEFINE T == {i \in 0 .. n : IF \A j \in 1 .. i : s[j] = r[j] THEN u[i] = w[i]
                                ELSE Apart(b, u[i], w[i])}
<1>4. 0 \in T
  <2>1. u[0] = w[0] BY <1>2, <1>3 DEF Joins
  <2> QED BY <1>1, <2>1
<1>5. ASSUME NEW i \in 0 .. n - 1, i \in T PROVE i + 1 \in T
  <2>1. i + 1 \in 1 .. n /\ (i + 1) - 1 = i /\ i \in 0 .. n /\ i + 1 \in 0 .. n BY <1>1
  <2>2. u[i + 1] = u[i] \o s[i + 1] /\ IsSequence(u[i]) BY <1>2, <2>1 DEF Joins
  <2>3. w[i + 1] = w[i] \o r[i + 1] /\ IsSequence(w[i]) BY <1>3, <2>1 DEF Joins
  <2>4. IsSequence(s[i + 1]) /\ IsSequence(r[i + 1]) /\ SameOrApart(b, s[i + 1], r[i + 1]) BY <2>1
  <2>5. SameOrApart(b, u[i], w[i]) BY <1>5 DEF SameOrApart
  <2>6. CASE \A j \in 1 .. i + 1 : s[j] = r[j]
    <3>1. \A j \in 1 .. i : s[j] = r[j] BY <2>6
    <3>2. u[i] = w[i] /\ s[i + 1] = r[i + 1] BY <1>5, <2>6, <3>1
    <3> QED BY <2>1, <2>2, <2>3, <2>6, <3>2
  <2>7. CASE ~(\A j \in 1 .. i + 1 : s[j] = r[j])
    <3>1. ~(u[i] = w[i] /\ s[i + 1] = r[i + 1])
      <4>1. SUFFICES ASSUME u[i] = w[i], s[i + 1] = r[i + 1] PROVE FALSE OBVIOUS
      <4>2. ~Apart(b, u[i], w[i]) BY <4>1, ApartDiffer
      <4>3. \A j \in 1 .. i : s[j] = r[j] BY <1>5, <4>2
      <4>4. \A j \in 1 .. i + 1 : j \in 1 .. i \/ j = i + 1 OBVIOUS
      <4> QED BY <2>7, <4>1, <4>3, <4>4
    <3>2. Apart(b, u[i + 1], w[i + 1]) BY <2>2, <2>3, <2>4, <2>5, <3>1, ApartBoth
    <3> QED BY <2>1, <2>7, <3>2
  <2> QED BY <2>6, <2>7
<1>6. \A i \in 0 .. n : i \in T
  <2> HIDE DEF T
  <2> QED BY <1>1, <1>4, <1>5, Induction
<1>7. IF \A j \in 1 .. n : s[j] = r[j] THEN u[n] = w[n] ELSE Apart(b, u[n], w[n])
  <2>1. n \in 0 .. n BY <1>1
  <2> QED BY <1>6, <2>1
<1>8. s # r => ~(\A j \in 1 .. n : s[j] = r[j]) BY SameElements
<1>9. Apart(b, u[n], w[n]) => u[n] # w[n] BY ApartDiffer
<1> QED BY <1>2, <1>3, <1>7, <1>8, <1>9 DEF SameOrApart

(* A number below a power of Radix has its digits. *)
LEMMA DigitsDiffer ==
  ASSUME NEW n \in Widths, NEW v \in 0 .. Radix ^ n - 1, NEW w \in 0 .. Radix ^ n - 1, v # w
  PROVE  \E k \in 0 .. n - 1 : Digit(v, k) # Digit(w, k)
<1> SUFFICES ASSUME \A k \in 0 .. n - 1 : Digit(v, k) = Digit(w, k) PROVE FALSE OBVIOUS
<1>1. n \in Nat /\ \A i \in 0 .. n : Radix ^ i \in Nat \ {0} BY PowerIs
<1>2. Radix ^ 0 = 1 /\ \A i \in 0 .. n - 1 : Radix ^ (i + 1) = Radix * Radix ^ i
  BY PowerAssumption, Zenon
<1>3. Radix \in Nat \ {0} BY WidthsAre
<1>4. v \in Nat /\ w \in Nat
  <2>1. PICK p \in Nat \ {0} : p = Radix ^ n BY <1>1
  <2> QED BY <2>1
<1> DEFINE S == {j \in 0 .. n : v \div (Radix ^ (n - j)) = w \div (Radix ^ (n - j))}
<1>5. 0 \in S
  <2>1. PICK p \in Nat \ {0} : p = Radix ^ n BY <1>1
  <2>2. ASSUME NEW x \in 0 .. p - 1 PROVE x \div p = 0
    <3>1. p * 0 + x = x OBVIOUS
    <3> QED BY <2>1, <3>1, DivModOf
  <2>3. v \div p = 0 /\ w \div p = 0 BY <2>1, <2>2
  <2>4. n - 0 = n BY <1>1
  <2> QED BY <1>1, <2>1, <2>3, <2>4
<1>6. ASSUME NEW j \in 0 .. n - 1, j \in S PROVE j + 1 \in S
  <2>1. PICK k : k = n - (j + 1) OBVIOUS
  <2>2. k \in 0 .. n - 1 /\ k + 1 = n - j /\ k \in 0 .. n /\ j + 1 \in 0 .. n BY <1>1, <2>1
  <2>3. PICK a \in Nat \ {0} : a = Radix ^ k BY <1>1, <2>2
  <2>4. Radix ^ (k + 1) = Radix * a BY <1>2, <2>2, <2>3
  <2>5. v \div (Radix * a) = w \div (Radix * a) BY <1>6, <2>2, <2>4
  <2>6. (v \div a) \div Radix = (w \div a) \div Radix BY <1>3, <1>4, <2>3, <2>5, DivDiv
  <2>7. (v \div a) % Radix = (w \div a) % Radix BY <2>2, <2>3 DEF Digit
  <2>8. v \div a \in Nat /\ w \div a \in Nat BY <1>4, <2>3, DivMod
  <2>9. v \div a = w \div a
    <3>1. PICK x, y \in Nat : x = v \div a /\ y = w \div a BY <2>8
    <3>2. x = Radix * (x \div Radix) + (x % Radix) BY <1>3, DivMod
    <3>3. y = Radix * (y \div Radix) + (y % Radix) BY <1>3, DivMod
    <3>4. x \div Radix = y \div Radix /\ x % Radix = y % Radix BY <2>6, <2>7, <3>1
    <3>5. x = y BY <3>2, <3>3, <3>4, Zenon
    <3> QED BY <3>1, <3>5
  <2> QED BY <2>1, <2>2, <2>3, <2>9
<1>7. \A j \in 0 .. n : j \in S
  <2> HIDE DEF S
  <2> QED BY <1>1, <1>5, <1>6, Induction
<1>8. v \div 1 = w \div 1
  <2>1. n \in 0 .. n /\ n - n = 0 BY <1>1
  <2>2. n \in S BY <1>7, <2>1
  <2> QED BY <1>2, <2>1, <2>2
<1>9. \A x \in Nat : x \div 1 = x
  <2>1. ASSUME NEW x \in Nat PROVE x \div 1 = x
    <3>1. 1 * x + 0 = x /\ 0 \in 0 .. 1 - 1 /\ 1 \in Nat \ {0} OBVIOUS
    <3> QED BY <3>1, DivModOf
  <2> QED BY <2>1
<1> QED BY <1>4, <1>8, <1>9

LEMMA WordsApart ==
  ASSUME NEW b, NEW n \in Widths, NEW v \in 0 .. Radix ^ n - 1, NEW w \in 0 .. Radix ^ n - 1, NEW o
  PROVE  SameOrApart(b, Word(n, v, o), Word(n, w, o)) /\ (v # w => Word(n, v, o) # Word(n, w, o))
<1> SUFFICES ASSUME v # w PROVE Apart(b, Word(n, v, o), Word(n, w, o))
  BY ApartDiffer DEF SameOrApart
<1>1. n \in Nat /\ v \in Nat /\ w \in Nat
  <2>1. n \in Nat /\ n \in 0 .. n BY PowerIs
  <2>2. PICK p \in Nat \ {0} : p = Radix ^ n BY <2>1, PowerIs
  <2> QED BY <2>1, <2>2
<1>2. PICK x, y : x = Word(n, v, o) /\ y = Word(n, w, o) OBVIOUS
<1>3. /\ Len(x) = n /\ Len(y) = n
      /\ \A i \in 1 .. n : x[i] = [byte |-> write(n, v, o)[i]]
      /\ \A i \in 1 .. n : y[i] = [byte |-> write(n, w, o)[i]]
  BY <1>1, <1>2, WordIs
<1>4. PICK k \in 0 .. n - 1 : Digit(v, k) # Digit(w, k) BY DigitsDiffer
<1>5. PICK i \in 1 .. n : write(n, v, o)[i] # write(n, w, o)[i]
  <2>1. PICK i \in 1 .. n : (IF o = "little" THEN i - 1 ELSE n - i) = k
    <3>1. k + 1 \in 1 .. n /\ (k + 1) - 1 = k /\ n - k \in 1 .. n /\ n - (n - k) = k BY <1>1
    <3>2. CASE o = "little" BY <3>1, <3>2
    <3>3. CASE o # "little" BY <3>1, <3>3
    <3> QED BY <3>2, <3>3
  <2>2. write(n, v, o)[i] = Digit(v, k) /\ write(n, w, o)[i] = Digit(w, k) BY <2>1 DEF write
  <2> QED BY <1>4, <2>2
<1>6. x[i] # y[i]
  <2>1. x[i] = [byte |-> write(n, v, o)[i]] /\ y[i] = [byte |-> write(n, w, o)[i]] BY <1>3
  <2>2. x[i].byte = write(n, v, o)[i] /\ y[i].byte = write(n, w, o)[i] BY <2>1
  <2> QED BY <1>5, <2>2
<1>7. ApartFront(x, y) BY <1>1, <1>3, <1>6 DEF ApartFront
<1>8. ApartBack(x, y)
  <2>1. PICK j \in 1 .. n : n + 1 - j = i
    <3>1. n + 1 - i \in 1 .. n /\ n + 1 - (n + 1 - i) = i BY <1>1
    <3> QED BY <3>1
  <2> QED BY <1>3, <1>6, <2>1 DEF ApartBack
<1> QED BY <1>2, <1>7, <1>8 DEF Apart

(* With the same count of everything, the elements are the same in another *)
(* order.                                                                  *)
LEMMA BagSame ==
  ASSUME NEW n \in Nat, NEW s, IsSequence(s), Len(s) = n, NEW r, IsSequence(r), Len(r) = n,
         BagOf(s) = BagOf(r)
  PROVE  \E q : Permutes(n, q) /\ Follows(n, s, r, q)
<1> DEFINE I == 1 .. n
           A(x) == {i \in I : s[i] = x}
           B(x) == {i \in I : r[i] = x}
           F(x) == CHOOSE f : f \in Bijection(A(x), B(x))
           X == {s[i] : i \in I}
           q == [i \in I |-> F(s[i])[i]]
<1>1. IsFiniteSet(I) BY FS_Interval
<1>2. ASSUME NEW x \in X PROVE F(x) \in Bijection(A(x), B(x))
  <2>1. BagOf(s) = [y \in X |-> Cardinality(A(y))] BY DEF BagOf
  <2>2. BagOf(r) = [y \in {r[i] : i \in I} |-> Cardinality(B(y))] BY DEF BagOf
  <2> HIDE DEF A, B
  <2>3. Cardinality(A(x)) = Cardinality(B(x))
    <3>1. DOMAIN BagOf(s) = X /\ BagOf(s)[x] = Cardinality(A(x)) BY <2>1
    <3>2. x \in {r[i] : i \in I}
      <4>1. DOMAIN BagOf(r) = {r[i] : i \in I} BY <2>2
      <4>2. DOMAIN BagOf(s) = DOMAIN BagOf(r) OBVIOUS
      <4> HIDE DEF I, X
      <4> QED BY <3>1, <4>1, <4>2
    <3>3. BagOf(r)[x] = Cardinality(B(x)) BY <2>2, <3>2
    <3> QED BY <3>1, <3>3
  <2>4. IsFiniteSet(A(x)) /\ IsFiniteSet(B(x)) BY <1>1, FS_Subset DEF A, B
  <2>5. ExistsBijection(A(x), B(x)) BY <2>3, <2>4, FS_SameCardinalityBij
  <2>6. \E f : f \in Bijection(A(x), B(x)) BY <2>5 DEF ExistsBijection
  <2> QED BY <2>6, Zenon
<1> HIDE DEF F
<1>3. ASSUME NEW x \in X, NEW i \in I, s[i] = x
      PROVE  /\ F(x)[i] \in I /\ r[F(x)[i]] = x
             /\ \A j \in I : s[j] = x /\ F(x)[i] = F(x)[j] => i = j
  <2>1. F(x) \in Bijection(A(x), B(x)) BY <1>2
  <2>2. F(x) \in [A(x) -> B(x)] /\ \A j, k \in A(x) : F(x)[j] = F(x)[k] => j = k
    BY <2>1 DEF Bijection, Injection, IsInjective
  <2>3. i \in A(x) /\ \A j \in I : s[j] = x => j \in A(x) BY <1>3
  <2>4. F(x)[i] \in B(x) BY <2>2, <2>3
  <2> QED BY <2>2, <2>3, <2>4
<1>4. \A i \in I : q[i] = F(s[i])[i] /\ s[i] \in X OBVIOUS
<1>5. \A i \in I : q[i] \in I /\ r[q[i]] = s[i] BY <1>3, <1>4
<1>6. \A i, j \in I : q[i] = q[j] => i = j
  <2>1. ASSUME NEW i \in I, NEW j \in I, q[i] = q[j] PROVE i = j
    <3>1. s[i] = s[j] BY <1>5, <2>1
    <3>2. F(s[i])[i] = F(s[i])[j] BY <1>4, <2>1, <3>1
    <3> QED BY <1>3, <1>4, <3>1, <3>2
  <2> QED BY <2>1
<1>7. Permutes(n, q)
  <2>1. q \in [I -> I] BY <1>5
  <2> HIDE DEF q
  <2> QED BY <1>6, <2>1 DEF Permutes
<1>8. Follows(n, s, r, q)
  <2> HIDE DEF q
  <2> QED BY <1>5 DEF Follows
<1> QED BY <1>7, <1>8

------------------------------------------------------------------------------
(* Different objects *)

(* Types whose messages can be read from the end, or from the beginning. *)
Readable(back, t) ==
  Writes(IF back THEN {"vector", "list", "set", "custom"} ELSE {"optional", "variant"}, t)

LEMMA ReadableParts ==
  ASSUME NEW b, NEW t \in Types, Readable(b, t)
  PROVE  /\ \A i \in DOMAIN t.parts : Readable(b, t.parts[i])
         /\ t.kind \in {"vector", "list", "set", "custom"} => b
         /\ t.kind \in {"optional", "variant"} => ~b
         /\ t.kind = "variant" => t.size = 0
<1>1. \A i \in DOMAIN t.parts : Readable(b, t.parts[i])
  <2>1. ASSUME NEW i \in DOMAIN t.parts PROVE Readable(b, t.parts[i])
    <3>1. Within[t.parts[i]] \subseteq Within[t] BY WithinPart
    <3> QED BY <3>1 DEF Readable, Writes
  <2> QED BY <2>1
<1>2. t \in Within[t] BY WithinItself
<1>3. /\ t.kind \in Scalars \cup {"float"} \cup Units \cup Products
                    \cup (IF b THEN {"vector", "list", "set", "custom"} ELSE {"optional", "variant"})
      /\ t.kind = "variant" => t.size = 0
  BY <1>2 DEF Readable, Writes
<1>4. ~(t.kind \in {"vector", "list", "set", "custom", "optional", "variant"}
        /\ t.kind \in Scalars \cup {"float"} \cup Units \cup Products)
  BY DEF Scalars, Units, Products
<1>5. t.kind \in {"vector", "list", "set", "custom"} => b BY <1>3, <1>4
<1>6. t.kind \in {"optional", "variant"} => ~b BY <1>3, <1>4
<1> QED BY <1>1, <1>3, <1>5, <1>6

(* What is to be shown of the messages of two objects. *)
Distinct(b, x, y, same) == SameOrApart(b, x, y) /\ (~same => x # y)
Distinguishes(b, t, o) ==
  \A v, w \in Objects[t] : Distinct(b, Message(t, v, o), Message(t, w, o), Equal[t][v][w])

LEMMA PartsDistinct ==
  ASSUME NEW b, NEW t \in Types, NEW o \in ByteOrders,
         \A i \in DOMAIN t.parts : Distinguishes(b, t.parts[i], o),
         t.kind \in Products \cup Containers,
         NEW v \in Objects[t], NEW w \in Objects[t], Len(v) = Len(w)
  PROVE  /\ IsSequence(Concat(MessagesOf(t, v, o))) /\ IsSequence(Concat(MessagesOf(t, w, o)))
         /\ Distinct(b, Concat(MessagesOf(t, v, o)), Concat(MessagesOf(t, w, o)),
                     \A i \in 1 .. Len(v) : Equal[Elem(t, i)][v[i]][w[i]])
<1> DEFINE s == MessagesOf(t, v, o)
           r == MessagesOf(t, w, o)
<1>1. Len(v) \in Nat BY PartsOf
<1>2. s = [i \in 1 .. Len(v) |-> s[i]] /\ r = [i \in 1 .. Len(v) |-> r[i]] BY DEF MessagesOf
<1>3. ASSUME NEW i \in 1 .. Len(v)
      PROVE  /\ Proper(s[i]) /\ Proper(r[i])
             /\ Distinct(b, s[i], r[i], Equal[Elem(t, i)][v[i]][w[i]])
  <2>1. /\ \E j \in DOMAIN t.parts : Elem(t, i) = t.parts[j]
        /\ v[i] \in Objects[Elem(t, i)] /\ Elem(t, i) \in Types
    BY PartsOf
  <2>2. w[i] \in Objects[Elem(t, i)] BY PartsOf
  <2>3. Distinguishes(b, Elem(t, i), o) BY <2>1
  <2>4. s[i] = Message(Elem(t, i), v[i], o) /\ r[i] = Message(Elem(t, i), w[i], o)
    BY DEF MessagesOf
  <2>5. Proper(s[i]) /\ Proper(r[i]) BY <2>1, <2>2, <2>4, MessageProper
  <2>6. Distinct(b, s[i], r[i], Equal[Elem(t, i)][v[i]][w[i]])
    BY <2>1, <2>2, <2>3, <2>4, Zenon DEF Distinguishes
  <2> QED BY <2>5, <2>6
<1> HIDE DEF s, r
<1>4. IsSequence(s) /\ Len(s) = Len(v) /\ IsSequence(r) /\ Len(r) = Len(v) BY <1>1, <1>2, ListIs
<1>5. \A i \in 1 .. Len(s) : Proper(s[i]) /\ Proper(r[i]) BY <1>3, <1>4
<1>6. Proper(Concat(s)) /\ Proper(Concat(r))
  <2>1. \A i \in 1 .. Len(s) : Proper(s[i]) BY <1>5
  <2>2. \A i \in 1 .. Len(r) : Proper(r[i]) BY <1>4, <1>5
  <2> QED BY <1>4, <2>1, <2>2, ConcatProper
<1>7. SameOrApart(b, Concat(s), Concat(r)) /\ (s # r => Concat(s) # Concat(r))
  <2>1. Len(s) = Len(r) BY <1>4
  <2>2. \A i \in 1 .. Len(s) : /\ IsSequence(s[i]) /\ IsSequence(r[i])
                               /\ SameOrApart(b, s[i], r[i])
    BY <1>3, <1>4 DEF Proper, Distinct
  <2> QED BY <1>4, <2>1, <2>2, ApartConcat
<1>8. ASSUME ~(\A i \in 1 .. Len(v) : Equal[Elem(t, i)][v[i]][w[i]]) PROVE s # r
  <2>1. PICK i \in 1 .. Len(v) : ~Equal[Elem(t, i)][v[i]][w[i]] BY <1>8
  <2>2. s[i] # r[i] BY <1>3, <2>1 DEF Distinct
  <2> QED BY <2>2
<1>9. Distinct(b, Concat(s), Concat(r), \A i \in 1 .. Len(v) : Equal[Elem(t, i)][v[i]][w[i]])
  BY <1>7, <1>8, Zenon DEF Distinct
<1> QED BY <1>6, <1>9, Zenon DEF Proper, s, r

(* The sums of two unordered ranges of one length. *)
LEMMA SumsDistinct ==
  ASSUME NEW b, NEW t \in Types, t.kind = "set", NEW o \in ByteOrders,
         \A i \in DOMAIN t.parts : Distinguishes(b, t.parts[i], o),
         NEW v \in Objects[t], NEW w \in Objects[t], Len(v) = Len(w)
  PROVE  /\ IsSequence(<<[sum |-> BagOf(MessagesOf(t, v, o))]>>)
         /\ IsSequence(<<[sum |-> BagOf(MessagesOf(t, w, o))]>>)
         /\ Distinct(b, <<[sum |-> BagOf(MessagesOf(t, v, o))]>>,
                     <<[sum |-> BagOf(MessagesOf(t, w, o))]>>, Equal[t][v][w])
<1> DEFINE s == MessagesOf(t, v, o)
           r == MessagesOf(t, w, o)
<1>1. /\ Len(v) \in Nat /\ 1 \in DOMAIN t.parts
      /\ \A i \in 1 .. Len(v) : v[i] \in Objects[t.parts[1]] /\ w[i] \in Objects[t.parts[1]]
      /\ \A i : Elem(t, i) = t.parts[1]
  BY ContainerObjects, SequenceFunction DEF Containers
<1>2. s = [i \in 1 .. Len(v) |-> s[i]] /\ r = [i \in 1 .. Len(v) |-> r[i]] BY DEF MessagesOf
<1>3. \A i \in 1 .. Len(v) :
        s[i] = Message(t.parts[1], v[i], o) /\ r[i] = Message(t.parts[1], w[i], o)
  BY <1>1 DEF MessagesOf
<1> HIDE DEF s, r
<1>4. IsSequence(s) /\ Len(s) = Len(v) /\ IsSequence(r) /\ Len(r) = Len(v) BY <1>1, <1>2, ListIs
<1>5. ASSUME BagOf(s) = BagOf(r) PROVE Equal[t][v][w]
  <2>1. PICK q : Permutes(Len(v), q) /\ Follows(Len(v), s, r, q) BY <1>1, <1>4, <1>5, BagSame
  <2>2. ASSUME NEW i \in 1 .. Len(v) PROVE Equal[t.parts[1]][v[i]][w[q[i]]]
    <3>1. q[i] \in 1 .. Len(v) BY <2>1 DEF Permutes
    <3>2. s[i] = r[q[i]] BY <2>1 DEF Follows
    <3>3. Message(t.parts[1], v[i], o) = Message(t.parts[1], w[q[i]], o) BY <1>3, <3>1, <3>2
    <3>4. v[i] \in Objects[t.parts[1]] /\ w[q[i]] \in Objects[t.parts[1]] BY <1>1, <3>1
    <3>5. Distinguishes(b, t.parts[1], o) BY <1>1
    <3>6. Distinct(b, Message(t.parts[1], v[i], o), Message(t.parts[1], w[q[i]], o),
                   Equal[t.parts[1]][v[i]][w[q[i]]])
      BY <3>4, <3>5, Zenon DEF Distinguishes
    <3> QED BY <3>3, <3>6, Zenon DEF Distinct
  <2>3. Matched(Equal[t.parts[1]], v, w) BY <2>1, <2>2, Zenon DEF Matched
  <2> QED BY <2>3, EqualOf
<1>6. PICK x, y : x = [sum |-> BagOf(s)] /\ y = [sum |-> BagOf(r)] OBVIOUS
<1>7. x = y => BagOf(s) = BagOf(r)
  <2>1. x.sum = BagOf(s) /\ y.sum = BagOf(r) BY <1>6
  <2> QED BY <2>1
<1>8. /\ IsSequence(<<x>>) /\ Len(<<x>>) = 1 /\ <<x>>[1] = x
      /\ IsSequence(<<y>>) /\ Len(<<y>>) = 1 /\ <<y>>[1] = y
  <2>1. \A z : <<z>> \in Seq({z}) /\ Len(<<z>>) = 1 /\ <<z>>[1] = z OBVIOUS
  <2> QED BY <2>1, SequenceIs
<1>9. ASSUME x # y PROVE Apart(b, <<x>>, <<y>>) /\ <<x>> # <<y>>
  <2>1. 1 \in 1 .. 1 /\ 1 <= 1 /\ 1 + 1 - 1 = 1 OBVIOUS
  <2>2. ApartFront(<<x>>, <<y>>) BY <1>8, <1>9, <2>1 DEF ApartFront
  <2>3. ApartBack(<<x>>, <<y>>) BY <1>8, <1>9, <2>1 DEF ApartBack
  <2>4. Apart(b, <<x>>, <<y>>) BY <2>2, <2>3 DEF Apart
  <2> QED BY <2>4, ApartDiffer
<1>10. Distinct(b, <<x>>, <<y>>, Equal[t][v][w])
  BY <1>5, <1>7, <1>9, Zenon DEF Distinct, SameOrApart
<1> QED BY <1>6, <1>8, <1>10 DEF s, r

LEMMA DistinctIs ==
  ASSUME NEW b, NEW t \in Types, Readable(b, t), NEW o \in ByteOrders,
         \A i \in DOMAIN t.parts : Distinguishes(b, t.parts[i], o),
         NEW v \in Objects[t], NEW w \in Objects[t]
  PROVE  Distinct(b, Message(t, v, o), Message(t, w, o), Equal[t][v][w])
<1> DEFINE m == Message(t, v, o)
           n == Message(t, w, o)
           same == Equal[t][v][w]
<1>1. Form(t, v, o, m) /\ Form(t, w, o, n) BY MessageIs
<1>2. ASSUME NEW k \in Widths, NEW x \in 0 .. Radix ^ k - 1, NEW y \in 0 .. Radix ^ k - 1
      PROVE  /\ SameOrApart(b, Word(k, x, o), Word(k, y, o))
             /\ x # y => Word(k, x, o) # Word(k, y, o) /\ Apart(b, Word(k, x, o), Word(k, y, o))
  BY WordsApart, Zenon DEF SameOrApart
<1>3. CASE t.kind \in Scalars \cup {"nullptr"}
  <2>1. /\ t.size \in Widths /\ v \in 0 .. Radix ^ t.size - 1 /\ w \in 0 .. Radix ^ t.size - 1
    BY <1>3, NumbersAre
  <2>2. m = Word(t.size, v, o) /\ n = Word(t.size, w, o) BY <1>1, <1>3 DEF Form
  <2>3. same <=> v = w BY <1>3, EqualOf DEF Units
  <2>4. SameOrApart(b, m, n) /\ (v # w => m # n) BY <1>2, <2>1, <2>2
  <2> HIDE DEF m, n, same
  <2>5. Distinct(b, m, n, same) BY <2>3, <2>4, Zenon DEF Distinct
  <2> QED BY <2>5 DEF m, n, same
<1>4. CASE t.kind = "float"
  <2>1. /\ t.size \in Widths /\ v \in 0 .. Radix ^ t.size - 1 /\ w \in 0 .. Radix ^ t.size - 1
        /\ Radix ^ t.size \in Nat \ {0}
    BY <1>4, NumbersAre
  <2>2. m = Word(t.size, Positive(t, v), o) /\ n = Word(t.size, Positive(t, w), o)
    BY <1>1, <1>4 DEF Form
  <2>3. same <=> SameNumber(t, v, w) BY <1>4, EqualOf
  <2>4. Positive(t, v) \in 0 .. Radix ^ t.size - 1 /\ Positive(t, w) \in 0 .. Radix ^ t.size - 1
    <3>1. PICK p \in Nat \ {0} : p = Radix ^ t.size BY <2>1
    <3>2. 0 \in 0 .. p - 1 BY <3>1
    <3> QED BY <2>1, <3>1, <3>2 DEF Positive
  <2>5. Positive(t, v) = Positive(t, w) => SameNumber(t, v, w)
    BY DEF Positive, SameNumber
  <2>6. SameOrApart(b, m, n) /\ (Positive(t, v) # Positive(t, w) => m # n) BY <1>2, <2>1, <2>2, <2>4
  <2> HIDE DEF m, n, same
  <2>7. Distinct(b, m, n, same) BY <2>3, <2>5, <2>6, Zenon DEF Distinct
  <2> QED BY <2>7 DEF m, n, same
<1>5. CASE t.kind = "monostate"
  <2>1. m = n BY <1>1, <1>5 DEF Form
  <2>2. v = w BY <1>5, UnitObjects DEF Units
  <2>3. same BY <1>5, <2>2, EqualOf DEF Units
  <2> HIDE DEF m, n, same
  <2>4. Distinct(b, m, n, same) BY <2>1, <2>3, Zenon DEF Distinct, SameOrApart
  <2> QED BY <2>4 DEF m, n, same
<1> DEFINE s == Concat(MessagesOf(t, v, o))
           r == Concat(MessagesOf(t, w, o))
           equals == \A i \in 1 .. Len(v) : Equal[Elem(t, i)][v[i]][w[i]]
<1>6. ASSUME t.kind \in Listed
      PROVE  /\ same <=> Len(v) = Len(w) /\ equals
             /\ Len(v) = Len(w) => IsSequence(s) /\ IsSequence(r) /\ Distinct(b, s, r, equals)
             /\ IsSequence(v) /\ IsSequence(w)
  <2>1. t.kind \in Products \cup Containers BY <1>6 DEF Listed, Containers
  <2>2. same <=> Len(v) = Len(w) /\ equals BY <1>6, EqualOf
  <2>3. Len(v) = Len(w) => IsSequence(s) /\ IsSequence(r) /\ Distinct(b, s, r, equals)
    <3> SUFFICES ASSUME Len(v) = Len(w)
                 PROVE  IsSequence(s) /\ IsSequence(r) /\ Distinct(b, s, r, equals)
      OBVIOUS
    <3> QED BY <2>1, PartsDistinct
  <2>4. IsSequence(v) /\ IsSequence(w) BY <2>1, PartsOf
  <2> QED BY <2>2, <2>3, <2>4
<1>7. CASE t.kind \in Products
  <2>1. m = (IF v = << >> THEN Word(1, 0, o) ELSE s) /\ n = (IF w = << >> THEN Word(1, 0, o) ELSE r)
    BY <1>1, <1>7 DEF Form
  <2>2. Len(v) = Len(w) BY <1>7, ProductObjects
  <2>3. t.kind \in Listed BY <1>7 DEF Listed
  <2>4. (same <=> equals) /\ Distinct(b, s, r, equals) /\ IsSequence(v) /\ IsSequence(w)
    BY <1>6, <2>2, <2>3
  <2>5. (v = << >> <=> Len(v) = 0) /\ (w = << >> <=> Len(w) = 0)
    <3>1. v \in Seq(Elements(v)) /\ w \in Seq(Elements(w)) BY <2>4 DEF IsSequence, Elements
    <3> QED BY <3>1
  <2>6. CASE v = << >>
    <3>1. m = n BY <2>1, <2>2, <2>5, <2>6
    <3>2. equals
      <4>1. \A i : ~(i \in 1 .. Len(v)) BY <2>5, <2>6
      <4> QED BY <4>1
    <3>3. same BY <2>4, <3>2
    <3> HIDE DEF m, n, same
    <3>4. Distinct(b, m, n, same) BY <3>1, <3>3, Zenon DEF Distinct, SameOrApart
    <3> QED BY <3>4 DEF m, n, same
  <2>7. CASE v # << >>
    <3>1. m = s /\ n = r BY <2>1, <2>2, <2>5, <2>7
    <3> HIDE DEF m, n, same, s, r, equals
    <3>2. Distinct(b, m, n, same) BY <2>4, <3>1, Zenon DEF Distinct
    <3> QED BY <3>2 DEF m, n, same
  <2> QED BY <2>6, <2>7
<1>8. ASSUME t.kind \in Containers
      PROVE  /\ Len(v) \in Nat /\ Len(w) \in Nat /\ Len(v) \in SizesOf(t) /\ Len(w) \in SizesOf(t)
  <2>1. Len(v) \in SizesOf(t) /\ Len(w) \in SizesOf(t) BY <1>8, ContainerObjects
  <2> QED BY <2>1, LengthAssumption DEF SizesOf
<1>9. ASSUME t.kind \in {"vector", "list", "custom", "set"}
      PROVE  LET x == Word(SizeWidth, Len(v), o)
                 y == Word(SizeWidth, Len(w), o)
             IN  /\ IsSequence(x) /\ IsSequence(y) /\ SameOrApart(b, x, y)
                 /\ Len(v) # Len(w) => x # y /\ Apart(b, x, y)
  <2>1. t.kind \in Containers /\ t.kind # "optional" BY <1>9 DEF Containers
  <2>2. Len(v) \in 0 .. MaxLength /\ Len(w) \in 0 .. MaxLength BY <1>8, <2>1 DEF SizesOf
  <2>3. SizeWidth \in Widths /\ SizeWidth \in 0 .. SizeWidth BY WidthsAre
  <2>4. PICK p \in Nat \ {0} : p = Radix ^ SizeWidth BY <2>3, PowerIs
  <2>5. Len(v) \in 0 .. Radix ^ SizeWidth - 1 /\ Len(w) \in 0 .. Radix ^ SizeWidth - 1
    BY <2>2, <2>4, LengthAssumption
  <2>6. Len(v) \in Nat /\ Len(w) \in Nat BY <1>8, <2>1
  <2>7. IsSequence(Word(SizeWidth, Len(v), o)) /\ IsSequence(Word(SizeWidth, Len(w), o))
    BY <2>3, <2>6, WordIs
  <2> QED BY <1>2, <2>3, <2>5, <2>7
<1>10. CASE t.kind \in {"vector", "list", "custom"}
  <2> DEFINE x == Word(SizeWidth, Len(v), o)
             y == Word(SizeWidth, Len(w), o)
  <2>1. m = s \o x /\ n = r \o y BY <1>1, <1>10 DEF Form
  <2>2. /\ IsSequence(x) /\ IsSequence(y) /\ SameOrApart(b, x, y)
        /\ Len(v) # Len(w) => x # y /\ Apart(b, x, y)
    BY <1>9, <1>10
  <2>3. t.kind \in Listed BY <1>10 DEF Listed
  <2>4. CASE Len(v) = Len(w)
    <3>1. x = y BY <2>4
    <3>2. (same <=> equals) /\ IsSequence(s) /\ IsSequence(r) /\ Distinct(b, s, r, equals)
      BY <1>6, <2>3, <2>4
    <3> HIDE DEF m, n, same, s, r, equals, x, y
    <3>3. SameOrApart(b, m, n) /\ (~(s = r /\ x = y) => Apart(b, m, n))
      BY <2>1, <2>2, <3>2, ApartBoth DEF Distinct
    <3>4. Apart(b, m, n) => m # n BY ApartDiffer
    <3>5. Distinct(b, m, n, same) BY <3>2, <3>3, <3>4, Zenon DEF Distinct
    <3> QED BY <3>5 DEF m, n, same
  <2>5. CASE Len(v) # Len(w)
    <3>1. b BY <1>10, ReadableParts
    <3>2. IsSequence(s) /\ IsSequence(r)
      <4>1. Len(v) = Len(v) /\ Len(w) = Len(w) OBVIOUS
      <4>2. t.kind \in Products \cup Containers BY <1>10 DEF Containers
      <4> QED BY <4>1, <4>2, PartsDistinct
    <3>3. Apart(b, x, y) BY <2>2, <2>5
    <3> HIDE DEF m, n, same, s, r, x, y
    <3>4. Decided(b, s, x, r, y) BY <3>1, <3>3 DEF Decided
    <3>5. Apart(b, m, n) BY <2>1, <2>2, <3>2, <3>4, ApartJoined
    <3>6. m # n BY <3>5, ApartDiffer
    <3>7. Distinct(b, m, n, same) BY <3>5, <3>6, Zenon DEF Distinct, SameOrApart
    <3> QED BY <3>7 DEF m, n, same
  <2> QED BY <2>4, <2>5
<1>11. CASE t.kind = "set"
  <2> DEFINE x == Word(SizeWidth, Len(v), o)
             y == Word(SizeWidth, Len(w), o)
             a == <<[sum |-> BagOf(MessagesOf(t, v, o))]>>
             c == <<[sum |-> BagOf(MessagesOf(t, w, o))]>>
  <2>1. m = a \o x /\ n = c \o y BY <1>1, <1>11 DEF Form
  <2>2. /\ IsSequence(x) /\ IsSequence(y) /\ SameOrApart(b, x, y)
        /\ Len(v) # Len(w) => x # y /\ Apart(b, x, y)
    BY <1>9, <1>11
  <2>3. CASE Len(v) = Len(w)
    <3>1. IsSequence(a) /\ IsSequence(c) /\ Distinct(b, a, c, same)
      BY <1>11, <2>3, SumsDistinct
    <3> HIDE DEF m, n, same, a, c, x, y
    <3>2. SameOrApart(b, m, n) /\ (~(a = c /\ x = y) => Apart(b, m, n))
      BY <2>1, <2>2, <3>1, ApartBoth DEF Distinct
    <3>3. Apart(b, m, n) => m # n BY ApartDiffer
    <3>4. Distinct(b, m, n, same) BY <3>1, <3>2, <3>3, Zenon DEF Distinct
    <3> QED BY <3>4 DEF m, n, same
  <2>4. CASE Len(v) # Len(w)
    <3>1. b BY <1>11, ReadableParts
    <3>2. IsSequence(a) /\ IsSequence(c)
      <4>1. \A z : <<z>> \in Seq({z}) OBVIOUS
      <4> QED BY <4>1, SequenceIs
    <3>3. Apart(b, x, y) BY <2>2, <2>4
    <3> HIDE DEF m, n, same, a, c, x, y
    <3>4. Decided(b, a, x, c, y) BY <3>1, <3>3 DEF Decided
    <3>5. Apart(b, m, n) BY <2>1, <2>2, <3>2, <3>4, ApartJoined
    <3>6. m # n BY <3>5, ApartDiffer
    <3>7. Distinct(b, m, n, same) BY <3>5, <3>6, Zenon DEF Distinct, SameOrApart
    <3> QED BY <3>7 DEF m, n, same
  <2> QED BY <2>3, <2>4
<1>12. CASE t.kind = "optional"
  <2> DEFINE x == Word(1, Len(v), o)
             y == Word(1, Len(w), o)
  <2>1. m = x \o s /\ n = y \o r BY <1>1, <1>12 DEF Form
  <2>2. t.kind \in Listed /\ t.kind \in Containers BY <1>12 DEF Listed, Containers
  <2>3. Len(v) \in 0 .. 1 /\ Len(w) \in 0 .. 1 BY <1>8, <1>12, <2>2 DEF SizesOf
  <2>4. Len(v) \in 0 .. Radix ^ 1 - 1 /\ Len(w) \in 0 .. Radix ^ 1 - 1 /\ 1 \in Widths
        /\ Len(v) \in Nat /\ Len(w) \in Nat
    <3>1. 1 \in Widths /\ Radix ^ 1 = Radix /\ Radix \in Nat /\ Radix > 1 BY WidthsAre
    <3>2. PICK p \in Nat : p = Radix ^ 1 /\ p > 1 BY <3>1
    <3>3. PICK i, j \in 0 .. 1 : i = Len(v) /\ j = Len(w) BY <2>3
    <3>4. i \in 0 .. p - 1 /\ j \in 0 .. p - 1 /\ i \in Nat /\ j \in Nat BY <3>2
    <3> QED BY <3>1, <3>2, <3>3, <3>4, Zenon
  <2>5. IsSequence(x) /\ IsSequence(y) BY <2>4, WordIs
  <2>6. SameOrApart(b, x, y) /\ (Len(v) # Len(w) => Apart(b, x, y)) BY <1>2, <2>4
  <2>7. CASE Len(v) = Len(w)
    <3>1. (same <=> equals) /\ IsSequence(s) /\ IsSequence(r) /\ Distinct(b, s, r, equals)
      BY <1>6, <2>2, <2>7
    <3> HIDE DEF m, n, same, s, r, equals, x, y
    <3>2. SameOrApart(b, m, n) /\ (~(x = y /\ s = r) => Apart(b, m, n))
      BY <2>1, <2>5, <2>6, <3>1, ApartBoth DEF Distinct
    <3>3. Apart(b, m, n) => m # n BY ApartDiffer
    <3>4. Distinct(b, m, n, same) BY <3>1, <3>2, <3>3, Zenon DEF Distinct
    <3> QED BY <3>4 DEF m, n, same
  <2>8. CASE Len(v) # Len(w)
    <3>1. ~b BY <1>12, ReadableParts
    <3>2. IsSequence(s) /\ IsSequence(r)
      <4>1. Len(v) = Len(v) /\ Len(w) = Len(w) OBVIOUS
      <4>2. t.kind \in Products \cup Containers BY <2>2
      <4> QED BY <4>1, <4>2, PartsDistinct
    <3>3. Apart(b, x, y) BY <2>6, <2>8
    <3> HIDE DEF m, n, same, s, r, x, y
    <3>4. Decided(b, x, s, y, r) BY <3>1, <3>3 DEF Decided
    <3>5. Apart(b, m, n) BY <2>1, <2>5, <3>2, <3>4, ApartJoined
    <3>6. m # n BY <3>5, ApartDiffer
    <3>7. Distinct(b, m, n, same) BY <3>5, <3>6, Zenon DEF Distinct, SameOrApart
    <3> QED BY <3>7 DEF m, n, same
  <2> QED BY <2>7, <2>8
<1>13. CASE t.kind = "variant"
  <2>1. ~b /\ t.size = 0 BY <1>13, ReadableParts
  <2>2. /\ v # << >> /\ v[1] \in Nat /\ v[1] + 1 \in DOMAIN t.parts /\ v[1] < Radix ^ SizeWidth
        /\ v[2] \in Objects[t.parts[v[1] + 1]]
    BY <1>13, <2>1, VariantObjects
  <2>3. /\ w # << >> /\ w[1] \in Nat /\ w[1] + 1 \in DOMAIN t.parts /\ w[1] < Radix ^ SizeWidth
        /\ w[2] \in Objects[t.parts[w[1] + 1]]
    BY <1>13, <2>1, VariantObjects
  <2> DEFINE x == Word(SizeWidth, v[1], o)
             y == Word(SizeWidth, w[1], o)
             a == Message(t.parts[v[1] + 1], v[2], o)
             c == Message(t.parts[w[1] + 1], w[2], o)
  <2>4. m = x \o a /\ n = y \o c BY <1>1, <1>13, <2>2, <2>3, Zenon DEF Form
  <2>5. SizeWidth \in Widths /\ SizeWidth \in 0 .. SizeWidth BY WidthsAre
  <2>6. PICK p \in Nat \ {0} : p = Radix ^ SizeWidth BY <2>5, PowerIs
  <2>7. v[1] \in 0 .. Radix ^ SizeWidth - 1 /\ w[1] \in 0 .. Radix ^ SizeWidth - 1
    BY <2>2, <2>3, <2>6
  <2>8. IsSequence(x) /\ IsSequence(y) BY <2>2, <2>3, <2>5, WordIs
  <2>9. SameOrApart(b, x, y) /\ (v[1] # w[1] => Apart(b, x, y)) BY <1>2, <2>5, <2>7
  <2>10. IsSequence(a)
    <3>1. t.parts[v[1] + 1] \in Types BY <2>2, TypeIs
    <3> QED BY <2>2, <3>1, MessageProper DEF Proper
  <2>11. IsSequence(c)
    <3>1. t.parts[w[1] + 1] \in Types BY <2>3, TypeIs
    <3> QED BY <2>3, <3>1, MessageProper DEF Proper
  <2>12. same <=> v[1] = w[1] /\ Equal[t.parts[v[1] + 1]][v[2]][w[2]]
    <3>1. ~(<< >> \in {v, w}) BY <2>2, <2>3
    <3>2. same <=> IF << >> \in {v, w} THEN v = w
                   ELSE v[1] = w[1] /\ Equal[t.parts[v[1] + 1]][v[2]][w[2]]
      BY <1>13, EqualOf
    <3> QED BY <3>1, <3>2, Zenon
  <2>13. CASE v[1] = w[1]
    <3>1. Distinguishes(b, t.parts[v[1] + 1], o) BY <2>2
    <3>2. w[2] \in Objects[t.parts[v[1] + 1]] /\ c = Message(t.parts[v[1] + 1], w[2], o)
      BY <2>3, <2>13
    <3>3. Distinct(b, a, c, Equal[t.parts[v[1] + 1]][v[2]][w[2]])
      BY <2>2, <3>1, <3>2, Zenon DEF Distinguishes
    <3>4. Distinct(b, a, c, same) BY <2>12, <2>13, <3>3, Zenon DEF Distinct
    <3> HIDE DEF m, n, same, a, c, x, y
    <3>5. SameOrApart(b, m, n) /\ (~(x = y /\ a = c) => Apart(b, m, n))
      BY <2>4, <2>8, <2>9, <2>10, <2>11, <3>4, ApartBoth DEF Distinct
    <3>6. Apart(b, m, n) => m # n BY ApartDiffer
    <3>7. Distinct(b, m, n, same) BY <3>4, <3>5, <3>6, Zenon DEF Distinct
    <3> QED BY <3>7 DEF m, n, same
  <2>14. CASE v[1] # w[1]
    <3>1. Apart(b, x, y) BY <2>9, <2>14
    <3> HIDE DEF m, n, same, a, c, x, y
    <3>2. Decided(b, x, a, y, c) BY <2>1, <3>1 DEF Decided
    <3>3. Apart(b, m, n) BY <2>4, <2>8, <2>10, <2>11, <3>2, ApartJoined
    <3>4. m # n BY <3>3, ApartDiffer
    <3>5. Distinct(b, m, n, same) BY <3>3, <3>4, Zenon DEF Distinct, SameOrApart
    <3> QED BY <3>5 DEF m, n, same
  <2> QED BY <2>13, <2>14
<1>14. \/ t.kind \in Scalars \cup {"nullptr"} \/ t.kind = "float" \/ t.kind = "monostate"
       \/ t.kind \in Products \/ t.kind \in {"vector", "list", "custom"} \/ t.kind = "set"
       \/ t.kind = "optional" \/ t.kind = "variant"
  BY TypeIs DEF Kinds, Units, Containers
<1> QED BY <1>3, <1>4, <1>5, <1>7, <1>10, <1>11, <1>12, <1>13, <1>14

LEMMA Different ==
  ASSUME NEW b, NEW t \in Types, Readable(b, t), NEW o \in ByteOrders
  PROVE  Distinguishes(b, t, o)
<1> DEFINE S == {s \in Types : Readable(b, s) => Distinguishes(b, s, o)}
<1>1. ASSUME NEW s \in Types, \A i \in DOMAIN s.parts : s.parts[i] \in S PROVE s \in S
  <2> SUFFICES ASSUME Readable(b, s) PROVE Distinguishes(b, s, o) OBVIOUS
  <2>1. \A i \in DOMAIN s.parts : Distinguishes(b, s.parts[i], o) BY <1>1, ReadableParts
  <2> QED BY <2>1, DistinctIs DEF Distinguishes
<1>2. \A s \in Types : s \in S
  <2> HIDE DEF S
  <2> QED BY <1>1, TypeInduction
<1> QED BY <1>2

------------------------------------------------------------------------------
(* The specification *)

LEMMA ContextOf ==
  ASSUME NEW f \in Flavor, NEW q \in [native : {"little", "big"}, constant : BOOLEAN]
  PROVE  /\ Context(f, q) \in Contexts
         /\ Context(f, q).order = IF f = "default" THEN q.native ELSE f
<1>1. f \in {"default", "little", "big"} BY HostsAssumption
<1> QED BY <1>1 DEF Context, Contexts, ByteOrders

(* What the hashers of the two programs have to do with each other.        *)
Hashers ==
  /\ DOMAIN h = {"a", "b"} /\ Proper(h["a"]) /\ Proper(h["b"])
  /\ Agreeing => /\ equal => h["a"] = h["b"]
                 /\ SizesLast /\ ~equal => Apart(TRUE, h["a"], h["b"])
                 /\ TagsFirst /\ ~equal => Apart(FALSE, h["a"], h["b"])

AppendInv == AppendTypeOK /\ Hashers

LEMMA InitHashers == AppendInit => AppendInv
<1> SUFFICES ASSUME AppendInit PROVE AppendInv OBVIOUS
<1>1. /\ flavor \in Flavor /\ host \in Hosts /\ program \in Program /\ appended = 0 /\ equal = TRUE
      /\ h["a"] = << >> /\ h["b"] = << >> /\ DOMAIN h = {"a", "b"}
  BY DEF AppendInit
<1>2. program \in Seq(Types) BY <1>1, ProgramAssumption, Zenon
<1>3. appended \in 0 .. Len(program) BY <1>1, <1>2
<1>4. \A p \in {"a", "b"} : \A i : ~(i \in 1 .. Len(h[p])) BY <1>1
<1>5. AppendTypeOK BY <1>1, <1>3, <1>4 DEF AppendTypeOK
<1>6. Hashers BY <1>1, EmptyIs DEF Hashers
<1> QED BY <1>5, <1>6 DEF AppendInv

(* What a step appends to the hashers: the messages of two objects of one  *)
(* type, up to what Alike allows.                                          *)
Appends(t, u, v, w, x, y) ==
  /\ t = program[appended + 1] /\ u \in Alike(t) /\ v \in Objects[t] /\ w \in Objects[t]
  /\ AppendObject(t, u, v, w)
  /\ x = hash_append[t][v][Context(flavor, host["a"])]
  /\ y = hash_append[u][w][Context(flavor, host["b"])]

LEMMA NextAppends ==
  ASSUME AppendNext
  PROVE  /\ appended < Len(program)
         /\ \E t, u, v, w, x, y : Appends(t, u, v, w, x, y)
<1>1. PICK t, u, v, w : /\ t = program[appended + 1] /\ u \in Alike(t)
                        /\ v \in Objects[t] /\ w \in Objects[t] /\ AppendObject(t, u, v, w)
  BY Zenon DEF AppendNext
<1>2. PICK x, y : /\ x = hash_append[t][v][Context(flavor, host["a"])]
                  /\ y = hash_append[u][w][Context(flavor, host["b"])]
  OBVIOUS
<1>3. Appends(t, u, v, w, x, y) BY <1>1, <1>2, Zenon DEF Appends
<1>4. appended < Len(program) BY DEF AppendNext
<1> QED BY <1>3, <1>4, Zenon

LEMMA AppendsIs ==
  ASSUME AppendTypeOK, appended < Len(program),
         NEW t, NEW u, NEW v, NEW w, NEW x, NEW y, Appends(t, u, v, w, x, y)
  PROVE  /\ \E i \in DOMAIN program : t = program[i]
         /\ t \in Types /\ appended + 1 \in 0 .. Len(program)
         /\ h' = [a |-> h["a"] \o x, b |-> h["b"] \o y]
         /\ appended' = appended + 1 /\ equal' = (equal /\ Equal[t][v][w])
         /\ flavor' = flavor /\ host' = host /\ program' = program
         /\ Proper(x) /\ Len(x) \in Nat \ {0} /\ Proper(y) /\ Len(y) \in Nat \ {0}
         /\ Agreeing => \E o \in ByteOrders : x = Message(t, v, o) /\ y = Message(t, w, o)
<1>1. /\ flavor \in Flavor /\ host \in Hosts /\ program \in Program /\ appended \in 0 .. Len(program)
  BY DEF AppendTypeOK
<1>2. program \in Seq(Types) /\ \A i \in DOMAIN program : Alike(program[i]) \subseteq Types
  BY <1>1, ProgramAssumption, Zenon
<1>3. appended + 1 \in DOMAIN program /\ appended + 1 \in 0 .. Len(program)
  BY <1>1, <1>2
<1>4. t = program[appended + 1] BY DEF Appends
<1>5. t \in Types BY <1>2, <1>3, <1>4
<1>6. u \in Alike(t) /\ u \in Types /\ v \in Objects[t] /\ w \in Objects[t]
  BY <1>2, <1>3, <1>4 DEF Appends
<1>7. Objects[u] = Objects[t] /\ \A z \in Objects[t], o \in ByteOrders : Message(u, z, o) = Message(t, z, o)
  BY <1>5, <1>6, AlikeMessages
<1>8. /\ host["a"] \in [native : {"little", "big"}, constant : BOOLEAN]
      /\ host["b"] \in [native : {"little", "big"}, constant : BOOLEAN]
  BY <1>1, HostsAssumption
<1>9. PICK c \in Contexts : c = Context(flavor, host["a"])
                            /\ c.order = IF flavor = "default" THEN host["a"].native ELSE flavor
  BY <1>1, <1>8, ContextOf
<1>10. PICK d \in Contexts : d = Context(flavor, host["b"])
                             /\ d.order = IF flavor = "default" THEN host["b"].native ELSE flavor
  BY <1>1, <1>8, ContextOf
<1>11. x = hash_append[t][v][c] /\ y = hash_append[u][w][d] BY <1>9, <1>10 DEF Appends
<1>12. x = Message(t, v, c.order) BY <1>5, <1>6, <1>11, MessageIs
<1>13. y = Message(t, w, d.order)
  <2>1. w \in Objects[u] BY <1>6, <1>7
  <2>2. y = Message(u, w, d.order) BY <1>6, <1>11, <2>1, MessageIs
  <2>3. d.order \in ByteOrders BY ContextIs
  <2> QED BY <1>6, <1>7, <2>2, <2>3
<1>14. c.order \in ByteOrders /\ d.order \in ByteOrders BY ContextIs
<1>15. Proper(x) /\ Len(x) \in Nat \ {0} /\ Proper(y) /\ Len(y) \in Nat \ {0}
  BY <1>5, <1>6, <1>12, <1>13, <1>14, MessageProper
<1>16. Agreeing => c.order = d.order BY <1>9, <1>10 DEF Agreeing
<1>17. Agreeing => \E o \in ByteOrders : x = Message(t, v, o) /\ y = Message(t, w, o)
  BY <1>12, <1>13, <1>14, <1>16
<1>18. /\ h' = [a |-> h["a"] \o x, b |-> h["b"] \o y]
       /\ appended' = appended + 1 /\ equal' = (equal /\ Equal[t][v][w])
       /\ flavor' = flavor /\ host' = host /\ program' = program
  BY DEF Appends, AppendObject
<1> QED BY <1>3, <1>4, <1>5, <1>15, <1>17, <1>18

LEMMA StepDistinct ==
  ASSUME NEW b, NEW t \in Types, Readable(b, t), NEW o \in ByteOrders,
         NEW v \in Objects[t], NEW w \in Objects[t],
         NEW before, NEW f, Proper(f), NEW g, Proper(g),
         before => f = g, ~before => Apart(b, f, g),
         ~(before /\ Equal[t][v][w])
  PROVE  Apart(b, f \o Message(t, v, o), g \o Message(t, w, o))
<1>1. PICK x, y : x = Message(t, v, o) /\ y = Message(t, w, o) OBVIOUS
<1>2. IsSequence(f) /\ IsSequence(g) /\ IsSequence(x) /\ IsSequence(y)
  BY <1>1, MessageProper DEF Proper
<1>3. Distinct(b, x, y, Equal[t][v][w]) BY <1>1, Different, Zenon DEF Distinguishes
<1>4. SameOrApart(b, x, y) /\ (~Equal[t][v][w] => x # y) BY <1>3, Zenon DEF Distinct
<1>5. SameOrApart(b, f, g) BY DEF SameOrApart
<1>6. ~(f = g /\ x = y)
  <2>1. CASE before BY <1>4, <2>1, Zenon
  <2>2. CASE ~before
    <3>1. f # g BY <2>2, ApartDiffer
    <3> QED BY <3>1
  <2> QED BY <2>1, <2>2
<1>7. Apart(b, f \o x, g \o y) BY <1>2, <1>4, <1>5, <1>6, ApartBoth
<1> QED BY <1>1, <1>7

LEMMA NextHashers ==
  ASSUME AppendInv, AppendNext
  PROVE  /\ AppendInv'
         /\ \A p \in {"a", "b"} :
              Len(h[p]) < Len(h'[p]) /\ SubSeq(h'[p], 1, Len(h[p])) = h[p]
<1> USE DEF AppendInv
<1>1. appended < Len(program) BY NextAppends
<1>2. PICK t, u, v, w, x, y : Appends(t, u, v, w, x, y) BY NextAppends
<1>3. /\ \E i \in DOMAIN program : t = program[i]
      /\ t \in Types /\ appended + 1 \in 0 .. Len(program)
      /\ h' = [a |-> h["a"] \o x, b |-> h["b"] \o y]
      /\ appended' = appended + 1 /\ equal' = (equal /\ Equal[t][v][w])
      /\ flavor' = flavor /\ host' = host /\ program' = program
      /\ Proper(x) /\ Len(x) \in Nat \ {0} /\ Proper(y) /\ Len(y) \in Nat \ {0}
  BY <1>1, <1>2, AppendsIs
<1>4. Agreeing => \E o \in ByteOrders : x = Message(t, v, o) /\ y = Message(t, w, o)
  BY <1>1, <1>2, AppendsIs
<1>5. v \in Objects[t] /\ w \in Objects[t] BY <1>2 DEF Appends
<1>6. PICK f, g : f = h["a"] /\ g = h["b"] OBVIOUS
<1>7. Proper(f) /\ Proper(g) BY <1>6 DEF Hashers
<1>8. h'["a"] = f \o x /\ h'["b"] = g \o y /\ DOMAIN h' = {"a", "b"} BY <1>3, <1>6
<1>9. /\ Proper(f \o x) /\ Len(f \o x) = Len(f) + Len(x) /\ Len(f) \in Nat /\ Len(x) \in Nat
      /\ Proper(g \o y) /\ Len(g \o y) = Len(g) + Len(y) /\ Len(g) \in Nat /\ Len(y) \in Nat
  BY <1>3, <1>7, ProperJoined
<1>10. ASSUME NEW b, Agreeing, Readable(b, t), ~equal => Apart(b, f, g), ~equal'
       PROVE  Apart(b, h'["a"], h'["b"])
  <2>1. PICK o \in ByteOrders : x = Message(t, v, o) /\ y = Message(t, w, o) BY <1>4, <1>10
  <2>2. equal => f = g BY <1>6, <1>10 DEF Hashers
  <2>3. ~(equal /\ Equal[t][v][w]) BY <1>3, <1>10, Zenon
  <2>4. Apart(b, f \o Message(t, v, o), g \o Message(t, w, o))
    BY <1>3, <1>5, <1>7, <1>10, <2>2, <2>3, StepDistinct
  <2> QED BY <1>8, <2>1, <2>4
<1>11. Agreeing' = Agreeing /\ SizesLast' = SizesLast /\ TagsFirst' = TagsFirst
  BY <1>3 DEF Agreeing, SizesLast, TagsFirst
<1>12. Hashers'
  <2>1. Agreeing /\ equal' => h'["a"] = h'["b"]
    <3> SUFFICES ASSUME Agreeing, equal' PROVE h'["a"] = h'["b"] OBVIOUS
    <3>1. equal /\ Equal[t][v][w] BY <1>3, Zenon
    <3>2. PICK o \in ByteOrders : x = Message(t, v, o) /\ y = Message(t, w, o) BY <1>4
    <3>3. x = y BY <1>3, <1>5, <3>1, <3>2, EqualMessages
    <3>4. f = g BY <1>6, <3>1 DEF Hashers
    <3> QED BY <1>8, <3>3, <3>4
  <2>2. Agreeing /\ SizesLast /\ ~equal' => Apart(TRUE, h'["a"], h'["b"])
    <3> SUFFICES ASSUME Agreeing, SizesLast, ~equal' PROVE Apart(TRUE, h'["a"], h'["b"]) OBVIOUS
    <3>1. Readable(TRUE, t) BY <1>3 DEF SizesLast, Readable
    <3>2. ~equal => Apart(TRUE, f, g) BY <1>6 DEF Hashers
    <3> QED BY <1>10, <3>1, <3>2
  <2>3. Agreeing /\ TagsFirst /\ ~equal' => Apart(FALSE, h'["a"], h'["b"])
    <3> SUFFICES ASSUME Agreeing, TagsFirst, ~equal' PROVE Apart(FALSE, h'["a"], h'["b"]) OBVIOUS
    <3>1. Readable(FALSE, t) BY <1>3 DEF TagsFirst, Readable
    <3>2. ~equal => Apart(FALSE, f, g) BY <1>6 DEF Hashers
    <3> QED BY <1>10, <3>1, <3>2
  <2> QED BY <1>8, <1>9, <1>11, <2>1, <2>2, <2>3 DEF Hashers
<1>13. AppendTypeOK'
  <2>1. flavor' \in Flavor /\ host' \in Hosts /\ program' \in Program BY <1>3 DEF AppendTypeOK
  <2>2. appended' \in 0 .. Len(program') /\ equal' \in BOOLEAN BY <1>3
  <2>3. \A p \in {"a", "b"} : \A i \in 1 .. Len(h'[p]) :
          \/ h'[p][i] \in [byte : 0 .. Radix - 1]
          \/ DOMAIN h'[p][i] = {"sum"} /\ << >> \notin DOMAIN h'[p][i].sum
    BY <1>8, <1>9 DEF Proper, Sound
  <2> QED BY <2>1, <2>2, <2>3 DEF AppendTypeOK
<1>14. ASSUME NEW p \in {"a", "b"}
       PROVE  Len(h[p]) < Len(h'[p]) /\ SubSeq(h'[p], 1, Len(h[p])) = h[p]
  <2>1. PICK m, z : /\ h[p] = m /\ h'[p] = m \o z /\ Proper(m) /\ Proper(z)
                    /\ Len(z) \in Nat \ {0} /\ Len(m) \in Nat /\ Len(m \o z) = Len(m) + Len(z)
    BY <1>3, <1>6, <1>7, <1>8, <1>9
  <2>2. Len(m) < Len(m \o z) BY <2>1
  <2>3. SubSeq(m \o z, 1, Len(m)) = m
    <3>1. m \in Seq(Elements(m) \cup Elements(z)) BY <2>1, Over DEF Proper
    <3>2. z \in Seq(Elements(z) \cup Elements(m)) BY <2>1, Over DEF Proper
    <3>3. Elements(z) \cup Elements(m) = Elements(m) \cup Elements(z) OBVIOUS
    <3> QED BY <3>1, <3>2, <3>3, Prefix
  <2> QED BY <2>1, <2>2, <2>3
<1> QED BY <1>12, <1>13, <1>14

LEMMA HashersAlways == AppendSpec => []AppendInv
<1>1. AppendInit => AppendInv BY InitHashers
<1>2. AppendInv /\ [AppendNext]_appendVars => AppendInv'
  <2>1. SUFFICES ASSUME AppendInv, [AppendNext]_appendVars PROVE AppendInv' OBVIOUS
  <2>2. CASE AppendNext BY <2>1, <2>2, NextHashers
  <2>3. CASE UNCHANGED appendVars
    <3>1. /\ h' = h /\ flavor' = flavor /\ host' = host /\ program' = program
          /\ appended' = appended /\ equal' = equal
      BY <2>3 DEF appendVars
    <3>2. AppendTypeOK' BY <2>1, <3>1 DEF AppendInv, AppendTypeOK
    <3>3. Agreeing' = Agreeing /\ SizesLast' = SizesLast /\ TagsFirst' = TagsFirst
      BY <3>1 DEF Agreeing, SizesLast, TagsFirst
    <3>4. Hashers' BY <2>1, <3>1, <3>3 DEF AppendInv, Hashers
    <3> QED BY <3>2, <3>4 DEF AppendInv
  <2> QED BY <2>1, <2>2, <2>3
<1> QED BY <1>1, <1>2, PTL DEF AppendSpec

(* Every message is bytes and sums of digests, and every digest that is    *)
(* summed is of a copy of the hasher that was given something: for all     *)
(* types, flavors and platforms (hash_append.hpp).                         *)
THEOREM AppendTyped == AppendSpec => []AppendTypeOK
<1>1. AppendInv => AppendTypeOK BY DEF AppendInv
<1> QED BY <1>1, HashersAlways, PTL

(* Equal objects produce the same message (hash_append.hpp,                *)
(* hashing_objects.adoc:27): whatever the types, on any two platforms that *)
(* agree on the byte order, and whether or not memory is passed to update. *)
THEOREM EqualAgree == AppendSpec => []EqualObjectsAgree
<1>1. AppendInv => EqualObjectsAgree BY DEF AppendInv, Hashers, EqualObjectsAgree
<1> QED BY <1>1, HashersAlways, PTL

(* Different objects produce different messages (hashing_objects.adoc:28)  *)
(* of all types whose messages can be read from the end, and of all whose  *)
(* messages can be read from the beginning.                                *)
THEOREM ReadableDiffer == AppendSpec => []ReadableObjectsDiffer
<1>1. ASSUME AppendInv PROVE ReadableObjectsDiffer
  <2>1. SUFFICES ASSUME SizesLast \/ TagsFirst, Agreeing, ~equal PROVE h["a"] # h["b"]
    BY DEF ReadableObjectsDiffer, DifferentObjectsDiffer
  <2>2. Apart(TRUE, h["a"], h["b"]) \/ Apart(FALSE, h["a"], h["b"])
    BY <1>1, <2>1 DEF AppendInv, Hashers
  <2> QED BY <2>2, ApartDiffer
<1> QED BY <1>1, HashersAlways, PTL

(* Every object adds to the message, and leaves what was appended before   *)
(* it (hashing_objects.adoc:29, hash_append.hpp:284).                      *)
THEOREM Extending == AppendSpec => AppendExtends
<1>1. AppendInv /\ AppendNext =>
        \A p \in {"a", "b"} : Len(h[p]) < Len(h'[p]) /\ SubSeq(h'[p], 1, Len(h[p])) = h[p]
  BY NextHashers
<1>2. AppendInv /\ [AppendNext]_appendVars =>
        [\A p \in {"a", "b"} :
           Len(h[p]) < Len(h'[p]) /\ SubSeq(h'[p], 1, Len(h[p])) = h[p]]_appendVars
  BY <1>1
<1> QED BY <1>2, HashersAlways, PTL DEF AppendSpec, AppendExtends

===============================================================================
