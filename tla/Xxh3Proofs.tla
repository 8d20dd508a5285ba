----------------------------- MODULE Xxh3Proofs ------------------------------
(***************************************************************************)
(* xxh3_128.  Whatever the sizes and however the message is split, update  *)
(* takes in the stripes of the message in step with the secret, holds the  *)
(* rest, and keeps the last stripe it took in where last_round looks for   *)
(* it; so the first result is the digest of the message in one piece when  *)
(* the held stripes end before the secret does, and a result differs from  *)
(* the one before unless it left all bytes of a short message as they are. *)
(* The invariant is that of Holds, for some number of stripes taken in.    *)
(*                                                                         *)
(* Two facts have no state.  mul128_impl returns the whole product, for    *)
(* every width of a word: each of its sums stays below the range of a      *)
(* word, and the parts add up.  And the digests of short messages read     *)
(* every byte of the message, no other byte of the buffer, and no byte     *)
(* beyond the shortest secret: a proof for each range of lengths.          *)
(***************************************************************************)
EXTENDS Xxh3, Xxh3Short, Mul128, DataLemmas, TLAPS

------------------------------------------------------------------------------
(* The object *)

Object128 ==
  [secret : Secret, secret_len : min_secret_len .. default_secret_len, seed : Nat,
   with_secret : BOOLEAN, buffer : Block(buffer_size, Nat), acc : Seq(StepType), n : Nat,
   m : 0 .. buffer_size, num_stripes : Nat]

(* o with other values in the members that update changes. *)
With(o, buffer, acc, n, m, num_stripes) ==
  [secret |-> o.secret, secret_len |-> o.secret_len, seed |-> o.seed,
   with_secret |-> o.with_secret, buffer |-> buffer, acc |-> acc, n |-> n, m |-> m,
   num_stripes |-> num_stripes]

LEMMA Sizes ==
  /\ Stripe \in Nat \ {0} /\ Word \in Nat \ {0} /\ SizeMod \in Nat \ {0} /\ Short \in Nat \ {0}
  /\ Mixed \in Nat \ {0} /\ Mixed <= Stripe
  /\ min_secret_len \in Nat /\ default_secret_len \in Nat
  /\ min_secret_len < default_secret_len /\ Stripe + 4 * Word < min_secret_len
  /\ buffer_size = 4 * Stripe /\ buffer_size \in Nat \ {0}
  /\ 3 * Stripe < Short /\ Short < buffer_size /\ buffer_size < SizeMod
BY SizeAssumption DEF buffer_size

LEMMA ObjectFacts ==
  ASSUME NEW o \in Object128
  PROVE  /\ o.secret \in Secret /\ o.seed \in Nat /\ o.with_secret \in BOOLEAN
         /\ o.secret_len \in min_secret_len .. default_secret_len
         /\ o.buffer \in Block(buffer_size, Nat) /\ o.acc \in Seq(StepType)
         /\ o.n \in Nat /\ o.m \in 0 .. buffer_size /\ o.num_stripes \in Nat
         /\ o = With(o, o.buffer, o.acc, o.n, o.m, o.num_stripes)
BY DEF Object128, With

LEMMA WithIs ==
  ASSUME NEW o, NEW buffer, NEW acc, NEW n, NEW m, NEW num
  PROVE  LET w == With(o, buffer, acc, n, m, num) IN
         /\ w.secret = o.secret /\ w.secret_len = o.secret_len /\ w.seed = o.seed
         /\ w.with_secret = o.with_secret /\ w.buffer = buffer /\ w.acc = acc
         /\ w.n = n /\ w.m = m /\ w.num_stripes = num
         /\ stripes_per_block(w) = stripes_per_block(o)
BY DEF With, stripes_per_block

LEMMA WithType ==
  ASSUME NEW o \in Object128, NEW buffer \in Block(buffer_size, Nat), NEW acc \in Seq(StepType),
         NEW n \in Nat, NEW m \in 0 .. buffer_size, NEW num \in Nat
  PROVE  With(o, buffer, acc, n, m, num) \in Object128
BY ObjectFacts DEF With, Object128

(* A With of a With. *)
LEMMA WithWith ==
  ASSUME NEW o, NEW c, NEW b0, NEW a0, NEW n0, NEW m0, NEW k0,
         c = With(o, b0, a0, n0, m0, k0),
         NEW b, NEW a, NEW n, NEW m, NEW k
  PROVE  With(c, b, a, n, m, k) = With(o, b, a, n, m, k)
<1>1. /\ c.secret = o.secret /\ c.secret_len = o.secret_len /\ c.seed = o.seed
      /\ c.with_secret = o.with_secret
  BY WithIs
<1> QED BY <1>1, Zenon DEF With

(* Assignments to members. *)
LEMMA Assigned ==
  ASSUME NEW o \in Object128, NEW b, NEW a, NEW n, NEW m, NEW k
  PROVE  /\ [o EXCEPT !.acc = a] = With(o, o.buffer, a, o.n, o.m, o.num_stripes)
         /\ [o EXCEPT !.n = n] = With(o, o.buffer, o.acc, n, o.m, o.num_stripes)
         /\ [o EXCEPT !.num_stripes = k] = With(o, o.buffer, o.acc, o.n, o.m, k)
         /\ [o EXCEPT !.buffer = b] = With(o, b, o.acc, o.n, o.m, o.num_stripes)
         /\ [o EXCEPT !.m = m] = With(o, o.buffer, o.acc, o.n, m, o.num_stripes)
<1>1. [o EXCEPT !.acc = a] = With(o, o.buffer, a, o.n, o.m, o.num_stripes)
  BY DEF With, Object128
<1>2. [o EXCEPT !.n = n] = With(o, o.buffer, o.acc, n, o.m, o.num_stripes)
  BY DEF With, Object128
<1>3. [o EXCEPT !.num_stripes = k] = With(o, o.buffer, o.acc, o.n, o.m, k)
  BY DEF With, Object128
<1>4. [o EXCEPT !.buffer = b] = With(o, b, o.acc, o.n, o.m, o.num_stripes)
  BY DEF With, Object128
<1>5. [o EXCEPT !.m = m] = With(o, o.buffer, o.acc, o.n, m, o.num_stripes)
  BY DEF With, Object128
<1> QED BY <1>1, <1>2, <1>3, <1>4, <1>5

LEMMA AssignedBuffer ==
  ASSUME NEW o \in Object128, NEW b \in Block(buffer_size, Nat), NEW m \in 0 .. buffer_size
  PROVE  [o EXCEPT !.buffer = b, !.m = m] = With(o, b, o.acc, o.n, m, o.num_stripes)
<1> DEFINE a == [o EXCEPT !.buffer = b]
<1>1. a = With(o, b, o.acc, o.n, o.m, o.num_stripes)
  BY Assigned
<1>2. a \in Object128
  BY <1>1, ObjectFacts, WithType
<1>3. [o EXCEPT !.buffer = b, !.m = m] = [a EXCEPT !.m = m]
  OBVIOUS
<1> HIDE DEF a
<1>4. [a EXCEPT !.m = m] = With(a, a.buffer, a.acc, a.n, m, a.num_stripes)
  BY <1>2, Assigned
<1>5. a.buffer = b /\ a.acc = o.acc /\ a.n = o.n /\ a.num_stripes = o.num_stripes
  BY <1>1, WithIs
<1>6. With(a, b, o.acc, o.n, m, o.num_stripes) = With(o, b, o.acc, o.n, m, o.num_stripes)
  BY <1>1, WithWith
<1> QED BY <1>3, <1>4, <1>5, <1>6, Zenon

(* One more stripe. *)
LEMMA NextTotal ==
  ASSUME NEW j \in Nat
  PROVE  /\ Total(Stripe, j) \in Nat /\ Total(Stripe, j + 1) = Total(Stripe, j) + Stripe
         /\ Stripe \in Nat \ {0}
<1>1. Stripe \in Nat \ {0} /\ 1 \in Nat
  BY Sizes
<1>2. Total(Stripe, j + 1) = Total(Stripe, j) + Total(Stripe, 1)
  BY <1>1, TotalPlus
<1> QED BY <1>1, <1>2, TotalType, TotalOne

(* A part of a sequence of bytes. *)
LEMMA BytesPart ==
  ASSUME NEW q \in Seq(Nat), NEW offset \in Nat, NEW k \in Nat, offset + k <= Len(q)
  PROVE  LET s == SubSeq(q, offset + 1, offset + k) IN
         /\ s \in Seq(Nat) /\ Len(s) = k /\ s \in [1 .. k -> Nat]
         /\ \A i \in 1 .. k : s[i] = q[offset + i]
<1> DEFINE s == SubSeq(q, offset + 1, offset + k)
<1>1. /\ s \in Seq(Nat) /\ Len(s) = k
      /\ \A i \in 1 .. k : s[i] = q[offset + i]
  BY Part
<1> HIDE DEF s
<1>2. s \in [1 .. k -> Nat]
  BY <1>1, LenProperties
<1> QED BY <1>1, <1>2 DEF s

LEMMA BlockIsSeq ==
  ASSUME NEW B, NEW b \in Nat, NEW s \in Block(b, B)
  PROVE  s \in Seq(B) /\ Len(s) = b
<1>1. s \in [1 .. b -> B]
  BY DEF Block
<1> QED BY <1>1

(* A block of stripes has at least one. *)
LEMMA PartsPositive ==
  ASSUME NEW o \in Object128
  PROVE  stripes_per_block(o) \in Nat \ {0}
<1> DEFINE x == o.secret_len - Stripe
<1>1. x \in Nat /\ Word <= x /\ Word \in Nat \ {0}
  BY Sizes, ObjectFacts
<1> HIDE DEF x
<1>2. x \div Word \in Nat /\ x % Word \in 0 .. Word - 1 /\ x = Word * (x \div Word) + (x % Word)
  BY <1>1, DivMod
<1>3. x \div Word # 0
  <2>1. SUFFICES ASSUME x \div Word = 0 PROVE FALSE
    OBVIOUS
  <2>2. Word * 0 = 0
    BY <1>1
  <2>3. x = x % Word
    BY <1>2, <2>1, <2>2
  <2> QED BY <1>1, <1>2, <2>3
<1> QED BY <1>2, <1>3 DEF stripes_per_block, x

LEMMA StepTyped ==
  /\ \A at \in Nat, stripe \in Block(Stripe, Nat) : Step("accumulate", at, stripe) \in StepType
  /\ \A stripe \in Block(Stripe, Nat) : Step("last", 0, stripe) \in StepType
  /\ Step("scramble", 0, << >>) \in StepType
  /\ Step("perturb", 0, << >>) \in StepType
BY DEF Step, StepType

(* update's step for one stripe. *)
LEMMA ConsumeIs ==
  ASSUME NEW o \in Object128, NEW stripe \in Block(Stripe, Nat)
  PROVE  LET a == Append(o.acc, Step("accumulate", o.num_stripes, stripe))
             c == Consume(o, stripe)
         IN  /\ c = IF o.num_stripes + 1 = stripes_per_block(o)
                    THEN With(o, o.buffer, Append(a, Step("scramble", 0, << >>)), o.n, o.m, 0)
                    ELSE With(o, o.buffer, a, o.n, o.m, o.num_stripes + 1)
             /\ c \in Object128
<1> DEFINE s == Step("accumulate", o.num_stripes, stripe)
           e == Step("scramble", 0, << >>)
           a == Append(o.acc, s)
           z == Append(a, e)
           x == accumulate(o, stripe, o.num_stripes)
           y == [x EXCEPT !.num_stripes = @ + 1]
           v == [y EXCEPT !.acc = Append(@, e)]
<1>1. o.num_stripes \in Nat /\ o.acc \in Seq(StepType) /\ s \in StepType /\ e \in StepType
  BY ObjectFacts, StepTyped
<1> HIDE DEF s, e
<1>2. a \in Seq(StepType)
  BY <1>1, AppendProperties
<1>3. z \in Seq(StepType)
  BY <1>1, <1>2, AppendProperties
<1>4. x = [o EXCEPT !.acc = a]
  BY DEF accumulate, s
<1> HIDE DEF a, z
<1>5. x = With(o, o.buffer, a, o.n, o.m, o.num_stripes)
  BY <1>4, Assigned
<1>6. x \in Object128
  BY <1>2, <1>5, ObjectFacts, WithType
<1> HIDE DEF x
<1>7. x.buffer = o.buffer /\ x.acc = a /\ x.n = o.n /\ x.m = o.m /\ x.num_stripes = o.num_stripes
  BY <1>5, WithIs
<1>8. y = With(o, o.buffer, a, o.n, o.m, o.num_stripes + 1)
  <2>1. y = [x EXCEPT !.num_stripes = x.num_stripes + 1]
    BY <1>6 DEF Object128
  <2> HIDE DEF y
  <2>2. [x EXCEPT !.num_stripes = x.num_stripes + 1]
          = With(x, x.buffer, x.acc, x.n, x.m, x.num_stripes + 1)
    BY <1>6, Assigned
  <2>3. With(x, o.buffer, a, o.n, o.m, o.num_stripes + 1)
          = With(o, o.buffer, a, o.n, o.m, o.num_stripes + 1)
    BY <1>5, WithWith
  <2> QED BY <1>7, <2>1, <2>2, <2>3, Zenon
<1>9. y \in Object128
  <2>1. o.num_stripes + 1 \in Nat
    BY <1>1
  <2> QED BY <1>2, <1>8, <2>1, ObjectFacts, WithType
<1> HIDE DEF y
<1>10. /\ y.buffer = o.buffer /\ y.acc = a /\ y.n = o.n /\ y.m = o.m
       /\ y.num_stripes = o.num_stripes + 1
  BY <1>8, WithIs
<1>11. v = With(o, o.buffer, z, o.n, o.m, o.num_stripes + 1)
  <2>1. v = [y EXCEPT !.acc = z]
    BY <1>9, <1>10 DEF Object128, z
  <2>2. [y EXCEPT !.acc = z] = With(y, y.buffer, z, y.n, y.m, y.num_stripes)
    BY <1>9, Assigned
  <2>3. With(y, o.buffer, z, o.n, o.m, o.num_stripes + 1)
          = With(o, o.buffer, z, o.n, o.m, o.num_stripes + 1)
    BY <1>8, WithWith
  <2> QED BY <1>10, <2>1, <2>2, <2>3, Zenon
<1>12. v \in Object128
  <2>1. o.num_stripes + 1 \in Nat
    BY <1>1
  <2> QED BY <1>3, <1>11, <2>1, ObjectFacts, WithType
<1>13. v = scramble(y)
  BY DEF scramble, e
<1> HIDE DEF v
<1>14. [v EXCEPT !.num_stripes = 0] = With(o, o.buffer, z, o.n, o.m, 0)
  <2>1. [v EXCEPT !.num_stripes = 0] = With(v, v.buffer, v.acc, v.n, v.m, 0)
    BY <1>12, Assigned
  <2>2. v.buffer = o.buffer /\ v.acc = z /\ v.n = o.n /\ v.m = o.m
    BY <1>11, WithIs
  <2>3. With(v, o.buffer, z, o.n, o.m, 0) = With(o, o.buffer, z, o.n, o.m, 0)
    BY <1>11, WithWith
  <2> QED BY <2>1, <2>2, <2>3, Zenon
<1>15. Consume(o, stripe) = IF y.num_stripes = stripes_per_block(o)
                            THEN [scramble(y) EXCEPT !.num_stripes = 0] ELSE y
  BY DEF Consume, x, y
<1>16. Consume(o, stripe) = IF o.num_stripes + 1 = stripes_per_block(o)
                            THEN With(o, o.buffer, z, o.n, o.m, 0)
                            ELSE With(o, o.buffer, a, o.n, o.m, o.num_stripes + 1)
  BY <1>8, <1>10, <1>13, <1>14, <1>15, Zenon
<1>17. With(o, o.buffer, z, o.n, o.m, 0) \in Object128
  BY <1>3, ObjectFacts, WithType
<1>18. Consume(o, stripe) \in Object128
  BY <1>8, <1>9, <1>16, <1>17, Zenon
<1> QED BY <1>16, <1>18 DEF z, a, s, e

------------------------------------------------------------------------------
(* What is accumulated *)

(* The position of the step for stripe k + 1, and of the scramble after it. *)
LEMMA Place ==
  ASSUME NEW P \in Nat \ {0}, NEW k \in Nat
  PROVE  LET i == k + (k \div P) + 1 IN
         /\ i \div (P + 1) = k \div P
         /\ i % (P + 1) = (k % P) + 1
         /\ (k % P) + 1 = P => (i + 1) % (P + 1) = 0
<1> DEFINE q == k \div P
           r == k % P
<1>1. q \in Nat /\ r \in 0 .. P - 1 /\ k = P * q + r
  BY DivMod
<1> HIDE DEF q, r
<1>2. k + q + 1 = (P + 1) * q + (r + 1)
  <2>1. (P + 1) * q = P * q + q /\ P * q \in Nat
    BY <1>1
  <2> QED BY <1>1, <2>1
<1>3. P + 1 \in Nat \ {0} /\ r + 1 \in 0 .. (P + 1) - 1 /\ 0 \in 0 .. (P + 1) - 1 /\ q + 1 \in Nat
  BY <1>1
<1>4. ((P + 1) * q + (r + 1)) \div (P + 1) = q /\ ((P + 1) * q + (r + 1)) % (P + 1) = r + 1
  BY <1>1, <1>3, DivModOf
<1>5. ASSUME r + 1 = P PROVE (k + q + 1 + 1) % (P + 1) = 0
  <2>1. k + q + 1 + 1 = (P + 1) * (q + 1) + 0
    <3>1. (P + 1) * (q + 1) = (P + 1) * q + (P + 1) /\ (P + 1) * q \in Nat
      BY <1>1
    <3> QED BY <1>1, <1>2, <1>5, <3>1
  <2>2. ((P + 1) * (q + 1) + 0) % (P + 1) = 0
    BY <1>3, DivModOf
  <2> QED BY <2>1, <2>2, Zenon
<1> QED BY <1>2, <1>4, <1>5, Zenon DEF q, r

(* The part of the secret after this one. *)
LEMMA NextPart ==
  ASSUME NEW P \in Nat \ {0}, NEW k \in Nat, NEW h \in Nat
  PROVE  /\ (k % P) + h < P => (k + h) \div P = k \div P /\ (k + h) % P = (k % P) + h
         /\ (k % P) + 1 = P => (k + 1) \div P = (k \div P) + 1 /\ (k + 1) % P = 0
<1> DEFINE q == k \div P
           r == k % P
<1>1. q \in Nat /\ r \in 0 .. P - 1 /\ k = P * q + r
  BY DivMod
<1> HIDE DEF q, r
<1>2. ASSUME r + h < P PROVE (k + h) \div P = q /\ (k + h) % P = r + h
  <2>1. r + h \in 0 .. P - 1 /\ P * q \in Nat
    BY <1>1, <1>2
  <2>2. k + h = P * q + (r + h)
    BY <1>1, <2>1
  <2> QED BY <1>1, <2>1, <2>2, DivModOf
<1>3. ASSUME r + 1 = P PROVE (k + 1) \div P = q + 1 /\ (k + 1) % P = 0
  <2>1. P * (q + 1) = P * q + P /\ P * q \in Nat
    BY <1>1
  <2>2. k + 1 = P * (q + 1) + 0
    BY <1>1, <1>3, <2>1
  <2>3. 0 \in 0 .. P - 1 /\ q + 1 \in Nat
    BY <1>1
  <2> QED BY <1>1, <2>2, <2>3, DivModOf
<1> QED BY <1>2, <1>3 DEF q, r

(* What Accumulated has at index i, whatever the number of stripes. *)
StepAt(P, bytes, i) ==
  LET scrambles == i \div (P + 1)
      part      == i % (P + 1)
  IN  IF part = 0 THEN Step("scramble", 0, << >>)
      ELSE Step("accumulate", part - 1, StripeOf(bytes, i - scrambles))

StepsAt(P, bytes) == {StepAt(P, bytes, i) : i \in Nat}

LEMMA AccumulatedIs ==
  ASSUME NEW P \in Nat \ {0}, NEW k \in Nat, NEW bytes
  PROVE  LET a == Accumulated(P, bytes, k)
             n == k + (k \div P)
         IN  /\ n \in Nat /\ a \in Seq(StepsAt(P, bytes)) /\ Len(a) = n
             /\ \A i \in 1 .. n : a[i] = StepAt(P, bytes, i)
<1> DEFINE n == k + (k \div P)
           a == Accumulated(P, bytes, k)
           V == StepsAt(P, bytes)
<1>1. n \in Nat
  BY DivMod
<1>2. a = [i \in 1 .. n |-> StepAt(P, bytes, i)]
  BY DEF Accumulated, StepAt
<1>3. \A i \in 1 .. n : StepAt(P, bytes, i) \in V
  BY <1>1 DEF StepsAt
<1> HIDE DEF n, a, V
<1>4. a \in [1 .. n -> V] /\ \A i \in 1 .. n : a[i] = StepAt(P, bytes, i)
  BY <1>2, <1>3
<1>5. a \in Seq(V) /\ Len(a) = n
  BY <1>1, <1>4
<1> QED BY <1>1, <1>4, <1>5 DEF a, n, V

LEMMA AccumulatedNone ==
  ASSUME NEW P \in Nat \ {0}, NEW bytes
  PROVE  Accumulated(P, bytes, 0) = << >> /\ 0 % P = 0
<1>1. 0 \in Nat /\ 0 \in 0 .. P - 1 /\ P * 0 + 0 = 0
  OBVIOUS
<1>2. (P * 0 + 0) \div P = 0 /\ (P * 0 + 0) % P = 0
  BY <1>1, DivModOf
<1>3. 0 \div P = 0 /\ 0 % P = 0
  BY <1>1, <1>2, Zenon
<1> DEFINE a == Accumulated(P, bytes, 0)
           V == StepsAt(P, bytes)
<1>4. a \in Seq(V) /\ Len(a) = 0
  BY <1>1, <1>3, AccumulatedIs
<1> HIDE DEF a, V
<1>5. a = << >>
  BY <1>4, EmptySeq
<1> QED BY <1>3, <1>5 DEF a

(* Stripe k + 1 is accumulated under the next part of the secret, and      *)
(* after the last part comes a scramble.                                   *)
LEMMA AccumulatedNext ==
  ASSUME NEW P \in Nat \ {0}, NEW k \in Nat, NEW bytes
  PROVE  LET s == Step("accumulate", k % P, StripeOf(bytes, k + 1))
             a == Append(Accumulated(P, bytes, k), s)
         IN  Accumulated(P, bytes, k + 1)
               = IF (k % P) + 1 = P THEN Append(a, Step("scramble", 0, << >>)) ELSE a
<1> DEFINE q == k \div P
           r == k % P
           n == k + q
           V == StepsAt(P, bytes)
           c == Accumulated(P, bytes, k)
           d == Accumulated(P, bytes, k + 1)
           s == Step("accumulate", r, StripeOf(bytes, k + 1))
           e == Step("scramble", 0, << >>)
           a == Append(c, s)
           z == Append(a, e)
<1>1. q \in Nat /\ r \in 0 .. P - 1 /\ k + 1 \in Nat
  <2>1. q \in Nat /\ r \in 0 .. P - 1
    BY DivMod
  <2> QED BY <2>1
<1>2. n \in Nat /\ c \in Seq(V) /\ Len(c) = n /\ \A i \in 1 .. n : c[i] = StepAt(P, bytes, i)
  BY AccumulatedIs
<1>3. LET x == (k + 1) + ((k + 1) \div P) IN
      x \in Nat /\ d \in Seq(V) /\ Len(d) = x /\ \A i \in 1 .. x : d[i] = StepAt(P, bytes, i)
  BY <1>1, AccumulatedIs
<1>4. /\ (n + 1) \div (P + 1) = q /\ (n + 1) % (P + 1) = r + 1
      /\ r + 1 = P => (n + 1 + 1) % (P + 1) = 0
  BY Place
<1>5. /\ r + 1 < P => (k + 1) \div P = q
      /\ r + 1 = P => (k + 1) \div P = q + 1
  BY NextPart
<1>6. StepAt(P, bytes, n + 1) = s
  <2>1. r + 1 # 0 /\ (r + 1) - 1 = r /\ (n + 1) - q = k + 1
    BY <1>1
  <2> HIDE DEF n, r, q
  <2> QED BY <1>4, <2>1, Zenon DEF StepAt, s
<1>7. ASSUME r + 1 = P PROVE StepAt(P, bytes, n + 1 + 1) = e
  <2> HIDE DEF n, r, q
  <2> QED BY <1>4, <1>7, Zenon DEF StepAt, e
<1>8. s \in V /\ (r + 1 = P => e \in V)
  <2>1. n + 1 \in Nat /\ n + 1 + 1 \in Nat
    BY <1>2
  <2> HIDE DEF n, r, q, s, e
  <2> QED BY <1>6, <1>7, <2>1 DEF StepsAt
<1> HIDE DEF q, V, c, d, s, e
<1>9. n + 1 = (k + 1) + q /\ n + 1 + 1 = (k + 1) + (q + 1)
  BY <1>1
<1> HIDE DEF n, r
<1>10. /\ a \in Seq(V) /\ Len(a) = n + 1
       /\ \A i \in 1 .. n + 1 : a[i] = StepAt(P, bytes, i)
  <2>1. a \in Seq(V) /\ Len(a) = n + 1 /\ a[n + 1] = s /\ \A i \in 1 .. n : a[i] = c[i]
    BY <1>2, <1>8, AppendProperties
  <2>2. ASSUME NEW i \in 1 .. n + 1 PROVE a[i] = StepAt(P, bytes, i)
    <3>1. i = n + 1 \/ i \in 1 .. n
      BY <1>2
    <3> QED BY <1>2, <1>6, <2>1, <3>1
  <2> QED BY <2>1, <2>2
<1> HIDE DEF a
<1>11. CASE r + 1 < P
  <2>1. d \in Seq(V) /\ Len(d) = n + 1 /\ \A i \in 1 .. n + 1 : d[i] = StepAt(P, bytes, i)
    BY <1>3, <1>5, <1>9, <1>11, Zenon
  <2>2. d = a
    BY <1>10, <2>1, SeqEqual
  <2>3. r + 1 # P
    BY <1>1, <1>11
  <2> QED BY <2>2, <2>3 DEF d, a, c, s, r
<1>12. CASE r + 1 = P
  <2>1. d \in Seq(V) /\ Len(d) = n + 1 + 1 /\ \A i \in 1 .. n + 1 + 1 : d[i] = StepAt(P, bytes, i)
    BY <1>3, <1>5, <1>9, <1>12, Zenon
  <2>2. /\ z \in Seq(V) /\ Len(z) = n + 1 + 1 /\ z[n + 1 + 1] = e
        /\ \A i \in 1 .. n + 1 : z[i] = a[i]
    BY <1>2, <1>8, <1>10, <1>12, AppendProperties
  <2> HIDE DEF z
  <2>3. ASSUME NEW i \in 1 .. n + 1 + 1 PROVE d[i] = z[i]
    <3>1. i = n + 1 + 1 \/ i \in 1 .. n + 1
      BY <1>2
    <3> QED BY <1>7, <1>10, <1>12, <2>1, <2>2, <3>1
  <2>4. d = z
    BY <2>1, <2>2, <2>3, SeqEqual
  <2> QED BY <1>12, <2>4 DEF d, z, a, c, s, e, r
<1> QED BY <1>1, <1>11, <1>12

(* Stripes that are in both messages are accumulated alike. *)
LEMMA StripeIs ==
  ASSUME NEW bytes \in Seq(Nat), NEW j \in Nat, Total(Stripe, j + 1) <= Len(bytes)
  PROVE  /\ StripeOf(bytes, j + 1) \in Block(Stripe, Nat)
         /\ \A i \in 1 .. Stripe : StripeOf(bytes, j + 1)[i] = bytes[Total(Stripe, j) + i]
<1> DEFINE t == Total(Stripe, j)
<1>1. t \in Nat /\ Total(Stripe, j + 1) = t + Stripe /\ Stripe \in Nat
  BY NextTotal
<1>2. StripeOf(bytes, j + 1) = SubSeq(bytes, t + 1, t + Stripe)
  <2>1. ((j + 1) - 1) * Stripe = t /\ (j + 1) * Stripe = t + Stripe
    <3>1. (j + 1) - 1 = j
      OBVIOUS
    <3> QED BY <1>1, <3>1, Zenon DEF Total
  <2> QED BY <2>1, Zenon DEF StripeOf
<1> HIDE DEF t
<1>3. t + Stripe <= Len(bytes)
  BY <1>1
<1> HIDE DEF t
<1>4. /\ SubSeq(bytes, t + 1, t + Stripe) \in [1 .. Stripe -> Nat]
      /\ \A i \in 1 .. Stripe : SubSeq(bytes, t + 1, t + Stripe)[i] = bytes[t + i]
  BY <1>1, <1>3, BytesPart
<1> QED BY <1>2, <1>4, Zenon DEF t, Block

LEMMA StripeUnique ==
  ASSUME NEW bytes \in Seq(Nat), NEW j \in Nat, Total(Stripe, j + 1) <= Len(bytes),
         NEW s \in Block(Stripe, Nat), \A i \in 1 .. Stripe : s[i] = bytes[Total(Stripe, j) + i]
  PROVE  s = StripeOf(bytes, j + 1)
<1> DEFINE t == StripeOf(bytes, j + 1)
<1>1. t \in [1 .. Stripe -> Nat] /\ s \in [1 .. Stripe -> Nat]
      /\ \A i \in 1 .. Stripe : t[i] = s[i]
  <2>1. t \in Block(Stripe, Nat) /\ \A i \in 1 .. Stripe : t[i] = bytes[Total(Stripe, j) + i]
    BY StripeIs
  <2> HIDE DEF t
  <2>2. \A i \in 1 .. Stripe : t[i] = s[i]
    BY <2>1
  <2> QED BY <2>1, <2>2, Zenon DEF Block
<1> HIDE DEF t
<1>2. t = s
  <2> DEFINE D == 1 .. Stripe
             N == Nat
  <2>1. t \in [D -> N] /\ s \in [D -> N] /\ \A i \in D : t[i] = s[i]
    BY <1>1
  <2> HIDE DEF D, N
  <2> QED BY <2>1
<1> QED BY <1>2 DEF t

Further(P, acc, k, stripe) ==
  LET a == Append(acc, Step("accumulate", k % P, stripe))
  IN  IF (k % P) + 1 = P THEN Append(a, Step("scramble", 0, << >>)) ELSE a

LEMMA AccumulatedSame ==
  ASSUME NEW P \in Nat \ {0}, NEW k \in Nat, NEW bytes \in Seq(Nat), NEW p \in Seq(Nat),
         Total(Stripe, k) <= Len(bytes)
  PROVE  Accumulated(P, bytes, k) = Accumulated(P, bytes \o p, k)
<1> DEFINE b == bytes \o p
           S == {j \in 0 .. k : Accumulated(P, bytes, j) = Accumulated(P, b, j)}
<1>1. /\ b \in Seq(Nat) /\ Len(b) = Len(bytes) + Len(p) /\ Len(bytes) \in Nat /\ Len(p) \in Nat
      /\ \A i \in 1 .. Len(bytes) : b[i] = bytes[i]
  <2>1. /\ b \in Seq(Nat) /\ Len(b) = Len(bytes) + Len(p) /\ Len(bytes) \in Nat /\ Len(p) \in Nat
        /\ \A i \in 1 .. Len(bytes) + Len(p) :
             b[i] = IF i <= Len(bytes) THEN bytes[i] ELSE p[i - Len(bytes)]
    BY ConcatProperties, LenProperties
  <2> HIDE DEF b
  <2> QED BY <2>1
<1> HIDE DEF b
<1>2. 0 \in S
  BY AccumulatedNone
<1>3. ASSUME NEW j \in 0 .. k - 1, j \in S PROVE j + 1 \in S
  <2>1. j \in Nat /\ j + 1 \in Nat /\ j + 1 <= k
    OBVIOUS
  <2>2. Total(Stripe, j + 1) <= Len(bytes) /\ Total(Stripe, j + 1) <= Len(b)
    <3>1. Total(Stripe, j + 1) <= Total(Stripe, k)
      BY <2>1, Sizes, TotalMonotonic
    <3>2. Total(Stripe, j + 1) \in Nat /\ Total(Stripe, k) \in Nat
      BY <2>1, Sizes, TotalType
    <3> QED BY <1>1, <3>1, <3>2
  <2>3. Total(Stripe, j) \in Nat /\ Total(Stripe, j + 1) = Total(Stripe, j) + Stripe
        /\ Stripe \in Nat
    BY <2>1, NextTotal
  <2>4. StripeOf(bytes, j + 1) = StripeOf(b, j + 1)
    <3>1. /\ StripeOf(bytes, j + 1) \in Block(Stripe, Nat)
          /\ \A i \in 1 .. Stripe : StripeOf(bytes, j + 1)[i] = bytes[Total(Stripe, j) + i]
      BY <2>1, <2>2, StripeIs
    <3>2. \A i \in 1 .. Stripe : Total(Stripe, j) + i \in 1 .. Len(bytes)
      <4> DEFINE x == Total(Stripe, j)
                 y == Total(Stripe, j + 1)
      <4>1. x \in Nat /\ y = x + Stripe /\ y <= Len(bytes) /\ Stripe \in Nat
        BY <2>2, <2>3
      <4> HIDE DEF x, y
      <4>2. \A i \in 1 .. Stripe : x + i \in 1 .. Len(bytes)
        BY <1>1, <4>1
      <4> QED BY <4>2 DEF x
    <3>3. \A i \in 1 .. Stripe : StripeOf(bytes, j + 1)[i] = b[Total(Stripe, j) + i]
      BY <1>1, <3>1, <3>2
    <3> QED BY <1>1, <2>1, <2>2, <3>1, <3>3, StripeUnique
  <2>5. Accumulated(P, bytes, j) = Accumulated(P, b, j)
    BY <1>3
  <2>6. Accumulated(P, bytes, j + 1) = Accumulated(P, b, j + 1)
    <3>1. Accumulated(P, bytes, j + 1) = Further(P, Accumulated(P, bytes, j), j,
                                                  StripeOf(bytes, j + 1))
      BY <2>1, AccumulatedNext DEF Further
    <3>2. Accumulated(P, b, j + 1) = Further(P, Accumulated(P, b, j), j, StripeOf(b, j + 1))
      BY <2>1, AccumulatedNext DEF Further
    <3> QED BY <2>4, <2>5, <3>1, <3>2, Zenon
  <2>7. j + 1 \in 0 .. k
    BY <2>1
  <2> QED BY <2>6, <2>7
<1> HIDE DEF S
<1>4. \A j \in 0 .. k : j \in S
  BY <1>2, <1>3, Induction
<1> QED BY <1>4 DEF S, b

------------------------------------------------------------------------------
(* The loop over stripes *)

LEMMA ConsumedSteps ==
  ASSUME NEW o \in Object128, NEW f \in BlockSeq(Stripe, Nat)
  PROVE  \E w : /\ w[0] = o /\ w[Len(f)] = ConsumeAll(o, f)
               /\ \A i \in 1 .. Len(f) : w[i] = Consume(w[i - 1], f[i])
<1> DEFINE n == Len(f)
           F == [i \in 1 .. n |-> [x \in Object128 |-> Consume(x, f[i])]]
           Loop(w) == [i \in 0 .. n |-> IF i = 0 THEN o ELSE Consume(w[i - 1], f[i])]
           w == CHOOSE w : w = Loop(w)
<1>1. n \in Nat /\ \A i \in 1 .. n : f[i] \in Block(Stripe, Nat)
  BY LenProperties, ElementOfSeq DEF BlockSeq
<1>2. F \in [1 .. n -> [Object128 -> Object128]]
  <2>1. \A i \in 1 .. n, x \in Object128 : Consume(x, f[i]) \in Object128
    BY <1>1, ConsumeIs
  <2> QED BY <2>1
<1>3. PICK g \in [0 .. n -> Object128] :
        g[0] = o /\ \A i \in 1 .. n : g[i] = F[i][g[i - 1]]
  <2> HIDE DEF F, n, Loop, w
  <2>1. Loops(Object128, o, n, F) # {}
    BY <1>1, <1>2, Recursion
  <2> QED BY <2>1 DEF Loops
<1>4. g = Loop(g)
  <2>1. ASSUME NEW i \in 1 .. n PROVE g[i] = Consume(g[i - 1], f[i])
    <3>1. i - 1 \in 0 .. n
      BY <1>1
    <3>2. g[i - 1] \in Object128
      BY <3>1
    <3> QED BY <1>3, <3>2
  <2>2. \A i \in 0 .. n : g[i] = IF i = 0 THEN o ELSE Consume(g[i - 1], f[i])
    <3> HIDE DEF F
    <3> QED BY <1>1, <1>3, <2>1
  <2> HIDE DEF F
  <2> QED BY <2>2
<1>5. w = Loop(w)
  BY <1>4
<1>6. ConsumeAll(o, f) = w[n]
  BY DEF ConsumeAll
<1>7. w[0] = o /\ \A i \in 1 .. n : w[i] = Consume(w[i - 1], f[i])
  <2> HIDE DEF w
  <2> QED BY <1>1, <1>5
<1> QED BY <1>6, <1>7

(* It changes the accumulator and the count of stripes alone. *)
OnlyFed(o, c) ==
  c \in Object128 /\ c = With(o, o.buffer, c.acc, o.n, o.m, c.num_stripes)

LEMMA ConsumeOnlyFeeds ==
  ASSUME NEW o \in Object128, NEW c, OnlyFed(o, c), NEW stripe \in Block(Stripe, Nat)
  PROVE  OnlyFed(o, Consume(c, stripe)) /\ stripes_per_block(c) = stripes_per_block(o)
<1> DEFINE d == Consume(c, stripe)
<1>1. c \in Object128 /\ c = With(o, o.buffer, c.acc, o.n, o.m, c.num_stripes)
  BY DEF OnlyFed
<1>2. c.buffer = o.buffer /\ c.n = o.n /\ c.m = o.m /\ stripes_per_block(c) = stripes_per_block(o)
  BY <1>1, WithIs
<1>3. d \in Object128 /\ \E a, k : d = With(c, c.buffer, a, c.n, c.m, k)
  BY <1>1, ConsumeIs
<1> HIDE DEF d
<1>4. PICK a, k : d = With(c, c.buffer, a, c.n, c.m, k)
  BY <1>3
<1>5. d.acc = a /\ d.num_stripes = k
  BY <1>4, WithIs
<1>6. d = With(o, o.buffer, a, o.n, o.m, k)
  <2>1. With(c, o.buffer, a, o.n, o.m, k) = With(o, o.buffer, a, o.n, o.m, k)
    BY <1>1, WithWith
  <2> QED BY <1>2, <1>4, <2>1, Zenon
<1> QED BY <1>2, <1>3, <1>5, <1>6, Zenon DEF OnlyFed, d

LEMMA ConsumeAllFeeds ==
  ASSUME NEW o \in Object128, NEW f \in BlockSeq(Stripe, Nat)
  PROVE  OnlyFed(o, ConsumeAll(o, f))
<1>1. PICK w : /\ w[0] = o /\ w[Len(f)] = ConsumeAll(o, f)
               /\ \A i \in 1 .. Len(f) : w[i] = Consume(w[i - 1], f[i])
  BY ConsumedSteps
<1> DEFINE n == Len(f)
           S == {i \in 0 .. n : OnlyFed(o, w[i])}
<1>2. n \in Nat /\ \A i \in 1 .. n : f[i] \in Block(Stripe, Nat)
  BY LenProperties, ElementOfSeq DEF BlockSeq
<1>3. 0 \in S
  <2>1. OnlyFed(o, o)
    BY ObjectFacts DEF OnlyFed
  <2> QED BY <1>1, <1>2, <2>1
<1>4. ASSUME NEW i \in 0 .. n - 1, i \in S PROVE i + 1 \in S
  <2>1. i + 1 \in 1 .. n /\ (i + 1) - 1 = i /\ i + 1 \in 0 .. n
    BY <1>2
  <2>2. w[i + 1] = Consume(w[i], f[i + 1]) /\ f[i + 1] \in Block(Stripe, Nat) /\ OnlyFed(o, w[i])
    BY <1>1, <1>2, <1>4, <2>1
  <2>3. OnlyFed(o, w[i + 1])
    BY <2>2, ConsumeOnlyFeeds
  <2> QED BY <2>1, <2>3
<1> HIDE DEF S
<1>5. \A i \in 0 .. n : i \in S
  BY <1>2, <1>3, <1>4, Induction
<1>6. n \in 0 .. n
  BY <1>2
<1> QED BY <1>1, <1>5, <1>6 DEF S

(* o has taken in the first d stripes of a message. *)
InStep(o, bytes, d) ==
  /\ o.acc = Accumulated(stripes_per_block(o), bytes, d)
  /\ o.num_stripes = d % stripes_per_block(o)

LEMMA ConsumeInStep ==
  ASSUME NEW o \in Object128, NEW bytes \in Seq(Nat), NEW d \in Nat, InStep(o, bytes, d),
         NEW stripe \in Block(Stripe, Nat), stripe = StripeOf(bytes, d + 1)
  PROVE  InStep(Consume(o, stripe), bytes, d + 1)
<1> DEFINE P == stripes_per_block(o)
           a == Append(o.acc, Step("accumulate", o.num_stripes, stripe))
           z == Append(a, Step("scramble", 0, << >>))
           c == Consume(o, stripe)
<1>1. P \in Nat \ {0}
  BY PartsPositive
<1>2. o.acc = Accumulated(P, bytes, d) /\ o.num_stripes = d % P /\ d % P \in 0 .. P - 1
  BY <1>1, DivMod DEF InStep
<1>3. c = IF o.num_stripes + 1 = P THEN With(o, o.buffer, z, o.n, o.m, 0)
          ELSE With(o, o.buffer, a, o.n, o.m, o.num_stripes + 1)
  BY ConsumeIs
<1>4. Accumulated(P, bytes, d + 1) = IF (d % P) + 1 = P THEN z ELSE a
  BY <1>1, <1>2, AccumulatedNext
<1>5. (d + 1) % P = IF (d % P) + 1 = P THEN 0 ELSE (d % P) + 1
  <2>1. (d % P) + 1 = P \/ (d % P) + 1 < P
    BY <1>1, <1>2
  <2>2. (d % P) + 1 = P => (d + 1) % P = 0
    BY <1>1, NextPart
  <2>3. (d % P) + 1 < P => (d + 1) % P = (d % P) + 1
    BY <1>1, NextPart
  <2>4. (d % P) + 1 < P => ~((d % P) + 1 = P)
    BY <1>1, <1>2
  <2> QED BY <2>1, <2>2, <2>3, <2>4
<1> HIDE DEF P, a, z, c
<1>6. CASE (d % P) + 1 = P
  <2>1. c.acc = z /\ c.num_stripes = 0 /\ stripes_per_block(c) = P
    BY <1>2, <1>3, <1>6, WithIs DEF P
  <2> QED BY <1>4, <1>5, <1>6, <2>1 DEF InStep, c
<1>7. CASE ~((d % P) + 1 = P)
  <2>1. c.acc = a /\ c.num_stripes = (d % P) + 1 /\ stripes_per_block(c) = P
    BY <1>2, <1>3, <1>7, WithIs DEF P
  <2> QED BY <1>4, <1>5, <1>7, <2>1 DEF InStep, c
<1> QED BY <1>6, <1>7

(* Fed with the next stripes of the message, the object stays in step. *)
LEMMA ConsumeAllInStep ==
  ASSUME NEW o \in Object128, NEW bytes \in Seq(Nat), NEW d \in Nat, InStep(o, bytes, d),
         NEW f \in BlockSeq(Stripe, Nat),
         \A j \in 1 .. Len(f) : f[j] = StripeOf(bytes, d + j)
  PROVE  InStep(ConsumeAll(o, f), bytes, d + Len(f))
<1>1. PICK w : /\ w[0] = o /\ w[Len(f)] = ConsumeAll(o, f)
               /\ \A i \in 1 .. Len(f) : w[i] = Consume(w[i - 1], f[i])
  BY ConsumedSteps
<1> DEFINE n == Len(f)
           S == {i \in 0 .. n : w[i] \in Object128 /\ InStep(w[i], bytes, d + i)}
<1>2. n \in Nat /\ \A i \in 1 .. n : f[i] \in Block(Stripe, Nat)
  BY LenProperties, ElementOfSeq DEF BlockSeq
<1>3. 0 \in S
  <2>1. d + 0 = d
    OBVIOUS
  <2>2. w[0] \in Object128 /\ InStep(w[0], bytes, d + 0)
    BY <1>1, <2>1
  <2> QED BY <1>2, <2>2
<1>4. ASSUME NEW i \in 0 .. n - 1, i \in S PROVE i + 1 \in S
  <2>1. i + 1 \in 1 .. n /\ (i + 1) - 1 = i /\ i + 1 \in 0 .. n /\ d + i \in Nat
        /\ d + (i + 1) = (d + i) + 1
    BY <1>2
  <2>2. /\ w[i + 1] = Consume(w[i], f[i + 1]) /\ f[i + 1] \in Block(Stripe, Nat)
        /\ f[i + 1] = StripeOf(bytes, (d + i) + 1)
        /\ w[i] \in Object128 /\ InStep(w[i], bytes, d + i)
    BY <1>1, <1>2, <1>4, <2>1
  <2>3. w[i + 1] \in Object128
    BY <2>2, ConsumeIs
  <2>4. InStep(w[i + 1], bytes, d + (i + 1))
    BY <2>1, <2>2, ConsumeInStep
  <2> QED BY <2>1, <2>3, <2>4
<1> HIDE DEF S
<1>5. \A i \in 0 .. n : i \in S
  BY <1>2, <1>3, <1>4, Induction
<1>6. n \in 0 .. n
  BY <1>2
<1> QED BY <1>1, <1>5, <1>6 DEF S

------------------------------------------------------------------------------
(* update *)

(* c is buffer with p at offset. *)
Copied(c, buffer, offset, p) ==
  /\ c \in Block(buffer_size, Nat)
  /\ \A i \in 1 .. buffer_size :
       c[i] = IF offset < i /\ i <= offset + Len(p) THEN p[i - offset] ELSE buffer[i]

LEMMA CopyAt ==
  ASSUME NEW buffer \in Block(buffer_size, Nat), NEW offset \in Nat, NEW p \in Seq(Nat)
  PROVE  Copied(CopyTo(buffer, offset, p), buffer, offset, p)
<1>1. buffer_size \in Nat
  BY Sizes
<1>2. Len(buffer) = buffer_size
  BY <1>1 DEF Block
<1>3. CopyTo(buffer, offset, p) \in Block(buffer_size, Nat)
  BY <1>1, CopyToType
<1> QED BY <1>2, <1>3 DEF CopyTo, Copied

(* Cutting w stripes from the start of q, which leaves at least a byte and *)
(* at most a stripe. *)
Cut(q, w, t) ==
  LET f    == Blocks(Stripe, SubSeq(q, 1, t))
      last == SubSeq(q, (w - 1) * Stripe + 1, t)
      rest == SubSeq(q, t + 1, Len(q))
  IN  /\ w \in Nat \ {0} /\ t = Total(Stripe, w) /\ t \in Nat
      /\ Len(q) - t \in 1 .. Stripe
      /\ f \in BlockSeq(Stripe, Nat) /\ Len(f) = w
      /\ \A j \in 1 .. w, i \in 1 .. Stripe : f[j][i] = q[Total(Stripe, j - 1) + i]
      /\ last \in Block(Stripe, Nat)
      /\ \A i \in 1 .. Stripe : last[i] = q[Total(Stripe, w - 1) + i]
      /\ rest \in Seq(Nat) /\ Len(rest) = Len(q) - t
      /\ \A i \in 1 .. Len(q) - t : rest[i] = q[t + i]

LEMMA CutOf ==
  ASSUME NEW q \in Seq(Nat), Len(q) > buffer_size
  PROVE  LET w == (Len(q) - 1) \div Stripe IN Cut(q, w, w * Stripe)
<1> DEFINE w == (Len(q) - 1) \div Stripe
           x == (Len(q) - 1) % Stripe
           t == Total(Stripe, w)
           g == SubSeq(q, 1, t)
           f == Blocks(Stripe, g)
           last == SubSeq(q, (w - 1) * Stripe + 1, t)
           rest == SubSeq(q, t + 1, Len(q))
<1>1. Len(q) \in Nat /\ Len(q) - 1 \in Nat /\ Stripe \in Nat \ {0} /\ Len(q) - 1 >= Stripe
  BY Sizes
<1>2. w \in Nat /\ x \in 0 .. Stripe - 1 /\ Len(q) - 1 = t + x
  <2>1. w \in Nat /\ x \in 0 .. Stripe - 1 /\ Len(q) - 1 = Total(Stripe, w) + x
    BY <1>1, WholeRest, Zenon DEF Whole, Rest
  <2> QED BY <2>1
<1>3. w # 0
  <2>1. SUFFICES ASSUME w = 0 PROVE FALSE
    OBVIOUS
  <2>2. t = 0
    BY <1>1, <2>1, TotalOne
  <2> HIDE DEF w, x, t
  <2> QED BY <1>1, <1>2, <2>2
<1> HIDE DEF w, x
<1>4. t \in Nat
  BY <1>1, <1>2, TotalType
<1>5. PICK u \in Nat : w = u + 1
  <2>1. w - 1 \in Nat /\ w = (w - 1) + 1
    BY <1>2, <1>3
  <2> QED BY <2>1
<1>6. Total(Stripe, u) \in Nat /\ t = Total(Stripe, u) + Stripe
  BY <1>5, NextTotal
<1>7. w * Stripe = t /\ (w - 1) * Stripe = Total(Stripe, u) /\ w - 1 = u
  <2>1. w - 1 = u
    BY <1>5
  <2> QED BY <2>1, Zenon DEF Total
<1> HIDE DEF t
<1>8. Len(q) - t \in 1 .. Stripe /\ t <= Len(q)
  BY <1>1, <1>2, <1>4
<1>9. g \in Seq(Nat) /\ Len(g) = t /\ \A i \in 1 .. t : g[i] = q[i]
  BY <1>4, <1>8, Prefix
<1>10. Whole(Stripe, t) = w
  <2>1. 0 \in 0 .. Stripe - 1 /\ t + 0 = t
    BY <1>1, <1>4
  <2>2. Whole(Stripe, t + 0) = w
    BY <1>1, <1>2, <2>1, WholeRestUnique DEF t
  <2> QED BY <2>1, <2>2, Zenon
<1> HIDE DEF g
<1>11. /\ f \in BlockSeq(Stripe, Nat) /\ Len(f) = w
       /\ \A j \in 1 .. w, i \in 1 .. Stripe : f[j][i] = q[Total(Stripe, j - 1) + i]
  <2>1. /\ f \in BlockSeq(Stripe, Nat) /\ Len(f) = w
        /\ \A j \in 1 .. w, i \in 1 .. Stripe : f[j][i] = g[Pos(Stripe, j, i)]
    <3>1. /\ f \in BlockSeq(Stripe, Nat) /\ Len(f) = Whole(Stripe, Len(g))
          /\ \A j \in 1 .. Whole(Stripe, Len(g)), i \in 1 .. Stripe : f[j][i] = g[Pos(Stripe, j, i)]
      BY <1>1, <1>9, BlocksType, ZenonT(60)
    <3> QED BY <1>9, <1>10, <3>1, Zenon
  <2>2. ASSUME NEW j \in 1 .. w, NEW i \in 1 .. Stripe
        PROVE  Pos(Stripe, j, i) \in 1 .. t /\ Pos(Stripe, j, i) = Total(Stripe, j - 1) + i
    <3>1. j \in Nat \ {0}
      BY <1>2
    <3> QED BY <1>1, <1>2, <3>1, PosType, PosFirst DEF t
  <2> HIDE DEF f
  <2>3. ASSUME NEW j \in 1 .. w, NEW i \in 1 .. Stripe
        PROVE  f[j][i] = q[Total(Stripe, j - 1) + i]
    BY <1>9, <2>1, <2>2
  <2> QED BY <2>1, <2>3
<1>12. /\ last \in Block(Stripe, Nat)
       /\ \A i \in 1 .. Stripe : last[i] = q[Total(Stripe, w - 1) + i]
  <2> DEFINE v == Total(Stripe, u)
  <2>1. v \in Nat /\ v + Stripe <= Len(q) /\ Stripe \in Nat
    BY <1>1, <1>6, <1>8
  <2>2. last = SubSeq(q, v + 1, v + Stripe)
    BY <1>6, <1>7, Zenon
  <2> HIDE DEF v, last
  <2>3. /\ SubSeq(q, v + 1, v + Stripe) \in [1 .. Stripe -> Nat]
        /\ \A i \in 1 .. Stripe : SubSeq(q, v + 1, v + Stripe)[i] = q[v + i]
    <3> DEFINE S == Stripe
    <3>1. S \in Nat /\ v + S <= Len(q)
      BY <2>1
    <3> HIDE DEF S
    <3>2. /\ SubSeq(q, v + 1, v + S) \in [1 .. S -> Nat]
          /\ \A i \in 1 .. S : SubSeq(q, v + 1, v + S)[i] = q[v + i]
      BY <2>1, <3>1, BytesPart
    <3> QED BY <3>2 DEF S
  <2> QED BY <1>7, <2>2, <2>3, Zenon DEF Block, v
<1>13. /\ rest \in Seq(Nat) /\ Len(rest) = Len(q) - t
       /\ \A i \in 1 .. Len(q) - t : rest[i] = q[t + i]
  <2> DEFINE d == Len(q) - t
  <2>1. d \in Nat /\ t + d <= Len(q) /\ t + d = Len(q)
    BY <1>1, <1>4, <1>8
  <2> HIDE DEF d
  <2>2. /\ SubSeq(q, t + 1, t + d) \in Seq(Nat) /\ Len(SubSeq(q, t + 1, t + d)) = d
        /\ \A i \in 1 .. d : SubSeq(q, t + 1, t + d)[i] = q[t + i]
    BY <1>4, <2>1, Part
  <2> QED BY <2>1, <2>2, Zenon DEF d
<1> HIDE DEF f, last, rest
<1>14. Cut(q, w, t)
  BY <1>2, <1>3, <1>4, <1>8, <1>11, <1>12, <1>13, Zenon DEF Cut, f, g, last, rest, t
<1> QED BY <1>7, <1>14, Zenon DEF w

(* Absorb of more than a buffer. *)
Kept(o, q, w, t) ==
  CopyTo(CopyTo(o.buffer, buffer_size - Stripe, SubSeq(q, (w - 1) * Stripe + 1, t)),
         0, SubSeq(q, t + 1, Len(q)))

LEMMA KeptIs ==
  ASSUME NEW o \in Object128, NEW q \in Seq(Nat), NEW w, NEW t, Cut(q, w, t)
  PROVE  /\ Kept(o, q, w, t) \in Block(buffer_size, Nat)
         /\ \A i \in 1 .. Len(q) - t : Kept(o, q, w, t)[i] = q[t + i]
         /\ \A i \in 1 .. Stripe :
              Kept(o, q, w, t)[3 * Stripe + i] = q[Total(Stripe, w - 1) + i]
<1> DEFINE last == SubSeq(q, (w - 1) * Stripe + 1, t)
           rest == SubSeq(q, t + 1, Len(q))
           b == CopyTo(o.buffer, buffer_size - Stripe, last)
           c == CopyTo(b, 0, rest)
<1>1. /\ Stripe \in Nat \ {0} /\ buffer_size = 4 * Stripe /\ o.buffer \in Block(buffer_size, Nat)
      /\ buffer_size - Stripe \in Nat /\ buffer_size - Stripe = 3 * Stripe /\ 0 \in Nat
  BY Sizes, ObjectFacts
<1>2. /\ last \in Block(Stripe, Nat)
      /\ \A i \in 1 .. Stripe : last[i] = q[Total(Stripe, w - 1) + i]
      /\ rest \in Seq(Nat) /\ Len(rest) = Len(q) - t /\ Len(q) - t \in 1 .. Stripe
      /\ \A i \in 1 .. Len(q) - t : rest[i] = q[t + i]
  BY Zenon DEF Cut
<1> HIDE DEF last, rest
<1>3. last \in Seq(Nat) /\ Len(last) = Stripe
  <2>1. Stripe \in Nat /\ last \in [1 .. Stripe -> Nat]
    BY <1>1, <1>2 DEF Block
  <2> QED BY <2>1
<1>4. /\ b \in Block(buffer_size, Nat)
      /\ \A i \in 1 .. buffer_size :
           b[i] = IF buffer_size - Stripe < i /\ i <= buffer_size - Stripe + Stripe
                  THEN last[i - (buffer_size - Stripe)] ELSE o.buffer[i]
  <2> DEFINE v == buffer_size - Stripe
  <2>1. v \in Nat
    BY <1>1
  <2> HIDE DEF v
  <2>2. Copied(CopyTo(o.buffer, v, last), o.buffer, v, last)
    BY <1>1, <1>3, <2>1, CopyAt, Zenon
  <2>3. b = CopyTo(o.buffer, v, last)
    BY DEF v
  <2> HIDE DEF b
  <2> QED BY <1>3, <2>2, <2>3, Zenon DEF v, Copied
<1> HIDE DEF b
<1>5. /\ c \in Block(buffer_size, Nat)
      /\ \A i \in 1 .. buffer_size :
           c[i] = IF 0 < i /\ i <= 0 + Len(rest) THEN rest[i - 0] ELSE b[i]
  BY <1>1, <1>2, <1>4, CopyAt, ZenonT(60) DEF Copied
<1> HIDE DEF c
<1>6. ASSUME NEW i \in 1 .. Len(q) - t PROVE c[i] = q[t + i]
  <2>1. i \in 1 .. buffer_size /\ 0 < i /\ i <= 0 + Len(rest) /\ i - 0 = i
    BY <1>1, <1>2
  <2> QED BY <1>2, <1>5, <2>1
<1>7. ASSUME NEW i \in 1 .. Stripe PROVE c[3 * Stripe + i] = q[Total(Stripe, w - 1) + i]
  <2>1. PICK x \in 1 .. buffer_size : x = 3 * Stripe + i
    BY <1>1
  <2>2. /\ ~(x <= 0 + Len(rest)) /\ buffer_size - Stripe < x
        /\ x <= buffer_size - Stripe + Stripe /\ x - (buffer_size - Stripe) = i
    BY <1>1, <1>2, <2>1
  <2>3. c[x] = b[x] /\ b[x] = last[i]
    BY <1>4, <1>5, <2>2
  <2> QED BY <1>2, <2>1, <2>3
<1> QED BY <1>5, <1>6, <1>7 DEF Kept, c, b, last, rest

Run(q, t) == Blocks(Stripe, SubSeq(q, 1, t))

LEMMA AbsorbIs ==
  ASSUME NEW o \in Object128, NEW q \in Seq(Nat), Len(q) > 0
  PROVE  /\ Len(q) <= buffer_size =>
              Absorb(o, q) = With(o, CopyTo(o.buffer, 0, q), o.acc, o.n, Len(q), o.num_stripes)
         /\ Len(q) > buffer_size =>
              \E w, t : /\ Cut(q, w, t)
                        /\ LET c == ConsumeAll(o, Run(q, t)) IN
                           Absorb(o, q) = With(o, Kept(o, q, w, t), c.acc, o.n, Len(q) - t,
                                               c.num_stripes)
<1>1. Len(q) \in Nat /\ buffer_size \in Nat /\ Stripe \in Nat /\ Stripe <= buffer_size
      /\ o.buffer \in Block(buffer_size, Nat) /\ 0 \in Nat
  BY Sizes, ObjectFacts
<1>2. ASSUME Len(q) <= buffer_size
      PROVE  Absorb(o, q) = With(o, CopyTo(o.buffer, 0, q), o.acc, o.n, Len(q), o.num_stripes)
  <2> DEFINE b == CopyTo(o.buffer, 0, q)
             m == Len(q)
  <2>1. b \in Block(buffer_size, Nat) /\ m \in 0 .. buffer_size
    BY <1>1, <1>2, CopyAt DEF Copied
  <2>2. Absorb(o, q) = [o EXCEPT !.buffer = CopyTo(@, 0, q), !.m = m]
    BY <1>2, Zenon DEF Absorb
  <2>3. [o EXCEPT !.buffer = CopyTo(@, 0, q), !.m = m] = [o EXCEPT !.buffer = b, !.m = m]
    BY DEF Object128
  <2> HIDE DEF b, m
  <2>4. [o EXCEPT !.buffer = b, !.m = m] = With(o, b, o.acc, o.n, m, o.num_stripes)
    BY <2>1, AssignedBuffer
  <2> QED BY <2>2, <2>3, <2>4 DEF b, m
<1>3. ASSUME Len(q) > buffer_size
      PROVE  \E w, t : /\ Cut(q, w, t)
                       /\ LET c == ConsumeAll(o, Run(q, t)) IN
                          Absorb(o, q) = With(o, Kept(o, q, w, t), c.acc, o.n, Len(q) - t,
                                              c.num_stripes)
  <2> DEFINE w == (Len(q) - 1) \div Stripe
             t == w * Stripe
             c == ConsumeAll(o, Run(q, t))
             b == Kept(o, q, w, t)
             m == Len(q) - t
  <2>1. Cut(q, w, t)
    BY <1>3, CutOf
  <2>2. Absorb(o, q) = [c EXCEPT !.buffer = CopyTo(KeepLast(@, SubSeq(q, (w - 1) * Stripe + 1, t)),
                                                   0, SubSeq(q, t + 1, Len(q))),
                                 !.m = m]
    <3>1. ~(Len(q) <= buffer_size)
      BY <1>1, <1>3
    <3> QED BY <3>1, Zenon DEF Absorb, Run
  <2> HIDE DEF w, t
  <2>3. OnlyFed(o, c)
    <3>1. Run(q, t) \in BlockSeq(Stripe, Nat)
      BY <2>1 DEF Cut, Run
    <3> QED BY <3>1, ConsumeAllFeeds
  <2> HIDE DEF c
  <2>4. c \in Object128 /\ c = With(o, o.buffer, c.acc, o.n, o.m, c.num_stripes)
    BY <2>3 DEF OnlyFed
  <2>5. c.buffer = o.buffer /\ c.n = o.n /\ c.m = o.m
    BY <2>4, WithIs
  <2>6. b = CopyTo(KeepLast(c.buffer, SubSeq(q, (w - 1) * Stripe + 1, t)), 0,
                   SubSeq(q, t + 1, Len(q)))
    BY <2>5, Zenon DEF Kept, KeepLast
  <2>7. b \in Block(buffer_size, Nat) /\ m \in 0 .. buffer_size
    <3>1. Len(q) - t \in 1 .. Stripe
      BY <2>1 DEF Cut
    <3> QED BY <1>1, <2>1, <3>1, KeptIs
  <2>8. Absorb(o, q) = [c EXCEPT !.buffer = b, !.m = m]
    <3> HIDE DEF b, m
    <3> QED BY <2>2, <2>4, <2>6 DEF Object128
  <2> HIDE DEF b, m
  <2>9. [c EXCEPT !.buffer = b, !.m = m] = With(c, b, c.acc, c.n, m, c.num_stripes)
    BY <2>4, <2>7, AssignedBuffer
  <2>10. Absorb(o, q) = With(o, b, c.acc, o.n, m, c.num_stripes)
    <3>1. With(c, b, c.acc, o.n, m, c.num_stripes) = With(o, b, c.acc, o.n, m, c.num_stripes)
      BY <2>4, WithWith
    <3> QED BY <2>5, <2>8, <2>9, <3>1, Zenon
  <2> QED BY <2>1, <2>10 DEF b, c, m
<1> QED BY <1>2, <1>3

LEMMA AbsorbType ==
  ASSUME NEW o \in Object128, NEW q \in Seq(Nat), Len(q) > 0
  PROVE  LET a == Absorb(o, q) IN
         /\ a \in Object128 /\ a.m > 0 /\ a.n = o.n
         /\ a.secret_len = o.secret_len
<1> DEFINE a == Absorb(o, q)
<1>1. Len(q) \in Nat /\ buffer_size \in Nat /\ Stripe \in Nat \ {0} /\ Stripe <= buffer_size
  BY Sizes
<1>2. /\ o.buffer \in Block(buffer_size, Nat) /\ o.acc \in Seq(StepType)
      /\ o.n \in Nat /\ o.num_stripes \in Nat
  BY ObjectFacts
<1>3. ASSUME Len(q) <= buffer_size
      PROVE  a \in Object128 /\ a.m > 0 /\ a.n = o.n /\ a.secret_len = o.secret_len
  <2> DEFINE b == CopyTo(o.buffer, 0, q)
             m == Len(q)
  <2>1. b \in Block(buffer_size, Nat) /\ m \in 0 .. buffer_size /\ m > 0
    BY <1>1, <1>2, <1>3, CopyAt DEF Copied
  <2>2. a = With(o, b, o.acc, o.n, m, o.num_stripes)
    BY <1>3, AbsorbIs
  <2> HIDE DEF a, b, m
  <2>3. a \in Object128
    BY <1>2, <2>1, <2>2, WithType
  <2>4. a.m = m /\ a.n = o.n /\ a.secret_len = o.secret_len
    BY <2>2, WithIs
  <2> QED BY <2>1, <2>3, <2>4
<1>4. ASSUME Len(q) > buffer_size
      PROVE  a \in Object128 /\ a.m > 0 /\ a.n = o.n /\ a.secret_len = o.secret_len
  <2>1. PICK w, t : /\ Cut(q, w, t)
                    /\ LET c == ConsumeAll(o, Run(q, t)) IN
                       a = With(o, Kept(o, q, w, t), c.acc, o.n, Len(q) - t, c.num_stripes)
    BY <1>4, AbsorbIs
  <2> DEFINE b == Kept(o, q, w, t)
             c == ConsumeAll(o, Run(q, t))
             m == Len(q) - t
  <2>2. Run(q, t) \in BlockSeq(Stripe, Nat) /\ m \in 1 .. Stripe
    BY <2>1 DEF Cut, Run
  <2>3. c \in Object128
    BY <2>2, ConsumeAllFeeds DEF OnlyFed
  <2>4. c.acc \in Seq(StepType) /\ c.num_stripes \in Nat
    <3> HIDE DEF c
    <3> QED BY <2>3, ObjectFacts
  <2>5. b \in Block(buffer_size, Nat)
    BY <2>1, KeptIs
  <2>6. a = With(o, b, c.acc, o.n, m, c.num_stripes)
    BY <2>1
  <2> HIDE DEF a, b, c, m
  <2>7. m \in 0 .. buffer_size /\ m > 0
    BY <1>1, <2>2
  <2>8. a \in Object128
    BY <1>2, <2>4, <2>5, <2>6, <2>7, WithType
  <2>9. a.m = m /\ a.n = o.n /\ a.secret_len = o.secret_len
    BY <2>6, WithIs
  <2> QED BY <2>7, <2>8, <2>9
<1> QED BY <1>1, <1>3, <1>4

(* The stripes of a part of the message, and of the message. *)
LEMMA RunStripes ==
  ASSUME NEW bytes \in Seq(Nat), NEW d \in Nat, NEW f \in BlockSeq(Stripe, Nat),
         Total(Stripe, d) + Total(Stripe, Len(f)) <= Len(bytes),
         \A j \in 1 .. Len(f), i \in 1 .. Stripe :
           f[j][i] = bytes[Total(Stripe, d) + (Total(Stripe, j - 1) + i)]
  PROVE  \A j \in 1 .. Len(f) : f[j] = StripeOf(bytes, d + j)
<1> SUFFICES ASSUME NEW j \in 1 .. Len(f) PROVE f[j] = StripeOf(bytes, d + j)
  OBVIOUS
<1>1. Len(f) \in Nat /\ f[j] \in Block(Stripe, Nat) /\ Stripe \in Nat \ {0}
  BY Sizes, LenProperties, ElementOfSeq DEF BlockSeq
<1>2. PICK u \in Nat : j = u + 1 /\ u < Len(f)
  <2>1. j - 1 \in Nat /\ j = (j - 1) + 1 /\ j - 1 < Len(f)
    BY <1>1
  <2> QED BY <2>1
<1>3. /\ Total(Stripe, d) \in Nat /\ Total(Stripe, u) \in Nat /\ Total(Stripe, Len(f)) \in Nat
      /\ Total(Stripe, d + u) = Total(Stripe, d) + Total(Stripe, u)
      /\ Total(Stripe, u) + Stripe <= Total(Stripe, Len(f))
  BY <1>1, <1>2, TotalType, TotalPlus, TotalMonotonic
<1>4. d + u \in Nat /\ (d + u) + 1 = d + j /\ j - 1 = u
  BY <1>2
<1>5. Total(Stripe, (d + u) + 1) = Total(Stripe, d + u) + Stripe
  BY <1>4, NextTotal
<1>6. Len(bytes) \in Nat
  OBVIOUS
<1>7. Total(Stripe, (d + u) + 1) <= Len(bytes)
  BY <1>1, <1>3, <1>5, <1>6, SMTT(30)
<1>8. ASSUME NEW i \in 1 .. Stripe PROVE f[j][i] = bytes[Total(Stripe, d + u) + i]
  <2>1. Total(Stripe, d) + (Total(Stripe, j - 1) + i) = Total(Stripe, d + u) + i
    BY <1>1, <1>3, <1>4
  <2> QED BY <2>1
<1>9. f[j] = StripeOf(bytes, (d + u) + 1)
  BY <1>1, <1>4, <1>7, <1>8, StripeUnique
<1> QED BY <1>4, <1>9

(* The end of the buffer is the last stripe taken in. *)
Follows(buffer, bytes, d) ==
  \A i \in 1 .. Stripe : buffer[3 * Stripe + i] = bytes[Total(Stripe, d - 1) + i]

(* o has taken in d stripes of the message and holds the rest of it. *)
Holds(o, bytes, d) ==
  /\ InStep(o, bytes, d)
  /\ Len(bytes) = Total(Stripe, d) + o.m
  /\ \A i \in 1 .. o.m : o.buffer[i] = bytes[Total(Stripe, d) + i]
  /\ d > 0 /\ o.m <= 3 * Stripe => Follows(o.buffer, bytes, d)
  /\ d > 0 => o.m > 0 /\ Len(bytes) > buffer_size

(* o has taken in d stripes, and q is the rest of the message. *)
Ready(o, q, bytes, d) ==
  /\ InStep(o, bytes, d)
  /\ Len(bytes) = Total(Stripe, d) + Len(q)
  /\ \A i \in 1 .. Len(q) : q[i] = bytes[Total(Stripe, d) + i]
  /\ d > 0 => Follows(o.buffer, bytes, d) /\ Len(bytes) > buffer_size

LEMMA InStepOf ==
  ASSUME NEW o, NEW c, NEW bytes, NEW d, InStep(c, bytes, d),
         o.acc = c.acc, o.num_stripes = c.num_stripes,
         stripes_per_block(o) = stripes_per_block(c)
  PROVE  InStep(o, bytes, d)
BY Zenon DEF InStep

LEMMA AbsorbHolds ==
  ASSUME NEW o \in Object128, NEW q \in Seq(Nat), Len(q) > 0,
         NEW bytes \in Seq(Nat), NEW d \in Nat, Ready(o, q, bytes, d)
  PROVE  \E e \in Nat : Holds(Absorb(o, q), bytes, e)
<1> DEFINE a == Absorb(o, q)
<1>1. /\ Len(q) \in Nat /\ Len(bytes) \in Nat /\ buffer_size \in Nat /\ Stripe \in Nat \ {0}
      /\ buffer_size = 4 * Stripe /\ Total(Stripe, d) \in Nat /\ 0 \in Nat
  BY Sizes, NextTotal, LenProperties
<1>2. /\ o.buffer \in Block(buffer_size, Nat) /\ o.acc \in Seq(StepType)
      /\ o.n \in Nat /\ o.num_stripes \in Nat
  BY ObjectFacts
<1>3. /\ InStep(o, bytes, d) /\ Len(bytes) = Total(Stripe, d) + Len(q)
      /\ \A i \in 1 .. Len(q) : q[i] = bytes[Total(Stripe, d) + i]
      /\ d > 0 => Follows(o.buffer, bytes, d) /\ Len(bytes) > buffer_size
  BY DEF Ready
<1>4. CASE Len(q) <= buffer_size
  <2> DEFINE b == CopyTo(o.buffer, 0, q)
  <2>1. \A i \in 1 .. buffer_size :
           b[i] = IF 0 < i /\ i <= 0 + Len(q) THEN q[i - 0] ELSE o.buffer[i]
    BY <1>1, <1>2, CopyAt, ZenonT(60) DEF Copied
  <2>2. a = With(o, b, o.acc, o.n, Len(q), o.num_stripes)
    BY <1>4, AbsorbIs
  <2> HIDE DEF a, b
  <2>3. /\ a.buffer = b /\ a.acc = o.acc /\ a.m = Len(q) /\ a.num_stripes = o.num_stripes
        /\ stripes_per_block(a) = stripes_per_block(o)
    BY <2>2, WithIs
  <2>4. InStep(a, bytes, d)
    BY <1>3, <2>3, InStepOf
  <2>5. ASSUME NEW i \in 1 .. a.m PROVE a.buffer[i] = bytes[Total(Stripe, d) + i]
    <3>1. i \in 1 .. buffer_size /\ i \in 1 .. Len(q) /\ i - 0 = i /\ 0 < i /\ i <= 0 + Len(q)
      BY <1>1, <1>4, <2>3
    <3> QED BY <1>3, <2>1, <2>3, <3>1
  <2>6. ASSUME d > 0, a.m <= 3 * Stripe PROVE Follows(a.buffer, bytes, d)
    <3> SUFFICES ASSUME NEW i \in 1 .. Stripe
                 PROVE  a.buffer[3 * Stripe + i] = bytes[Total(Stripe, d - 1) + i]
      BY DEF Follows
    <3>1. 3 * Stripe + i \in 1 .. buffer_size /\ ~(3 * Stripe + i <= 0 + Len(q))
      BY <1>1, <2>3, <2>6
    <3>2. a.buffer[3 * Stripe + i] = o.buffer[3 * Stripe + i]
      BY <2>1, <2>3, <3>1
    <3> QED BY <1>3, <2>6, <3>2 DEF Follows
  <2>7. Holds(a, bytes, d)
    BY <1>3, <2>3, <2>4, <2>5, <2>6 DEF Holds
  <2> QED BY <2>7 DEF a
<1>5. CASE Len(q) > buffer_size
  <2>1. PICK w, t : /\ Cut(q, w, t)
                    /\ LET c == ConsumeAll(o, Run(q, t)) IN
                       a = With(o, Kept(o, q, w, t), c.acc, o.n, Len(q) - t, c.num_stripes)
    BY <1>5, AbsorbIs
  <2> DEFINE b == Kept(o, q, w, t)
             f == Run(q, t)
             c == ConsumeAll(o, f)
             m == Len(q) - t
  <2>2. /\ w \in Nat \ {0} /\ t = Total(Stripe, w) /\ t \in Nat /\ m \in 1 .. Stripe
        /\ f \in BlockSeq(Stripe, Nat) /\ Len(f) = w
        /\ \A j \in 1 .. w, i \in 1 .. Stripe : f[j][i] = q[Total(Stripe, j - 1) + i]
    BY <2>1 DEF Cut, Run
  <2>3. /\ \A i \in 1 .. m : b[i] = q[t + i]
        /\ \A i \in 1 .. Stripe : b[3 * Stripe + i] = q[Total(Stripe, w - 1) + i]
    BY <2>1, KeptIs, SMTT(30)
  <2>4. a = With(o, b, c.acc, o.n, m, c.num_stripes)
    BY <2>1
  <2> HIDE DEF a, b, f, m
  <2>5. /\ a.buffer = b /\ a.acc = c.acc /\ a.m = m /\ a.num_stripes = c.num_stripes
        /\ stripes_per_block(a) = stripes_per_block(o)
    BY <2>4, WithIs
  <2>6. stripes_per_block(c) = stripes_per_block(o)
    <3>1. OnlyFed(o, c)
      BY <2>2, ConsumeAllFeeds
    <3> HIDE DEF c
    <3> QED BY <3>1, WithIs DEF OnlyFed
  <2>7. /\ Total(Stripe, d + w) = Total(Stripe, d) + t /\ d + w \in Nat /\ d + w > 0
        /\ Len(q) = t + m
    <3>1. w \in Nat
      BY <2>2
    <3>2. Total(Stripe, d + w) = Total(Stripe, d) + Total(Stripe, w)
      BY <1>1, <3>1, TotalPlus
    <3>3. d + w \in Nat /\ d + w > 0
      BY <2>2
    <3>4. Len(q) = t + m
      BY <1>1, <2>2, SMTT(30) DEF m
    <3> QED BY <2>2, <3>2, <3>3, <3>4
  <2>8. \A j \in 1 .. Len(f) : f[j] = StripeOf(bytes, d + j)
    <3>1. Total(Stripe, d) + Total(Stripe, Len(f)) <= Len(bytes)
      BY <1>1, <1>3, <2>2, <2>7, SMTT(30)
    <3>2. ASSUME NEW j \in 1 .. Len(f), NEW i \in 1 .. Stripe
          PROVE  f[j][i] = bytes[Total(Stripe, d) + (Total(Stripe, j - 1) + i)]
      <4>1. Total(Stripe, j - 1) + i \in 1 .. t
        <5>1. j \in 1 .. w /\ w \in Nat /\ j \in Nat \ {0}
          BY <2>2
        <5>2. Pos(Stripe, j, i) \in 1 .. Total(Stripe, w)
          BY <1>1, <5>1, PosType
        <5>3. Pos(Stripe, j, i) = Total(Stripe, j - 1) + i
          BY <1>1, <5>1, PosFirst
        <5> QED BY <2>2, <5>2, <5>3
      <4>2. Total(Stripe, j - 1) + i \in 1 .. Len(q)
        BY <1>1, <2>2, <2>7, <4>1, SMTT(30)
      <4> QED BY <1>3, <2>2, <4>2
    <3> QED BY <2>2, <3>1, <3>2, RunStripes
  <2>9. InStep(c, bytes, d + w)
    BY <1>3, <2>2, <2>8, ConsumeAllInStep
  <2> HIDE DEF c
  <2>10. InStep(a, bytes, d + w)
    BY <2>5, <2>6, <2>9, InStepOf
  <2>11. Len(bytes) = Total(Stripe, d + w) + a.m
    BY <1>1, <1>3, <2>2, <2>5, <2>7, SMTT(30)
  <2>12. ASSUME NEW i \in 1 .. a.m PROVE a.buffer[i] = bytes[Total(Stripe, d + w) + i]
    <3> DEFINE x == Total(Stripe, d)
               y == Total(Stripe, d + w)
    <3>0. x \in Nat /\ y = x + t /\ t \in Nat /\ m \in Nat /\ Len(q) = t + m
      BY <1>1, <2>2, <2>7
    <3> HIDE DEF x, y
    <3>1. i \in 1 .. m /\ t + i \in 1 .. Len(q) /\ x + (t + i) = y + i
      BY <2>5, <3>0, SMTT(30)
    <3> USE DEF x, y
    <3> QED BY <1>3, <2>3, <2>5, <3>1
  <2>13. Follows(a.buffer, bytes, d + w)
    <3> SUFFICES ASSUME NEW i \in 1 .. Stripe
                 PROVE  a.buffer[3 * Stripe + i] = bytes[Total(Stripe, (d + w) - 1) + i]
      BY DEF Follows
    <3>1. PICK u \in Nat : w = u + 1
      <4>1. w - 1 \in Nat /\ w = (w - 1) + 1
        BY <2>2
      <4> QED BY <4>1
    <3>2. /\ Total(Stripe, u) \in Nat /\ t = Total(Stripe, u) + Stripe
          /\ Total(Stripe, d + u) = Total(Stripe, d) + Total(Stripe, u)
          /\ w - 1 = u /\ (d + w) - 1 = d + u
      <4>1. t = Total(Stripe, u) + Stripe /\ Total(Stripe, u) \in Nat
        BY <2>2, <3>1, NextTotal
      <4>2. Total(Stripe, d + u) = Total(Stripe, d) + Total(Stripe, u)
        BY <1>1, <3>1, TotalPlus
      <4> QED BY <3>1, <4>1, <4>2
    <3>3. /\ Total(Stripe, u) + i \in 1 .. Len(q)
          /\ Total(Stripe, d) + (Total(Stripe, u) + i) = Total(Stripe, d + u) + i
      <4> DEFINE x == Total(Stripe, d)
                 y == Total(Stripe, u)
                 z == Total(Stripe, d + u)
      <4>1. /\ x \in Nat /\ y \in Nat /\ z = x + y /\ t = y + Stripe /\ Stripe \in Nat
            /\ t \in Nat /\ m \in Nat /\ Len(q) = t + m
        BY <1>1, <2>2, <2>7, <3>2
      <4> HIDE DEF x, y, z
      <4>2. y + i \in 1 .. Len(q) /\ x + (y + i) = z + i
        BY <4>1
      <4> QED BY <4>2 DEF x, y, z
    <3>4. a.buffer[3 * Stripe + i] = q[Total(Stripe, u) + i]
      BY <2>3, <2>5, <3>2
    <3>5. q[Total(Stripe, u) + i] = bytes[Total(Stripe, d) + (Total(Stripe, u) + i)]
      BY <1>3, <3>3
    <3> QED BY <3>2, <3>3, <3>4, <3>5
  <2>14. a.m > 0 /\ Len(bytes) > buffer_size
    <3>1. m > 0
      BY <1>1, <2>2
    <3>2. Len(bytes) > buffer_size
      BY <1>1, <1>3, <1>5
    <3> QED BY <2>5, <3>1, <3>2
  <2>15. Holds(a, bytes, d + w)
    BY <2>10, <2>11, <2>12, <2>13, <2>14 DEF Holds
  <2> QED BY <2>7, <2>15 DEF a
<1> QED BY <1>1, <1>4, <1>5

(* The four stripes of a buffer. *)
LEMMA BufferStripes ==
  ASSUME NEW full \in Block(buffer_size, Nat)
  PROVE  LET f == Blocks(Stripe, full) IN
         /\ full \in Seq(Nat) /\ Len(full) = buffer_size
         /\ f \in BlockSeq(Stripe, Nat) /\ Len(f) = 4
         /\ \A j \in 1 .. 4, i \in 1 .. Stripe : f[j][i] = full[Total(Stripe, j - 1) + i]
<1> DEFINE f == Blocks(Stripe, full)
<1>1. /\ buffer_size \in Nat /\ buffer_size = 4 * Stripe /\ Stripe \in Nat \ {0}
      /\ Total(Stripe, 4) = 4 * Stripe
  BY Sizes DEF Total
<1>2. full \in Seq(Nat) /\ Len(full) = buffer_size
  BY <1>1, BlockIsSeq
<1>3. Whole(Stripe, buffer_size) = 4
  <2>1. 0 \in 0 .. Stripe - 1 /\ buffer_size = Total(Stripe, 4) + 0 /\ 4 \in Nat
    BY <1>1
  <2> QED BY <1>1, <2>1, WholeRestUnique
<1>4. /\ f \in BlockSeq(Stripe, Nat) /\ Len(f) = 4
      /\ \A j \in 1 .. 4, i \in 1 .. Stripe : f[j][i] = full[Pos(Stripe, j, i)]
  <2>1. /\ f \in BlockSeq(Stripe, Nat) /\ Len(f) = Whole(Stripe, Len(full))
        /\ \A j \in 1 .. Whole(Stripe, Len(full)), i \in 1 .. Stripe :
             f[j][i] = full[Pos(Stripe, j, i)]
    BY <1>1, <1>2, BlocksType, ZenonT(60)
  <2> QED BY <1>2, <1>3, <2>1, Zenon
<1>5. ASSUME NEW j \in 1 .. 4, NEW i \in 1 .. Stripe
      PROVE  f[j][i] = full[Total(Stripe, j - 1) + i]
  <2>1. j \in Nat \ {0}
    OBVIOUS
  <2>2. Pos(Stripe, j, i) = Total(Stripe, j - 1) + i
    BY <1>1, <2>1, PosFirst
  <2> QED BY <1>4, <2>2
<1> HIDE DEF f
<1> QED BY <1>2, <1>4, <1>5 DEF f

(* The buffer filled up with the first bytes of p. *)
Filled(o, p) == CopyTo(o.buffer, o.m, SubSeq(p, 1, buffer_size - o.m))

LEMMA FilledIs ==
  ASSUME NEW o \in Object128, NEW p \in Seq(Nat), Len(p) > buffer_size - o.m
  PROVE  LET k == buffer_size - o.m
             full == Filled(o, p)
             f == Blocks(Stripe, full)
             q == SubSeq(p, k + 1, Len(p))
         IN  /\ k \in Nat
             /\ full \in Block(buffer_size, Nat)
             /\ \A i \in 1 .. o.m : full[i] = o.buffer[i]
             /\ \A i \in 1 .. k : full[o.m + i] = p[i]
             /\ f \in BlockSeq(Stripe, Nat) /\ Len(f) = 4
             /\ \A j \in 1 .. 4, i \in 1 .. Stripe : f[j][i] = full[Total(Stripe, j - 1) + i]
             /\ q \in Seq(Nat) /\ Len(q) = Len(p) - k /\ Len(q) > 0
             /\ \A i \in 1 .. Len(p) - k : q[i] = p[k + i]
<1> DEFINE k == buffer_size - o.m
           g == SubSeq(p, 1, k)
           full == CopyTo(o.buffer, o.m, g)
           f == Blocks(Stripe, full)
           q == SubSeq(p, k + 1, Len(p))
<1>1. /\ o.m \in 0 .. buffer_size /\ o.m \in Nat /\ o.buffer \in Block(buffer_size, Nat)
      /\ buffer_size \in Nat /\ buffer_size = 4 * Stripe /\ Stripe \in Nat \ {0}
      /\ Len(p) \in Nat /\ Total(Stripe, 4) = 4 * Stripe
  BY Sizes, ObjectFacts DEF Total
<1>2. k \in Nat /\ k <= Len(p) /\ o.m + k = buffer_size
  BY <1>1
<1> HIDE DEF k
<1>3. g \in Seq(Nat) /\ Len(g) = k /\ \A i \in 1 .. k : g[i] = p[i]
  BY <1>2, Prefix
<1> HIDE DEF g
<1>4. /\ full \in Block(buffer_size, Nat)
      /\ \A i \in 1 .. buffer_size :
           full[i] = IF o.m < i /\ i <= o.m + Len(g) THEN g[i - o.m] ELSE o.buffer[i]
  BY <1>1, <1>3, CopyAt, ZenonT(60) DEF Copied
<1> HIDE DEF full
<1>5. ASSUME NEW i \in 1 .. o.m PROVE full[i] = o.buffer[i]
  <2>1. i \in 1 .. buffer_size /\ ~(o.m < i)
    BY <1>1
  <2> QED BY <1>4, <2>1
<1>6. ASSUME NEW i \in 1 .. k PROVE full[o.m + i] = p[i]
  <2>1. PICK x \in 1 .. buffer_size : x = o.m + i
    BY <1>1, <1>2
  <2>2. o.m < x /\ x <= o.m + Len(g) /\ x - o.m = i
    BY <1>1, <1>2, <1>3, <2>1, SMTT(30)
  <2>3. full[x] = g[i]
    BY <1>4, <2>2
  <2> QED BY <1>3, <2>1, <2>3
<1>9. /\ f \in BlockSeq(Stripe, Nat) /\ Len(f) = 4
      /\ \A j \in 1 .. 4, i \in 1 .. Stripe : f[j][i] = full[Total(Stripe, j - 1) + i]
  BY <1>4, BufferStripes
<1>11. /\ q \in Seq(Nat) /\ Len(q) = Len(p) - k
       /\ \A i \in 1 .. Len(p) - k : q[i] = p[k + i]
  <2> DEFINE d == Len(p) - k
  <2>1. d \in Nat /\ k + d <= Len(p) /\ k + d = Len(p)
    BY <1>1, <1>2
  <2> HIDE DEF d
  <2>2. /\ SubSeq(p, k + 1, k + d) \in Seq(Nat) /\ Len(SubSeq(p, k + 1, k + d)) = d
        /\ \A i \in 1 .. d : SubSeq(p, k + 1, k + d)[i] = p[k + i]
    BY <1>2, <2>1, Part
  <2> QED BY <2>1, <2>2, Zenon DEF d
<1>12. Len(p) - k > 0
  BY <1>1, <1>2 DEF k
<1> HIDE DEF f, q
<1> QED BY <1>2, <1>4, <1>5, <1>6, <1>9, <1>11, <1>12, Zenon
        DEF Filled, full, g, f, q, k

CountedOn(o, p) == [o EXCEPT !.n = (@ + Len(p)) % SizeMod]

LEMMA CountedIs ==
  ASSUME NEW o \in Object128, NEW p \in Seq(Nat)
  PROVE  LET c == CountedOn(o, p)
             n == (o.n + Len(p)) % SizeMod
         IN  /\ n \in Nat
             /\ c = With(o, o.buffer, o.acc, n, o.m, o.num_stripes)
             /\ c \in Object128
             /\ c.buffer = o.buffer /\ c.acc = o.acc /\ c.n = n /\ c.m = o.m
             /\ c.num_stripes = o.num_stripes /\ c.secret_len = o.secret_len
             /\ stripes_per_block(c) = stripes_per_block(o)
<1> DEFINE n == (o.n + Len(p)) % SizeMod
           c == CountedOn(o, p)
<1>1. n \in Nat
  <2>1. o.n + Len(p) \in Nat
    BY ObjectFacts
  <2> QED BY <2>1, Sizes, DivMod
<1>2. c = [o EXCEPT !.n = n]
  BY DEF CountedOn, Object128
<1> HIDE DEF n, c
<1>3. c = With(o, o.buffer, o.acc, n, o.m, o.num_stripes)
  BY <1>2, Assigned
<1>4. c \in Object128
  BY <1>1, <1>3, ObjectFacts, WithType
<1> QED BY <1>1, <1>3, <1>4, WithIs DEF c, n

(* The object with the full buffer taken in. *)
Emptied(c, full) == [ConsumeAll(c, Blocks(Stripe, full)) EXCEPT !.buffer = full]

LEMMA EmptiedIs ==
  ASSUME NEW c \in Object128, NEW full \in Block(buffer_size, Nat),
         Blocks(Stripe, full) \in BlockSeq(Stripe, Nat)
  PROVE  LET a == ConsumeAll(c, Blocks(Stripe, full))
             x == Emptied(c, full)
         IN  /\ x \in Object128 /\ x.buffer = full /\ x.n = c.n /\ x.secret_len = c.secret_len
             /\ x.acc = a.acc /\ x.num_stripes = a.num_stripes
             /\ stripes_per_block(x) = stripes_per_block(c)
             /\ stripes_per_block(a) = stripes_per_block(c)
<1> DEFINE a == ConsumeAll(c, Blocks(Stripe, full))
           x == Emptied(c, full)
<1>1. a \in Object128 /\ a = With(c, c.buffer, a.acc, c.n, c.m, a.num_stripes)
  BY ConsumeAllFeeds DEF OnlyFed
<1>2. x = [a EXCEPT !.buffer = full]
  BY DEF Emptied
<1> HIDE DEF a, x
<1>3. /\ a.buffer = c.buffer /\ a.n = c.n /\ a.m = c.m /\ a.secret_len = c.secret_len
      /\ stripes_per_block(a) = stripes_per_block(c)
  BY <1>1, WithIs
<1>4. x = With(a, full, a.acc, a.n, a.m, a.num_stripes)
  BY <1>1, <1>2, Assigned
<1>5. x \in Object128
  BY <1>1, <1>4, ObjectFacts, WithType
<1> QED BY <1>3, <1>4, <1>5, WithIs DEF a, x

LEMMA UpdateIs ==
  ASSUME NEW o \in Object128, NEW p \in Seq(Nat), Len(p) > 0
  PROVE  LET c == CountedOn(o, p)
             k == buffer_size - o.m
         IN  /\ Fits(o, p) => update(o, p) = With(o, CopyTo(o.buffer, o.m, p), o.acc, c.n,
                                                 o.m + Len(p), o.num_stripes)
             /\ ~Fits(o, p) /\ o.m = 0 => update(o, p) = Absorb(c, p)
             /\ ~Fits(o, p) /\ o.m > 0 =>
                  update(o, p) = Absorb(Emptied(c, Filled(o, p)), SubSeq(p, k + 1, Len(p)))
<1> DEFINE c == CountedOn(o, p)
           k == buffer_size - o.m
<1>1. Len(p) # 0 /\ o.m \in 0 .. buffer_size /\ buffer_size \in Nat /\ Len(p) \in Nat
  BY Sizes, ObjectFacts
<1>2. c \in Object128 /\ c.buffer = o.buffer /\ c.acc = o.acc /\ c.m = o.m
      /\ c.num_stripes = o.num_stripes /\ c.n \in Nat
      /\ c = With(o, o.buffer, o.acc, c.n, o.m, o.num_stripes)
  BY CountedIs
<1>3. ASSUME Fits(o, p)
      PROVE  update(o, p) = With(o, CopyTo(o.buffer, o.m, p), o.acc, c.n,
                                 o.m + Len(p), o.num_stripes)
  <2> DEFINE b == CopyTo(o.buffer, o.m, p)
             m == o.m + Len(p)
  <2>1. update(o, p) = [c EXCEPT !.buffer = CopyTo(@, o.m, p), !.m = @ + Len(p)]
    BY <1>1, <1>3, Zenon DEF update, CountedOn
  <2> HIDE DEF c
  <2>2. update(o, p) = [c EXCEPT !.buffer = b, !.m = m]
    BY <1>2, <2>1 DEF Object128
  <2>3. b \in Block(buffer_size, Nat) /\ m \in 0 .. buffer_size
    <3>1. m \in 0 .. buffer_size /\ o.m \in Nat
      BY <1>1, <1>3 DEF Fits
    <3> QED BY <3>1, ObjectFacts, CopyAt DEF Copied
  <2> HIDE DEF b, m
  <2>4. [c EXCEPT !.buffer = b, !.m = m] = With(c, b, c.acc, c.n, m, c.num_stripes)
    BY <1>2, <2>3, AssignedBuffer
  <2>5. update(o, p) = With(o, b, o.acc, c.n, m, o.num_stripes)
    <3>1. With(c, b, o.acc, c.n, m, o.num_stripes) = With(o, b, o.acc, c.n, m, o.num_stripes)
      BY <1>2, WithWith
    <3> QED BY <1>2, <2>2, <2>4, <3>1, Zenon
  <2> QED BY <2>5 DEF b, m, c
<1>4. ASSUME ~Fits(o, p), o.m = 0 PROVE update(o, p) = Absorb(c, p)
  BY <1>1, <1>4, Zenon DEF update, CountedOn
<1>5. ASSUME ~Fits(o, p), o.m > 0
      PROVE  update(o, p) = Absorb(Emptied(c, Filled(o, p)), SubSeq(p, k + 1, Len(p)))
  <2>1. ~(o.m = 0)
    BY <1>1, <1>5
  <2> QED BY <1>1, <1>5, <2>1, Zenon DEF update, CountedOn, Emptied, Filled
<1> HIDE DEF c, k
<1> QED BY <1>3, <1>4, <1>5 DEF c, k

LEMMA UpdateType ==
  ASSUME NEW o \in Object128, NEW p \in Seq(Nat)
  PROVE  LET a == update(o, p) IN
         /\ a \in Object128
         /\ Len(p) = 0 => a = o
         /\ Len(p) > 0 => a.m > 0 /\ a.n = (o.n + Len(p)) % SizeMod
<1> DEFINE a == update(o, p)
           c == CountedOn(o, p)
           n == (o.n + Len(p)) % SizeMod
<1>1. /\ o.m \in 0 .. buffer_size /\ buffer_size \in Nat /\ Len(p) \in Nat
      /\ o.buffer \in Block(buffer_size, Nat) /\ o.acc \in Seq(StepType) /\ o.num_stripes \in Nat
  BY Sizes, ObjectFacts
<1>2. CASE Len(p) = 0
  BY <1>1, <1>2 DEF update
<1>3. CASE Len(p) > 0
  <2>1. n \in Nat /\ c \in Object128 /\ c.n = n /\ c.m = o.m
    BY CountedIs
  <2> HIDE DEF n
  <2>2. CASE Fits(o, p)
    <3> DEFINE b == CopyTo(o.buffer, o.m, p)
               m == o.m + Len(p)
    <3>1. m \in 0 .. buffer_size /\ m > 0 /\ o.m \in Nat
      BY <1>1, <1>3, <2>2 DEF Fits
    <3>2. b \in Block(buffer_size, Nat)
      BY <1>1, <3>1, CopyAt DEF Copied
    <3>3. a = With(o, b, o.acc, n, m, o.num_stripes)
      BY <1>3, <2>1, <2>2, UpdateIs
    <3> HIDE DEF a, b, m
    <3>5. a \in Object128
      BY <1>1, <2>1, <3>1, <3>2, <3>3, WithType
    <3>6. a.m = m /\ a.n = n
      BY <3>3, WithIs
    <3>4. a \in Object128 /\ a.m > 0 /\ a.n = n
      BY <3>1, <3>5, <3>6
    <3> QED BY <1>1, <1>3, <3>4 DEF a, n
  <2>3. CASE ~Fits(o, p) /\ o.m = 0
    <3>1. a = Absorb(c, p)
      BY <1>3, <2>3, UpdateIs
    <3> HIDE DEF a, c
    <3>2. a \in Object128 /\ a.m > 0 /\ a.n = n
      BY <1>3, <2>1, <3>1, AbsorbType
    <3> QED BY <1>1, <1>3, <3>2 DEF a, n
  <2>4. CASE ~Fits(o, p) /\ o.m > 0
    <3> DEFINE full == Filled(o, p)
               x == Emptied(c, full)
               q == SubSeq(p, buffer_size - o.m + 1, Len(p))
    <3>1. a = Absorb(x, q)
      BY <1>3, <2>4, UpdateIs
    <3>2. Len(p) > buffer_size - o.m
      BY <1>1, <2>4 DEF Fits
    <3>3. /\ full \in Block(buffer_size, Nat) /\ Blocks(Stripe, full) \in BlockSeq(Stripe, Nat)
          /\ q \in Seq(Nat) /\ Len(q) > 0
      BY <3>2, FilledIs
    <3> HIDE DEF a, c, full, q
    <3>4. x \in Object128 /\ x.n = n
      BY <2>1, <3>3, EmptiedIs
    <3> HIDE DEF x
    <3>5. a \in Object128 /\ a.m > 0 /\ a.n = n
      BY <3>1, <3>3, <3>4, AbsorbType
    <3> QED BY <1>1, <1>3, <3>5 DEF a, n
  <2> QED BY <1>1, <2>2, <2>3, <2>4
<1> QED BY <1>1, <1>2, <1>3

(* The state of the object, seen from a longer message. *)
LEMMA InStepMore ==
  ASSUME NEW o \in Object128, NEW bytes \in Seq(Nat), NEW p \in Seq(Nat), NEW d \in Nat,
         InStep(o, bytes, d), Total(Stripe, d) <= Len(bytes)
  PROVE  InStep(o, bytes \o p, d)
<1>1. stripes_per_block(o) \in Nat \ {0}
  BY PartsPositive
<1>2. Accumulated(stripes_per_block(o), bytes, d) = Accumulated(stripes_per_block(o), bytes \o p, d)
  BY <1>1, AccumulatedSame
<1> QED BY <1>2 DEF InStep

LEMMA Longer ==
  ASSUME NEW bytes \in Seq(Nat), NEW p \in Seq(Nat)
  PROVE  LET b == bytes \o p IN
         /\ b \in Seq(Nat) /\ Len(b) = Len(bytes) + Len(p) /\ Len(bytes) \in Nat /\ Len(p) \in Nat
         /\ \A i \in 1 .. Len(bytes) : b[i] = bytes[i]
         /\ \A i \in 1 .. Len(p) : b[Len(bytes) + i] = p[i]
<1> DEFINE b == bytes \o p
<1>1. /\ b \in Seq(Nat) /\ Len(b) = Len(bytes) + Len(p) /\ Len(bytes) \in Nat /\ Len(p) \in Nat
      /\ \A i \in 1 .. Len(bytes) + Len(p) :
           b[i] = IF i <= Len(bytes) THEN bytes[i] ELSE p[i - Len(bytes)]
  BY ConcatProperties, LenProperties
<1> HIDE DEF b
<1>2. ASSUME NEW i \in 1 .. Len(p) PROVE b[Len(bytes) + i] = p[i]
  <2> DEFINE l == Len(bytes)
             n == Len(p)
  <2>0. l \in Nat /\ n \in Nat
    BY <1>1
  <2> HIDE DEF l, n
  <2>1. PICK x \in 1 .. l + n : x = l + i
    <3>1. i \in 1 .. n
      BY DEF n
    <3> QED BY <2>0, <3>1
  <2> USE DEF l, n
  <2>2. ~(x <= Len(bytes)) /\ x - Len(bytes) = i
    BY <1>1, <2>1
  <2> QED BY <1>1, <2>1, <2>2
<1> QED BY <1>1, <1>2 DEF b

(* Whatever arrives, a message is taken in up to a rest that is held. *)
LEMMA UpdateHolds ==
  ASSUME NEW o \in Object128, NEW bytes \in Seq(Nat), NEW p \in Seq(Nat), NEW d \in Nat,
         Holds(o, bytes, d)
  PROVE  \E e \in Nat : Holds(update(o, p), bytes \o p, e)
<1> DEFINE a == update(o, p)
           b == bytes \o p
           c == CountedOn(o, p)
           k == buffer_size - o.m
           T == Total(Stripe, d)
<1>1. /\ o.m \in 0 .. buffer_size /\ o.m \in Nat /\ buffer_size \in Nat /\ Stripe \in Nat \ {0}
      /\ buffer_size = 4 * Stripe /\ o.buffer \in Block(buffer_size, Nat) /\ T \in Nat
  <2>1. T \in Nat
    BY NextTotal
  <2> HIDE DEF T
  <2> QED BY <2>1, Sizes, ObjectFacts
<1>2. /\ InStep(o, bytes, d) /\ Len(bytes) = T + o.m
      /\ \A i \in 1 .. o.m : o.buffer[i] = bytes[T + i]
      /\ d > 0 /\ o.m <= 3 * Stripe => Follows(o.buffer, bytes, d)
      /\ d > 0 => o.m > 0 /\ Len(bytes) > buffer_size
  BY DEF Holds
<1>3. /\ b \in Seq(Nat) /\ Len(b) = Len(bytes) + Len(p) /\ Len(bytes) \in Nat /\ Len(p) \in Nat
      /\ \A i \in 1 .. Len(bytes) : b[i] = bytes[i]
      /\ \A i \in 1 .. Len(p) : b[Len(bytes) + i] = p[i]
  BY Longer
<1> DEFINE l == Len(bytes)
           n == Len(p)
           v == o.m
<1>9. v \in Nat /\ T \in Nat /\ l \in Nat /\ n \in Nat /\ l = T + v
  BY <1>1, <1>2, <1>3
<1>10. Len(b) = l + n
  BY <1>3
<1> HIDE DEF l, n, v
<1>4. InStep(o, b, d) /\ T <= Len(bytes)
  <2>1. T <= Len(bytes)
    BY <1>1, <1>2, <1>3
  <2> QED BY <1>2, <2>1, InStepMore
<1>5. \A i \in 1 .. o.m : o.buffer[i] = b[T + i]
  <2> HIDE DEF b, T
  <2>1. \A i \in 1 .. o.m : T + i \in 1 .. Len(bytes)
    BY <1>1, <1>2, SMTT(30)
  <2> QED BY <1>2, <1>3, <2>1
<1>6. ASSUME d > 0, o.m <= 3 * Stripe PROVE Follows(o.buffer, b, d)
  <2> SUFFICES ASSUME NEW i \in 1 .. Stripe
               PROVE  o.buffer[3 * Stripe + i] = b[Total(Stripe, d - 1) + i]
    BY DEF Follows
  <2>1. PICK u \in Nat : d = u + 1
    <3>1. d - 1 \in Nat /\ d = (d - 1) + 1
      BY <1>6
    <3> QED BY <3>1
  <2>2. T = Total(Stripe, u) + Stripe /\ Total(Stripe, u) \in Nat /\ d - 1 = u
    <3>1. Total(Stripe, u + 1) = Total(Stripe, u) + Stripe /\ Total(Stripe, u) \in Nat
      BY NextTotal
    <3> QED BY <2>1, <3>1
  <2>3. Total(Stripe, u) + i \in 1 .. Len(bytes)
    <3> DEFINE y == Total(Stripe, u)
    <3>1. y \in Nat /\ y + Stripe <= Len(bytes) /\ Stripe \in Nat /\ Len(bytes) \in Nat
      BY <1>1, <1>3, <1>4, <2>2
    <3> HIDE DEF y
    <3>2. y + i \in 1 .. Len(bytes)
      BY <3>1
    <3> QED BY <3>2 DEF y
  <2> HIDE DEF b, T
  <2>4. o.buffer[3 * Stripe + i] = bytes[Total(Stripe, d - 1) + i]
    BY <1>2, <1>6 DEF Follows
  <2> QED BY <1>3, <2>2, <2>3, <2>4
<1>7. CASE Len(p) = 0
  <2>1. a = o
    BY <1>7, UpdateType
  <2>2. p = << >>
    BY <1>7, EmptySeq
  <2>3. b = bytes
    BY <2>2, ConcatEmptySeq
  <2> QED BY <2>1, <2>3
<1>8. CASE Len(p) > 0
  <2>1. /\ c \in Object128 /\ c.buffer = o.buffer /\ c.acc = o.acc /\ c.m = o.m
        /\ c.num_stripes = o.num_stripes /\ stripes_per_block(c) = stripes_per_block(o)
    BY CountedIs
  <2> HIDE DEF c
  <2>2. InStep(c, b, d)
    BY <1>4, <2>1, InStepOf
  <2>3. CASE Fits(o, p)
    <3> DEFINE f == CopyTo(o.buffer, o.m, p)
               m == o.m + Len(p)
    <3>1. m \in 0 .. buffer_size /\ m > 0
      BY <1>1, <1>3, <1>8, <2>3 DEF Fits
    <3>2. \A i \in 1 .. buffer_size :
            f[i] = IF o.m < i /\ i <= o.m + Len(p) THEN p[i - o.m] ELSE o.buffer[i]
      BY <1>1, CopyAt, ZenonT(60) DEF Copied
    <3>3. a = With(o, f, o.acc, c.n, m, o.num_stripes)
      BY <1>8, <2>3, UpdateIs DEF c
    <3> HIDE DEF a, f
    <3>4. /\ a.buffer = f /\ a.acc = o.acc /\ a.m = m /\ a.num_stripes = o.num_stripes
          /\ stripes_per_block(a) = stripes_per_block(o)
      BY <3>3, WithIs
    <3>5. InStep(a, b, d)
      BY <1>4, <3>4, InStepOf
    <3>6. Len(b) = T + a.m
      BY <1>1, <1>2, <1>3, <3>4, SMTT(30)
    <3>7. ASSUME NEW i \in 1 .. a.m PROVE a.buffer[i] = b[T + i]
      <4>1. CASE i <= o.m
        <5>1. i \in 1 .. o.m /\ i \in 1 .. buffer_size /\ ~(o.m < i)
          BY <1>1, <3>1, <3>4, <4>1
        <5> HIDE DEF b, T
        <5> QED BY <1>5, <3>2, <3>4, <5>1
      <4>2. CASE o.m < i
        <5>1. PICK j \in 1 .. Len(p) : i = o.m + j
          <6>1. i - o.m \in 1 .. Len(p) /\ i = o.m + (i - o.m)
            BY <1>1, <1>3, <3>1, <3>4, <4>2, SMTT(30)
          <6> QED BY <6>1
        <5> HIDE DEF b, T
        <5>2. i \in 1 .. buffer_size /\ i <= o.m + Len(p) /\ i - o.m = j /\ T + i = Len(bytes) + j
          <6>1. j \in 1 .. n
            BY DEF n
          <6>4. i = v + j
            BY <5>1 DEF v
          <6>2. i - v = j /\ T + i = l + j /\ i <= v + n
            BY <1>9, <6>1, <6>4
          <6>3. i \in 1 .. buffer_size
            BY <1>1, <3>1, <3>4
          <6> QED BY <6>2, <6>3 DEF l, n, v
        <5>3. f[i] = p[i - o.m]
          BY <3>2, <4>2, <5>2
        <5>4. f[i] = p[j] /\ p[j] = b[Len(bytes) + j]
          BY <1>3, <5>2, <5>3
        <5>5. b[T + i] = b[Len(bytes) + j]
          BY <5>2, Zenon
        <5> QED BY <3>4, <5>4, <5>5, Zenon
      <4>3. i <= o.m \/ o.m < i
        BY <1>1
      <4> QED BY <4>1, <4>2, <4>3, Zenon
    <3>8. ASSUME d > 0, a.m <= 3 * Stripe PROVE Follows(a.buffer, b, d)
      <4>1. o.m <= 3 * Stripe
        BY <1>1, <1>3, <3>4, <3>8
      <4>2. Follows(o.buffer, b, d)
        BY <1>6, <3>8, <4>1
      <4> SUFFICES ASSUME NEW i \in 1 .. Stripe
                   PROVE  a.buffer[3 * Stripe + i] = b[Total(Stripe, d - 1) + i]
        BY DEF Follows
      <4>3. 3 * Stripe + i \in 1 .. buffer_size /\ ~(3 * Stripe + i <= o.m + Len(p))
        BY <1>1, <1>3, <3>4, <3>8
      <4>4. a.buffer[3 * Stripe + i] = o.buffer[3 * Stripe + i]
        BY <3>2, <3>4, <4>3
      <4> QED BY <4>2, <4>4 DEF Follows
    <3>9. d > 0 => a.m > 0 /\ Len(b) > buffer_size
      BY <1>1, <1>2, <1>3, <3>1, <3>4, SMTT(30)
    <3> HIDE DEF b
    <3>10. Holds(a, b, d)
      BY <3>5, <3>6, <3>7, <3>8, <3>9 DEF Holds
    <3> QED BY <3>10 DEF a, b
  <2>4. CASE ~Fits(o, p) /\ o.m = 0
    <3>1. a = Absorb(c, p)
      BY <1>8, <2>4, UpdateIs DEF c
    <3>2. d = 0 /\ T = 0 /\ Len(bytes) = 0
      <4>1. d = 0
        BY <1>2, <2>4
      <4> QED BY <1>1, <1>2, <2>4, <4>1, TotalOne
    <3> HIDE DEF a, b, T
    <3>3. Ready(c, p, b, d)
      <4>1. Len(b) = T + Len(p) /\ \A i \in 1 .. Len(p) : p[i] = b[T + i]
        BY <1>3, <3>2
      <4>2. ~(d > 0)
        BY <3>2
      <4> QED BY <2>2, <4>1, <4>2 DEF Ready, T
    <3> QED BY <1>3, <1>8, <2>1, <3>1, <3>3, AbsorbHolds DEF a, b
  <2>5. CASE ~Fits(o, p) /\ o.m > 0
    <3> DEFINE full == Filled(o, p)
               f == Blocks(Stripe, full)
               x == Emptied(c, full)
               y == ConsumeAll(c, f)
               q == SubSeq(p, k + 1, Len(p))
    <3>1. a = Absorb(x, q)
      BY <1>8, <2>5, UpdateIs DEF c
    <3>2. Len(p) > k
      BY <1>1, <1>3, <2>5 DEF Fits
    <3>3. /\ k \in Nat /\ full \in Block(buffer_size, Nat)
          /\ \A i \in 1 .. o.m : full[i] = o.buffer[i]
          /\ \A i \in 1 .. k : full[o.m + i] = p[i]
          /\ f \in BlockSeq(Stripe, Nat) /\ Len(f) = 4
          /\ \A j \in 1 .. 4, i \in 1 .. Stripe : f[j][i] = full[Total(Stripe, j - 1) + i]
          /\ q \in Seq(Nat) /\ Len(q) = Len(p) - k /\ Len(q) > 0
          /\ \A i \in 1 .. Len(p) - k : q[i] = p[k + i]
      BY <3>2, FilledIs, ZenonT(60)
    <3>4. /\ x \in Object128 /\ x.buffer = full /\ x.acc = y.acc
          /\ x.num_stripes = y.num_stripes /\ stripes_per_block(x) = stripes_per_block(c)
          /\ stripes_per_block(y) = stripes_per_block(c)
      BY <2>1, <3>3, EmptiedIs
    <3> HIDE DEF a, b, T, full, f, q, x, k
    <3>5. k + o.m = buffer_size
      BY <1>1 DEF k
    <3>6. \A i \in 1 .. buffer_size : full[i] = b[T + i]
      <4> SUFFICES ASSUME NEW i \in 1 .. buffer_size PROVE full[i] = b[T + i]
        OBVIOUS
      <4>1. CASE i <= o.m
        <5>1. i \in 1 .. o.m
          BY <1>1, <4>1
        <5> QED BY <1>5, <3>3, <5>1
      <4>2. CASE o.m < i
        <5>1. PICK j \in 1 .. k : i = o.m + j
          <6>1. i - o.m \in 1 .. k /\ i = o.m + (i - o.m)
            <7>1. k \in Nat
              BY <3>3
            <7> QED BY <1>1, <3>5, <4>2, <7>1
          <6> QED BY <6>1
        <5>2. j \in 1 .. Len(p) /\ T + i = Len(bytes) + j
          <6>1. k \in Nat
            BY <3>3
          <6>2. j \in 1 .. n /\ i = v + j
            BY <3>2, <5>1, <6>1, <1>3 DEF n, v
          <6>3. T + i = l + j
            BY <1>9, <6>2
          <6> QED BY <6>2, <6>3 DEF l, n
        <5> QED BY <1>3, <3>3, <5>1, <5>2, ZenonT(60)
      <4> QED BY <1>1, <4>1, <4>2
    <3>7. /\ Total(Stripe, 4) = buffer_size /\ Total(Stripe, 3) = 3 * Stripe
          /\ Total(Stripe, d + 4) = T + buffer_size /\ Total(Stripe, d + 3) = T + 3 * Stripe
          /\ d + 4 \in Nat /\ d + 4 > 0 /\ (d + 4) - 1 = d + 3
      <4>1. Total(Stripe, 4) = buffer_size /\ Total(Stripe, 3) = 3 * Stripe
        BY <1>1 DEF Total
      <4>2. 4 \in Nat /\ 3 \in Nat /\ d \in Nat
        OBVIOUS
      <4>3. Total(Stripe, d + 4) = Total(Stripe, d) + Total(Stripe, 4)
        BY <1>1, <4>2, TotalPlus
      <4>4. Total(Stripe, d + 3) = Total(Stripe, d) + Total(Stripe, 3)
        BY <1>1, <4>2, TotalPlus
      <4> QED BY <4>1, <4>2, <4>3, <4>4 DEF T
    <3>8. Len(b) = (T + buffer_size) + Len(q)
      <4> DEFINE s == Len(q)
                 z == buffer_size
      <4>1. k \in Nat /\ s = n - k /\ k + v = z
        BY <3>3, <3>5 DEF n, v
      <4> HIDE DEF s, z
      <4>2. l + n = (T + z) + s
        BY <1>9, <4>1
      <4> QED BY <1>10, <4>2, Zenon DEF s, z
    <3>9. \A j \in 1 .. Len(f) : f[j] = StripeOf(b, d + j)
      <4>1. Total(Stripe, d) + Total(Stripe, Len(f)) <= Len(b)
        <5>1. Len(q) \in Nat
          BY <3>3
        <5>2. T + buffer_size <= Len(b)
          BY <1>1, <3>8, <5>1
        <5> QED BY <3>3, <3>7, <5>2 DEF T
      <4>2. ASSUME NEW j \in 1 .. Len(f), NEW i \in 1 .. Stripe
            PROVE  f[j][i] = b[Total(Stripe, d) + (Total(Stripe, j - 1) + i)]
        <5>1. j \in 1 .. 4 /\ j \in Nat \ {0} /\ 4 \in Nat
          BY <3>3
        <5>2. Pos(Stripe, j, i) \in 1 .. Total(Stripe, 4)
          BY <1>1, <5>1, PosType
        <5>3. Pos(Stripe, j, i) = Total(Stripe, j - 1) + i
          BY <1>1, <5>1, PosFirst
        <5>4. Total(Stripe, j - 1) + i \in 1 .. buffer_size
          BY <3>7, <5>2, <5>3
        <5>5. full[Total(Stripe, j - 1) + i] = b[T + (Total(Stripe, j - 1) + i)]
          BY <3>6, <5>4
        <5> QED BY <3>3, <5>1, <5>5 DEF T
      <4> QED BY <1>3, <3>3, <4>1, <4>2, RunStripes, ZenonT(60)
    <3>10. InStep(y, b, d + 4)
      <4>1. InStep(y, b, d + Len(f))
        BY <1>3, <2>1, <2>2, <3>3, <3>9, ConsumeAllInStep
      <4> QED BY <3>3, <4>1
    <3>11. InStep(x, b, d + 4)
      <4> HIDE DEF y
      <4> QED BY <3>4, <3>10, InStepOf
    <3>12. \A i \in 1 .. Len(q) : q[i] = b[(T + buffer_size) + i]
      <4> SUFFICES ASSUME NEW i \in 1 .. Len(q) PROVE q[i] = b[(T + buffer_size) + i]
        OBVIOUS
      <4>1. /\ i \in 1 .. Len(p) - k /\ k + i \in 1 .. Len(p)
            /\ Len(bytes) + (k + i) = (T + buffer_size) + i
        <5>1. k \in Nat /\ Len(q) = n - k /\ k < n
          BY <3>2, <3>3 DEF n
        <5>2. i \in 1 .. n - k
          BY <5>1
        <5> DEFINE z == buffer_size
        <5>3. k + v = z
          BY <3>5 DEF v
        <5> HIDE DEF z
        <5>4. k + i \in 1 .. n /\ l + (k + i) = (T + z) + i
          BY <1>9, <5>1, <5>2, <5>3
        <5> QED BY <5>2, <5>4 DEF l, n, z
      <4> QED BY <1>3, <3>3, <4>1
    <3>13. Follows(full, b, d + 4)
      <4> SUFFICES ASSUME NEW i \in 1 .. Stripe
                   PROVE  full[3 * Stripe + i] = b[Total(Stripe, (d + 4) - 1) + i]
        BY DEF Follows
      <4>1. 3 * Stripe + i \in 1 .. buffer_size
            /\ T + (3 * Stripe + i) = Total(Stripe, (d + 4) - 1) + i
        BY <1>1, <3>7
      <4> QED BY <3>6, <4>1
    <3>14. Len(b) > buffer_size
      BY <1>1, <3>3, <3>8
    <3>15. Ready(x, q, b, d + 4)
      BY <3>4, <3>7, <3>8, <3>11, <3>12, <3>13, <3>14 DEF Ready
    <3> HIDE DEF x
    <3>16. \E e \in Nat : Holds(Absorb(x, q), b, e)
      BY <1>3, <3>3, <3>4, <3>7, <3>15, AbsorbHolds
    <3>17. \E e \in Nat : Holds(a, b, e)
      BY <3>1, <3>16
    <3> QED BY <3>17 DEF a, b
  <2> QED BY <1>1, <2>3, <2>4, <2>5
<1> QED BY <1>3, <1>7, <1>8

------------------------------------------------------------------------------
(* last_round *)

LEMMA HeldIs ==
  ASSUME NEW o \in Object128
  PROVE  /\ Held(o) \in 0 .. 3
         /\ o.m = 0 => Held(o) = 0
         /\ o.m > 0 => o.m - 1 - Total(Stripe, Held(o)) \in 0 .. Stripe - 1
<1>1. /\ o.m \in 0 .. buffer_size /\ buffer_size \in Nat /\ Stripe \in Nat \ {0}
      /\ buffer_size = 4 * Stripe /\ Total(Stripe, 4) = 4 * Stripe
  BY Sizes, ObjectFacts DEF Total
<1>2. CASE o.m = 0
  BY <1>1, <1>2 DEF Held
<1>3. CASE o.m > 0
  <2> DEFINE h == Whole(Stripe, o.m - 1)
             r == Rest(Stripe, o.m - 1)
  <2>1. o.m - 1 \in Nat
    BY <1>1, <1>3
  <2>2. h \in Nat /\ r \in 0 .. Stripe - 1 /\ o.m - 1 = Total(Stripe, h) + r
    BY <1>1, <2>1, WholeRest
  <2>3. Held(o) = h
    BY <1>1, <1>3 DEF Held, Whole
  <2> HIDE DEF h, r
  <2>4. Total(Stripe, h) \in Nat
    BY <1>1, <2>2, TotalType
  <2>5. h <= 3
    <3> SUFFICES ASSUME ~(h <= 3) PROVE FALSE
      OBVIOUS
    <3>1. 4 <= h /\ 4 \in Nat
      BY <2>2
    <3>2. Total(Stripe, 4) <= Total(Stripe, h)
      BY <1>1, <2>2, <3>1, TotalMonotonic
    <3> QED BY <1>1, <2>2, <2>4, <3>2
  <2> QED BY <1>1, <1>3, <2>2, <2>3, <2>4, <2>5
<1> QED BY <1>1, <1>2, <1>3

LEMMA HeldSteps ==
  ASSUME NEW o \in Object128
  PROVE  LET s == held_steps(o) IN
         /\ s \in Seq(StepType) /\ Len(s) = Held(o)
         /\ \A j \in 1 .. Held(o) :
              /\ Blocks(Stripe, o.buffer)[j] \in Block(Stripe, Nat)
              /\ s[j] = Step("accumulate", o.num_stripes + j - 1, Blocks(Stripe, o.buffer)[j])
<1> DEFINE h == Held(o)
           f == Blocks(Stripe, o.buffer)
           t == [j \in 1 .. h |-> Step("accumulate", o.num_stripes + j - 1, f[j])]
<1>1. h \in Nat /\ h <= 3 /\ o.num_stripes \in Nat
  BY HeldIs, ObjectFacts
<1>2. f \in BlockSeq(Stripe, Nat) /\ Len(f) = 4
  BY ObjectFacts, BufferStripes
<1> HIDE DEF f, h
<1>3. \A j \in 1 .. 4 : f[j] \in Block(Stripe, Nat)
  BY <1>2, ElementOfSeq DEF BlockSeq
<1>4. ASSUME NEW j \in 1 .. h
      PROVE  /\ f[j] \in Block(Stripe, Nat)
             /\ Step("accumulate", o.num_stripes + j - 1, f[j]) \in StepType
  <2>1. j \in 1 .. 4 /\ o.num_stripes + j - 1 \in Nat
    BY <1>1
  <2> QED BY <1>3, <2>1, StepTyped
<1>5. /\ t \in [1 .. h -> StepType]
      /\ \A j \in 1 .. h : t[j] = Step("accumulate", o.num_stripes + j - 1, f[j])
  BY <1>4
<1>6. t = held_steps(o)
  BY DEF held_steps, h, f
<1> HIDE DEF t
<1>7. t \in Seq(StepType) /\ Len(t) = h
  BY <1>1, <1>5
<1> QED BY <1>4, <1>5, <1>6, <1>7, Zenon DEF h, f

LEMMA LastStripeIs ==
  ASSUME NEW o \in Object128
  PROVE  LET s == last_stripe(o) IN
         /\ s \in Block(Stripe, Nat)
         /\ o.m >= Stripe => \A i \in 1 .. Stripe : s[i] = o.buffer[o.m - Stripe + i]
         /\ o.m < Stripe => \A i \in 1 .. Stripe :
              s[i] = IF i <= Stripe - o.m THEN o.buffer[3 * Stripe + (o.m + i)]
                     ELSE o.buffer[i - (Stripe - o.m)]
<1> DEFINE s == last_stripe(o)
           b == o.buffer
           m == o.m
           S == Stripe
           n == buffer_size
<1>1. m \in 0 .. n /\ n \in Nat /\ S \in Nat \ {0} /\ n = 4 * S
  BY Sizes, ObjectFacts
<1>2. b \in Seq(Nat) /\ Len(b) = n
  BY ObjectFacts, BufferStripes
<1>3. s = IF m >= S THEN SubSeq(b, m - S + 1, m)
          ELSE SubSeq(b, n - (S - m) + 1, n) \o SubSeq(b, 1, m)
  BY DEF last_stripe
<1> HIDE DEF s, b, m, S, n
<1>4. CASE m >= S
  <2> DEFINE k == m - S
             t == SubSeq(b, k + 1, k + S)
  <2>1. k \in Nat /\ S \in Nat /\ k + S = m /\ k + S <= Len(b) /\ ~(m < S)
    BY <1>1, <1>2, <1>4
  <2> HIDE DEF k
  <2>2. t \in [1 .. S -> Nat] /\ \A i \in 1 .. S : t[i] = b[k + i]
    BY <1>2, <2>1, BytesPart
  <2>3. s = t
    BY <1>3, <1>4, <2>1, Zenon DEF k
  <2> HIDE DEF t
  <2> QED BY <1>4, <2>1, <2>2, <2>3, Zenon DEF s, b, m, S, k, Block
<1>5. CASE ~(m >= S)
  <2> DEFINE k == S - m
             v == n - k
             x == SubSeq(b, v + 1, v + k)
             y == SubSeq(b, 1, m)
  <2>1. k \in Nat /\ v \in Nat /\ v + k = n /\ v + k <= Len(b) /\ k + m = S /\ m \in Nat
        /\ m <= Len(b) /\ v = 3 * S + m
    BY <1>1, <1>2, <1>5
  <2> HIDE DEF k, v
  <2>2. x \in Seq(Nat) /\ Len(x) = k /\ \A i \in 1 .. k : x[i] = b[v + i]
    <3>1. k \in Nat /\ v \in Nat /\ v + k <= Len(b)
      BY <2>1
    <3> QED BY <1>2, <3>1, BytesPart
  <2>3. y \in Seq(Nat) /\ Len(y) = m /\ \A i \in 1 .. m : y[i] = b[i]
    BY <1>2, <2>1, Prefix
  <2>4. s = x \o y
    BY <1>3, <1>5, <2>1, Zenon DEF k, v
  <2> HIDE DEF x, y
  <2>5. /\ s \in Seq(Nat) /\ Len(s) = k + m
        /\ \A i \in 1 .. k + m : s[i] = IF i <= k THEN x[i] ELSE y[i - k]
    BY <2>2, <2>3, <2>4, ConcatProperties, ZenonT(60)
  <2>6. s \in [1 .. S -> Nat]
    BY <2>1, <2>5, LenProperties
  <2>7. ASSUME NEW i \in 1 .. S
        PROVE  s[i] = IF i <= k THEN b[3 * S + (m + i)] ELSE b[i - k]
    <3>1. i \in 1 .. k + m
      BY <2>1
    <3>2. CASE i <= k
      <4>1. i \in 1 .. k /\ v + i = 3 * S + (m + i)
        BY <1>1, <2>1, <3>2
      <4>2. s[i] = x[i] /\ x[i] = b[v + i]
        BY <2>2, <2>5, <3>1, <3>2, <4>1
      <4> QED BY <3>2, <4>1, <4>2
    <3>3. CASE ~(i <= k)
      <4>1. i - k \in 1 .. m
        BY <2>1, <3>1, <3>3
      <4>2. s[i] = y[i - k] /\ y[i - k] = b[i - k]
        BY <2>3, <2>5, <3>1, <3>3, <4>1
      <4> QED BY <3>3, <4>2
    <3> QED BY <3>2, <3>3
  <2> QED BY <1>5, <2>6, <2>7, Zenon DEF s, b, m, S, k, Block
<1> QED BY <1>4, <1>5

LEMMA LastRoundIs ==
  ASSUME NEW o \in Object128
  PROVE  LET r == last_round(o)
             a == Append(o.acc \o held_steps(o), Step("last", 0, last_stripe(o)))
         IN  /\ r = With(o, o.buffer, a, o.n, o.m, o.num_stripes + Held(o))
             /\ r \in Object128
             /\ a \in Seq(StepType) /\ Len(a) = Len(o.acc) + Held(o) + 1
<1> DEFINE z == Step("last", 0, last_stripe(o))
           x == o.acc \o held_steps(o)
           a == Append(x, z)
           k == o.num_stripes + Held(o)
           y == [o EXCEPT !.acc = a]
<1>1. z \in StepType
  BY LastStripeIs, StepTyped
<1>2. o.acc \in Seq(StepType) /\ held_steps(o) \in Seq(StepType) /\ Len(held_steps(o)) = Held(o)
      /\ Len(o.acc) \in Nat /\ Held(o) \in Nat /\ k \in Nat
  BY ObjectFacts, HeldSteps, HeldIs, LenProperties
<1>3. x \in Seq(StepType) /\ Len(x) = Len(o.acc) + Held(o)
  BY <1>2, ConcatProperties, ZenonT(60)
<1>4. last_round(o) = [o EXCEPT !.acc = a, !.num_stripes = k]
  BY DEF last_round, Object128
<1> HIDE DEF z, x
<1>5. a \in Seq(StepType) /\ Len(a) = Len(o.acc) + Held(o) + 1
  BY <1>1, <1>3, AppendProperties
<1> HIDE DEF a, k
<1>6. y = With(o, o.buffer, a, o.n, o.m, o.num_stripes)
  BY Assigned
<1>7. y \in Object128
  BY <1>5, <1>6, ObjectFacts, WithType
<1>8. last_round(o) = [y EXCEPT !.num_stripes = k]
  BY <1>4
<1> HIDE DEF y
<1>9. [y EXCEPT !.num_stripes = k] = With(y, y.buffer, y.acc, y.n, y.m, k)
  BY <1>7, Assigned
<1>10. y.buffer = o.buffer /\ y.acc = a /\ y.n = o.n /\ y.m = o.m
  BY <1>6, WithIs
<1>11. With(y, o.buffer, a, o.n, o.m, k) = With(o, o.buffer, a, o.n, o.m, k)
  BY <1>6, WithWith
<1>12. last_round(o) = With(o, o.buffer, a, o.n, o.m, k)
  BY <1>8, <1>9, <1>10, <1>11, Zenon
<1>13. With(o, o.buffer, a, o.n, o.m, k) \in Object128
  BY <1>2, <1>5, ObjectFacts, WithType DEF k
<1> QED BY <1>5, <1>12, <1>13, Zenon DEF a, x, z, k

------------------------------------------------------------------------------
(* result *)

LEMMA PerturbIs ==
  ASSUME NEW o \in Object128
  PROVE  LET q == Perturb(o) IN
         /\ q \in Object128 /\ q.n = o.n /\ q.m = o.m /\ q.buffer = o.buffer
         /\ q.secret = o.secret /\ q.with_secret = o.with_secret
         /\ q.seed = IF o.n = 0 THEN o.seed + 1 ELSE o.seed
         /\ o.n > Short => Len(q.acc) = Len(o.acc) + 1
<1> DEFINE e == Step("perturb", 0, << >>)
           a == Append(o.acc, e)
           x == [o EXCEPT !.seed = o.seed + 1]
           y == [o EXCEPT !.acc = a]
<1>1. o.acc \in Seq(StepType) /\ e \in StepType /\ o.n \in Nat /\ Short \in Nat \ {0} /\ o.seed \in Nat
  BY ObjectFacts, StepTyped, Sizes
<1>2. a \in Seq(StepType) /\ Len(a) = Len(o.acc) + 1
  BY <1>1, AppendProperties
<1> HIDE DEF a
<1>3. Perturb(o) = IF o.n = 0 THEN x ELSE IF o.n <= Short THEN o ELSE y
  BY DEF Perturb, a, Object128
<1>4. /\ x \in Object128 /\ x.n = o.n /\ x.m = o.m /\ x.buffer = o.buffer /\ x.seed = o.seed + 1
      /\ x.secret = o.secret /\ x.with_secret = o.with_secret
  BY <1>1 DEF Object128
<1>5. /\ y \in Object128 /\ y.n = o.n /\ y.m = o.m /\ y.buffer = o.buffer /\ y.seed = o.seed
      /\ y.secret = o.secret /\ y.with_secret = o.with_secret /\ y.acc = a
  BY <1>2 DEF Object128
<1> HIDE DEF x, y
<1>6. CASE o.n = 0
  <2>1. Perturb(o) = x /\ ~(o.n > Short)
    BY <1>1, <1>3, <1>6
  <2> QED BY <1>4, <1>6, <2>1
<1>7. CASE o.n # 0 /\ o.n <= Short
  <2>1. Perturb(o) = o /\ ~(o.n > Short)
    BY <1>1, <1>3, <1>7
  <2> QED BY <1>7, <2>1
<1>8. CASE o.n # 0 /\ ~(o.n <= Short)
  <2>1. Perturb(o) = y
    BY <1>3, <1>8
  <2> QED BY <1>2, <1>5, <1>8, <2>1
<1> QED BY <1>6, <1>7, <1>8

(* Byte i of the buffer b, after digest d was added to it. *)
MixedByte(b, d, changed, i) ==
  IF i > Mixed THEN 0 ELSE IF i \in changed THEN b[i] + Total(SizeMod, d) ELSE b[i]

LEMMA MixIs ==
  ASSUME NEW o \in Object128, NEW d \in Nat, NEW changed
  PROVE  LET x == Mix(o, d, changed) IN
         /\ x \in Object128 /\ x.n = o.n /\ x.m = o.m /\ x.seed = o.seed /\ x.acc = o.acc
         /\ x.secret = o.secret /\ x.with_secret = o.with_secret
         /\ \A i \in 1 .. buffer_size : x.buffer[i] = MixedByte(o.buffer, d, changed, i)
<1> DEFINE t == Total(SizeMod, d)
           b == o.buffer
           c == [i \in 1 .. buffer_size |->
                   IF i > Mixed THEN 0 ELSE IF i \in changed THEN b[i] + t ELSE b[i]]
           x == [o EXCEPT !.buffer = c]
<1>1. t \in Nat
  BY Sizes, TotalType
<1>2. b \in [1 .. buffer_size -> Nat]
  BY ObjectFacts DEF Block
<1>3. Mix(o, d, changed) = x
  BY DEF Mix, Total, Object128
<1>4. ASSUME NEW i \in 1 .. buffer_size PROVE c[i] = MixedByte(b, d, changed, i)
  BY DEF MixedByte
<1> HIDE DEF t, b
<1>5. ASSUME NEW i \in 1 .. buffer_size
      PROVE  (IF i > Mixed THEN 0 ELSE IF i \in changed THEN b[i] + t ELSE b[i]) \in Nat
  BY <1>1, <1>2
<1>6. c \in Block(buffer_size, Nat)
  BY <1>5 DEF Block
<1> HIDE DEF c
<1>7. /\ x \in Object128 /\ x.n = o.n /\ x.m = o.m /\ x.seed = o.seed /\ x.acc = o.acc
      /\ x.secret = o.secret /\ x.with_secret = o.with_secret /\ x.buffer = c
  BY <1>6 DEF Object128
<1> HIDE DEF x
<1> QED BY <1>3, <1>4, <1>7 DEF b

(* The object that the digest of is in the perturbed one. *)
Summed(o) == IF o.n <= Short THEN o ELSE last_round(o)

LEMMA ResultIs ==
  ASSUME NEW o \in Object128, NEW d \in Nat, NEW changed
  PROVE  LET x == result(o, d, changed) IN
         /\ x \in Object128 /\ x.n = o.n /\ x.m = o.m
         /\ x.secret = o.secret /\ x.with_secret = o.with_secret
         /\ x.seed = IF o.n = 0 THEN o.seed + 1 ELSE o.seed
         /\ o.n > Short => Len(x.acc) = Len(last_round(o).acc) + 1
         /\ \A i \in 1 .. buffer_size : x.buffer[i] = MixedByte(o.buffer, d, changed, i)
<1> DEFINE s == Summed(o)
           q == Perturb(s)
<1>1. o.n \in Nat /\ Short \in Nat
  BY ObjectFacts, Sizes
<1>2. /\ s \in Object128 /\ s.n = o.n /\ s.m = o.m /\ s.buffer = o.buffer /\ s.seed = o.seed
      /\ s.secret = o.secret /\ s.with_secret = o.with_secret
      /\ o.n > Short => s = last_round(o)
  <2>1. CASE o.n <= Short
    BY <1>1, <2>1 DEF Summed
  <2>2. CASE ~(o.n <= Short)
    <3>1. s = last_round(o)
      BY <2>2 DEF Summed
    <3> HIDE DEF s
    <3>2. s \in Object128 /\ \E a, k : s = With(o, o.buffer, a, o.n, o.m, k)
      BY <3>1, LastRoundIs
    <3> QED BY <3>1, <3>2, WithIs
  <2> QED BY <2>1, <2>2
<1>3. result(o, d, changed) = Mix(q, d, changed)
  BY Zenon DEF result, Summed
<1> HIDE DEF s
<1>4. /\ q \in Object128 /\ q.n = s.n /\ q.m = s.m /\ q.buffer = s.buffer
      /\ q.secret = s.secret /\ q.with_secret = s.with_secret
      /\ q.seed = IF s.n = 0 THEN s.seed + 1 ELSE s.seed
      /\ s.n > Short => Len(q.acc) = Len(s.acc) + 1
  BY <1>2, PerturbIs
<1> HIDE DEF q
<1> DEFINE x == Mix(q, d, changed)
<1>5. /\ x \in Object128 /\ x.n = q.n /\ x.m = q.m /\ x.seed = q.seed /\ x.acc = q.acc
      /\ x.secret = q.secret /\ x.with_secret = q.with_secret
      /\ \A i \in 1 .. buffer_size : x.buffer[i] = MixedByte(q.buffer, d, changed, i)
  BY <1>4, MixIs
<1> HIDE DEF x
<1>6. result(o, d, changed) = x
  BY <1>3 DEF x
<1>7. o.n > Short => Len(x.acc) = Len(last_round(o).acc) + 1
  BY <1>2, <1>4, <1>5
<1>8. x.seed = IF o.n = 0 THEN o.seed + 1 ELSE o.seed
  BY <1>2, <1>4, <1>5, Zenon
<1>9. \A i \in 1 .. buffer_size : x.buffer[i] = MixedByte(o.buffer, d, changed, i)
  BY <1>2, <1>4, <1>5, Zenon
<1> QED BY <1>2, <1>4, <1>5, <1>6, <1>7, <1>8, <1>9, Zenon

LEMMA ResultOfIs ==
  ASSUME NEW o \in Object128, o.n \in 0 .. SizeMod - 1
  PROVE  /\ ResultOf(o) \in Digest
         /\ o.n = 0 => ResultOf(o).seed = o.seed
         /\ o.n <= Short => \A i \in 1 .. o.n : ResultOf(o).bytes[i] = o.buffer[i]
         /\ o.n > Short => ResultOf(o).acc = last_round(o).acc
<1> DEFINE g == SubSeq(o.buffer, 1, o.n)
           a == last_round(o).acc
           r == ResultOf(o)
<1>1. /\ o.secret \in Secret /\ o.seed \in Nat /\ o.n \in Nat /\ Short \in Nat
      /\ Short < buffer_size /\ buffer_size \in Nat
  BY ObjectFacts, Sizes
<1>2. o.buffer \in Seq(Nat) /\ Len(o.buffer) = buffer_size
  BY ObjectFacts, BufferStripes
<1>3. << >> \in Seq(StepType) /\ << >> \in Seq(Nat) /\ 0 \in Nat
  OBVIOUS
<1>4. CASE o.n <= Short
  <2>1. o.n <= Len(o.buffer)
    BY <1>1, <1>2, <1>4
  <2>2. g \in Seq(Nat) /\ Len(g) = o.n /\ \A i \in 1 .. o.n : g[i] = o.buffer[i]
    BY <1>1, <1>2, <2>1, Prefix
  <2>3. r = digest_short(o, g)
    BY <1>4 DEF ResultOf
  <2> HIDE DEF g, r
  <2>4. default_secret \in Secret
    BY DEF default_secret, Secret
  <2>5. (IF o.with_secret THEN o.secret ELSE default_secret) \in Secret
    BY <1>1, <2>4
  <2>6. r \in Digest /\ r.seed = o.seed /\ r.bytes = g
    BY <1>1, <1>3, <2>2, <2>3, <2>5 DEF digest_short, Digest
  <2>7. ~(o.n > Short)
    BY <1>1, <1>4
  <2> QED BY <2>2, <2>6, <2>7 DEF r
<1>5. CASE ~(o.n <= Short)
  <2>1. r = digest_long(o, a, o.n)
    BY <1>5 DEF ResultOf
  <2>2. a \in Seq(StepType)
    <3> DEFINE x == last_round(o)
    <3>1. x \in Object128
      BY LastRoundIs
    <3> HIDE DEF x
    <3>2. x.acc \in Seq(StepType)
      BY <3>1, ObjectFacts
    <3> QED BY <3>2 DEF x
  <2> HIDE DEF r, a
  <2>3. r \in Digest /\ r.acc = a
    BY <1>1, <1>3, <2>1, <2>2 DEF digest_long, Digest
  <2>4. ~(o.n = 0)
    BY <1>1, <1>5
  <2> QED BY <1>5, <2>3, <2>4 DEF r, a
<1> QED BY <1>4, <1>5

------------------------------------------------------------------------------
(* What the object holds of the message *)

(* The k bytes behind a of q are the k bytes behind c of r. *)
Alike(q, a, r, c, k) ==
  /\ q \in Seq(Nat) /\ r \in Seq(Nat) /\ a \in Nat /\ c \in Nat /\ k \in Nat
  /\ a + k <= Len(q) /\ c + k <= Len(r)
  /\ \A i \in 1 .. k : q[a + i] = r[c + i]

PartOf(q, a, k) == SubSeq(q, a + 1, a + k)

LEMMA SamePart ==
  ASSUME NEW q, NEW r, NEW a, NEW c, NEW k, Alike(q, a, r, c, k)
  PROVE  PartOf(q, a, k) = PartOf(r, c, k)
<1> DEFINE s == SubSeq(q, a + 1, a + k)
           t == SubSeq(r, c + 1, c + k)
<1>0. /\ q \in Seq(Nat) /\ r \in Seq(Nat) /\ a \in Nat /\ c \in Nat /\ k \in Nat
      /\ a + k <= Len(q) /\ c + k <= Len(r)
  BY DEF Alike
<1>1. s \in Seq(Nat) /\ Len(s) = k /\ \A i \in 1 .. k : s[i] = q[a + i]
  BY <1>0, BytesPart
<1>2. t \in Seq(Nat) /\ Len(t) = k /\ \A i \in 1 .. k : t[i] = r[c + i]
  BY <1>0, BytesPart
<1> HIDE DEF s, t
<1>3. \A i \in 1 .. k : s[i] = t[i]
  BY <1>1, <1>2 DEF Alike
<1>4. s = t
  BY <1>1, <1>2, <1>3, SeqEqual
<1> QED BY <1>4 DEF s, t, PartOf

(* The numbers of Holds. *)
LEMMA HoldsIs ==
  ASSUME NEW o \in Object128, NEW bytes \in Seq(Nat), NEW d \in Nat, Holds(o, bytes, d)
  PROVE  /\ Total(Stripe, d) \in Nat /\ o.m \in Nat /\ o.m <= buffer_size
         /\ Stripe \in Nat \ {0} /\ buffer_size = 4 * Stripe
         /\ o.buffer \in Seq(Nat) /\ Len(o.buffer) = buffer_size
         /\ Len(bytes) \in Nat /\ Len(bytes) = Total(Stripe, d) + o.m
         /\ \A i \in 1 .. o.m : o.buffer[i] = bytes[Total(Stripe, d) + i]
         /\ d > 0 => o.m > 0 /\ Len(bytes) > buffer_size
<1>1. Total(Stripe, d) \in Nat /\ Stripe \in Nat \ {0}
  BY NextTotal
<1>2. o.m \in Nat /\ o.m <= buffer_size /\ buffer_size = 4 * Stripe
  BY Sizes, ObjectFacts
<1>3. o.buffer \in Seq(Nat) /\ Len(o.buffer) = buffer_size
  BY ObjectFacts, BufferStripes
<1>4. Len(bytes) \in Nat
  OBVIOUS
<1> QED BY <1>1, <1>2, <1>3, <1>4 DEF Holds

LEMMA HoldsDone ==
  ASSUME NEW o \in Object128, NEW bytes \in Seq(Nat), NEW d \in Nat, Holds(o, bytes, d)
  PROVE  (Len(bytes) - o.m) \div Stripe = d
<1> DEFINE T == Total(Stripe, d)
<1>1. T \in Nat /\ o.m \in Nat /\ Stripe \in Nat \ {0} /\ Len(bytes) = T + o.m
  BY HoldsIs
<1>2. 0 \in 0 .. Stripe - 1 /\ Whole(Stripe, T + 0) = d
  BY <1>1, WholeRestUnique
<1> HIDE DEF T
<1>3. Len(bytes) - o.m = T + 0
  BY <1>1
<1> QED BY <1>2, <1>3, Zenon DEF Whole

LEMMA HoldsRest ==
  ASSUME NEW o \in Object128, NEW bytes \in Seq(Nat), NEW d \in Nat, Holds(o, bytes, d)
  PROVE  SubSeq(o.buffer, 1, o.m) = SubSeq(bytes, Len(bytes) - o.m + 1, Len(bytes))
<1> DEFINE T == Total(Stripe, d)
           b == o.buffer
           m == o.m
           l == Len(bytes)
<1>1. /\ T \in Nat /\ m \in Nat /\ m <= Len(b) /\ l \in Nat /\ l = T + m /\ b \in Seq(Nat)
      /\ \A i \in 1 .. m : b[i] = bytes[T + i]
  BY HoldsIs
<1> HIDE DEF T, b, m
<1>2. SubSeq(b, 0 + 1, 0 + m) = SubSeq(bytes, T + 1, T + m)
  <2>1. 0 \in Nat /\ 0 + m <= Len(b) /\ T + m <= Len(bytes)
    BY <1>1
  <2>2. \A i \in 1 .. m : b[0 + i] = bytes[T + i]
    BY <1>1
  <2>3. Alike(b, 0, bytes, T, m)
    BY <1>1, <2>1, <2>2 DEF Alike
  <2>4. PartOf(b, 0, m) = PartOf(bytes, T, m)
    BY <2>3, SamePart
  <2> QED BY <2>4, Zenon DEF PartOf
<1> HIDE DEF l
<1>3. 0 + 1 = 1 /\ 0 + m = m /\ T + m = l /\ T + 1 = l - m + 1
  BY <1>1
<1>4. SubSeq(b, 1, m) = SubSeq(bytes, l - m + 1, l)
  BY <1>2, <1>3, Zenon
<1> QED BY <1>4 DEF b, m, l

(* The end of the last stripe taken in, where the buffer keeps it. *)
LEMMA KeptEnd ==
  ASSUME NEW o \in Object128, NEW bytes \in Seq(Nat), NEW d \in Nat, Holds(o, bytes, d),
         d > 0, o.m < Stripe
  PROVE  /\ Len(bytes) - Stripe \in Nat
         /\ \A i \in 1 .. Stripe - o.m :
              o.buffer[3 * Stripe + (o.m + i)] = bytes[Len(bytes) - Stripe + i]
<1> DEFINE v == Total(Stripe, d - 1)
           m == o.m
           S == Stripe
           l == Len(bytes)
<1>1. PICK u \in Nat : d = u + 1
  <2>1. d - 1 \in Nat /\ d = (d - 1) + 1
    OBVIOUS
  <2> QED BY <2>1
<1>2. v \in Nat /\ Total(Stripe, d) = v + S
  <2>1. d - 1 = u
    BY <1>1
  <2> QED BY <1>1, <2>1, NextTotal
<1>3. m \in Nat /\ S \in Nat /\ l = Total(Stripe, d) + m
  BY HoldsIs
<1>4. \A i \in 1 .. Stripe : o.buffer[3 * Stripe + i] = bytes[v + i]
  <2>1. o.m <= 3 * Stripe
    BY <1>3
  <2>2. Follows(o.buffer, bytes, d)
    BY <2>1 DEF Holds
  <2> QED BY <2>2 DEF Follows
<1> HIDE DEF v
<1>5. ASSUME NEW i \in 1 .. Stripe - o.m
      PROVE  o.buffer[3 * Stripe + (o.m + i)] = bytes[Len(bytes) - Stripe + i]
  <2>1. m + i \in 1 .. S /\ l - S + i = v + (m + i)
    <3> HIDE DEF l
    <3> QED BY <1>2, <1>3, SMTT(30)
  <2>2. o.buffer[3 * Stripe + (o.m + i)] = bytes[v + (o.m + i)]
    BY <1>4, <2>1
  <2> QED BY <2>1, <2>2
<1>6. l - S \in Nat
  <2> HIDE DEF l
  <2> QED BY <1>2, <1>3
<1> QED BY <1>5, <1>6

LEMMA HoldsKept ==
  ASSUME NEW o \in Object128, NEW bytes \in Seq(Nat), NEW d \in Nat, Holds(o, bytes, d),
         d > 0, Stripe - o.m > 0
  PROVE  SubSeq(o.buffer, buffer_size - (Stripe - o.m) + 1, buffer_size)
           = SubSeq(bytes, Len(bytes) - Stripe + 1, Len(bytes) - o.m)
<1> DEFINE b == o.buffer
           m == o.m
           S == Stripe
           n == buffer_size
           l == Len(bytes)
           k == S - m
           x == 3 * S + m
           y == l - S
<1>1. m \in Nat /\ S \in Nat /\ n = 4 * S /\ l \in Nat /\ b \in Seq(Nat) /\ Len(b) = n /\ m < S
  BY HoldsIs
<1>2. y \in Nat /\ \A i \in 1 .. k : b[3 * S + (m + i)] = bytes[y + i]
  BY <1>1, KeptEnd
<1> HIDE DEF b, m, S, n
<1>3. k \in Nat /\ x \in Nat /\ x + k <= Len(b) /\ y + k <= Len(bytes)
  BY <1>1
<1>4. \A i \in 1 .. k : b[x + i] = bytes[y + i]
  <2> SUFFICES ASSUME NEW i \in 1 .. k PROVE b[x + i] = bytes[y + i]
    OBVIOUS
  <2>1. x + i = 3 * S + (m + i)
    BY <1>1
  <2> HIDE DEF x, y, k
  <2> QED BY <1>2, <2>1
<1>5. x + k = n /\ x + 1 = n - k + 1 /\ y + k = l - m
  BY <1>1
<1> HIDE DEF x, y, k
<1>6. SubSeq(b, x + 1, x + k) = SubSeq(bytes, y + 1, y + k)
  <2>1. b \in Seq(Nat) /\ y \in Nat
    BY <1>1, <1>2
  <2>2. Alike(b, x, bytes, y, k)
    BY <1>3, <1>4, <2>1 DEF Alike
  <2>3. PartOf(b, x, k) = PartOf(bytes, y, k)
    BY <2>2, SamePart
  <2> QED BY <2>3, Zenon DEF PartOf
<1>7. SubSeq(b, n - k + 1, n) = SubSeq(bytes, y + 1, l - m)
  BY <1>5, <1>6, Zenon
<1> QED BY <1>7, Zenon DEF b, m, S, n, l, k, y

(* Streamed, for any number of stripes taken in. *)
LEMMA HoldsStreamed ==
  ASSUME xxh \in Object128, message \in Seq(Nat), NEW d \in Nat, Holds(xxh, message, d)
  PROVE  Streamed
<1> DEFINE len  == Len(message)
           done == (len - xxh.m) \div Stripe
           k    == Stripe - xxh.m
<1>1. done = d
  BY HoldsDone
<1>2. len = d * Stripe + xxh.m
  BY HoldsIs DEF Total
<1>3. /\ xxh.acc = Accumulated(stripes_per_block(xxh), message, d)
      /\ xxh.num_stripes = d % stripes_per_block(xxh)
  BY DEF Holds, InStep
<1>4. SubSeq(xxh.buffer, 1, xxh.m) = SubSeq(message, len - xxh.m + 1, len)
  BY HoldsRest
<1>5. ASSUME d > 0, k > 0
      PROVE  SubSeq(xxh.buffer, buffer_size - k + 1, buffer_size)
               = SubSeq(message, len - Stripe + 1, len - xxh.m)
  BY <1>5, HoldsKept
<1> HIDE DEF done
<1>6. /\ len = done * Stripe + xxh.m
      /\ xxh.acc = Accumulated(stripes_per_block(xxh), message, done)
      /\ xxh.num_stripes = done % stripes_per_block(xxh)
      /\ (done > 0 /\ k > 0) =>
           SubSeq(xxh.buffer, buffer_size - k + 1, buffer_size)
             = SubSeq(message, len - Stripe + 1, len - xxh.m)
  BY <1>1, <1>2, <1>3, <1>5, Zenon
<1> QED BY <1>4, <1>6, Zenon DEF Streamed, done

(* The first digest *)

(* A message of up to Short bytes is in the buffer. *)
LEMMA ShortHeld ==
  ASSUME NEW o \in Object128, NEW bytes \in Seq(Nat), NEW d \in Nat, Holds(o, bytes, d),
         Len(bytes) <= Short
  PROVE  SubSeq(o.buffer, 1, Len(bytes)) = bytes
<1> DEFINE l == Len(bytes)
           b == o.buffer
<1>1. d = 0
  <2>1. Short < buffer_size /\ Short \in Nat /\ buffer_size \in Nat
    BY Sizes
  <2>2. ~(Len(bytes) > buffer_size)
    BY <2>1
  <2> QED BY <2>2, HoldsIs
<1>2. Total(Stripe, d) = 0
  <2>1. Stripe \in Nat \ {0}
    BY HoldsIs
  <2> QED BY <1>1, <2>1, TotalOne
<1>3. l \in Nat /\ l <= Len(b) /\ b \in Seq(Nat) /\ \A i \in 1 .. l : b[i] = bytes[i]
  <2>1. o.m \in Nat /\ l = o.m /\ o.m <= Len(b) /\ b \in Seq(Nat) /\ l \in Nat
    BY <1>2, HoldsIs
  <2>2. \A i \in 1 .. o.m : b[i] = bytes[0 + i]
    BY <1>2, HoldsIs
  <2> HIDE DEF l, b
  <2>3. \A i \in 1 .. l : b[i] = bytes[i]
    BY <2>1, <2>2
  <2> QED BY <2>1, <2>3
<1> HIDE DEF b
<1> DEFINE s == SubSeq(b, 1, l)
<1>4. s \in Seq(Nat) /\ Len(s) = l /\ \A i \in 1 .. l : s[i] = b[i]
  BY <1>3, Prefix
<1> HIDE DEF s
<1>5. Len(s) = Len(bytes) /\ \A i \in 1 .. Len(s) : s[i] = bytes[i]
  BY <1>3, <1>4
<1>6. s = bytes
  BY <1>4, <1>5, SeqEqual
<1> QED BY <1>6 DEF s, b

(* The last stripe of a longer message. *)
LEMMA LastHeld ==
  ASSUME NEW o \in Object128, NEW bytes \in Seq(Nat), NEW d \in Nat, Holds(o, bytes, d),
         Len(bytes) > Short
  PROVE  last_stripe(o) = SubSeq(bytes, Len(bytes) - Stripe + 1, Len(bytes))
<1> DEFINE T == Total(Stripe, d)
           b == o.buffer
           m == o.m
           S == Stripe
           l == Len(bytes)
           y == l - S
           s == last_stripe(o)
           t == SubSeq(bytes, y + 1, y + S)
<1>1. /\ T \in Nat /\ m \in Nat /\ S \in Nat \ {0} /\ l \in Nat /\ l = T + m /\ l > 3 * S
      /\ \A i \in 1 .. m : b[i] = bytes[T + i]
  <2>1. 3 * Stripe < Short /\ Short \in Nat
    BY Sizes
  <2>2. Len(bytes) \in Nat /\ Stripe \in Nat
    BY HoldsIs
  <2>3. Len(bytes) > 3 * Stripe
    BY <2>1, <2>2
  <2> QED BY <2>3, HoldsIs
<1>2. y \in Nat /\ y + S = l
  <2> HIDE DEF l
  <2> QED BY <1>1
<1>3. /\ s \in Block(S, Nat)
      /\ m >= S => \A i \in 1 .. S : s[i] = b[m - S + i]
      /\ m < S => \A i \in 1 .. S :
           s[i] = IF i <= S - m THEN b[3 * S + (m + i)] ELSE b[i - (S - m)]
  BY LastStripeIs
<1>4. s \in Seq(Nat) /\ Len(s) = S
  BY <1>1, <1>3, BlockIsSeq
<1>5. t \in Seq(Nat) /\ Len(t) = S /\ \A i \in 1 .. S : t[i] = bytes[y + i]
  <2>1. y + S <= Len(bytes) /\ S \in Nat /\ y \in Nat
    BY <1>1, <1>2
  <2> HIDE DEF y, S
  <2> QED BY <2>1, BytesPart
<1> HIDE DEF s, t
<1>6. ASSUME m >= S, NEW i \in 1 .. S PROVE s[i] = t[i]
  <2>1. m - S + i \in 1 .. m /\ T + (m - S + i) = y + i
    <3> HIDE DEF T, m, S, l
    <3> QED BY <1>1, <1>6
  <2> HIDE DEF T, b, m, S, y
  <2>2. s[i] = b[m - S + i] /\ b[m - S + i] = bytes[T + (m - S + i)]
    BY <1>1, <1>3, <1>6, <2>1
  <2> QED BY <1>5, <2>1, <2>2
<1>7. ASSUME ~(m >= S), NEW i \in 1 .. S PROVE s[i] = t[i]
  <2>1. m < S /\ d > 0
    <3>1. d # 0
      <4> SUFFICES ASSUME d = 0 PROVE FALSE
        OBVIOUS
      <4>1. T = 0
        BY <1>1, TotalOne
      <4> HIDE DEF T, l, m, S
      <4> QED BY <1>1, <1>7, <4>1
    <3> QED BY <1>1, <1>7, <3>1
  <2>2. \A j \in 1 .. S - m : b[3 * S + (m + j)] = bytes[y + j]
    BY <2>1, KeptEnd
  <2>3. CASE i <= S - m
    <3>1. i \in 1 .. S - m
      <4> HIDE DEF m, S
      <4> QED BY <1>1, <2>3
    <3> HIDE DEF T, b, m, S, y
    <3> QED BY <1>3, <1>5, <2>1, <2>2, <2>3, <3>1
  <2>4. CASE ~(i <= S - m)
    <3>1. i - (S - m) \in 1 .. m /\ T + (i - (S - m)) = y + i
      <4> HIDE DEF T, m, S, l
      <4> QED BY <1>1, <2>1, <2>4
    <3> HIDE DEF T, b, m, S, y
    <3>2. s[i] = b[i - (S - m)] /\ b[i - (S - m)] = bytes[T + (i - (S - m))]
      BY <1>1, <1>3, <2>1, <2>4, <3>1
    <3> QED BY <1>5, <3>1, <3>2
  <2> QED BY <2>3, <2>4
<1> HIDE DEF m, S, l, y
<1>8. \A i \in 1 .. S : s[i] = t[i]
  BY <1>6, <1>7
<1>9. s = t
  BY <1>4, <1>5, <1>8, SeqEqual
<1>10. t = SubSeq(bytes, y + 1, l)
  BY <1>2, Zenon DEF t
<1> QED BY <1>9, <1>10, Zenon DEF s, y, l, S

(* The held stripes continue what was accumulated, as long as they do not  *)
(* use the secret up.                                                      *)
LEMMA HeldContinue ==
  ASSUME NEW o \in Object128, NEW bytes \in Seq(Nat), NEW d \in Nat, Holds(o, bytes, d),
         o.m > 0, o.num_stripes + Held(o) < stripes_per_block(o)
  PROVE  /\ o.acc \o held_steps(o) = Accumulated(stripes_per_block(o), bytes, d + Held(o))
         /\ (Len(bytes) - 1) \div Stripe = d + Held(o)
<1> DEFINE P == stripes_per_block(o)
           h == Held(o)
           T == Total(Stripe, d)
           m == o.m
           a == o.acc
           s == held_steps(o)
           f == Blocks(Stripe, o.buffer)
           n == d + (d \div P)
           c == Accumulated(P, bytes, d + h)
           V == StepsAt(P, bytes) \cup StepType
<1>1. P \in Nat \ {0}
  BY PartsPositive
<1>2. /\ T \in Nat /\ m \in Nat /\ Stripe \in Nat \ {0} /\ Len(bytes) \in Nat
      /\ Len(bytes) = T + m /\ \A i \in 1 .. m : o.buffer[i] = bytes[T + i]
  BY HoldsIs
<1>3. h \in Nat /\ h <= 3 /\ Total(Stripe, h) \in Nat /\ m - 1 - Total(Stripe, h) \in 0 .. Stripe - 1
  <2>1. h \in 0 .. 3 /\ m - 1 - Total(Stripe, h) \in 0 .. Stripe - 1
    BY HeldIs
  <2>2. h \in Nat /\ h <= 3
    BY <2>1
  <2>3. Total(Stripe, h) \in Nat
    BY <1>2, <2>2, TotalType
  <2> QED BY <2>1, <2>2, <2>3
<1>4. Total(Stripe, d + h) = T + Total(Stripe, h) /\ d + h \in Nat
  <2>1. h \in Nat /\ Stripe \in Nat \ {0}
    BY <1>2, <1>3
  <2>2. d + h \in Nat
    BY <2>1
  <2> HIDE DEF h
  <2>3. Total(Stripe, d + h) = Total(Stripe, d) + Total(Stripe, h)
    BY <2>1, TotalPlus
  <2> QED BY <2>2, <2>3 DEF T
<1>5. (Len(bytes) - 1) \div Stripe = d + h
  <2> DEFINE r == m - 1 - Total(Stripe, h)
             H == Total(Stripe, h)
             l == Len(bytes)
  <2>1. Whole(Stripe, Total(Stripe, d + h) + r) = d + h
    BY <1>2, <1>3, <1>4, WholeRestUnique
  <2>2. l - 1 = (T + H) + r
    <3>1. l = T + m /\ T \in Nat /\ m \in Nat /\ H \in Nat /\ r = m - 1 - H
      BY <1>2, <1>3
    <3> HIDE DEF T, m, H, l, r
    <3> QED BY <3>1
  <2> HIDE DEF r
  <2> QED BY <1>4, <2>1, <2>2, Zenon DEF Whole
<1>6. a = Accumulated(P, bytes, d) /\ o.num_stripes = d % P /\ d % P \in 0 .. P - 1
      /\ (d % P) + h < P
  BY <1>1, DivMod DEF Holds, InStep
<1>7. /\ s \in Seq(StepType) /\ Len(s) = h
      /\ \A j \in 1 .. h : /\ f[j] \in Block(Stripe, Nat)
                           /\ s[j] = Step("accumulate", o.num_stripes + j - 1, f[j])
  BY HeldSteps
<1>8. \A j \in 1 .. 4, i \in 1 .. Stripe : f[j][i] = o.buffer[Total(Stripe, j - 1) + i]
  BY ObjectFacts, BufferStripes
<1> HIDE DEF P, h, m, a, s, f
<1>9. ASSUME NEW j \in 1 .. h PROVE f[j] = StripeOf(bytes, d + j)
  <2>1. PICK u \in Nat : j = u + 1 /\ u < h
    <3>1. j - 1 \in Nat /\ j = (j - 1) + 1 /\ j - 1 < h
      BY <1>3
    <3> QED BY <3>1
  <2> DEFINE x == Total(Stripe, u)
             z == Total(Stripe, d + u)
             e == Total(Stripe, (d + u) + 1)
             H == Total(Stripe, h)
  <2>2. /\ x \in Nat /\ x + Stripe <= H /\ z = T + x /\ e = z + Stripe
        /\ d + u \in Nat /\ (d + u) + 1 = d + j /\ j - 1 = u
    <3>1. d + u \in Nat /\ (d + u) + 1 = d + j /\ j - 1 = u
      BY <2>1
    <3> QED BY <1>2, <1>3, <2>1, <3>1, TotalType, TotalPlus, TotalMonotonic, NextTotal, ZenonT(60)
  <2>3. H \in Nat /\ m > H
    BY <1>2, <1>3, SMTT(30)
  <2> HIDE DEF x, z, e, H, T
  <2>4. e <= Len(bytes) /\ \A i \in 1 .. Stripe : x + i \in 1 .. m /\ T + (x + i) = z + i
    BY <1>2, <2>2, <2>3
  <2>5. j \in 1 .. 4
    BY <1>3
  <2>6. ASSUME NEW i \in 1 .. Stripe PROVE f[j][i] = bytes[z + i]
    <3>1. f[j][i] = o.buffer[x + i]
      BY <1>8, <2>2, <2>5 DEF x
    <3>2. o.buffer[x + i] = bytes[T + (x + i)]
      BY <1>2, <2>4
    <3> QED BY <2>4, <3>1, <3>2
  <2>7. f[j] \in Block(Stripe, Nat)
    BY <1>7
  <2>8. f[j] = StripeOf(bytes, (d + u) + 1)
    BY <2>2, <2>4, <2>6, <2>7, StripeUnique DEF z, e
  <2> QED BY <2>2, <2>8
<1>10. /\ n \in Nat /\ a \in Seq(StepsAt(P, bytes)) /\ Len(a) = n
       /\ \A i \in 1 .. n : a[i] = StepAt(P, bytes, i)
  BY <1>1, <1>6, AccumulatedIs
<1>11. /\ c \in Seq(StepsAt(P, bytes)) /\ Len(c) = n + h
       /\ \A i \in 1 .. n + h : c[i] = StepAt(P, bytes, i)
  <2>1. (d + h) \div P = d \div P
    BY <1>1, <1>3, <1>6, NextPart
  <2>2. d \div P \in Nat
    BY <1>1, DivMod
  <2>3. (d + h) + ((d + h) \div P) = n + h
    BY <1>3, <2>1, <2>2
  <2>4. LET x == (d + h) + ((d + h) \div P) IN
        /\ x \in Nat /\ c \in Seq(StepsAt(P, bytes)) /\ Len(c) = x
        /\ \A i \in 1 .. x : c[i] = StepAt(P, bytes, i)
    BY <1>1, <1>4, AccumulatedIs
  <2> HIDE DEF n, c
  <2> QED BY <2>3, <2>4, Zenon
<1> HIDE DEF c
<1>12. ASSUME NEW j \in 1 .. h PROVE s[j] = StepAt(P, bytes, n + j)
  <2>1. PICK u \in Nat : j = u + 1 /\ u < h
    <3>1. j - 1 \in Nat /\ j = (j - 1) + 1 /\ j - 1 < h
      BY <1>3
    <3> QED BY <3>1
  <2> DEFINE q == d \div P
             r == d % P
             k == d + u
             i == k + (k \div P) + 1
  <2>2. q \in Nat /\ r \in Nat /\ k \in Nat
    <3>1. q \in Nat /\ r \in 0 .. P - 1
      BY <1>1, DivMod
    <3> HIDE DEF q, r
    <3> QED BY <1>1, <2>1, <3>1
  <2>3. k \div P = q /\ k % P = r + u
    <3>1. r + u < P
      <4> HIDE DEF r
      <4> QED BY <1>1, <1>3, <1>6, <2>1, <2>2 DEF r
    <3> QED BY <1>1, <2>1, <3>1, NextPart
  <2>4. i \div (P + 1) = k \div P /\ i % (P + 1) = (k % P) + 1
    BY <1>1, <2>2, Place
  <2>5. i = n + j /\ i - q = d + j /\ (r + u) + 1 # 0 /\ ((r + u) + 1) - 1 = r + j - 1
    <3>1. i = (d + u) + q + 1
      BY <2>3
    <3> HIDE DEF i, k, q, r
    <3> QED BY <2>1, <2>2, <3>1 DEF q
  <2> HIDE DEF i, k, q, r, n
  <2>6. StepAt(P, bytes, i) = Step("accumulate", r + j - 1, StripeOf(bytes, d + j))
    BY <2>3, <2>4, <2>5, Zenon DEF StepAt
  <2>7. s[j] = Step("accumulate", r + j - 1, StripeOf(bytes, d + j))
    BY <1>6, <1>7, <1>9, Zenon DEF r
  <2> QED BY <2>5, <2>6, <2>7, Zenon
<1> HIDE DEF n, V
<1>13. a \in Seq(V) /\ s \in Seq(V) /\ c \in Seq(V)
  <2>1. StepsAt(P, bytes) \subseteq V /\ StepType \subseteq V
    BY DEF V
  <2> QED BY <1>7, <1>10, <1>11, <2>1
<1> DEFINE z == a \o s
<1>14. /\ z \in Seq(V) /\ Len(z) = n + h
       /\ \A i \in 1 .. n + h : z[i] = IF i <= n THEN a[i] ELSE s[i - n]
  BY <1>7, <1>10, <1>13, ConcatProperties, ZenonT(60)
<1> HIDE DEF z
<1>15. ASSUME NEW i \in 1 .. n + h PROVE z[i] = c[i]
  <2>1. CASE i <= n
    <3>1. i \in 1 .. n
      BY <1>10, <2>1
    <3> QED BY <1>10, <1>11, <1>14, <2>1, <3>1
  <2>2. CASE ~(i <= n)
    <3>1. PICK j \in 1 .. h : i = n + j /\ i - n = j
      <4>1. i - n \in 1 .. h /\ i = n + (i - n)
        BY <1>3, <1>10, <2>2
      <4> QED BY <4>1
    <3> QED BY <1>11, <1>12, <1>14, <2>2, <3>1
  <2> QED BY <2>1, <2>2
<1>16. z = c
  BY <1>11, <1>13, <1>14, <1>15, SeqEqual
<1> QED BY <1>5, <1>16 DEF z, c, a, s, P, h

------------------------------------------------------------------------------
(* The invariant *)

Inv ==
  /\ xxh \in Object128 /\ message \in Seq(Nat)
  /\ xxh.n = Len(message) % SizeMod
  /\ xxh.m = 0 <=> message = << >>
  /\ results \in 0 .. MaxResults
  /\ digest \in IF results = 0 THEN {NoDigest} ELSE Digest
  /\ results = 0 => \E d \in Nat : Holds(xxh, message, d)

LEMMA Constructed ==
  ASSUME NEW c \in Construction
  PROVE  \E secret \in Secret, len \in min_secret_len .. default_secret_len, seed \in Nat,
            own \in BOOLEAN : construct(c[1], c[2], c[3]) = Object(secret, len, seed, own)
<1> DEFINE how == c[1]
           seed == c[2]
           k == c[3]
           x == construct(how, seed, k)
           Is(o) == \E secret \in Secret, len \in min_secret_len .. default_secret_len,
                       s \in Nat, own \in BOOLEAN : o = Object(secret, len, s, own)
<1>1. /\ how \in {"default", "seed", "bytes", "with_secret", "with_secret_and_seed"}
      /\ seed \in Nat /\ k \in Nat
  BY ConstructionAssumption
<1> HIDE DEF how, seed, k
<1>2. /\ default_secret_len \in min_secret_len .. default_secret_len /\ 0 \in Nat
      /\ min_secret_len \in Nat /\ default_secret_len \in Nat
  BY Sizes
<1>3. default_secret \in Secret /\ <<"seed", seed>> \in Secret /\ <<"key", k>> \in Secret
      /\ <<"secret", k>> \in Secret
  BY <1>1 DEF default_secret, Secret
<1>4. ASSUME NEW secret \in Secret, NEW len \in min_secret_len .. default_secret_len,
             NEW s \in Nat, NEW own \in BOOLEAN
      PROVE  Is(Object(secret, len, s, own))
  OBVIOUS
<1> HIDE DEF Is
<1>5. ASSUME how = "default" PROVE Is(x)
  <2>1. x = Object(default_secret, default_secret_len, 0, FALSE)
    BY <1>5 DEF construct
  <2> QED BY <1>2, <1>3, <1>4, <2>1
<1>6. ASSUME how = "seed" PROVE Is(x)
  <2>1. x = Object(<<"seed", seed>>, default_secret_len, seed, FALSE)
    BY <1>6 DEF construct, seeded
  <2> QED BY <1>1, <1>2, <1>3, <1>4, <2>1
<1>7. ASSUME how = "bytes" PROVE Is(x)
  <2>1. x = IF k = 0 THEN Object(default_secret, default_secret_len, 0, FALSE)
            ELSE Object(<<"key", k>>, default_secret_len, k, TRUE)
    BY <1>7 DEF construct, keyed
  <2> QED BY <1>1, <1>2, <1>3, <1>4, <2>1
<1> DEFINE l == IF k < min_secret_len \/ k > default_secret_len THEN default_secret_len ELSE k
<1>8. l \in min_secret_len .. default_secret_len
  BY <1>1, <1>2
<1>9. ASSUME how = "with_secret" PROVE Is(x)
  <2>1. x = Object(<<"secret", k>>, l, 0, TRUE)
    BY <1>9 DEF construct, secret_of
  <2> QED BY <1>2, <1>3, <1>4, <1>8, <2>1
<1>10. ASSUME how = "with_secret_and_seed" PROVE Is(x)
  <2>1. x = Object(<<"secret", k>>, l, seed, FALSE)
    BY <1>10 DEF construct, secret_of
  <2> QED BY <1>1, <1>3, <1>4, <1>8, <2>1
<1>11. Is(x)
  BY <1>1, <1>5, <1>6, <1>7, <1>9, <1>10
<1> QED BY <1>11 DEF Is, how, seed, k

LEMMA ObjectIs ==
  ASSUME NEW secret \in Secret, NEW len \in min_secret_len .. default_secret_len,
         NEW seed \in Nat, NEW own \in BOOLEAN
  PROVE  LET o == Object(secret, len, seed, own) IN
         o \in Object128 /\ o.n = 0 /\ o.m = 0 /\ Holds(o, << >>, 0)
<1> DEFINE o == Object(secret, len, seed, own)
<1>1. /\ buffer_size \in Nat /\ 0 \in Nat /\ 0 \in 0 .. buffer_size /\ Stripe \in Nat \ {0}
      /\ << >> \in Seq(StepType)
  BY Sizes
<1>2. Zeroes(buffer_size) \in Block(buffer_size, Nat)
  BY <1>1, ZeroesType DEF Block
<1>3. o \in Object128 /\ o.n = 0 /\ o.m = 0 /\ o.acc = << >> /\ o.num_stripes = 0
  BY <1>1, <1>2 DEF Object, Object128
<1> HIDE DEF o
<1>4. InStep(o, << >>, 0)
  <2>1. stripes_per_block(o) \in Nat \ {0}
    BY <1>3, PartsPositive
  <2>2. Accumulated(stripes_per_block(o), << >>, 0) = << >> /\ 0 % stripes_per_block(o) = 0
    BY <2>1, AccumulatedNone
  <2> QED BY <1>3, <2>2, Zenon DEF InStep
<1>5. Len(<< >>) = Total(Stripe, 0) + o.m
  <2>1. Total(Stripe, 0) = 0 /\ Len(<< >>) = 0
    BY <1>1, TotalOne
  <2> QED BY <1>3, <2>1
<1>6. /\ \A i \in 1 .. o.m : o.buffer[i] = << >>[Total(Stripe, 0) + i]
      /\ ~(0 > 0)
  BY <1>3
<1>7. Holds(o, << >>, 0)
  BY <1>4, <1>5, <1>6 DEF Holds
<1> QED BY <1>3, <1>7 DEF o

LEMMA InitInv == Init => Inv
<1> SUFFICES ASSUME Init PROVE Inv
  OBVIOUS
<1>1. PICK c \in Construction : xxh = construct(c[1], c[2], c[3])
  BY DEF Init
<1>2. xxh \in Object128 /\ xxh.n = 0 /\ xxh.m = 0 /\ Holds(xxh, << >>, 0)
  BY <1>1, Constructed, ObjectIs
<1>3. message = << >> /\ results = 0 /\ digest = NoDigest
  BY DEF Init
<1>4. Len(message) % SizeMod = 0
  <2>1. SizeMod \in Nat \ {0}
    BY Sizes
  <2>2. 0 % SizeMod = 0
    BY <2>1, AccumulatedNone
  <2>3. Len(message) = 0
    BY <1>3
  <2> QED BY <2>2, <2>3, Zenon
<1>5. message \in Seq(Nat) /\ results \in 0 .. MaxResults /\ 0 \in Nat
  BY <1>3, BoundAssumption
<1>6. \E d \in Nat : Holds(xxh, message, d)
  BY <1>2, <1>3, <1>5
<1> QED BY <1>2, <1>3, <1>4, <1>5, <1>6 DEF Inv

LEMMA BytesType ==
  ASSUME NEW from \in Nat, NEW len \in Nat
  PROVE  Bytes(from, len) \in Seq(Nat) /\ Len(Bytes(from, len)) = len
<1> DEFINE p == Bytes(from, len)
<1>1. p \in [1 .. len -> Nat]
  BY DEF Bytes
<1> HIDE DEF p
<1>2. p \in Seq(Nat) /\ Len(p) = len
  BY <1>1
<1> QED BY <1>2 DEF p

LEMMA UpdateInv ==
  ASSUME Inv, NEW len \in Lengths, Update(len)
  PROVE  Inv'
<1> DEFINE p == Bytes(Len(message), len)
<1>1. /\ xxh \in Object128 /\ message \in Seq(Nat) /\ xxh.n = Len(message) % SizeMod
      /\ xxh.m = 0 <=> message = << >>
      /\ results = 0 => \E d \in Nat : Holds(xxh, message, d)
  BY DEF Inv
<1>2. len \in Nat /\ Len(message) \in Nat
  BY <1>1, BoundAssumption
<1>3. p \in Seq(Nat) /\ Len(p) = len
  BY <1>2, BytesType
<1>4. xxh' = update(xxh, p) /\ message' = message \o p /\ results' = results /\ digest' = digest
  BY DEF Update
<1> HIDE DEF p
<1>5. message' \in Seq(Nat) /\ Len(message') = Len(message) + len
  BY <1>1, <1>3, <1>4, ConcatProperties
<1>6. xxh' \in Object128
  BY <1>1, <1>3, <1>4, UpdateType
<1>7. xxh'.n = Len(message') % SizeMod /\ (xxh'.m = 0 <=> message' = << >>)
  <2>1. CASE len = 0
    <3>1. p = << >>
      BY <1>3, <2>1, EmptySeq
    <3>2. message' = message
      BY <1>1, <1>4, <3>1, ConcatEmptySeq
    <3>3. xxh' = xxh
      BY <1>1, <1>3, <1>4, <2>1, UpdateType
    <3> QED BY <1>1, <3>2, <3>3
  <2>2. CASE len > 0
    <3>1. xxh'.m > 0 /\ xxh'.n = (xxh.n + len) % SizeMod
      BY <1>1, <1>3, <1>4, <2>2, UpdateType
    <3>2. ((Len(message) % SizeMod) + len) % SizeMod = (Len(message) + len) % SizeMod
      <4>1. SizeMod \in Nat \ {0}
        BY Sizes
      <4> QED BY <1>2, <4>1, ModPlus
    <3>3. xxh'.n = Len(message') % SizeMod
      BY <1>1, <1>5, <3>1, <3>2, Zenon
    <3>4. message' # << >>
      <4>1. Len(message') > 0
        BY <1>2, <1>5, <2>2
      <4> QED BY <4>1
    <3>5. xxh'.m # 0
      <4>1. xxh'.m \in 0 .. buffer_size /\ buffer_size \in Nat
        BY <1>6, Sizes, ObjectFacts
      <4> QED BY <3>1, <4>1
    <3> QED BY <3>3, <3>4, <3>5
  <2> QED BY <1>2, <2>1, <2>2
<1>8. ASSUME results' = 0 PROVE \E d \in Nat : Holds(xxh', message', d)
  <2>1. PICK d \in Nat : Holds(xxh, message, d)
    BY <1>1, <1>4, <1>8
  <2>2. \E e \in Nat : Holds(update(xxh, p), message \o p, e)
    BY <1>1, <1>3, <2>1, UpdateHolds
  <2> QED BY <1>4, <2>2
<1>9. results' \in 0 .. MaxResults /\ digest' \in IF results' = 0 THEN {NoDigest} ELSE Digest
  BY <1>4 DEF Inv
<1> QED BY <1>5, <1>6, <1>7, <1>8, <1>9 DEF Inv

LEMMA ResultInv ==
  ASSUME Inv, Result
  PROVE  Inv'
<1>1. /\ xxh \in Object128 /\ message \in Seq(Nat) /\ xxh.n = Len(message) % SizeMod
      /\ xxh.m = 0 <=> message = << >>
      /\ results \in 0 .. MaxResults /\ MaxResults \in Nat
  BY BoundAssumption DEF Inv
<1>2. PICK changed \in Changes :
        /\ results < MaxResults /\ digest' = ResultOf(xxh) /\ results' = results + 1
        /\ xxh' = result(xxh, results', changed) /\ message' = message
  BY DEF Result, ResultMixing
<1>3. results' \in 0 .. MaxResults /\ results' \in Nat /\ results' # 0
  BY <1>1, <1>2
<1>4. xxh' \in Object128 /\ xxh'.n = xxh.n /\ xxh'.m = xxh.m
  BY <1>1, <1>2, <1>3, ResultIs
<1>5. digest' \in Digest
  <2>1. xxh.n \in 0 .. SizeMod - 1
    <3>1. SizeMod \in Nat \ {0} /\ Len(message) \in Nat
      BY <1>1, Sizes
    <3> QED BY <1>1, <3>1, DivMod
  <2> QED BY <1>1, <1>2, <2>1, ResultOfIs
<1> QED BY <1>1, <1>2, <1>3, <1>4, <1>5 DEF Inv

LEMMA StutterInv ==
  ASSUME Inv, UNCHANGED vars
  PROVE  Inv'
BY DEF Inv, vars

LEMMA SpecInv == Spec => []Inv
<1>1. Inv /\ [Next]_vars => Inv'
  <2> SUFFICES ASSUME Inv, [Next]_vars PROVE Inv'
    OBVIOUS
  <2>1. CASE \E len \in Lengths : Update(len)
    BY <2>1, UpdateInv
  <2>2. CASE Result
    BY <2>2, ResultInv
  <2>3. CASE UNCHANGED vars
    BY <2>3, StutterInv
  <2> QED BY <2>1, <2>2, <2>3, Zenon DEF Next
<1> QED BY <1>1, InitInv, PTL DEF Spec

(* The members keep their types, the counter is the length of the message  *)
(* modulo the range of std::size_t, and the buffer of an object that was   *)
(* given bytes is never empty again.                                       *)
THEOREM TypeCorrect == Spec => []TypeOK
<1>1. Inv => TypeOK
  BY ObjectFacts DEF Inv, TypeOK
<1> QED BY <1>1, SpecInv, PTL

(* However the message is split, before a result the object has taken in a *)
(* whole number of its stripes, in step with the secret, and holds the     *)
(* rest and what completes the last stripe.                                *)
THEOREM Splits == Spec => []Streamed
<1>1. Inv => Streamed
  <2> SUFFICES ASSUME Inv PROVE Streamed
    OBVIOUS
  <2>1. CASE results = 0
    <3>1. PICK d \in Nat : Holds(xxh, message, d)
      BY <2>1 DEF Inv
    <3>2. xxh \in Object128 /\ message \in Seq(Nat)
      BY DEF Inv
    <3> QED BY <3>1, <3>2, HoldsStreamed
  <2>2. CASE results # 0
    BY <2>2 DEF Streamed
  <2> QED BY <2>1, <2>2
<1> QED BY <1>1, SpecInv, PTL

LEMMA FirstDigest ==
  ASSUME Inv, Result, results = 0, InBlock(xxh), Len(message) < SizeMod
  PROVE  digest' = OneShot(xxh, message)
<1> DEFINE l == Len(message)
           P == stripes_per_block(xxh)
           h == Held(xxh)
<1>1. /\ xxh \in Object128 /\ message \in Seq(Nat) /\ xxh.n = l % SizeMod
      /\ xxh.m = 0 <=> message = << >>
  BY DEF Inv
<1>2. PICK d \in Nat : Holds(xxh, message, d)
  BY DEF Inv
<1>3. xxh.n = l /\ l \in Nat /\ Short \in Nat \ {0}
  <2>1. SizeMod \in Nat \ {0} /\ l \in Nat /\ l < SizeMod /\ Short \in Nat \ {0}
    BY <1>1, Sizes
  <2>2. l \in 0 .. SizeMod - 1 /\ 0 \in Nat /\ SizeMod * 0 + l = l
    BY <2>1
  <2>3. (SizeMod * 0 + l) % SizeMod = l
    BY <2>1, <2>2, DivModOf
  <2>4. l % SizeMod = l
    BY <2>2, <2>3, Zenon
  <2> QED BY <1>1, <2>1, <2>4
<1>4. digest' = ResultOf(xxh)
  BY DEF Result, ResultMixing
<1>5. CASE l <= Short
  <2>1. SubSeq(xxh.buffer, 1, l) = message
    BY <1>1, <1>2, <1>5, ShortHeld
  <2>2. ResultOf(xxh) = digest_short(xxh, SubSeq(xxh.buffer, 1, l))
    BY <1>3, <1>5, Zenon DEF ResultOf
  <2>3. OneShot(xxh, message) = digest_short(xxh, message)
    BY <1>5, Zenon DEF OneShot
  <2> QED BY <1>4, <2>1, <2>2, <2>3, Zenon
<1>6. CASE ~(l <= Short)
  <2>1. xxh.m > 0
    <3>1. message # << >>
      BY <1>3, <1>6
    <3> QED BY <1>1, <1>2, <3>1, HoldsIs
  <2>2. xxh.num_stripes + h < P
    <3>1. ~(xxh.n <= Short)
      BY <1>3, <1>6, Zenon
    <3> QED BY <3>1, Zenon DEF InBlock
  <2>3. /\ xxh.acc \o held_steps(xxh) = Accumulated(P, message, d + h)
        /\ (l - 1) \div Stripe = d + h
    BY <1>1, <1>2, <2>1, <2>2, HeldContinue
  <2>4. last_stripe(xxh) = SubSeq(message, l - Stripe + 1, l)
    BY <1>1, <1>2, <1>3, <1>6, LastHeld
  <2> DEFINE a == Append(xxh.acc \o held_steps(xxh), Step("last", 0, last_stripe(xxh)))
             x == last_round(xxh)
             e == Append(Accumulated(P, message, (l - 1) \div Stripe),
                         Step("last", 0, SubSeq(message, l - Stripe + 1, l)))
  <2>5. x.acc = a
    <3>1. x = With(xxh, xxh.buffer, a, xxh.n, xxh.m, xxh.num_stripes + h)
      BY <1>1, LastRoundIs
    <3> HIDE DEF x, a
    <3> QED BY <3>1, WithIs
  <2>6. a = e
    BY <2>3, <2>4, Zenon
  <2>7. ResultOf(xxh) = digest_long(xxh, x.acc, l)
    BY <1>3, <1>6, Zenon DEF ResultOf
  <2>8. OneShot(xxh, message) = digest_long(xxh, e, l)
    BY <1>6, Zenon DEF OneShot
  <2> HIDE DEF a, x, e
  <2> QED BY <1>4, <2>5, <2>6, <2>7, <2>8, Zenon
<1> QED BY <1>5, <1>6

(* The first result of a message that does not wrap the counter is the     *)
(* digest of the message in one piece, as long as the stripes that are     *)
(* left in the buffer end before the secret does.                          *)
THEOREM InOnePiece == Spec => DigestInBlock
<1>1. Inv /\ [Next]_vars =>
        [(Result /\ results = 0 /\ InBlock(xxh) /\ Len(message) < SizeMod)
           => digest' = OneShot(xxh, message)]_vars
  BY FirstDigest, Zenon
<1> QED BY <1>1, SpecInv, PTL DEF Spec, DigestInBlock

LEMMA DigestAdds ==
  ASSUME NEW d \in Nat, d > 0
  PROVE  Total(SizeMod, d) \in Nat /\ Total(SizeMod, d) > 0
<1>1. SizeMod \in Nat \ {0} /\ 1 <= d /\ 1 \in Nat
  BY Sizes
<1>2. Total(SizeMod, 1) = SizeMod /\ Total(SizeMod, 1) <= Total(SizeMod, d)
  BY <1>1, TotalOne, TotalMonotonic
<1>3. Total(SizeMod, d) \in Nat
  BY <1>1, TotalType
<1> QED BY <1>1, <1>2, <1>3

(* A short message that is not empty: the seed and the secret stay, and    *)
(* the digest is the same when the bytes are.                              *)
LEMMA ShortRepeats ==
  ASSUME NEW o \in Object128, o.n \in 0 .. SizeMod - 1, o.n > 0, o.n <= Short,
         NEW d \in Nat, d > 0, NEW changed
  PROVE  ResultOf(result(o, d, changed)) = ResultOf(o) <=> LeavesMessage(o, changed)
<1> DEFINE x == result(o, d, changed)
           t == Total(SizeMod, d)
           p == SubSeq(o.buffer, 1, o.n)
           q == SubSeq(x.buffer, 1, o.n)
<1>1. /\ o.n \in Nat /\ Short \in Nat /\ Mixed \in Nat /\ Short < buffer_size
      /\ buffer_size \in Nat /\ t \in Nat /\ t > 0
  BY ObjectFacts, Sizes, DigestAdds
<1>2. /\ x \in Object128 /\ x.n = o.n /\ x.secret = o.secret /\ x.with_secret = o.with_secret
      /\ x.seed = o.seed
      /\ \A i \in 1 .. buffer_size : x.buffer[i] = MixedByte(o.buffer, d, changed, i)
  BY <1>1, ResultIs
<1> HIDE DEF x
<1>3. ASSUME NEW i \in 1 .. o.n
      PROVE  x.buffer[i] = o.buffer[i]
               <=> (IF i <= Mixed THEN i \notin changed ELSE o.buffer[i] = 0)
  <2>1. i \in 1 .. buffer_size /\ i \in Nat /\ o.buffer[i] \in Nat
    <3>1. o.buffer \in [1 .. buffer_size -> Nat]
      BY ObjectFacts DEF Block
    <3>2. i \in 1 .. buffer_size /\ i \in Nat
      BY <1>1
    <3> QED BY <3>1, <3>2
  <2>2. x.buffer[i] = IF i > Mixed THEN 0 ELSE IF i \in changed THEN o.buffer[i] + t ELSE o.buffer[i]
    BY <1>2, <2>1, Zenon DEF MixedByte
  <2> HIDE DEF t
  <2> QED BY <1>1, <2>1, <2>2
<1>4. LeavesMessage(o, changed) <=> \A i \in 1 .. o.n : x.buffer[i] = o.buffer[i]
  <2>1. o.n \in 1 .. Short
    BY <1>1
  <2> QED BY <1>3, <2>1, Zenon DEF LeavesMessage
<1>5. ASSUME ResultOf(x) = ResultOf(o) PROVE LeavesMessage(o, changed)
  <2>1. \A i \in 1 .. o.n : ResultOf(o).bytes[i] = o.buffer[i]
    BY ResultOfIs
  <2>2. \A i \in 1 .. x.n : ResultOf(x).bytes[i] = x.buffer[i]
    BY <1>2, ResultOfIs, Zenon
  <2> QED BY <1>2, <1>4, <1>5, <2>1, <2>2, Zenon
<1>6. ASSUME LeavesMessage(o, changed) PROVE ResultOf(x) = ResultOf(o)
  <2>1. /\ o.buffer \in Seq(Nat) /\ Len(o.buffer) = buffer_size
        /\ x.buffer \in Seq(Nat) /\ Len(x.buffer) = buffer_size
    BY <1>2, ObjectFacts, BufferStripes
  <2>2. o.n <= Len(o.buffer) /\ o.n <= Len(x.buffer)
    BY <1>1, <2>1
  <2>3. p \in Seq(Nat) /\ Len(p) = o.n /\ \A i \in 1 .. o.n : p[i] = o.buffer[i]
    BY <1>1, <2>1, <2>2, Prefix
  <2>4. q \in Seq(Nat) /\ Len(q) = o.n /\ \A i \in 1 .. o.n : q[i] = x.buffer[i]
    BY <1>1, <2>1, <2>2, Prefix
  <2>5. ResultOf(o) = digest_short(o, p) /\ ResultOf(x) = digest_short(x, q)
    BY <1>2, Zenon DEF ResultOf
  <2> HIDE DEF p, q
  <2>6. q = p
    BY <1>4, <1>6, <2>3, <2>4, SeqEqual
  <2>7. digest_short(x, p) = digest_short(o, p)
    BY <1>2, Zenon DEF digest_short
  <2> QED BY <2>5, <2>6, <2>7, Zenon
<1> QED BY <1>5, <1>6 DEF x

(* Any other message: the seed or the length of the accumulator differs.   *)
LEMMA OthersDiffer ==
  ASSUME NEW o \in Object128, o.n \in 0 .. SizeMod - 1, o.n = 0 \/ o.n > Short,
         NEW d \in Nat, NEW changed
  PROVE  ResultOf(result(o, d, changed)) # ResultOf(o) /\ ~LeavesMessage(o, changed)
<1> DEFINE x == result(o, d, changed)
<1>1. o.n \in Nat /\ Short \in Nat \ {0} /\ o.seed \in Nat
  BY Sizes, ObjectFacts
<1>2. /\ x \in Object128 /\ x.n = o.n
      /\ x.seed = IF o.n = 0 THEN o.seed + 1 ELSE o.seed
      /\ o.n > Short => Len(x.acc) = Len(last_round(o).acc) + 1
  BY ResultIs
<1> HIDE DEF x
<1>3. ~LeavesMessage(o, changed)
  <2>1. ~(o.n \in 1 .. Short)
    BY <1>1
  <2> QED BY <2>1, Zenon DEF LeavesMessage
<1> SUFFICES ASSUME ResultOf(x) = ResultOf(o) PROVE FALSE
  BY <1>3 DEF x
<1>4. /\ o.n = 0 => ResultOf(o).seed = o.seed
      /\ o.n > Short => ResultOf(o).acc = last_round(o).acc
  BY ResultOfIs
<1>5. /\ o.n = 0 => ResultOf(x).seed = x.seed
      /\ o.n > Short => ResultOf(x).acc = last_round(x).acc
  <2>1. x.n \in 0 .. SizeMod - 1
    BY <1>2
  <2> QED BY <1>2, <2>1, ResultOfIs
<1>6. CASE o.n = 0
  BY <1>1, <1>2, <1>4, <1>5, <1>6
<1>7. CASE o.n > Short
  <2> DEFINE r == last_round(o)
             s == last_round(x)
             A == Append(x.acc \o held_steps(x), Step("last", 0, last_stripe(x)))
  <2>1. s.acc = r.acc
    BY <1>4, <1>5, <1>7, Zenon
  <2>2. Len(x.acc) = Len(r.acc) + 1
    BY <1>2, <1>7
  <2>3. s.acc = A /\ Len(A) = Len(x.acc) + Held(x) + 1
    <3>1. /\ s = With(x, x.buffer, A, x.n, x.m, x.num_stripes + Held(x))
          /\ Len(A) = Len(x.acc) + Held(x) + 1
      BY <1>2, LastRoundIs
    <3> HIDE DEF s, A
    <3> QED BY <3>1, WithIs
  <2>4. Held(x) \in Nat /\ Len(r.acc) \in Nat
    <3>1. Held(x) \in 0 .. 3
      BY <1>2, HeldIs
    <3>2. r \in Object128
      BY LastRoundIs
    <3> HIDE DEF r
    <3>3. r.acc \in Seq(StepType)
      BY <3>2, ObjectFacts
    <3> QED BY <3>1, <3>3, LenProperties
  <2> HIDE DEF r, s, A
  <2> QED BY <2>1, <2>2, <2>3, <2>4, SMTT(30)
<1> QED BY <1>6, <1>7

LEMMA NextDigest ==
  ASSUME Inv, NEW changed \in Changes, ResultMixing(changed)
  PROVE  ResultOf(xxh') = digest' <=> LeavesMessage(xxh, changed)
<1> DEFINE o == xxh
           d == results + 1
<1>1. o \in Object128 /\ o.n \in 0 .. SizeMod - 1 /\ d \in Nat /\ d > 0
  <2>1. /\ o \in Object128 /\ o.n = Len(message) % SizeMod /\ message \in Seq(Nat)
        /\ results \in 0 .. MaxResults /\ MaxResults \in Nat
    BY BoundAssumption DEF Inv
  <2>2. SizeMod \in Nat \ {0} /\ Len(message) \in Nat
    BY <2>1, Sizes
  <2> QED BY <2>1, <2>2, DivMod
<1>2. digest' = ResultOf(o) /\ xxh' = result(o, d, changed)
  BY DEF ResultMixing
<1> HIDE DEF o, d
<1>3. CASE o.n > 0 /\ o.n <= Short
  <2>1. ResultOf(result(o, d, changed)) = ResultOf(o) <=> LeavesMessage(o, changed)
    BY <1>1, <1>3, ShortRepeats
  <2> QED BY <1>2, <2>1 DEF o
<1>4. CASE o.n = 0 \/ o.n > Short
  <2>1. ResultOf(result(o, d, changed)) # ResultOf(o) /\ ~LeavesMessage(o, changed)
    BY <1>1, <1>4, OthersDiffer
  <2> QED BY <1>2, <2>1 DEF o
<1>5. o.n \in Nat /\ Short \in Nat
  BY <1>1, ObjectFacts, Sizes
<1> QED BY <1>3, <1>4, <1>5

(* A second result, called at once, is the first one again exactly when    *)
(* the message is short and not empty and the digest left its bytes as     *)
(* they are; else the seed, one of these bytes or the length of the        *)
(* accumulator differs.                                                    *)
THEOREM FreshResults == Spec => ResultsDiffer
<1>1. Inv /\ [Next]_vars =>
        [\A changed \in Changes : ResultMixing(changed) =>
           (ResultOf(xxh') = digest' <=> LeavesMessage(xxh, changed))]_vars
  BY NextDigest
<1> QED BY <1>1, SpecInv, PTL DEF Spec, ResultsDiffer

------------------------------------------------------------------------------
(* Products *)

LEMMA HalfIsPositive == Half \in Nat \ {0} /\ WordMod \in Nat \ {0}
<1>1. Half \in Nat \ {0}
  BY HalfAssumption
<1> QED BY <1>1 DEF WordMod

(* Products of numbers below half a word. *)
LEMMA ProductBelow ==
  ASSUME NEW a \in 0 .. Half - 1, NEW b \in 0 .. Half - 1
  PROVE  /\ a * b \in Nat
         /\ a * b <= Half * Half - 2 * Half + 1
<1>1. Half \in Nat \ {0}
  BY HalfAssumption
<1> DEFINE u == Half - 1 - a
           v == Half - 1 - b
<1>2. u \in Nat /\ v \in Nat /\ a = Half - 1 - u /\ b = Half - 1 - v /\ a \in Nat /\ b \in Nat
  BY <1>1
<1> HIDE DEF u, v
<1>3. a * b \in Nat /\ a * v \in Nat /\ (Half - 1) * u \in Nat
  BY <1>1, <1>2
<1>4. a * b = a * (Half - 1) - a * v
  BY <1>1, <1>2
<1>5. a * (Half - 1) = (Half - 1) * (Half - 1) - (Half - 1) * u
  BY <1>1, <1>2
<1>6. (Half - 1) * (Half - 1) = Half * Half - 2 * Half + 1
  BY <1>1
<1>7. Half * Half \in Nat
  BY <1>1
<1> QED BY <1>1, <1>3, <1>4, <1>5, <1>6, <1>7

(* Words and their halves. *)
LEMMA Halves ==
  ASSUME NEW x \in Nat
  PROVE  /\ low(x) \in 0 .. Half - 1
         /\ high(x) \in Nat
         /\ x = Half * high(x) + low(x)
BY HalfIsPositive, DivMod DEF low, high

LEMMA HighBelow ==
  ASSUME NEW x \in WordType
  PROVE  x \in Nat /\ high(x) \in 0 .. Half - 1
<1> DEFINE q == high(x)
           r == low(x)
<1>1. x \in Nat /\ x < WordMod /\ Half \in Nat \ {0}
  BY HalfIsPositive DEF WordType
<1>2. q \in Nat /\ r \in Nat /\ x = Half * q + r
  BY <1>1, Halves
<1> HIDE DEF q, r
<1>3. ASSUME q >= Half PROVE FALSE
  <2>1. PICK e \in Nat : q = Half + e
    <3>1. q - Half \in Nat /\ q = Half + (q - Half)
      BY <1>1, <1>2, <1>3
    <3> QED BY <3>1
  <2>2. Half * q = Half * Half + Half * e /\ Half * e \in Nat /\ Half * Half \in Nat
    BY <1>1, <2>1
  <2> QED BY <1>1, <1>2, <2>2 DEF WordMod
<1>4. q \in 0 .. Half - 1
  BY <1>1, <1>2, <1>3
<1> QED BY <1>1, <1>4 DEF q

(* A shift keeps the lower half only. *)
LEMMA ShiftIs ==
  ASSUME NEW x \in Nat
  PROVE  shl(x) = Half * low(x)
<1> DEFINE q == high(x)
           r == low(x)
<1>1. /\ Half \in Nat \ {0} /\ WordMod \in Nat \ {0} /\ WordMod = Half * Half
      /\ q \in Nat /\ r \in 0 .. Half - 1 /\ r \in Nat /\ x = Half * q + r
  BY HalfIsPositive, Halves DEF WordMod
<1> HIDE DEF q, r
<1>2. x * Half = WordMod * q + Half * r
  <2>1. (Half * q + r) * Half = (Half * Half) * q + Half * r
    BY <1>1
  <2> QED BY <1>1, <2>1
<1>3. Half * r \in 0 .. WordMod - 1
  <2>1. PICK d \in Nat : r + d = Half - 1
    <3>1. Half - 1 - r \in Nat /\ r + (Half - 1 - r) = Half - 1
      BY <1>1
    <3> QED BY <3>1
  <2>2. Half * r = Half * Half - Half - Half * d /\ Half * d \in Nat /\ Half * r \in Nat
    <3>1. r = Half - 1 - d
      BY <1>1, <2>1
    <3>2. Half * (Half - 1 - d) = Half * Half - Half - Half * d
      BY <1>1, <2>1
    <3>3. Half * d \in Nat /\ Half * r \in Nat
      BY <1>1, <2>1
    <3> QED BY <3>1, <3>2, <3>3
  <2>3. Half * Half \in Nat
    BY <1>1
  <2> QED BY <1>1, <2>2, <2>3
<1>4. (WordMod * q + Half * r) % WordMod = Half * r
  BY <1>1, <1>3, DivModOf
<1> QED BY <1>2, <1>4 DEF shl, r

(* What a sum that stays below the range of a word is. *)
LEMMA NoWrap ==
  ASSUME NEW x \in WordType
  PROVE  x % WordMod = x
<1>1. x \in 0 .. WordMod - 1 /\ WordMod \in Nat \ {0} /\ 0 \in Nat
  BY HalfIsPositive DEF WordType
<1>2. (WordMod * 0 + x) % WordMod = x
  BY <1>1, DivModOf
<1>3. WordMod * 0 + x = x
  BY <1>1
<1> QED BY <1>2, <1>3

(* The halves of a product, by the schoolbook method. *)
LEMMA Distributes ==
  ASSUME NEW h \in Nat, NEW a \in Nat, NEW b \in Nat, NEW c \in Nat, NEW d \in Nat
  PROVE  (h * b + a) * (h * d + c)
           = (b * d) * (h * h) + h * (b * c) + h * (a * d) + a * c
<1>1. (h * b + a) * (h * d + c) = (h * b) * (h * d) + (h * b) * c + a * (h * d) + a * c
  BY Z3
<1>2. (h * b) * (h * d) = (b * d) * (h * h) /\ (h * b) * c = h * (b * c) /\ a * (h * d) = h * (a * d)
  BY Z3
<1> QED BY <1>1, <1>2

(* The parts of mul128_impl put together: e and f are the halves of lo_lo, *)
(* g and i of hi_lo, k and l of cross, lower halves first.                 *)
AddUp(h, e, f, g, i, k, l, lo_hi, hi_hi) ==
  (i + l + hi_hi) * (h * h) + (h * k + e)
    = hi_hi * (h * h) + h * (h * i + g) + h * lo_hi + (h * f + e)

LEMMA PartsAddUp ==
  ASSUME NEW h \in Nat, NEW e \in Nat, NEW f \in Nat, NEW g \in Nat, NEW i \in Nat,
         NEW k \in Nat, NEW l \in Nat, NEW lo_hi \in Nat, NEW hi_hi \in Nat,
         h * l + k = f + g + lo_hi
  PROVE  AddUp(h, e, f, g, i, k, l, lo_hi, hi_hi)
<1>1. h * (h * l + k) = h * (f + g + lo_hi)
  OBVIOUS
<1>2. h * (h * l + k) = l * (h * h) + h * k
  BY Z3
<1>3. h * (f + g + lo_hi) = h * f + h * g + h * lo_hi
  BY Z3
<1>4. (i + l + hi_hi) * (h * h) = i * (h * h) + l * (h * h) + hi_hi * (h * h)
  BY Z3
<1>5. h * (h * i + g) = i * (h * h) + h * g
  BY Z3
<1> DEFINE hi == i * (h * h)
           hl == l * (h * h)
           hh == hi_hi * (h * h)
           hk == h * k
           hf == h * f
           hg == h * g
           hx == h * lo_hi
<1>6. {hi, hl, hh, hk, hf, hg, hx} \subseteq Nat
  <2>1. h * h \in Nat /\ h * k \in Nat /\ h * f \in Nat /\ h * g \in Nat /\ h * lo_hi \in Nat
    OBVIOUS
  <2>2. i * (h * h) \in Nat /\ l * (h * h) \in Nat /\ hi_hi * (h * h) \in Nat
    BY <2>1
  <2> QED BY <2>1, <2>2
<1>7. hl + hk = hf + hg + hx
  BY <1>1, <1>2, <1>3
<1> HIDE DEF hi, hl, hh, hk, hf, hg, hx
<1>8. (hi + hl + hh) + (hk + e) = hh + (hi + hg) + hx + (hf + e)
  BY <1>6, <1>7
<1> QED BY <1>4, <1>5, <1>8 DEF hi, hl, hh, hk, hf, hg, hx, AddUp

(* Whatever the width of a word, no sum of mul128_impl wraps and its two   *)
(* words are the product (detail/mul128.hpp:30-46).                        *)
THEOREM WholeProduct == FullProduct
<1> SUFFICES ASSUME NEW x \in WordType, NEW y \in WordType
             PROVE  /\ mul128_impl(x, y) \in uint128
                    /\ mul128_impl(x, y).high * WordMod + mul128_impl(x, y).low = x * y
  BY DEF FullProduct
<1> DEFINE a == low(x)
           b == high(x)
           c == low(y)
           d == high(y)
           lo_lo == a * c
           hi_lo == b * c
           lo_hi == a * d
           hi_hi == b * d
           cross == high(lo_lo) + low(hi_lo) + lo_hi
           upper == high(hi_lo) + high(cross) + hi_hi
           lower == Half * low(cross) + low(lo_lo)
<1>1. /\ Half \in Nat \ {0} /\ Half * Half \in Nat /\ WordMod = Half * Half
      /\ WordMod \in Nat \ {0}
  BY HalfIsPositive DEF WordMod
<1>2. /\ a \in 0 .. Half - 1 /\ b \in 0 .. Half - 1 /\ c \in 0 .. Half - 1 /\ d \in 0 .. Half - 1
      /\ x = Half * b + a /\ y = Half * d + c
  BY HighBelow, Halves
<1> HIDE DEF a, b, c, d
<1>3. /\ lo_lo \in WordType /\ hi_lo \in WordType /\ lo_hi \in WordType /\ hi_hi \in WordType
      /\ lo_hi \in Nat /\ lo_hi <= Half * Half - 2 * Half + 1
      /\ hi_hi \in Nat /\ hi_hi <= Half * Half - 2 * Half + 1
  <2>1. /\ lo_lo \in Nat /\ lo_lo <= Half * Half - 2 * Half + 1
        /\ hi_lo \in Nat /\ hi_lo <= Half * Half - 2 * Half + 1
        /\ lo_hi \in Nat /\ lo_hi <= Half * Half - 2 * Half + 1
        /\ hi_hi \in Nat /\ hi_hi <= Half * Half - 2 * Half + 1
    BY <1>2, ProductBelow
  <2> HIDE DEF lo_lo, hi_lo, lo_hi, hi_hi
  <2>2. Half * Half - 2 * Half + 1 <= Half * Half - 1
    BY <1>1
  <2> QED BY <1>1, <2>1, <2>2 DEF WordType
<1> HIDE DEF lo_lo, hi_lo, lo_hi, hi_hi
<1>4. /\ lo_lo \in Nat /\ high(lo_lo) \in 0 .. Half - 1 /\ low(lo_lo) \in 0 .. Half - 1
      /\ hi_lo \in Nat /\ high(hi_lo) \in 0 .. Half - 1 /\ low(hi_lo) \in 0 .. Half - 1
      /\ lo_lo = Half * high(lo_lo) + low(lo_lo)
      /\ hi_lo = Half * high(hi_lo) + low(hi_lo)
  BY <1>3, HighBelow, Halves
<1>5. cross \in WordType
  BY <1>1, <1>3, <1>4 DEF WordType
<1> HIDE DEF cross
<1>6. /\ cross \in Nat /\ high(cross) \in 0 .. Half - 1 /\ low(cross) \in 0 .. Half - 1
      /\ cross = Half * high(cross) + low(cross)
  BY <1>5, HighBelow, Halves
<1>7. upper \in WordType
  BY <1>1, <1>3, <1>4, <1>6 DEF WordType
<1>8. lower \in WordType
  <2>1. Half * low(cross) \in Nat /\ Half * low(cross) <= Half * Half - Half
    <3>1. PICK e \in Nat : low(cross) = Half - 1 - e
      <4>1. Half - 1 - low(cross) \in Nat /\ low(cross) = Half - 1 - (Half - 1 - low(cross))
        BY <1>1, <1>6
      <4> QED BY <4>1
    <3>2. Half * (Half - 1 - e) = Half * Half - Half - Half * e /\ Half * e \in Nat
      BY <1>1, <3>1
    <3>3. Half * low(cross) \in Nat
      BY <1>1, <1>6
    <3> QED BY <1>1, <3>1, <3>2, <3>3
  <2> DEFINE s == Half * low(cross)
  <2> HIDE DEF s
  <2>2. s \in Nat /\ s <= Half * Half - Half
    BY <2>1 DEF s
  <2>3. s + low(lo_lo) \in 0 .. Half * Half - 1
    BY <1>1, <1>4, <2>2
  <2> QED BY <1>1, <2>3 DEF WordType, s
<1>9. mul128_impl(x, y) = [low |-> lower, high |-> upper]
  <2>1. /\ (a * c) % WordMod = lo_lo /\ (b * c) % WordMod = hi_lo
        /\ (a * d) % WordMod = lo_hi /\ (b * d) % WordMod = hi_hi
    BY <1>3, NoWrap DEF lo_lo, hi_lo, lo_hi, hi_hi
  <2>2. (high(lo_lo) + low(hi_lo) + lo_hi) % WordMod = cross
    BY <1>5, NoWrap DEF cross
  <2>3. upper % WordMod = upper
    BY <1>7, NoWrap
  <2>4. shl(cross) = Half * low(cross)
    BY <1>6, ShiftIs
  <2> HIDE DEF upper
  <2> QED BY <2>1, <2>2, <2>3, <2>4, Zenon DEF mul128_impl, a, b, c, d, upper
<1> HIDE DEF upper, lower
<1>10. upper * WordMod + lower = x * y
  <2>1. x * y = hi_hi * (Half * Half) + Half * hi_lo + Half * lo_hi + lo_lo
    <3>1. (Half * b + a) * (Half * d + c)
            = (b * d) * (Half * Half) + Half * (b * c) + Half * (a * d) + a * c
      BY <1>1, <1>2, Distributes
    <3> QED BY <1>2, <3>1, Zenon DEF lo_lo, hi_lo, lo_hi, hi_hi
  <2>2. (high(hi_lo) + high(cross) + hi_hi) * (Half * Half) + (Half * low(cross) + low(lo_lo))
          = hi_hi * (Half * Half) + Half * (Half * high(hi_lo) + low(hi_lo)) + Half * lo_hi
            + (Half * high(lo_lo) + low(lo_lo))
    <3>1. Half * high(cross) + low(cross) = high(lo_lo) + low(hi_lo) + lo_hi
      BY <1>6 DEF cross
    <3>2. /\ high(lo_lo) \in Nat /\ low(lo_lo) \in Nat /\ high(hi_lo) \in Nat /\ low(hi_lo) \in Nat
          /\ high(cross) \in Nat /\ low(cross) \in Nat /\ Half \in Nat
      BY <1>1, <1>4, <1>6
    <3>3. lo_hi \in Nat /\ hi_hi \in Nat
      BY <1>3
    <3>4. AddUp(Half, low(lo_lo), high(lo_lo), low(hi_lo), high(hi_lo),
                low(cross), high(cross), lo_hi, hi_hi)
      BY <3>1, <3>2, <3>3, PartsAddUp
    <3> QED BY <3>4, Zenon DEF AddUp
  <2> QED BY <1>1, <1>4, <2>1, <2>2, Zenon DEF upper, lower
<1> QED BY <1>7, <1>8, <1>9, <1>10 DEF uint128

------------------------------------------------------------------------------
(* Short messages *)

(* A digest of n bytes reads the message, and the secret within bounds. *)
ReadsTheMessage(r, n) == r.buffer = 0 .. n - 1 /\ r.secret \subseteq 0 .. 135

(* What a set of two-chunk rounds reads (mix_two_chunks, xxh3.hpp:137).    *)
LEMMA BothReads ==
  ASSUME NEW S
  PROVE  /\ \A x : x \in Both(S).buffer <=> \E r \in S : x \in r.buffer
         /\ \A x : x \in Both(S).secret <=> \E r \in S : x \in r.secret
<1> DEFINE B == UNION {r.buffer : r \in S}
           T == UNION {r.secret : r \in S}
<1>1. Both(S).buffer = B /\ Both(S).secret = T
  BY DEF Both
<1>2. \A x : x \in B <=> \E r \in S : x \in r.buffer
  OBVIOUS
<1>3. \A x : x \in T <=> \E r \in S : x \in r.secret
  OBVIOUS
<1> QED BY <1>1, <1>2, <1>3

LEMMA RoundReads ==
  ASSUME NEW x \in Int, NEW y \in Int, NEW z \in Int
  PROVE  /\ Reads(x, y, z).buffer = Bytes16(x) \cup Bytes16(y)
         /\ Reads(x, y, z).secret = Bytes16(z) \cup Bytes16(z + 16)
BY DEF Reads

(* 1 to 3 bytes (xxh3.hpp:264): the first, the middle and the last are all. *)
LEMMA Reads1to3 ==
  ASSUME NEW n \in 1 .. 3 PROVE ReadsTheMessage(digest_1to3(n), n)
<1>1. n = 1 \/ n = 2 \/ n = 3
  OBVIOUS
<1>2. n \div 2 = IF n = 1 THEN 0 ELSE 1
  BY <1>1
<1>3. {n - 1, 0, n \div 2} = 0 .. n - 1
  BY <1>1, <1>2
<1> QED BY <1>3 DEF ReadsTheMessage, digest_1to3

(* 4 to 8 and 9 to 16 bytes (xxh3.hpp:291, 327): the two words overlap. *)
LEMMA Reads4to16 ==
  ASSUME NEW n \in 4 .. 16
  PROVE  IF n < 9 THEN ReadsTheMessage(digest_4to8(n), n)
         ELSE ReadsTheMessage(digest_9to16(n), n)
<1>1. CASE n < 9
  <2>1. (0 .. 3) \cup (n - 4 .. n - 1) = 0 .. n - 1
    BY <1>1
  <2> QED BY <1>1, <2>1 DEF ReadsTheMessage, digest_4to8
<1>2. CASE ~(n < 9)
  <2>1. (0 .. 7) \cup (n - 8 .. n - 1) = 0 .. n - 1
    BY <1>2
  <2> QED BY <1>2, <2>1 DEF ReadsTheMessage, digest_9to16
<1> QED BY <1>1, <1>2

(* 17 to 128 bytes (xxh3.hpp:360): the rounds take 16 bytes from each end  *)
(* and meet in the middle.                                                 *)
LEMMA Reads17to128 ==
  ASSUME NEW n \in 17 .. 128 PROVE ReadsTheMessage(digest_17to128(n), n)
<1> DEFINE k == (n - 1) \div 32
           R(i) == Reads(16 * i, n - 16 * i - 16, 32 * i)
           S == {R(i) : i \in 0 .. k}
<1>1. k \in 0 .. 3 /\ 32 * k <= n - 1 /\ n <= 32 * k + 32
  OBVIOUS
<1>2. digest_17to128(n) = Both(S)
  BY DEF digest_17to128
<1>3. ASSUME NEW i \in 0 .. k
      PROVE  /\ R(i).buffer = Bytes16(16 * i) \cup Bytes16(n - 16 * i - 16)
             /\ R(i).secret = Bytes16(32 * i) \cup Bytes16(32 * i + 16)
  <2>1. 16 * i \in Int /\ n - 16 * i - 16 \in Int /\ 32 * i \in Int
    BY <1>1
  <2> QED BY <2>1, RoundReads
<1> HIDE DEF k, R
<1>4. ASSUME NEW i \in 0 .. k
      PROVE  R(i).buffer \subseteq 0 .. n - 1 /\ R(i).secret \subseteq 0 .. 135
  <2>1. 16 * i + 15 <= n - 1 /\ n - 16 * i - 16 >= 0 /\ 32 * i + 31 <= 135
    BY <1>1
  <2>2. 0 <= 16 * i /\ n - 16 * i - 16 + 15 <= n - 1 /\ 0 <= 32 * i
    BY <1>1
  <2>3. Bytes16(16 * i) \subseteq 0 .. n - 1
    BY <1>1, <2>1, <2>2 DEF Bytes16
  <2>4. Bytes16(n - 16 * i - 16) \subseteq 0 .. n - 1
    BY <1>1, <2>1, <2>2 DEF Bytes16
  <2>5. Bytes16(32 * i) \subseteq 0 .. 135 /\ Bytes16(32 * i + 16) \subseteq 0 .. 135
    BY <1>1, <2>1, <2>2 DEF Bytes16
  <2> QED BY <1>3, <2>3, <2>4, <2>5
<1>5. ASSUME NEW x \in 0 .. n - 1 PROVE \E i \in 0 .. k : x \in R(i).buffer
  <2>1. CASE x <= 16 * k + 15
    <3>1. x \div 16 \in 0 .. k /\ 16 * (x \div 16) <= x /\ x <= 16 * (x \div 16) + 15
      BY <1>1, <2>1
    <3>2. x \in Bytes16(16 * (x \div 16))
      BY <3>1 DEF Bytes16
    <3> QED BY <1>3, <3>1, <3>2
  <2>2. CASE ~(x <= 16 * k + 15)
    <3> DEFINE j == (n - 1 - x) \div 16
    <3>1. n - 1 - x \in Nat /\ n - 1 - x <= 16 * k + 15
      BY <1>1, <2>2
    <3>2. j \in 0 .. k /\ 16 * j <= n - 1 - x /\ n - 1 - x <= 16 * j + 15
      BY <1>1, <3>1
    <3>3. x \in Bytes16(n - 16 * j - 16)
      BY <3>2 DEF Bytes16
    <3> QED BY <1>3, <3>2, <3>3
  <2> QED BY <2>1, <2>2
<1>6. \A r \in S : \E i \in 0 .. k : r = R(i)
  OBVIOUS
<1>7. \A i \in 0 .. k : R(i) \in S
  OBVIOUS
<1> HIDE DEF S
<1>8. Both(S).buffer = 0 .. n - 1
  <2>1. \A x : x \in Both(S).buffer => x \in 0 .. n - 1
    BY <1>4, <1>6, BothReads
  <2>2. \A x \in 0 .. n - 1 : x \in Both(S).buffer
    BY <1>5, <1>7, BothReads
  <2> QED BY <2>1, <2>2
<1>9. Both(S).secret \subseteq 0 .. 135
  BY <1>4, <1>6, BothReads
<1> QED BY <1>2, <1>8, <1>9 DEF ReadsTheMessage

(* 129 to 240 bytes (xxh3.hpp:383): four rounds for the first 128 bytes,   *)
(* one for each further 32, and one for the last 32.                       *)
LEMMA Reads129to240 ==
  ASSUME NEW n \in 129 .. 240 PROVE ReadsTheMessage(digest_129to240(n), n)
<1> DEFINE k == n \div 32
           P(i) == Reads(32 * i, 32 * i + 16, 32 * i)
           Q(i) == Reads(32 * i, 32 * i + 16, 32 * (i - 4) + 3)
           last == Reads(n - 16, n - 32, 103)
           S == {P(i) : i \in 0 .. 3} \cup {Q(i) : i \in 4 .. k - 1} \cup {last}
<1>1. k \in 4 .. 7 /\ 32 * k <= n /\ n <= 32 * k + 31
  OBVIOUS
<1>2. digest_129to240(n) = Both(S)
  BY DEF digest_129to240
<1>3. ASSUME NEW i \in 0 .. 3
      PROVE  /\ P(i).buffer = Bytes16(32 * i) \cup Bytes16(32 * i + 16)
             /\ P(i).secret = Bytes16(32 * i) \cup Bytes16(32 * i + 16)
  <2>1. 32 * i \in Int /\ 32 * i + 16 \in Int
    OBVIOUS
  <2> QED BY <2>1, RoundReads
<1>4. ASSUME NEW i \in 4 .. k - 1
      PROVE  /\ Q(i).buffer = Bytes16(32 * i) \cup Bytes16(32 * i + 16)
             /\ Q(i).secret = Bytes16(32 * (i - 4) + 3) \cup Bytes16(32 * (i - 4) + 3 + 16)
  <2>1. 32 * i \in Int /\ 32 * i + 16 \in Int /\ 32 * (i - 4) + 3 \in Int
    BY <1>1
  <2> QED BY <2>1, RoundReads
<1>5. /\ last.buffer = Bytes16(n - 16) \cup Bytes16(n - 32)
      /\ last.secret = Bytes16(103) \cup Bytes16(119)
  <2>1. n - 16 \in Int /\ n - 32 \in Int /\ 103 \in Int
    OBVIOUS
  <2>2. /\ Reads(n - 16, n - 32, 103).buffer = Bytes16(n - 16) \cup Bytes16(n - 32)
        /\ Reads(n - 16, n - 32, 103).secret = Bytes16(103) \cup Bytes16(103 + 16)
    BY <2>1, RoundReads
  <2>3. Bytes16(103 + 16) = Bytes16(119)
    OBVIOUS
  <2> QED BY <2>2, <2>3
<1> HIDE DEF k, P, Q, last
<1>6. ASSUME NEW i \in 0 .. 3
      PROVE  P(i).buffer \subseteq 0 .. n - 1 /\ P(i).secret \subseteq 0 .. 135
  BY <1>3 DEF Bytes16
<1>7. ASSUME NEW i \in 4 .. k - 1
      PROVE  Q(i).buffer \subseteq 0 .. n - 1 /\ Q(i).secret \subseteq 0 .. 135
  <2>1. 32 * i + 31 <= n - 1 /\ 32 * (i - 4) + 34 <= 135
    BY <1>1
  <2> QED BY <1>1, <1>4, <2>1 DEF Bytes16
<1>8. last.buffer \subseteq 0 .. n - 1 /\ last.secret \subseteq 0 .. 135
  BY <1>5 DEF Bytes16
<1>9. ASSUME NEW x \in 0 .. n - 1
      PROVE  \/ \E i \in 0 .. 3 : x \in P(i).buffer
             \/ \E i \in 4 .. k - 1 : x \in Q(i).buffer
             \/ x \in last.buffer
  <2> DEFINE j == x \div 32
  <2>1. j \in Nat /\ 32 * j <= x /\ x <= 32 * j + 31
    OBVIOUS
  <2>2. x \in Bytes16(32 * j) \cup Bytes16(32 * j + 16)
    BY <2>1 DEF Bytes16
  <2> HIDE DEF j
  <2>3. CASE j <= 3
    <3>1. j \in 0 .. 3
      BY <2>1, <2>3
    <3> QED BY <1>3, <2>2, <3>1
  <2>4. CASE j >= 4 /\ j <= k - 1
    <3>1. j \in 4 .. k - 1
      BY <1>1, <2>1, <2>4
    <3> QED BY <1>4, <2>2, <3>1
  <2>5. CASE j > k - 1
    <3>1. x >= n - 32
      BY <1>1, <2>1, <2>5
    <3> QED BY <1>5, <3>1 DEF Bytes16
  <2> QED BY <1>1, <2>1, <2>3, <2>4, <2>5
<1>10. \A r \in S : \/ \E i \in 0 .. 3 : r = P(i)
                    \/ \E i \in 4 .. k - 1 : r = Q(i)
                    \/ r = last
  OBVIOUS
<1>11. /\ \A i \in 0 .. 3 : P(i) \in S
       /\ \A i \in 4 .. k - 1 : Q(i) \in S
       /\ last \in S
  OBVIOUS
<1> HIDE DEF S
<1>12. Both(S).buffer = 0 .. n - 1
  <2>1. \A x : x \in Both(S).buffer => x \in 0 .. n - 1
    BY <1>6, <1>7, <1>8, <1>10, BothReads
  <2>2. \A x \in 0 .. n - 1 : x \in Both(S).buffer
    BY <1>9, <1>11, BothReads
  <2> QED BY <2>1, <2>2
<1>13. Both(S).secret \subseteq 0 .. 135
  BY <1>6, <1>7, <1>8, <1>10, BothReads
<1> QED BY <1>2, <1>12, <1>13 DEF ReadsTheMessage

(* Every digest of a short message reads all of it and nothing else of the *)
(* buffer, and the secret within its shortest length (xxh3.hpp:264-412).   *)
THEOREM ShortDigests == ShortDigestsReadTheMessage
<1>0. SUFFICES \A n \in 1 .. 240 : ReadsTheMessage(digest_short_reads(n), n)
  <2>1. shortest_secret - 1 = 135
    BY DEF shortest_secret
  <2> QED BY <2>1, ZenonT(60) DEF ShortDigestsReadTheMessage, ReadsTheMessage
<1> TAKE n \in 1 .. 240
<1>1. CASE n < 4
  BY <1>1, Reads1to3 DEF digest_short_reads
<1>2. CASE n >= 4 /\ n < 17
  BY <1>2, Reads4to16 DEF digest_short_reads
<1>3. CASE n >= 17 /\ n < 129
  BY <1>3, Reads17to128 DEF digest_short_reads
<1>4. CASE n >= 129
  BY <1>4, Reads129to240 DEF digest_short_reads
<1> QED BY <1>1, <1>2, <1>3, <1>4
==============================================================================
