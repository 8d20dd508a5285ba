---------------------------- MODULE Fnv1aProofs ------------------------------
(***************************************************************************)
(* Proofs about Fnv1a, for every width of words and bytes, every prime     *)
(* that is 3 modulo 4 and every sequence of calls.                         *)
(***************************************************************************)
EXTENDS Fnv1a, DataLemmas, SequenceTheorems

LEMMA ConstantFacts ==
  ASSUME NEW a \in Algorithm
  PROVE  /\ Values(Size[a]) \in Nat \ {0} /\ Values(Size[a]) % Radix = 0
         /\ Radix \in Nat \ {0} /\ Radix % 4 = 0
         /\ Radix - 1 \in Byte /\ 0 \in Byte
         /\ basis[a] \in Word(a) /\ prime[a] \in Nat /\ prime[a] % 4 = 3
<1>1. Radix \in Nat \ {0} BY IntegralAssumption DEF Radix
<1> QED BY <1>1, WordAssumption DEF Byte

(* A byte leads from one word to another, ... *)
LEMMA TakeByteType ==
  ASSUME NEW a \in Algorithm, NEW s \in Word(a), NEW b \in Byte
  PROVE  TakeByte(a, s, b) \in Word(a)
<1>1. XorByte(s, b) \in Nat BY XorAssumption DEF Word
<1> DEFINE x == XorByte(s, b) * prime[a]
<1>2. x \in Nat BY <1>1, ConstantFacts
<1> HIDE DEF x
<1>3. x % Values(Size[a]) \in 0 .. Values(Size[a]) - 1 BY <1>2, ConstantFacts, DivMod
<1> QED BY <1>3 DEF x, TakeByte, Word

LEMMA AdvanceIsTakeByte ==
  ASSUME NEW a, NEW s
  PROVE  advance(a, s) = TakeByte(a, s, Radix - 1)
  BY DEF advance, TakeByte

(* Multiplication by a number that is invertible modulo M is undone by its *)
(* inverse.                                                                *)
LEMMA TimesUndone ==
  ASSUME NEW M \in Nat \ {0}, NEW k \in Nat, NEW i \in Nat, (k * i) % M = 1,
         NEW x \in 0 .. M - 1
  PROVE  (((x * k) % M) * i) % M = x
<1> DEFINE y == x * k
           p == k * i
<1>1. y \in Nat /\ p \in Nat OBVIOUS
<1>2. y * i = p * x OBVIOUS
<1>3. p % M = 1 OBVIOUS
<1> HIDE DEF y, p
<1>4. ((y % M) * i) % M = (y * i) % M BY <1>1, ModTimes
<1>5. ((p % M) * x) % M = (p * x) % M
  <2>1. x \in Nat OBVIOUS
  <2> QED BY <1>1, <2>1, ModTimes
<1>6. (1 * x) % M = x OBVIOUS
<1> QED BY <1>2, <1>3, <1>4, <1>5, <1>6 DEF y

(* ... and from different words to different ones: the prime is invertible *)
(* modulo the range of words.                                              *)
LEMMA TakeByteApart ==
  ASSUME NEW a \in Algorithm, NEW s \in Word(a), NEW t \in Word(a), NEW b \in Byte,
         TakeByte(a, s, b) = TakeByte(a, t, b)
  PROVE  s = t
<1> DEFINE M == Values(Size[a])
<1>1. M \in Nat \ {0} /\ prime[a] \in Nat BY ConstantFacts
<1>2. PICK i \in Word(a) : (prime[a] * i) % M = 1 BY WordAssumption
<1>3. i \in Nat BY <1>1, <1>2 DEF Word
<1> HIDE DEF M
<1>4. ASSUME NEW x \in 0 .. M - 1
      PROVE  (((x * prime[a]) % M) * i) % M = x
  BY <1>1, <1>2, <1>3, TimesUndone DEF M
<1>5. XorByte(s, b) \in 0 .. M - 1 /\ XorByte(t, b) \in 0 .. M - 1
  BY XorAssumption DEF Word, M
<1>6. (XorByte(s, b) * prime[a]) % M = (XorByte(t, b) * prime[a]) % M BY DEF TakeByte, M
<1>7. XorByte(s, b) = XorByte(t, b) BY <1>4, <1>5, <1>6
<1>8. XorByte(XorByte(s, b), b) = s /\ XorByte(XorByte(t, b), b) = t BY XorAssumption
<1> QED BY <1>7, <1>8

(* A result adds one to the two low bits of the state. *)
LEMMA AdvanceCounts ==
  ASSUME NEW a \in Algorithm, NEW s \in Word(a)
  PROVE  advance(a, s) % 4 = (s + 1) % 4
<1> DEFINE M == Values(Size[a])
           x == XorByte(s, Radix - 1)
<1>1. M \in Nat \ {0} /\ prime[a] \in Nat /\ s \in Nat BY ConstantFacts DEF Word
<1>2. M % 4 = 0
  <2>1. (M % Radix) % 4 = M % 4
    <3>1. PICK q \in Nat : M = Radix * q
      <4>1. M = Radix * (M \div Radix) + (M % Radix) /\ M \div Radix \in Nat
        BY <1>1, ConstantFacts, DivMod
      <4>2. Radix * (M \div Radix) \in Nat BY <4>1, ConstantFacts
      <4> QED BY <4>1, <4>2, ConstantFacts
    <3> DEFINE k == Radix \div 4
    <3>2. k \in Nat /\ Radix = 4 * k BY ConstantFacts
    <3>3. M = 4 * (k * q)
      <4> HIDE DEF k, M
      <4> QED BY <3>1, <3>2
    <3>4. k * q \in Nat BY <3>2
    <3> HIDE DEF M, k
    <3>5. M % 4 = 0 BY <3>3, <3>4
    <3>6. M % Radix = 0 BY ConstantFacts DEF M
    <3> QED BY <3>5, <3>6
  <2> QED BY <2>1, ConstantFacts
<1>3. x \in Nat /\ x % 4 = (3 - (s % 4)) % 4
  <2>1. x = s - 2 * (s % Radix) + (Radix - 1) /\ x \in Word(a)
    BY XorAssumption, ConstantFacts
  <2>2. (s % Radix) % 4 = s % 4
    <3>1. 4 \in Nat \ {0} /\ Radix \in Nat \ {0} /\ Radix % 4 = 0 BY ConstantFacts
    <3> QED BY <1>1, <3>1, ModOfMod
  <2>3. s % Radix \in Nat BY <1>1, ConstantFacts
  <2>4. x \in Nat BY <2>1, <1>1 DEF Word
  <2> DEFINE r == s % Radix
             k == Radix \div 4
             c == s \div 4
             d == r \div 4
             e == s % 4
  <2>5. Radix = 4 * k /\ k \in Nat BY ConstantFacts
  <2>6. s = 4 * c + e /\ c \in Nat /\ e \in 0 .. 3 BY <1>1
  <2>7. r = 4 * d + e /\ d \in Nat BY <2>2, <2>3
  <2> HIDE DEF x, r, k, c, d, e
  <2>8. x = 4 * (c - 2 * d + k - 1) + (3 - e) BY <2>1, <2>5, <2>6, <2>7 DEF r
  <2>9. x % 4 = 3 - e BY <2>4, <2>5, <2>6, <2>7, <2>8
  <2> QED BY <2>4, <2>6, <2>9 DEF e
<1> DEFINE y == x * prime[a]
<1>4. y \in Nat BY <1>1, <1>3
<1>5. y % 4 = (3 * x) % 4
  <2> DEFINE q == prime[a] \div 4
  <2>1. q \in Nat /\ prime[a] = 4 * q + 3 BY ConstantFacts
  <2>2. y = (x * q) * 4 + 3 * x BY <1>3, <2>1
  <2>3. x * q \in Nat /\ 3 * x \in Nat BY <1>3, <2>1
  <2> HIDE DEF y, q, x
  <2> QED BY <2>2, <2>3, DivModShift
<1>6. (y % M) % 4 = y % 4
  <2> HIDE DEF y, M
  <2>1. 4 \in Nat \ {0} OBVIOUS
  <2> QED BY <1>1, <1>2, <1>4, <2>1, ModOfMod
<1>7. advance(a, s) = y % M BY DEF advance
<1> HIDE DEF x, y, M
<1> QED BY <1>1, <1>3, <1>5, <1>6, <1>7

------------------------------------------------------------------------------
(* Sequences of bytes *)

(* The loop of update: the words it goes through. *)
Steps(a, s, p, w) ==
  /\ w \in [0 .. Len(p) -> Word(a)]
  /\ w[0] = s
  /\ \A i \in 1 .. Len(p) : w[i] = TakeByte(a, w[i - 1], p[i])

LEMMA UpdateSteps ==
  ASSUME NEW a \in Algorithm, NEW s \in Word(a), NEW p \in Seq(Byte)
  PROVE  \E w : Steps(a, s, p, w) /\ update(a, s, p) = w[Len(p)]
<1> DEFINE n == Len(p)
           F == [i \in 1 .. n |-> [x \in Word(a) |-> TakeByte(a, x, p[i])]]
           Loop(w) == [i \in 0 .. n |-> IF i = 0 THEN s ELSE TakeByte(a, w[i - 1], p[i])]
           w == CHOOSE w : w = Loop(w)
<1>1. n \in Nat /\ \A i \in 1 .. n : p[i] \in Byte BY LenProperties, ElementOfSeq
<1>2. F \in [1 .. n -> [Word(a) -> Word(a)]]
  <2>1. \A i \in 1 .. n, x \in Word(a) : TakeByte(a, x, p[i]) \in Word(a) BY <1>1, TakeByteType
  <2> QED BY <2>1
<1>3. PICK f \in [0 .. n -> Word(a)] :
        f[0] = s /\ \A i \in 1 .. n : f[i] = F[i][f[i - 1]]
  <2> HIDE DEF F, n, Loop, w
  <2>1. Loops(Word(a), s, n, F) # {} BY <1>1, <1>2, Recursion
  <2> QED BY <2>1 DEF Loops
<1>4. f = Loop(f)
  <2>1. ASSUME NEW i \in 1 .. n PROVE f[i] = TakeByte(a, f[i - 1], p[i])
    <3>1. i - 1 \in 0 .. n BY <1>1
    <3>2. f[i - 1] \in Word(a) BY <3>1
    <3> QED BY <1>3, <3>2
  <2>2. \A i \in 0 .. n : f[i] = IF i = 0 THEN s ELSE TakeByte(a, f[i - 1], p[i])
    <3> HIDE DEF F
    <3> QED BY <1>1, <1>3, <2>1
  <2> HIDE DEF F
  <2> QED BY <2>2
<1>5. w = Loop(w) BY <1>4
<1>6. update(a, s, p) = w[n] BY DEF update
<1>7. Steps(a, s, p, w)
  <2>1. w[0] = s /\ \A i \in 1 .. n : w[i] = TakeByte(a, w[i - 1], p[i])
    <3> HIDE DEF w
    <3> QED BY <1>1, <1>5
  <2>2. DOMAIN w = 0 .. n /\ w = [i \in 0 .. n |-> w[i]]
    <3> HIDE DEF w
    <3> QED BY <1>5
  <2> HIDE DEF w
  <2> DEFINE S == {i \in 0 .. n : w[i] \in Word(a)}
  <2>3. 0 \in S BY <1>1, <2>1
  <2>4. ASSUME NEW i \in 0 .. n - 1, i \in S PROVE i + 1 \in S
    <3>1. i + 1 \in 1 .. n /\ (i + 1) - 1 = i BY <1>1
    <3>2. w[i + 1] = TakeByte(a, w[i], p[i + 1]) BY <2>1, <3>1
    <3> QED BY <1>1, <2>4, <3>1, <3>2, TakeByteType
  <2>5. \A i \in 0 .. n : i \in S
    <3> HIDE DEF S
    <3> QED BY <1>1, <2>3, <2>4, Induction
  <2> QED BY <2>1, <2>2, <2>5 DEF Steps
<1> QED BY <1>6, <1>7

LEMMA UpdateType ==
  ASSUME NEW a \in Algorithm, NEW s \in Word(a), NEW p \in Seq(Byte)
  PROVE  update(a, s, p) \in Word(a)
<1>1. PICK w : Steps(a, s, p, w) /\ update(a, s, p) = w[Len(p)] BY UpdateSteps
<1>2. Len(p) \in 0 .. Len(p) BY LenProperties
<1> QED BY <1>1, <1>2 DEF Steps

(* Loops over the same bytes that meet once have never been apart. *)
LEMMA UpdateApart ==
  ASSUME NEW a \in Algorithm, NEW s \in Word(a), NEW t \in Word(a), s # t,
         NEW p \in Seq(Byte)
  PROVE  update(a, s, p) # update(a, t, p)
<1>1. PICK v : Steps(a, s, p, v) /\ update(a, s, p) = v[Len(p)] BY UpdateSteps
<1>2. PICK w : Steps(a, t, p, w) /\ update(a, t, p) = w[Len(p)] BY UpdateSteps
<1> DEFINE n == Len(p)
           S == {i \in 0 .. n : v[i] # w[i]}
<1>3. n \in Nat /\ \A i \in 1 .. n : p[i] \in Byte BY LenProperties, ElementOfSeq
<1>4. 0 \in S BY <1>1, <1>2, <1>3 DEF Steps
<1>5. ASSUME NEW i \in 0 .. n - 1, i \in S PROVE i + 1 \in S
  <2>1. i + 1 \in 1 .. n /\ (i + 1) - 1 = i /\ i \in 0 .. n BY <1>3
  <2>2. v[i] \in Word(a) /\ w[i] \in Word(a) BY <1>1, <1>2, <2>1 DEF Steps
  <2>3. v[i + 1] = TakeByte(a, v[i], p[i + 1]) /\ w[i + 1] = TakeByte(a, w[i], p[i + 1])
    BY <1>1, <1>2, <2>1 DEF Steps
  <2>4. p[i + 1] \in Byte BY <1>3, <2>1
  <2>5. v[i + 1] # w[i + 1] BY <1>5, <2>2, <2>3, <2>4, TakeByteApart
  <2> QED BY <2>1, <2>5
<1>6. \A i \in 0 .. n : i \in S
  <2> HIDE DEF S
  <2> QED BY <1>3, <1>4, <1>5, Induction
<1> QED BY <1>1, <1>2, <1>3, <1>6

(* Two loops with the same bytes up to some index go through the same      *)
(* words up to there.                                                      *)
LEMMA StepsAgree ==
  ASSUME NEW a \in Algorithm, NEW s \in Word(a),
         NEW p \in Seq(Byte), NEW q \in Seq(Byte), NEW v, NEW w,
         Steps(a, s, p, v), Steps(a, s, q, w),
         NEW n \in 0 .. Len(p), n <= Len(q), \A i \in 1 .. n : p[i] = q[i]
  PROVE  v[n] = w[n]
<1> DEFINE S == {i \in 0 .. n : v[i] = w[i]}
<1>1. n \in Nat /\ Len(p) \in Nat /\ Len(q) \in Nat BY LenProperties
<1>2. 0 \in S BY <1>1 DEF Steps
<1>3. ASSUME NEW i \in 0 .. n - 1, i \in S PROVE i + 1 \in S
  <2>1. i + 1 \in 1 .. n /\ (i + 1) - 1 = i /\ i + 1 \in 1 .. Len(p) /\ i + 1 \in 1 .. Len(q)
    BY <1>1
  <2>2. v[i + 1] = TakeByte(a, v[i], p[i + 1]) /\ w[i + 1] = TakeByte(a, w[i], q[i + 1])
    BY <2>1 DEF Steps
  <2> QED BY <1>3, <2>1, <2>2
<1>4. \A i \in 0 .. n : i \in S
  <2> HIDE DEF S
  <2> QED BY <1>1, <1>2, <1>3, Induction
<1> QED BY <1>1, <1>4

(* Updates with two parts, one after the other, are one with both. *)
LEMMA UpdateConcat ==
  ASSUME NEW a \in Algorithm, NEW s \in Word(a), NEW p \in Seq(Byte), NEW q \in Seq(Byte)
  PROVE  update(a, update(a, s, p), q) = update(a, s, p \o q)
<1> DEFINE m == Len(p)
           n == Len(q)
           t == update(a, s, p)
<1>1. p \o q \in Seq(Byte) /\ Len(p \o q) = m + n /\ m \in Nat /\ n \in Nat
  BY ConcatProperties, LenProperties
<1>2. /\ \A i \in 1 .. m : (p \o q)[i] = p[i]
      /\ \A i \in 1 .. n : (p \o q)[m + i] = q[i]
  BY ConcatProperties, LenProperties
<1>3. PICK u : Steps(a, s, p, u) /\ t = u[m] BY UpdateSteps
<1>4. t \in Word(a) BY UpdateType
<1>5. PICK v : Steps(a, t, q, v) /\ update(a, t, q) = v[n]
  <2> HIDE DEF t
  <2> QED BY <1>4, UpdateSteps
<1>6. PICK w : Steps(a, s, p \o q, w) /\ update(a, s, p \o q) = w[m + n] BY <1>1, UpdateSteps
<1>7. u[m] = w[m]
  <2>1. m \in 0 .. Len(p) /\ m <= Len(p \o q) BY <1>1
  <2>2. \A i \in 1 .. m : p[i] = (p \o q)[i] BY <1>2
  <2>3. Steps(a, s, p, u) /\ Steps(a, s, p \o q, w) BY <1>3, <1>6
  <2> DEFINE r == p \o q
  <2>4. r \in Seq(Byte) BY <1>1
  <2>5. \A i \in 1 .. m : p[i] = r[i] BY <2>2
  <2>6. Steps(a, s, p, u) /\ Steps(a, s, r, w) /\ m <= Len(r) BY <2>1, <2>3
  <2> HIDE DEF m, r
  <2> QED BY <2>1, <2>4, <2>5, <2>6, StepsAgree
<1> DEFINE S == {i \in 0 .. n : w[m + i] = v[i]}
<1>8. 0 \in S
  <2>1. v[0] = t BY <1>5 DEF Steps
  <2> QED BY <1>1, <1>3, <1>7, <2>1
<1>9. ASSUME NEW i \in 0 .. n - 1, i \in S PROVE i + 1 \in S
  <2>1. i + 1 \in 1 .. n /\ m + (i + 1) \in 1 .. Len(p \o q) /\ (i + 1) - 1 = i
        /\ (m + (i + 1)) - 1 = m + i
    BY <1>1
  <2>2. w[m + (i + 1)] = TakeByte(a, w[m + i], (p \o q)[m + (i + 1)]) BY <1>6, <2>1 DEF Steps
  <2>3. v[i + 1] = TakeByte(a, v[i], q[i + 1]) BY <1>5, <2>1 DEF Steps
  <2>4. (p \o q)[m + (i + 1)] = q[i + 1] BY <1>2, <2>1
  <2> QED BY <1>9, <2>1, <2>2, <2>3, <2>4
<1>10. \A i \in 0 .. n : i \in S
  <2> HIDE DEF S
  <2> QED BY <1>1, <1>8, <1>9, Induction
<1> QED BY <1>1, <1>5, <1>6, <1>10

------------------------------------------------------------------------------
(* Results *)

Ones(k) == [i \in 1 .. k |-> Radix - 1]

LEMMA OnesType ==
  ASSUME NEW a \in Algorithm, NEW k \in Nat
  PROVE  Ones(k) \in Seq(Byte) /\ Len(Ones(k)) = k /\ \A i \in 1 .. k : Ones(k)[i] = Radix - 1
<1>1. Radix - 1 \in Byte BY ConstantFacts
<1>2. Ones(k) \in [1 .. k -> Byte] BY <1>1 DEF Ones
<1> QED BY <1>2 DEF Ones

(* k results advance the state as an update with k bytes 0xFF does. *)
LEMMA DrawSteps ==
  ASSUME NEW a \in Algorithm, NEW s \in Word(a), NEW k \in Nat
  PROVE  /\ Steps(a, s, Ones(k), draw(a, s, k))
         /\ draw(a, s, k)[k] = update(a, s, Ones(k))
<1> DEFINE Loop(w) == [i \in 0 .. k |-> IF i = 0 THEN s ELSE advance(a, w[i - 1])]
           d == draw(a, s, k)
<1>1. Ones(k) \in Seq(Byte) /\ Len(Ones(k)) = k /\ \A i \in 1 .. k : Ones(k)[i] = Radix - 1
  BY OnesType
<1>2. PICK f : Steps(a, s, Ones(k), f) /\ update(a, s, Ones(k)) = f[Len(Ones(k))]
  BY <1>1, UpdateSteps
<1>3. f = Loop(f)
  <2>1. f \in [0 .. k -> Word(a)] /\ f[0] = s BY <1>1, <1>2 DEF Steps
  <2>2. \A i \in 1 .. k : f[i] = advance(a, f[i - 1])
    BY <1>1, <1>2, AdvanceIsTakeByte DEF Steps
  <2>3. \A i \in 0 .. k : f[i] = IF i = 0 THEN s ELSE advance(a, f[i - 1]) BY <2>1, <2>2
  <2> QED BY <2>1, <2>3
<1>4. d = Loop(d)
  <2>1. d = CHOOSE w : w = Loop(w) BY DEF draw
  <2> QED BY <1>3, <2>1
<1>5. d[0] = s /\ \A i \in 1 .. k : d[i] = advance(a, d[i - 1])
  <2> HIDE DEF d
  <2> QED BY <1>4
<1>6. \A i \in 0 .. k : d[i] = f[i]
  <2> DEFINE S == {i \in 0 .. k : d[i] = f[i]}
  <2>1. f[0] = s /\ \A i \in 1 .. k : f[i] = advance(a, f[i - 1])
    BY <1>1, <1>2, AdvanceIsTakeByte DEF Steps
  <2> HIDE DEF d
  <2>2. 0 \in S BY <1>5, <2>1
  <2>3. ASSUME NEW i \in 0 .. k - 1, i \in S PROVE i + 1 \in S
    <3>1. i + 1 \in 1 .. k /\ (i + 1) - 1 = i OBVIOUS
    <3> QED BY <1>5, <2>1, <2>3, <3>1
  <2>4. \A i \in 0 .. k : i \in S
    <3> HIDE DEF S
    <3> QED BY <2>2, <2>3, Induction
  <2> QED BY <2>4
<1>7. d = f
  <2>1. d = [i \in 0 .. k |-> d[i]]
    <3> HIDE DEF d
    <3> QED BY <1>4
  <2>2. f = [i \in 0 .. k |-> f[i]] BY <1>1, <1>2 DEF Steps
  <2> HIDE DEF d
  <2> QED BY <1>6, <2>1, <2>2
<1> QED BY <1>1, <1>2, <1>7

LEMMA DrawType ==
  ASSUME NEW a \in Algorithm, NEW s \in Word(a), NEW k \in Nat
  PROVE  /\ draw(a, s, k) \in [0 .. k -> Word(a)]
         /\ draw(a, s, k)[0] = s
         /\ \A i \in 1 .. k : draw(a, s, k)[i] = advance(a, draw(a, s, k)[i - 1])
<1> DEFINE d == draw(a, s, k)
<1>1. Len(Ones(k)) = k /\ \A i \in 1 .. k : Ones(k)[i] = Radix - 1 BY OnesType
<1>2. Steps(a, s, Ones(k), d) BY DrawSteps
<1> HIDE DEF d
<1>3. d \in [0 .. k -> Word(a)] /\ d[0] = s BY <1>1, <1>2 DEF Steps
<1>4. ASSUME NEW i \in 1 .. k PROVE d[i] = advance(a, d[i - 1])
  <2>1. d[i] = TakeByte(a, d[i - 1], Ones(k)[i]) BY <1>1, <1>2 DEF Steps
  <2> QED BY <1>1, <2>1, AdvanceIsTakeByte
<1> QED BY <1>3, <1>4 DEF d

(* The two low bits of the state count the results. *)
LEMMA DrawCounts ==
  ASSUME NEW a \in Algorithm, NEW s \in Word(a), NEW k \in Nat
  PROVE  \A i \in 0 .. k : draw(a, s, k)[i] % 4 = (s + i) % 4
<1> DEFINE d == draw(a, s, k)
           S == {i \in 0 .. k : d[i] % 4 = (s + i) % 4}
<1>1. /\ d \in [0 .. k -> Word(a)] /\ d[0] = s
      /\ \A i \in 1 .. k : d[i] = advance(a, d[i - 1])
  BY DrawType
<1>2. s \in Nat /\ \A i \in 0 .. k : d[i] \in Nat
  <2> HIDE DEF d
  <2> QED BY <1>1, ConstantFacts DEF Word
<1> HIDE DEF d
<1>3. 0 \in S BY <1>1, <1>2
<1>4. ASSUME NEW i \in 0 .. k - 1, i \in S PROVE i + 1 \in S
  <2>1. i + 1 \in 1 .. k /\ (i + 1) - 1 = i /\ i \in 0 .. k OBVIOUS
  <2>2. d[i + 1] = advance(a, d[i]) /\ d[i] \in Word(a) BY <1>1, <2>1
  <2>3. d[i + 1] % 4 = (d[i] + 1) % 4 BY <2>2, AdvanceCounts
  <2>4. d[i] % 4 = (s + i) % 4 BY <1>4
  <2>5. (d[i] + 1) % 4 = (s + (i + 1)) % 4 BY <1>2, <2>1, <2>4
  <2> QED BY <2>1, <2>3, <2>5
<1>5. \A i \in 0 .. k : i \in S
  <2> HIDE DEF S
  <2> QED BY <1>3, <1>4, Induction
<1> QED BY <1>5 DEF d

(* An integer takes one result or two. *)
LEMMA CallsType ==
  ASSUME NEW a \in Algorithm, NEW T \in IntegralSizes
  PROVE  /\ Size[a] \in {4, 8} /\ T \in {1, 2, 4, 8}
         /\ Calls(Size[a], T) = IF Size[a] = 4 /\ T = 8 THEN 2 ELSE 1
<1>1. Size[a] \in {4, 8} /\ T \in {1, 2, 4, 8} BY WordAssumption, IntegralAssumption
<1>2. 8 \div 4 = 2 OBVIOUS
<1> QED BY <1>1, <1>2 DEF Calls

LEMMA ExpansionOfTwo ==
  ASSUME NEW R \in {4, 8}, NEW rs, Len(rs) = 2, rs[1] \in Nat, rs[2] \in Nat
  PROVE  expansion(R, rs) = rs[1] + rs[2] * Values(R)
<1> DEFINE F == [i \in 1 .. 2 |-> [x \in Nat |-> x + rs[i] * Values(R * (i - 1))]]
           Loop(u) == [i \in 0 .. Len(rs) |->
                         IF i = 0 THEN 0 ELSE u[i - 1] + rs[i] * Values(R * (i - 1))]
           u == CHOOSE u : u = Loop(u)
<1>1. Values(R * 0) = 1 /\ Values(R * 1) \in Nat /\ R * 1 = R
  <2>1. R * 0 = 0 /\ R * 1 = R /\ R \in 0 .. 8 OBVIOUS
  <2>2. Values(R * 0) = Values(0) /\ Values(R * 1) = Values(R) BY <2>1, Zenon
  <2> QED BY <2>1, <2>2, IntegralAssumption
<1> DEFINE f == [i \in 0 .. 2 |->
                   IF i = 0 THEN 0
                   ELSE IF i = 1 THEN rs[1] ELSE rs[1] + rs[2] * Values(R * 1)]
<1>2. f = Loop(f)
  <2>1. 1 - 1 = 0 /\ 2 - 1 = 1 OBVIOUS
  <2>2. f[0] = 0 /\ f[1] = rs[1] /\ f[2] = rs[1] + rs[2] * Values(R * 1) OBVIOUS
  <2>3. f[1] = f[0] + rs[1] * Values(R * 0) BY <1>1, <2>2
  <2>4. f[2] = f[1] + rs[2] * Values(R * 1) BY <2>2
  <2>5. f = [i \in 0 .. 2 |-> f[i]] OBVIOUS
  <2> HIDE DEF f
  <2>6. \A i \in 0 .. 2 : f[i] = IF i = 0 THEN 0 ELSE f[i - 1] + rs[i] * Values(R * (i - 1))
    <3>1. ASSUME NEW i \in 0 .. 2, i # 0 PROVE f[i] = f[i - 1] + rs[i] * Values(R * (i - 1))
      <4>1. i = 1 \/ i = 2 BY <3>1
      <4>2. CASE i = 1
        <5>1. i - 1 = 0 BY <4>2
        <5> QED BY <2>3, <4>2, <5>1, Zenon
      <4>3. CASE i = 2
        <5>1. i - 1 = 1 BY <4>3
        <5> QED BY <2>4, <4>3, <5>1, Zenon
      <4> QED BY <4>1, <4>2, <4>3
    <3> QED BY <2>2, <3>1
  <2> QED BY <2>5, <2>6
<1>3. u = Loop(u)
  <2> HIDE DEF f, Loop
  <2> QED BY <1>2
<1>4. expansion(R, rs) = u[Len(rs)] BY DEF expansion
<1>5. u[0] = 0 /\ u[1] = u[0] + rs[1] * Values(R * (1 - 1)) /\ u[2] = u[1] + rs[2] * Values(R * (2 - 1))
  <2> HIDE DEF u
  <2> QED BY <1>3
<1>6. 1 - 1 = 0 /\ 2 - 1 = 1 OBVIOUS
<1>7. u[1] = u[0] + rs[1] * Values(R * 0) /\ u[2] = u[1] + rs[2] * Values(R * 1)
  <2> HIDE DEF u
  <2> QED BY <1>5, <1>6, Zenon
<1>8. u[1] = rs[1]
  <2> HIDE DEF u
  <2> QED BY <1>1, <1>5, <1>7
<1>9. Values(R * 1) = Values(R) BY <1>1, Zenon
<1> HIDE DEF u
<1> QED BY <1>4, <1>7, <1>8, <1>9

LEMMA IntegralType ==
  ASSUME NEW a \in Algorithm, NEW T \in IntegralSizes,
         NEW rs, Len(rs) = Calls(Size[a], T), \A i \in 1 .. Len(rs) : rs[i] \in Word(a)
  PROVE  integral(Size[a], T, rs) \in 0 .. Values(T) - 1
<1> DEFINE R == Size[a]
<1>1. R \in {4, 8} /\ T \in {1, 2, 4, 8} /\ Calls(R, T) = IF R = 4 /\ T = 8 THEN 2 ELSE 1
  BY CallsType
<1>2. Values(R) \in Nat \ {0} /\ Values(T) \in Nat \ {0}
  <2>1. R \in 0 .. 8 /\ T \in 0 .. 8
    <3> HIDE DEF R
    <3> QED BY <1>1
  <2> HIDE DEF R
  <2> QED BY <2>1, IntegralAssumption
<1>3. rs[1] \in 0 .. Values(R) - 1
  <2>1. 1 \in 1 .. Len(rs) BY <1>1
  <2> QED BY <2>1 DEF Word
<1> HIDE DEF R
<1>4. CASE R > T
  <2>1. Wide(R) \in {4, 8} BY <1>1 DEF Wide
  <2>2. Multiplier[Wide(R)] \in Nat /\ Values(Wide(R)) \in Nat \ {0}
    <3>1. Wide(R) \in 0 .. 8 BY <2>1
    <3> QED BY <2>1, <3>1, IntegralAssumption
  <2>3. R - T \in 0 .. 8 BY <1>1, <1>4
  <2>4. Values(R - T) \in Nat \ {0} BY <2>3, IntegralAssumption
  <2> DEFINE x == rs[1] * Multiplier[Wide(R)]
             y == x % Values(Wide(R))
             z == y \div Values(R - T)
  <2>5. x \in Nat BY <1>2, <1>3, <2>2
  <2> HIDE DEF x
  <2>6. y \in Nat
    <3>1. x % Values(Wide(R)) \in 0 .. Values(Wide(R)) - 1 BY <2>2, <2>5, DivMod
    <3> QED BY <2>2, <3>1
  <2> HIDE DEF y
  <2>7. z \in Nat BY <2>4, <2>6, DivMod
  <2> HIDE DEF z
  <2>8. z % Values(T) \in 0 .. Values(T) - 1 BY <1>2, <2>7, DivMod
  <2> QED BY <1>4, <2>8 DEF integral, contraction, x, y, z, R
<1>5. CASE R = T BY <1>1, <1>3, <1>5 DEF integral, R
<1>6. CASE R < T
  <2>1. R = 4 /\ T = 8 /\ Calls(R, T) = 2 BY <1>1, <1>6
  <2>2. Len(rs) = 2 /\ rs[2] \in 0 .. Values(4) - 1
    <3>1. Len(rs) = 2 BY <2>1 DEF R
    <3>2. 2 \in 1 .. Len(rs) BY <3>1
    <3> QED BY <2>1, <3>1, <3>2 DEF Word, R
  <2>3. expansion(R, rs) = rs[1] + rs[2] * Values(4)
    <3>0. Values(4) \in Nat \ {0} /\ rs[1] \in 0 .. Values(4) - 1 BY <1>2, <1>3, <2>1, Zenon
    <3>1. rs[1] \in Nat /\ rs[2] \in Nat /\ Len(rs) = 2 BY <2>2, <3>0
    <3>2. expansion(4, rs) = rs[1] + rs[2] * Values(4) BY <3>1, ExpansionOfTwo
    <3> QED BY <2>1, <3>2
  <2> DEFINE V == Values(4)
  <2>4. V \in Nat \ {0} /\ V * V = Values(8) BY <1>2, <2>1, IntegralAssumption
  <2>5. rs[1] \in 0 .. V - 1 /\ rs[2] \in 0 .. V - 1 BY <1>3, <2>1, <2>2
  <2> HIDE DEF V
  <2>6. rs[1] + rs[2] * V \in 0 .. V * V - 1
    <3>1. PICK d \in Nat : V = rs[2] + 1 + d
      <4>1. V - rs[2] - 1 \in Nat BY <2>4, <2>5
      <4> QED BY <2>4, <2>5, <4>1
    <3>2. PICK x \in Nat : x = rs[1] BY <2>5
    <3>3. PICK y \in Nat : y = rs[2] BY <2>5
    <3>4. V * V = y * V + V + d * V
      <4>1. V * V = (y + 1 + d) * V BY <3>1, <3>3
      <4>2. (y + 1 + d) * V = y * V + V + d * V BY <2>4
      <4> QED BY <4>1, <4>2
    <3>5. d * V \in Nat /\ y * V \in Nat /\ V * V \in Nat BY <2>4
    <3>6. x < V BY <2>4, <2>5, <3>2
    <3>7. x + y * V \in 0 .. V * V - 1 BY <2>4, <3>4, <3>5, <3>6
    <3> QED BY <3>2, <3>3, <3>7
  <2> QED BY <1>6, <2>1, <2>3, <2>4, <2>6 DEF integral, V, R
<1> QED BY <1>1, <1>4, <1>5, <1>6

(* The results that contract to t are carried by the multiplication to the *)
(* numbers with t as their highest digits.                                 *)
LEMMA ContractsTo ==
  ASSUME NEW V \in Nat \ {0}, NEW v \in Nat \ {0}, NEW W, W = V * v,
         NEW t \in 0 .. V - 1, NEW y \in 0 .. W - 1
  PROVE  (y \div v) % V = t <=> y \in t * v .. t * v + v - 1
<1> DEFINE q == y \div v
           r == y % v
<1>1. q \in Nat /\ r \in 0 .. v - 1 /\ y = v * q + r
  <2>1. y \in Nat OBVIOUS
  <2> QED BY <2>1, DivMod
<1>2. q < V
  <2> SUFFICES ASSUME q >= V PROVE FALSE BY <1>1
  <2>1. PICK d \in Nat : q = V + d BY <1>1
  <2> HIDE DEF q, r
  <2>2. v * q = V * v + v * d /\ v * d \in Nat /\ V * v \in Nat BY <2>1
  <2>3. y >= W BY <1>1, <2>2
  <2> QED BY <2>3
<1>3. q % V = q BY <1>1, <1>2
<1> HIDE DEF q, r
<1>4. ASSUME q = t PROVE y \in t * v .. t * v + v - 1
  <2>1. v * q = t * v /\ t * v \in Nat BY <1>4
  <2> QED BY <1>1, <2>1
<1>5. ASSUME y \in t * v .. t * v + v - 1 PROVE q = t
  <2>1. PICK s \in 0 .. v - 1 : y = t * v + s
    <3>1. t * v \in Nat OBVIOUS
    <3>2. y - t * v \in 0 .. v - 1 /\ y = t * v + (y - t * v) BY <1>5, <3>1
    <3> QED BY <3>2
  <2>2. v * q + r = v * t + s BY <1>1, <2>1
  <2> QED BY <1>1, <2>1, <2>2, DivModUnique
<1> QED BY <1>3, <1>4, <1>5 DEF q

(* Every integer narrower than the result is made of equally many results. *)
LEMMA ContractsUniformly ==
  ASSUME NEW a \in Algorithm, NEW T \in IntegralSizes, T < Size[a]
  PROVE  Uniform(a, T)
<1> DEFINE R == Size[a]
           k == Multiplier[R]
           W == Values(R)
           V == Values(T)
           v == Values(R - T)
           one == [r \in Word(a) |-> integral(R, T, <<r>>)]
<1>1. R \in {4, 8} /\ T \in 1 .. R - 1 /\ Wide(R) = R
  <2>1. R \in {4, 8} /\ T \in {1, 2, 4, 8} BY CallsType
  <2> QED BY <2>1 DEF Wide
<1>2. W \in Nat \ {0} /\ V \in Nat \ {0} /\ v \in Nat \ {0}
  <2>1. R \in 0 .. 8 /\ T \in 0 .. 8 /\ R - T \in 0 .. 8
    <3> HIDE DEF R
    <3> QED BY <1>1
  <2> HIDE DEF R
  <2> QED BY <2>1, IntegralAssumption
<1>3. W = V * v
  <2> HIDE DEF R
  <2> QED BY <1>1, MultiplierAssumption
<1>4. k \in Nat /\ \E i \in 0 .. W - 1 : (k * i) % W = 1
  <2> HIDE DEF R
  <2> QED BY <1>1, IntegralAssumption, MultiplierAssumption
<1>5. PICK i \in 0 .. W - 1 : (k * i) % W = 1 BY <1>4
<1>6. \A r \in Word(a) : one[r] = (((r * k) % W) \div v) % V
  <2>1. R > T
    <3> HIDE DEF R
    <3> QED BY <1>1
  <2> HIDE DEF R
  <2>2. \A r \in Word(a) : integral(R, T, <<r>>) = (((r * k) % W) \div v) % V
    BY <1>1, <2>1 DEF integral, contraction
  <2> QED BY <2>2
<1>7. Word(a) = 0 .. W - 1 BY DEF Word
<1>8. i \in Nat /\ (i * k) % W = 1
  <2> HIDE DEF k, W
  <2>1. i \in Nat /\ i * k = k * i BY <1>2, <1>4
  <2> QED BY <1>5, <2>1
<1> HIDE DEF k, W, V, v, one, R
<1>9. ASSUME NEW t \in 0 .. V - 1
      PROVE  Cardinality({r \in Word(a) : one[r] = t}) = v
  <2> DEFINE S == {r \in Word(a) : one[r] = t}
             I == t * v .. t * v + v - 1
             g == [y \in I |-> (y * i) % W]
  <2>1. t * v \in Nat /\ t * v + v <= W
    <3>1. PICK d \in Nat : V = t + 1 + d
      <4>1. V - t - 1 \in Nat /\ V = t + 1 + (V - t - 1) BY <1>2
      <4> QED BY <4>1
    <3>2. V * v = t * v + v + d * v /\ d * v \in Nat /\ t * v \in Nat BY <1>2, <3>1
    <3> QED BY <1>2, <1>3, <3>2
  <2>2. I \subseteq 0 .. W - 1 BY <1>2, <2>1
  <2>3. ASSUME NEW y \in I
        PROVE  g[y] \in S /\ (g[y] * k) % W = y
    <3>1. y \in 0 .. W - 1 BY <2>2
    <3>2. g[y] = (y * i) % W OBVIOUS
    <3> DEFINE p == y * i
    <3>3. p \in Nat BY <1>2, <1>8, <3>1
    <3> HIDE DEF p
    <3>4. p % W \in 0 .. W - 1 BY <1>2, <3>3, DivMod
    <3>5. (((y * i) % W) * k) % W = y BY <1>2, <1>4, <1>8, <3>1, TimesUndone
    <3>6. g[y] \in 0 .. W - 1 /\ (g[y] * k) % W = y BY <3>2, <3>4, <3>5 DEF p
    <3>7. (y \div v) % V = t BY <1>2, <1>3, <3>1, ContractsTo
    <3> HIDE DEF g
    <3>8. one[g[y]] = t BY <1>6, <1>7, <3>6, <3>7
    <3> QED BY <1>7, <3>6, <3>8
  <2>4. ASSUME NEW r \in S PROVE \E y \in I : g[y] = r
    <3> DEFINE y == (r * k) % W
    <3>1. r \in 0 .. W - 1 /\ (y \div v) % V = t BY <1>6, <1>7
    <3>2. y \in 0 .. W - 1
      <4> DEFINE p == r * k
      <4>1. p \in Nat BY <1>2, <1>4, <3>1
      <4> HIDE DEF p
      <4>2. p % W \in 0 .. W - 1 BY <1>2, <4>1, DivMod
      <4> QED BY <4>2 DEF p
    <3>3. (y * i) % W = r BY <1>2, <1>4, <1>5, <1>8, <3>1, TimesUndone
    <3> HIDE DEF y
    <3>4. y \in I BY <1>2, <1>3, <3>1, <3>2, ContractsTo
    <3> QED BY <3>3, <3>4
  <2>5. IsFiniteSet(I) /\ Cardinality(I) = v
    <3> DEFINE l == t * v
    <3>1. l \in Int /\ l + v - 1 \in Int /\ ~(l > l + v - 1) /\ (l + v - 1) - l + 1 = v
      BY <1>2, <2>1
    <3> HIDE DEF l
    <3>2. Cardinality(l .. l + v - 1) = v /\ IsFiniteSet(l .. l + v - 1) BY <3>1, FS_Interval
    <3> QED BY <3>2 DEF l
  <2> HIDE DEF I, S
  <2>6. g \in [I -> S]
    <3>1. \A y \in I : g[y] \in S BY <2>3
    <3> QED BY <3>1
  <2> HIDE DEF g
  <2>7. \A x, y \in I : g[x] = g[y] => x = y
    <3> SUFFICES ASSUME NEW x \in I, NEW y \in I, g[x] = g[y] PROVE x = y OBVIOUS
    <3>1. (g[x] * k) % W = x /\ (g[y] * k) % W = y BY <2>3
    <3> QED BY <3>1
  <2>8. g \in Bijection(I, S)
    BY <2>4, <2>6, <2>7 DEF Bijection, Injection, Surjection, IsInjective
  <2>9. Cardinality(S) = Cardinality(I)
    BY <2>5, <2>8, FS_Bijection DEF ExistsBijection
  <2> QED BY <2>5, <2>9 DEF S
<1> QED BY <1>9 DEF Uniform, one, V, v, R

------------------------------------------------------------------------------
(* The invariants *)

(* The results since the last byte and the state are in step. *)
LowBits ==
  \A o \in Object : \A i \in 1 .. Len(drawn[o]) :
    (drawn[o][i] + (Len(drawn[o]) - i + 1)) % 4 = st[o] % 4

IInv == TypeOK /\ AsOneUpdate /\ LowBits /\ PartsDiffer

LEMMA WriteType ==
  ASSUME NEW a \in Algorithm, NEW k \in 0 .. 8, NEW v \in Nat
  PROVE  write_le(k, v) \in Seq(Byte)
<1>1. ASSUME NEW i \in 1 .. k PROVE (v \div Values(i - 1)) % Radix \in Byte
  <2>1. Values(i - 1) \in Nat \ {0}
    <3>1. i - 1 \in 0 .. 8 OBVIOUS
    <3> QED BY <3>1, IntegralAssumption
  <2> DEFINE q == v \div Values(i - 1)
  <2>2. q \in Nat BY <2>1, DivMod
  <2> HIDE DEF q
  <2>3. q % Radix \in 0 .. Radix - 1 BY <2>2, ConstantFacts, DivMod
  <2> QED BY <2>3 DEF q, Byte
<1>2. write_le(k, v) \in [1 .. k -> Byte] BY <1>1 DEF write_le
<1> QED BY <1>2

LEMMA InitInv == Init => IInv
<1> SUFFICES ASSUME Init PROVE IInv OBVIOUS
<1>1. alg \in Algorithm /\ basis[alg] \in Word(alg) BY ConstantFacts DEF Init
<1>2. ASSUME NEW n \in Seed PROVE seeded(alg, n) \in Word(alg)
  <2>1. write_le(8, n) \in Seq(Byte) BY <1>1, CallAssumption, WriteType
  <2> QED BY <1>1, <2>1, UpdateType DEF seeded
<1>3. ASSUME NEW p \in Key PROVE keyed(alg, p) \in Word(alg)
  <2>1. p \in Seq(Byte) /\ Len(p) \in Nat BY CallAssumption, LenProperties
  <2>2. write_le(4, Len(p)) \in Seq(Byte) BY <1>1, <2>1, WriteType
  <2>3. update(alg, basis[alg], p) \in Word(alg) BY <1>1, <2>1, UpdateType
  <2> QED BY <1>1, <2>2, <2>3, UpdateType DEF keyed
<1>4. st \in [Object -> Word(alg)] /\ start = st
  <2>1. {seeded(alg, n) : n \in Seed} \cup {keyed(alg, p) : p \in Key} \subseteq Word(alg)
    BY <1>2, <1>3
  <2> QED BY <2>1 DEF Init
<1>5. TypeOK
  <2>1. fed = << >> /\ drawn = [o \in Object |-> << >>] /\ made.size = 0
    BY DEF Init, NotMade
  <2> QED BY <1>1, <1>4, <2>1 DEF TypeOK
<1>6. AsOneUpdate
  <2>1. ASSUME NEW s \in Word(alg) PROVE update(alg, s, << >>) = s
    <3>1. << >> \in Seq(Byte) /\ Len(<< >>) = 0 OBVIOUS
    <3>2. PICK w : Steps(alg, s, << >>, w) /\ update(alg, s, << >>) = w[Len(<< >>)]
      BY <1>1, <3>1, UpdateSteps
    <3> QED BY <3>1, <3>2 DEF Steps
  <2>2. fed = << >> BY DEF Init
  <2> QED BY <1>4, <2>1, <2>2 DEF AsOneUpdate
<1>7. LowBits BY DEF Init, LowBits
<1>8. PartsDiffer BY DEF Init, NotMade, PartsDiffer
<1> QED BY <1>5, <1>6, <1>7, <1>8 DEF IInv

LEMMA UpdateInv ==
  ASSUME IInv, NEW p \in Input, Update(p)
  PROVE  IInv'
<1>1. /\ alg \in Algorithm /\ st \in [Object -> Word(alg)] /\ start \in [Object -> Word(alg)]
      /\ fed \in Seq(Byte) /\ drawn \in [Object -> Seq(Word(alg))]
  BY DEF IInv, TypeOK
<1>2. p \in Seq(Byte) BY CallAssumption
<1>3. /\ st' = [o \in Object |-> update(alg, st[o], p)]
      /\ fed' = fed \o p
      /\ drawn' = IF p = << >> THEN drawn ELSE [o \in Object |-> << >>]
      /\ alg' = alg /\ start' = start /\ made' = made
  BY DEF Update
<1>4. TypeOK'
  <2>1. \A o \in Object : update(alg, st[o], p) \in Word(alg) BY <1>1, <1>2, UpdateType
  <2>2. fed' \in Seq(Byte) BY <1>1, <1>2, <1>3, ConcatProperties
  <2>3. drawn' \in [Object -> Seq(Word(alg))] BY <1>1, <1>3
  <2>4. \A o \in Object : made.size = 0 \/ made.value[o] \in 0 .. Values(made.size) - 1
    BY DEF IInv, TypeOK
  <2> QED BY <1>1, <1>3, <2>1, <2>2, <2>3, <2>4 DEF TypeOK
<1>5. AsOneUpdate'
  <2>1. ASSUME NEW o \in Object PROVE st'[o] = update(alg, start[o], fed \o p)
    <3>1. st[o] = update(alg, start[o], fed) /\ start[o] \in Word(alg)
      BY <1>1 DEF IInv, AsOneUpdate
    <3>2. update(alg, update(alg, start[o], fed), p) = update(alg, start[o], fed \o p)
      BY <1>1, <1>2, <3>1, UpdateConcat
    <3> QED BY <1>3, <3>1, <3>2
  <2> QED BY <1>3, <2>1 DEF AsOneUpdate
<1>6. LowBits'
  <2>1. CASE p = << >>
    <3>1. ASSUME NEW s \in Word(alg) PROVE update(alg, s, << >>) = s
      <4>1. << >> \in Seq(Byte) /\ Len(<< >>) = 0 OBVIOUS
      <4>2. PICK w : Steps(alg, s, << >>, w) /\ update(alg, s, << >>) = w[Len(<< >>)]
        BY <1>1, <4>1, UpdateSteps
      <4> QED BY <4>1, <4>2 DEF Steps
    <3>2. \A o \in Object : st'[o] = st[o] /\ drawn'[o] = drawn[o]
      BY <1>1, <1>3, <2>1, <3>1
    <3> QED BY <3>2 DEF IInv, LowBits
  <2>2. CASE p # << >>
    <3>1. \A o \in Object : drawn'[o] = << >> BY <1>3, <2>2
    <3> QED BY <3>1 DEF LowBits
  <2> QED BY <2>1, <2>2
<1>7. PartsDiffer' BY <1>3 DEF IInv, PartsDiffer
<1> QED BY <1>4, <1>5, <1>6, <1>7 DEF IInv

(* What results leave of the invariant, whoever asked for them. *)
LEMMA DrawInv ==
  ASSUME IInv, NEW k \in Nat, Draw(k)
  PROVE  /\ alg' = alg /\ start' = start /\ st' \in [Object -> Word(alg)]
         /\ fed' \in Seq(Byte) /\ drawn' \in [Object -> Seq(Word(alg))]
         /\ AsOneUpdate' /\ LowBits'
<1>1. /\ alg \in Algorithm /\ st \in [Object -> Word(alg)] /\ start \in [Object -> Word(alg)]
      /\ fed \in Seq(Byte) /\ drawn \in [Object -> Seq(Word(alg))]
  BY DEF IInv, TypeOK
<1>2. /\ st' = [o \in Object |-> draw(alg, st[o], k)[k]]
      /\ fed' = fed \o Ones(k)
      /\ drawn' = [o \in Object |-> drawn[o] \o [i \in 1 .. k |-> draw(alg, st[o], k)[i - 1]]]
      /\ alg' = alg /\ start' = start
  BY DEF Draw, Ones
<1>3. Ones(k) \in Seq(Byte) BY <1>1, OnesType
<1>4. \A o \in Object : st'[o] = update(alg, st[o], Ones(k)) /\ st'[o] \in Word(alg)
  BY <1>1, <1>2, <1>3, DrawSteps, UpdateType
<1>5. AsOneUpdate'
  <2>1. ASSUME NEW o \in Object PROVE st'[o] = update(alg, start[o], fed \o Ones(k))
    <3>1. st[o] = update(alg, start[o], fed) /\ start[o] \in Word(alg)
      BY <1>1 DEF IInv, AsOneUpdate
    <3>2. update(alg, update(alg, start[o], fed), Ones(k)) = update(alg, start[o], fed \o Ones(k))
      BY <1>1, <1>3, <3>1, UpdateConcat
    <3> QED BY <1>4, <3>1, <3>2
  <2> QED BY <1>2, <2>1 DEF AsOneUpdate
<1>6. ASSUME NEW o \in Object
      PROVE  /\ drawn'[o] \in Seq(Word(alg))
             /\ \A i \in 1 .. Len(drawn'[o]) :
                  (drawn'[o][i] + (Len(drawn'[o]) - i + 1)) % 4 = st'[o] % 4
  <2> DEFINE d == draw(alg, st[o], k)
             new == [i \in 1 .. k |-> d[i - 1]]
             old == drawn[o]
  <2>1. d \in [0 .. k -> Word(alg)] /\ \A i \in 0 .. k : d[i] % 4 = (st[o] + i) % 4
    <3>1. st[o] \in Word(alg) BY <1>1
    <3> QED BY <1>1, <3>1, DrawType, DrawCounts
  <2>2. st'[o] = d[k] /\ drawn'[o] = old \o new BY <1>2
  <2> HIDE DEF d
  <2>3. new \in Seq(Word(alg)) /\ Len(new) = k /\ \A i \in 1 .. k : new[i] = d[i - 1]
    <3>1. \A i \in 1 .. k : i - 1 \in 0 .. k OBVIOUS
    <3>2. \A i \in 1 .. k : d[i - 1] \in Word(alg) BY <2>1, <3>1
    <3>3. new \in [1 .. k -> Word(alg)] BY <3>2
    <3> QED BY <3>3
  <2> HIDE DEF new
  <2>4. old \in Seq(Word(alg)) BY <1>1
  <2> DEFINE L == Len(old)
  <2>5. L \in Nat /\ \A i \in 1 .. L : old[i] \in Word(alg)
    BY <2>4, LenProperties, ElementOfSeq
  <2>6. /\ old \o new \in Seq(Word(alg)) /\ Len(old \o new) = L + k
        /\ \A i \in 1 .. L : (old \o new)[i] = old[i]
        /\ \A i \in 1 .. k : (old \o new)[L + i] = new[i]
    <3> HIDE DEF old
    <3>1. /\ old \o new \in Seq(Word(alg)) /\ Len(old \o new) = L + k
          /\ \A i \in 1 .. L + k :
               (old \o new)[i] = IF i <= L THEN old[i] ELSE new[i - L]
      BY <2>3, <2>4, ConcatProperties
    <3>2. ASSUME NEW i \in 1 .. k PROVE (old \o new)[L + i] = new[i]
      <4> HIDE DEF L
      <4>1. L + i \in 1 .. L + k /\ ~(L + i <= L) /\ (L + i) - L = i BY <2>5
      <4> QED BY <3>1, <4>1
    <3> QED BY <2>5, <3>1, <3>2
  <2>7. \A i \in 1 .. L : (old[i] + (L - i + 1)) % 4 = st[o] % 4 BY DEF IInv, LowBits
  <2>8. \A x \in Word(alg) : x \in Nat BY <1>1, ConstantFacts DEF Word
  <2>9. st[o] \in Nat /\ d[k] \in Nat /\ d[k] % 4 = (st[o] + k) % 4 BY <1>1, <2>1, <2>8
  <2> HIDE DEF L, old
  <2>10. ASSUME NEW i \in 1 .. L + k
         PROVE  ((old \o new)[i] + (L + k - i + 1)) % 4 = d[k] % 4
    <3>1. CASE i <= L
      <4>1. i \in 1 .. L BY <2>5, <3>1
      <4>2. (old \o new)[i] = old[i] /\ old[i] \in Nat BY <2>5, <2>6, <2>8, <4>1
      <4>3. (old[i] + (L - i + 1)) % 4 = st[o] % 4 BY <2>7, <4>1
      <4>4. PICK x \in Nat : x = old[i] + (L - i + 1) BY <2>5, <4>1, <4>2
      <4>5. (x + k) % 4 = (st[o] + k) % 4 BY <2>9, <4>3, <4>4
      <4>6. old[i] + (L + k - i + 1) = x + k BY <2>5, <4>1, <4>2, <4>4, SMTT(30)
      <4> QED BY <2>9, <4>2, <4>5, <4>6
    <3>2. CASE i > L
      <4>1. PICK j \in 1 .. k : i = L + j
        <5>1. i - L \in 1 .. k /\ i = L + (i - L) BY <2>5, <3>2
        <5> QED BY <5>1
      <4>2. j - 1 \in 0 .. k OBVIOUS
      <4>3. (old \o new)[i] = d[j - 1] /\ d[j - 1] \in Nat BY <2>1, <2>3, <2>6, <2>8, <4>1, <4>2
      <4>4. d[j - 1] % 4 = (st[o] + (j - 1)) % 4 BY <2>1, <4>2
      <4>5. (d[j - 1] + (k - j + 1)) % 4 = (st[o] + k) % 4
        <5>1. PICK x \in Nat : x = d[j - 1] BY <4>3
        <5>2. PICK y \in Nat : y = k - j + 1 OBVIOUS
        <5>3. st[o] + (j - 1) \in Nat /\ (st[o] + (j - 1)) + y = st[o] + k BY <2>9, <5>2
        <5>4. (x + y) % 4 = ((st[o] + (j - 1)) + y) % 4 BY <4>4, <5>1, <5>2, <5>3
        <5> QED BY <5>1, <5>2, <5>3, <5>4
      <4>6. L + k - i + 1 = k - j + 1 BY <2>5, <4>1
      <4> QED BY <2>9, <4>3, <4>5, <4>6
    <3>3. i <= L \/ i > L BY <2>5
    <3> QED BY <3>1, <3>2, <3>3, Zenon
  <2>11. Len(drawn'[o]) = L + k BY <2>2, <2>6
  <2>12. ASSUME NEW i \in 1 .. Len(drawn'[o])
         PROVE  (drawn'[o][i] + (Len(drawn'[o]) - i + 1)) % 4 = st'[o] % 4
    <3>1. i \in 1 .. L + k BY <2>11
    <3>2. (drawn'[o][i] + (L + k - i + 1)) % 4 = st'[o] % 4 BY <2>2, <2>10, <3>1
    <3>3. Len(drawn'[o]) - i + 1 = L + k - i + 1 BY <2>5, <2>11
    <3> QED BY <3>2, <3>3, Zenon
  <2> QED BY <2>2, <2>6, <2>12
<1>7. LowBits' BY <1>6 DEF LowBits
<1>8. st' \in [Object -> Word(alg)] BY <1>2, <1>4
<1>9. drawn' \in [Object -> Seq(Word(alg))] BY <1>2, <1>6
<1>10. fed' \in Seq(Byte) BY <1>1, <1>2, <1>3, ConcatProperties
<1> QED BY <1>2, <1>5, <1>7, <1>8, <1>9, <1>10

LEMMA ResultInv ==
  ASSUME IInv, Result
  PROVE  IInv'
<1>1. Draw(1) /\ made' = made BY DEF Result
<1>2. /\ alg' = alg /\ start' = start /\ st' \in [Object -> Word(alg)]
      /\ fed' \in Seq(Byte) /\ drawn' \in [Object -> Seq(Word(alg))]
      /\ AsOneUpdate' /\ LowBits'
  BY <1>1, DrawInv
<1>3. TypeOK' BY <1>1, <1>2 DEF IInv, TypeOK
<1>4. PartsDiffer' BY <1>1, <1>2 DEF IInv, PartsDiffer
<1> QED BY <1>2, <1>3, <1>4 DEF IInv

(* The results an integer is made of, as words. *)
LEMMA DrawnWords ==
  ASSUME NEW a \in Algorithm, NEW s \in Word(a), NEW k \in Nat, NEW rs,
         rs = [i \in 1 .. k |-> draw(a, s, k)[i - 1]]
  PROVE  Len(rs) = k /\ \A i \in 1 .. k : rs[i] = draw(a, s, k)[i - 1] /\ rs[i] \in Word(a)
<1> DEFINE d == draw(a, s, k)
<1>1. d \in [0 .. k -> Word(a)] BY DrawType
<1> HIDE DEF d
<1>2. \A i \in 1 .. k : i - 1 \in 0 .. k OBVIOUS
<1>3. \A i \in 1 .. k : d[i - 1] \in Word(a) BY <1>1, <1>2
<1>4. rs = [i \in 1 .. k |-> d[i - 1]] BY DEF d
<1>5. Len(rs) = k /\ \A i \in 1 .. k : rs[i] = d[i - 1] BY <1>4, SMTT(30)
<1> QED BY <1>3, <1>5 DEF d

LEMMA IntegralInv ==
  ASSUME IInv, NEW T \in IntegralSizes, get_integral_result(T)
  PROVE  IInv'
<1> DEFINE R == Size[alg]
           k == Calls(R, T)
           rs(o) == [i \in 1 .. k |-> draw(alg, st[o], k)[i - 1]]
<1>1. alg \in Algorithm /\ \A o \in Object : st[o] \in Word(alg) BY DEF IInv, TypeOK
<1>2. R \in {4, 8} /\ T \in {1, 2, 4, 8} /\ k = IF R = 4 /\ T = 8 THEN 2 ELSE 1
  BY <1>1, CallsType
<1>3. k \in Nat BY <1>2
<1>4. Draw(k) BY DEF get_integral_result
<1>5. made' = [size |-> T, calls |-> k, value |-> [o \in Object |-> integral(R, T, rs(o))]]
  BY DEF get_integral_result
<1>6. \A o \in Object : /\ Len(rs(o)) = k
                        /\ \A i \in 1 .. k : /\ rs(o)[i] = draw(alg, st[o], k)[i - 1]
                                             /\ rs(o)[i] \in Word(alg)
  <2> HIDE DEF k
  <2> QED BY <1>1, <1>3, DrawnWords
<1>7. /\ alg' = alg /\ start' = start /\ st' \in [Object -> Word(alg)]
      /\ fed' \in Seq(Byte) /\ drawn' \in [Object -> Seq(Word(alg))]
      /\ AsOneUpdate' /\ LowBits'
  <2> HIDE DEF k
  <2> QED BY <1>3, <1>4, DrawInv
<1>8. TypeOK'
  <2>1. ASSUME NEW o \in Object PROVE integral(R, T, rs(o)) \in 0 .. Values(T) - 1
    <3>1. PICK xs : xs = rs(o) OBVIOUS
    <3>2. Len(xs) = Calls(Size[alg], T) /\ \A i \in 1 .. Len(xs) : xs[i] \in Word(alg)
      BY <1>6, <3>1
    <3>3. integral(Size[alg], T, xs) \in 0 .. Values(T) - 1 BY <1>1, <3>2, IntegralType
    <3> QED BY <3>1, <3>3
  <2> HIDE DEF rs, k
  <2>2. \A o \in Object : made'.value[o] \in 0 .. Values(made'.size) - 1 BY <1>5, <2>1
  <2>3. alg' \in Algorithm /\ start' \in [Object -> Word(alg)] BY <1>7 DEF IInv, TypeOK
  <2> QED BY <1>7, <2>2, <2>3 DEF TypeOK
<1>9. PartsDiffer'
  <2> DEFINE part(v, i) == (v \div Values(R * i)) % Values(R)
  <2>1. CASE R = 4 /\ T = 8
    <3>1. k = 2 BY <1>2, <2>1
    <3> DEFINE V == Values(4)
    <3>2. V \in Nat \ {0} /\ Values(0) = 1 BY IntegralAssumption
    <3>3. ASSUME NEW o \in Object
          PROVE  part(made'.value[o], 0) # part(made'.value[o], 1)
      <4>1. PICK xs : xs = rs(o) OBVIOUS
      <4>2. Len(xs) = 2 /\ xs[1] \in Word(alg) /\ xs[2] \in Word(alg)
            /\ xs[1] = draw(alg, st[o], 2)[0] /\ xs[2] = draw(alg, st[o], 2)[1]
        <5>1. 1 \in 1 .. 2 /\ 2 \in 1 .. 2 /\ 1 - 1 = 0 /\ 2 - 1 = 1 OBVIOUS
        <5> HIDE DEF rs, k
        <5> QED BY <1>6, <3>1, <4>1, <5>1
      <4>3. Word(alg) = 0 .. V - 1 BY <2>1 DEF Word
      <4>4. PICK x \in 0 .. V - 1 : x = xs[1] BY <4>2, <4>3
      <4>5. PICK y \in 0 .. V - 1 : y = xs[2] BY <4>2, <4>3
      <4> HIDE DEF V, rs, k
      <4>6. x # y
        <5>1. xs[1] % 4 = (st[o] + 0) % 4 /\ xs[2] % 4 = (st[o] + 1) % 4
          <6>1. 0 \in 0 .. 2 /\ 1 \in 0 .. 2 /\ 2 \in Nat /\ st[o] \in Word(alg) BY <1>1
          <6> QED BY <1>1, <4>2, <6>1, DrawCounts
        <5>2. st[o] \in Nat BY <1>1, <3>2, <4>3
        <5> QED BY <4>4, <4>5, <5>1, <5>2
      <4>7. made'.value[o] = integral(R, T, rs(o)) BY <1>5
      <4>8. integral(R, T, rs(o)) = x + y * V
        <5>1. xs[1] \in Nat /\ xs[2] \in Nat BY <3>2, <4>2, <4>3
        <5>2. expansion(4, xs) = xs[1] + xs[2] * Values(4) BY <4>2, <5>1, ExpansionOfTwo
        <5>3. integral(R, T, rs(o)) = expansion(4, xs) BY <2>1, <4>1 DEF integral
        <5> QED BY <4>4, <4>5, <5>2, <5>3 DEF V
      <4>9. (x + y * V) \div V = y /\ (x + y * V) % V = x
        <5>1. y \in Nat /\ x + y * V = V * y + x BY <3>2
        <5>2. (V * y + x) \div V = y /\ (V * y + x) % V = x BY <3>2, <5>1, DivModOf
        <5> QED BY <5>1, <5>2, Zenon
      <4>10. y % V = y BY <3>2
      <4> DEFINE z == x + y * V
      <4>11. z \in Nat /\ z \div 1 = z
        <5>1. y * V \in Nat BY <3>2
        <5> QED BY <3>2, <5>1
      <4>12. R * 0 = 0 /\ R * 1 = 4 BY <2>1
      <4>13. made'.value[o] = z BY <4>7, <4>8, Zenon
      <4>14. part(z, 0) = x
        <5>1. part(z, 0) = (z \div Values(0)) % V BY <2>1, <4>12, Zenon DEF V
        <5> QED BY <3>2, <4>9, <4>11, <5>1, Zenon
      <4>15. part(z, 1) = y
        <5>1. part(z, 1) = (z \div V) % V BY <2>1, <4>12, Zenon DEF V
        <5> QED BY <4>9, <4>10, <5>1, Zenon
      <4> HIDE DEF part, z
      <4> QED BY <4>6, <4>13, <4>14, <4>15
    <3>4. made'.calls = 2
      <4> HIDE DEF rs, k
      <4> QED BY <1>5, <3>1
    <3>5. \A i, j \in 0 .. made'.calls - 1 : i # j => (i = 0 /\ j = 1) \/ (i = 1 /\ j = 0)
      BY <3>4
    <3>6. ASSUME NEW o \in Object, NEW i \in 0 .. made'.calls - 1,
                 NEW j \in 0 .. made'.calls - 1, i # j
          PROVE  part(made'.value[o], i) # part(made'.value[o], j)
      <4> HIDE DEF part
      <4> QED BY <3>3, <3>5, <3>6
    <3> QED BY <1>7, <3>6 DEF PartsDiffer
  <2>2. CASE ~(R = 4 /\ T = 8)
    <3>1. k = 1 BY <1>2, <2>2
    <3>2. made'.calls = 1
      <4> HIDE DEF rs, k
      <4> QED BY <1>5, <3>1
    <3> QED BY <3>2 DEF PartsDiffer
  <2> QED BY <2>1, <2>2
<1> QED BY <1>7, <1>8, <1>9 DEF IInv

LEMMA NextInv == IInv /\ [Next]_vars => IInv'
<1> SUFFICES ASSUME IInv, [Next]_vars PROVE IInv' OBVIOUS
<1>1. CASE \E p \in Input : Update(p) BY <1>1, UpdateInv
<1>2. CASE Result BY <1>2, ResultInv
<1>3. CASE \E T \in IntegralSizes : get_integral_result(T) BY <1>3, IntegralInv
<1>4. CASE UNCHANGED vars
  BY <1>4 DEF vars, IInv, TypeOK, AsOneUpdate, LowBits, PartsDiffer
<1> QED BY <1>1, <1>2, <1>3, <1>4 DEF Next

LEMMA Invariant == Spec => []IInv
<1> QED BY InitInv, NextInv, PTL DEF Spec

(* The words stay words of their class, and integers of the size asked for.*)
THEOREM TypeCorrect == Spec => []TypeOK
<1>1. IInv => TypeOK BY DEF IInv
<1> QED BY <1>1, Invariant, PTL

(* An object is what one update with all bytes makes of it, a byte 0xFF    *)
(* for each result among them: the splits do not matter.                   *)
THEOREM OneUpdate == Spec => []AsOneUpdate
<1>1. IInv => AsOneUpdate BY DEF IInv
<1> QED BY <1>1, Invariant, PTL

(* From any state, four results in a row differ.                           *)
THEOREM DistinctResults == Spec => []ResultsDiffer
<1>1. IInv => ResultsDiffer
  <2> SUFFICES ASSUME IInv, NEW o \in Object, NEW i \in 1 .. Len(drawn[o]),
                      NEW j \in 1 .. Len(drawn[o]), i < j, j < i + 4,
                      drawn[o][i] = drawn[o][j]
               PROVE  FALSE
    BY DEF ResultsDiffer
  <2> DEFINE L == Len(drawn[o])
  <2>1. drawn[o] \in Seq(Word(alg)) /\ alg \in Algorithm BY DEF IInv, TypeOK
  <2>2. L \in Nat /\ drawn[o][i] \in Word(alg) BY <2>1, LenProperties, ElementOfSeq
  <2>3. PICK x \in Nat : x = drawn[o][i] BY <2>1, <2>2, ConstantFacts, SMTT(30) DEF Word
  <2>4. (x + (L - i + 1)) % 4 = (x + (L - j + 1)) % 4 BY <2>3 DEF IInv, LowBits
  <2>5. PICK y \in Nat : y = x + (L - j + 1) BY <2>2, <2>3
  <2>6. x + (L - i + 1) = y + (j - i) /\ j - i \in 1 .. 3 BY <2>2, <2>5
  <2>7. (y + (j - i)) % 4 # y % 4 BY <2>6
  <2> QED BY <2>4, <2>5, <2>6, <2>7
<1> QED BY <1>1, Invariant, PTL

(* The results an integer is made of differ.                               *)
THEOREM DifferentParts == Spec => []PartsDiffer
<1>1. IInv => PartsDiffer BY DEF IInv
<1> QED BY <1>1, Invariant, PTL

(* Every value of a narrower integer is made of equally many results.      *)
THEOREM Uniformly == Spec => []ContractionsAreUniform
<1>1. TypeOK => ContractionsAreUniform
  <2> SUFFICES ASSUME TypeOK, NEW T \in IntegralSizes, T < Size[alg]
               PROVE  T \in UniformSizes[alg]
    BY DEF ContractionsAreUniform
  <2>1. alg \in Algorithm BY DEF TypeOK
  <2>2. Uniform(alg, T) BY <2>1, ContractsUniformly
  <2> QED BY <2>1, <2>2 DEF UniformSizes
<1> QED BY <1>1, TypeCorrect, PTL

(* Different states stay different through all calls: nothing of a seed is *)
(* ever lost.                                                              *)
THEOREM Apart == Spec => StatesStayApart
<1>1. TypeOK /\ [Next]_vars =>
        [\A o, p \in Object : st[o] # st[p] => st'[o] # st'[p]]_vars
  <2> SUFFICES ASSUME TypeOK, Next, NEW o \in Object, NEW q \in Object, st[o] # st[q]
               PROVE  st'[o] # st'[q]
    OBVIOUS
  <2>1. alg \in Algorithm /\ st[o] \in Word(alg) /\ st[q] \in Word(alg) BY DEF TypeOK
  <2>2. ASSUME NEW p \in Input, Update(p) PROVE st'[o] # st'[q]
    <3>1. p \in Seq(Byte) BY CallAssumption
    <3>2. st'[o] = update(alg, st[o], p) /\ st'[q] = update(alg, st[q], p) BY <2>2 DEF Update
    <3> QED BY <2>1, <3>1, <3>2, UpdateApart
  <2>3. ASSUME NEW k \in Nat, Draw(k) PROVE st'[o] # st'[q]
    <3>1. st'[o] = draw(alg, st[o], k)[k] /\ st'[q] = draw(alg, st[q], k)[k] BY <2>3 DEF Draw
    <3>2. st'[o] = update(alg, st[o], Ones(k)) /\ st'[q] = update(alg, st[q], Ones(k))
      BY <2>1, <3>1, DrawSteps
    <3>3. Ones(k) \in Seq(Byte) BY <2>1, OnesType
    <3> QED BY <2>1, <3>2, <3>3, UpdateApart
  <2>4. CASE Result BY <2>3, <2>4 DEF Result
  <2>5. ASSUME NEW T \in IntegralSizes, get_integral_result(T) PROVE st'[o] # st'[q]
    <3>1. Calls(Size[alg], T) \in Nat BY <2>1, CallsType
    <3> QED BY <2>3, <2>5, <3>1 DEF get_integral_result
  <2> QED BY <2>2, <2>4, <2>5 DEF Next
<1> QED BY <1>1, TypeCorrect, PTL DEF Spec, StatesStayApart
==============================================================================
