----------------------------- MODULE DataLemmas ------------------------------
(***************************************************************************)
(* Lemmas about numbers, buffers and blocks, for every size of a block.    *)
(* Induction and recursion over an interval are stated for sets and        *)
(* functions instead of predicates and operators, so that the provers can  *)
(* apply them; they rest on the strict inclusion of finite sets being      *)
(* well-founded.                                                           *)
(***************************************************************************)
EXTENDS ByteBlocks, FiniteSetTheorems, SequenceTheorems, TLAPS

------------------------------------------------------------------------------
(* Numbers *)

(* Division with remainder. *)
LEMMA DivMod ==
  ASSUME NEW x \in Nat, NEW b \in Nat \ {0}
  PROVE  /\ x \div b \in Nat
         /\ x % b \in 0 .. b - 1
         /\ x = b * (x \div b) + (x % b)
  OBVIOUS

(* The quotient and the remainder are unique. *)
LEMMA DivModUnique ==
  ASSUME NEW b \in Nat \ {0}, NEW q \in Int, NEW r \in 0 .. b - 1,
         NEW q2 \in Int, NEW r2 \in 0 .. b - 1,
         b * q + r = b * q2 + r2
  PROVE  q = q2 /\ r = r2
<1>1. ASSUME NEW u \in Int, NEW v \in Int, NEW s \in 0 .. b - 1,
             NEW t \in 0 .. b - 1, b * u + s = b * v + t
      PROVE  ~(u < v)
  <2>1. SUFFICES ASSUME u < v PROVE FALSE
    OBVIOUS
  <2>2. PICK d \in Nat : v = u + 1 + d
    <3>1. v - u - 1 \in Nat
      BY <2>1
    <3> QED BY <3>1
  <2>3. b * v = b * u + b + b * d
    BY <2>2
  <2>4. b * d \in Nat /\ b * u \in Int
    OBVIOUS
  <2> QED BY <2>3, <2>4, <1>1
<1>2. ~(q < q2) /\ ~(q2 < q)
  BY <1>1
<1>3. q = q2
  BY <1>2
<1>4. b * q \in Int
  OBVIOUS
<1> QED BY <1>3, <1>4

LEMMA DivModOf ==
  ASSUME NEW b \in Nat \ {0}, NEW q \in Nat, NEW r \in 0 .. b - 1
  PROVE  (b * q + r) \div b = q /\ (b * q + r) % b = r
<1> DEFINE x == b * q + r
<1>1. x \in Nat
  <2>1. b * q \in Nat
    OBVIOUS
  <2> QED BY <2>1
<1>2. /\ x \div b \in Nat
      /\ x % b \in 0 .. b - 1
      /\ b * (x \div b) + (x % b) = b * q + r
  BY <1>1, DivMod
<1> HIDE DEF x
<1>3. x \div b \in Int /\ q \in Int
  BY <1>2
<1>4. x \div b = q /\ x % b = r
  BY <1>2, <1>3, DivModUnique
<1> QED BY <1>4 DEF x

(* Adding whole blocks to a length adds them to the quotient. *)
LEMMA DivModShift ==
  ASSUME NEW b \in Nat \ {0}, NEW q \in Nat, NEW x \in Nat
  PROVE  (q * b + x) \div b = q + (x \div b) /\ (q * b + x) % b = x % b
<1>1. /\ x \div b \in Nat
      /\ x % b \in 0 .. b - 1
      /\ x = b * (x \div b) + (x % b)
  BY DivMod
<1>2. PICK d \in Nat : d = x \div b
  BY <1>1
<1>3. PICK r \in 0 .. b - 1 : r = x % b
  BY <1>1
<1>4. x = b * d + r
  BY <1>1, <1>2, <1>3
<1>5. q * b + x = b * (q + d) + r
  <2>1. b * (q + d) = q * b + b * d
    OBVIOUS
  <2>2. q * b \in Nat /\ b * d \in Nat
    OBVIOUS
  <2> QED BY <1>4, <2>1, <2>2
<1>6. q + d \in Nat
  OBVIOUS
<1>7. (b * (q + d) + r) \div b = q + d /\ (b * (q + d) + r) % b = r
  BY <1>6, DivModOf
<1>8. (q * b + x) \div b = q + d /\ (q * b + x) % b = r
  BY <1>5, <1>7, Zenon
<1> QED BY <1>2, <1>3, <1>8

LEMMA ModPlus ==
  ASSUME NEW m \in Nat \ {0}, NEW x \in Nat, NEW y \in Nat
  PROVE  ((x % m) + y) % m = (x + y) % m
<1> DEFINE q == x \div m
           r == x % m
<1>1. q \in Nat /\ r \in 0 .. m - 1 /\ x = m * q + r
  BY DivMod
<1> HIDE DEF q, r
<1>2. r + y \in Nat
  BY <1>1
<1>3. (q * m + (r + y)) % m = (r + y) % m
  BY <1>1, <1>2, DivModShift
<1>4. x + y = q * m + (r + y)
  <2>1. m * q = q * m /\ q * m \in Nat
    BY <1>1
  <2>2. m * q \in Nat
    BY <2>1
  <2> QED BY <1>1, <2>1, <2>2
<1>5. (r + y) % m = (x + y) % m
  BY <1>3, <1>4, Zenon
<1> QED BY <1>5 DEF r

LEMMA ModTimes ==
  ASSUME NEW m \in Nat \ {0}, NEW x \in Nat, NEW k \in Nat
  PROVE  ((x % m) * k) % m = (x * k) % m
<1> DEFINE q == x \div m
           r == x % m
<1>1. q \in Nat /\ r \in 0 .. m - 1 /\ x = m * q + r
  BY DivMod
<1> HIDE DEF q, r
<1> DEFINE d == q * k
           e == r * k
<1>2. d \in Nat /\ e \in Nat
  BY <1>1
<1>3. x * k = d * m + e
  BY <1>1
<1> HIDE DEF d, e
<1>4. (d * m + e) % m = e % m
  BY <1>2, DivModShift
<1> QED BY <1>3, <1>4, Zenon DEF e, r

(* Dividing twice is dividing by the product. *)
LEMMA DivDiv ==
  ASSUME NEW x \in Nat, NEW a \in Nat \ {0}, NEW b \in Nat \ {0}
  PROVE  (x \div a) \div b = x \div (b * a)
<1> DEFINE q == x \div a
           r == x % a
           s == q \div b
           t == q % b
           n == b * a
<1>1. /\ q \in Nat /\ r \in 0 .. a - 1 /\ x = a * q + r
      /\ s \in Nat /\ t \in 0 .. b - 1 /\ q = b * s + t
  BY DivMod
<1>2. n \in Nat \ {0}
  OBVIOUS
<1> HIDE DEF q, r, s, t
<1>3. a * q = n * s + a * t
  <2>1. a * (b * s + t) = a * (b * s) + a * t
    BY <1>1
  <2>2. a * (b * s) = n * s
    BY <1>1
  <2> QED BY <1>1, <2>1, <2>2
<1>4. a * t + r \in 0 .. n - 1
  <2>1. PICK d \in Nat : b = t + 1 + d
    <3>1. b - t - 1 \in Nat /\ b = t + 1 + (b - t - 1)
      BY <1>1
    <3> QED BY <3>1
  <2>2. n = a * t + a + a * d /\ a * d \in Nat /\ a * t \in Nat
    BY <1>1, <2>1
  <2> QED BY <1>1, <2>2
<1> HIDE DEF n
<1>5. x = n * s + (a * t + r)
  <2>1. n * s \in Nat /\ a * t \in Nat
    BY <1>1, <1>2
  <2> QED BY <1>1, <1>3, <2>1
<1>6. x \div n = s
  BY <1>1, <1>2, <1>4, <1>5, DivModOf
<1> QED BY <1>6 DEF s, q, n

(* A remainder modulo a multiple of b has the same remainder modulo b. *)
LEMMA ModOfMod ==
  ASSUME NEW m \in Nat \ {0}, NEW b \in Nat \ {0}, m % b = 0, NEW x \in Nat
  PROVE  (x % m) % b = x % b
<1> DEFINE q == x \div m
           r == x % m
           c == m \div b
<1>1. q \in Nat /\ r \in 0 .. m - 1 /\ x = m * q + r
  BY DivMod
<1>2. c \in Nat /\ m = b * c
  <2>1. c \in Nat /\ m = b * c + (m % b)
    BY DivMod
  <2> HIDE DEF c
  <2>2. b * c \in Nat
    BY <2>1
  <2> QED BY <2>1, <2>2
<1> HIDE DEF q, r, c
<1> DEFINE d == q * c
<1>3. d \in Nat /\ r \in Nat
  BY <1>1, <1>2
<1>4. m * q = d * b
  BY <1>1, <1>2
<1> HIDE DEF d
<1>5. (d * b + r) % b = r % b
  BY <1>3, DivModShift
<1>6. r % b = x % b
  BY <1>1, <1>4, <1>5, Zenon
<1> QED BY <1>6 DEF r

------------------------------------------------------------------------------
(* A set of natural numbers that is not empty has a least one. *)
LEMMA LeastNumber ==
  ASSUME NEW S, S \subseteq Nat, S # {}
  PROVE  \E x \in S : \A y \in S : x <= y
<1> DEFINE T == {0 .. x : x \in S}
           F == FiniteSubsetsOf(Nat)
<1>1. T \subseteq F /\ T # {}
  <2>1. T # {} OBVIOUS
  <2>2. ASSUME NEW x \in S PROVE 0 .. x \in F
    <3>1. x \in Int /\ 0 .. x \in SUBSET Nat OBVIOUS
    <3>2. IsFiniteSet(0 .. x) BY <3>1, FS_Interval
    <3> QED BY <3>1, <3>2 DEF FiniteSubsetsOf
  <2> QED BY <2>1, <2>2
<1>2. IsWellFoundedOn(StrictSubsetOrdering(Nat), F) BY FS_StrictSubsetOrderingWellFounded
<1>3. PICK t \in T : \A u \in T : ~ (<<u, t>> \in StrictSubsetOrdering(Nat)) BY <1>1, <1>2, WFMin
<1>4. PICK x \in S : t = 0 .. x OBVIOUS
<1>5. \A y \in S : ~ (y < x)
  <2> SUFFICES ASSUME NEW y \in S, y < x PROVE FALSE OBVIOUS
  <2>1. <<0 .. y, 0 .. x>> \in StrictSubsetOrdering(Nat) BY DEF StrictSubsetOrdering
  <2> QED BY <2>1, <1>3, <1>4
<1> QED BY <1>5

(* A set with 0, and with the successor of each number below n it has, has *)
(* every number up to n.                                                   *)
LEMMA Induction ==
  ASSUME NEW n \in Nat, NEW S, 0 \in S,
         \A i \in 0 .. n - 1 : i \in S => i + 1 \in S
  PROVE  \A i \in 0 .. n : i \in S
<1> DEFINE T == {i \in 0 .. n : i \notin S}
<1> SUFFICES ASSUME T # {} PROVE FALSE OBVIOUS
<1>1. PICK x \in T : \A y \in T : x <= y
  <2>1. T \subseteq Nat OBVIOUS
  <2> QED BY <2>1, LeastNumber
<1>2. x # 0 /\ x - 1 \in 0 .. n - 1 OBVIOUS
<1>3. x - 1 \in S BY <1>1, <1>2
<1> QED BY <1>2, <1>3

(* The ways to carry a value s from 0 to n with a function for each step; *)
(* there is one.                                                          *)
Loops(W, s, n, F) ==
  {f \in [0 .. n -> W] : f[0] = s /\ \A i \in 1 .. n : f[i] = F[i][f[i - 1]]}

LEMMA Recursion ==
  ASSUME NEW W, NEW s \in W, NEW n \in Nat, NEW F \in [1 .. n -> [W -> W]]
  PROVE  Loops(W, s, n, F) # {}
<1> DEFINE Runs(m) == {f \in [0 .. m -> W] : f[0] = s /\ \A i \in 1 .. m : f[i] = F[i][f[i - 1]]}
           S == {m \in 0 .. n : Runs(m) # {}}
<1>1. 0 \in S
  <2>1. [i \in 0 .. 0 |-> s] \in Runs(0) OBVIOUS
  <2> QED BY <2>1
<1>2. ASSUME NEW m \in 0 .. n - 1, m \in S PROVE m + 1 \in S
  <2>1. PICK f \in Runs(m) : TRUE BY <1>2
  <2> DEFINE g == [i \in 0 .. m + 1 |-> IF i = m + 1 THEN F[i][f[m]] ELSE f[i]]
  <2>2. g \in [0 .. m + 1 -> W]
    <3>1. f[m] \in W /\ F[m + 1] \in [W -> W] OBVIOUS
    <3> QED BY <3>1
  <2>3. g[0] = s BY <2>1
  <2>4. ASSUME NEW i \in 1 .. m + 1 PROVE g[i] = F[i][g[i - 1]]
    <3>1. CASE i = m + 1 BY <3>1
    <3>2. CASE i \in 1 .. m
      <4>1. g[i] = f[i] /\ g[i - 1] = f[i - 1] BY <3>2
      <4> QED BY <4>1, <3>2
    <3> QED BY <3>1, <3>2
  <2>5. g \in Runs(m + 1)
    <3> HIDE DEF g
    <3> QED BY <2>2, <2>3, <2>4
  <2>6. m + 1 \in 0 .. n OBVIOUS
  <2> HIDE DEF Runs
  <2> QED BY <2>5, <2>6
<1>3. n \in S
  <2> HIDE DEF S
  <2>1. \A m \in 0 .. n - 1 : m \in S => m + 1 \in S BY <1>2
  <2>2. \A m \in 0 .. n : m \in S BY <1>1, <2>1, Induction
  <2> QED BY <2>2
<1>4. Runs(n) # {} BY <1>3
<1> QED BY <1>4 DEF Loops

------------------------------------------------------------------------------
(* Blocks *)

(* Products are kept behind names, so that what follows is linear.          *)

Total(b, k)    == k * b               \* the bytes of k blocks
Pos(b, j, i)  == (j - 1) * b + i     \* where byte i of block j is
Whole(b, len) == len \div b          \* the whole blocks in len bytes
Rest(b, len)  == len % b             \* the bytes left over

LEMMA TotalType ==
  ASSUME NEW b \in Nat \ {0}, NEW k \in Nat
  PROVE  Total(b, k) \in Nat
  BY DEF Total

LEMMA TotalPlus ==
  ASSUME NEW b \in Nat \ {0}, NEW j \in Nat, NEW k \in Nat
  PROVE  Total(b, j + k) = Total(b, j) + Total(b, k)
  BY DEF Total

LEMMA TotalOne ==
  ASSUME NEW b \in Nat \ {0}
  PROVE  Total(b, 0) = 0 /\ Total(b, 1) = b
  BY DEF Total

LEMMA TotalMonotonic ==
  ASSUME NEW b \in Nat \ {0}, NEW j \in Nat, NEW k \in Nat
  PROVE  /\ j <= k => Total(b, j) <= Total(b, k)
         /\ j < k => Total(b, j) + b <= Total(b, k)
<1>1. ASSUME j <= k PROVE Total(b, j) <= Total(b, k)
  <2>1. PICK d \in Nat : k = j + d
    <3>1. k - j \in Nat
      BY <1>1
    <3> QED BY <3>1
  <2>2. Total(b, j + d) = Total(b, j) + Total(b, d)
    BY TotalPlus
  <2>3. Total(b, d) \in Nat /\ Total(b, j) \in Nat
    BY TotalType
  <2> QED BY <2>1, <2>2, <2>3
<1>2. ASSUME j < k PROVE Total(b, j) + b <= Total(b, k)
  <2>1. PICK d \in Nat : k = j + (1 + d)
    <3>1. k - j - 1 \in Nat
      BY <1>2
    <3> QED BY <3>1
  <2>2. 1 + d \in Nat
    OBVIOUS
  <2>3. Total(b, j + (1 + d)) = Total(b, j) + Total(b, 1 + d)
    BY <2>2, TotalPlus
  <2>4. Total(b, 1 + d) = Total(b, 1) + Total(b, d)
    BY TotalPlus
  <2>5. Total(b, d) \in Nat /\ Total(b, j) \in Nat /\ Total(b, 1) = b
    BY TotalType, TotalOne
  <2> QED BY <2>1, <2>3, <2>4, <2>5
<1> QED BY <1>1, <1>2

LEMMA WholeRest ==
  ASSUME NEW b \in Nat \ {0}, NEW len \in Nat
  PROVE  /\ Whole(b, len) \in Nat
         /\ Rest(b, len) \in 0 .. b - 1
         /\ len = Total(b, Whole(b, len)) + Rest(b, len)
<1>1. b * (len \div b) = (len \div b) * b
  BY DivMod
<1> QED BY <1>1, DivMod DEF Whole, Rest, Total

LEMMA WholeRestUnique ==
  ASSUME NEW b \in Nat \ {0}, NEW k \in Nat, NEW r \in 0 .. b - 1
  PROVE  Whole(b, Total(b, k) + r) = k /\ Rest(b, Total(b, k) + r) = r
<1>1. b * k = k * b
  OBVIOUS
<1>2. (b * k + r) \div b = k /\ (b * k + r) % b = r
  BY DivModOf
<1> QED BY <1>1, <1>2, Zenon DEF Whole, Rest, Total

LEMMA PosFirst ==
  ASSUME NEW b \in Nat \ {0}, NEW j \in Nat \ {0}, NEW i \in 1 .. b
  PROVE  Pos(b, j, i) = Total(b, j - 1) + i
  BY DEF Pos, Total

LEMMA PosShift ==
  ASSUME NEW b \in Nat \ {0}, NEW j \in Nat \ {0}, NEW i \in 1 .. b, NEW k \in Nat
  PROVE  Pos(b, k + j, i) = Total(b, k) + Pos(b, j, i)
<1>1. PICK e \in Nat : j = e + 1
  <2>1. j - 1 \in Nat
    OBVIOUS
  <2> QED BY <2>1
<1>2. Pos(b, k + j, i) = (k + e) * b + i /\ Pos(b, j, i) = e * b + i
  BY <1>1 DEF Pos
<1>3. (k + e) * b = k * b + e * b
  OBVIOUS
<1> QED BY <1>2, <1>3 DEF Total

LEMMA PosType ==
  ASSUME NEW b \in Nat \ {0}, NEW k \in Nat, NEW j \in 1 .. k, NEW i \in 1 .. b
  PROVE  Pos(b, j, i) \in 1 .. Total(b, k)
<1>1. PICK e \in Nat : e = j - 1 /\ e < k
  OBVIOUS
<1>2. Total(b, e) + b <= Total(b, k)
  BY <1>1, TotalMonotonic
<1>3. Total(b, e) \in Nat /\ Total(b, k) \in Nat
  BY TotalType
<1>4. Pos(b, j, i) = Total(b, e) + i
  BY <1>1, PosFirst
<1> QED BY <1>2, <1>3, <1>4

(* Every position in k blocks is one of these, of one block. *)
LEMMA PosCover ==
  ASSUME NEW b \in Nat \ {0}, NEW k \in Nat, NEW x \in 1 .. Total(b, k)
  PROVE  \E j \in 1 .. k, i \in 1 .. b : x = Pos(b, j, i)
<1> DEFINE d == Whole(b, x - 1)
           r == Rest(b, x - 1)
<1>0. Total(b, k) \in Nat
  BY TotalType
<1>1. x - 1 \in Nat /\ x <= Total(b, k)
  BY <1>0
<1>2. d \in Nat /\ r \in 0 .. b - 1 /\ x - 1 = Total(b, d) + r
  BY <1>1, WholeRest
<1> HIDE DEF d, r
<1>3. Total(b, d) \in Nat
  BY <1>2, TotalType
<1>4. d < k
  <2>1. SUFFICES ASSUME k <= d PROVE FALSE
    BY <1>2
  <2>2. Total(b, k) <= Total(b, d)
    BY <1>2, <2>1, TotalMonotonic
  <2> QED BY <1>0, <1>1, <1>2, <1>3, <2>2
<1>5. 1 + d \in 1 .. k /\ 1 + r \in 1 .. b /\ 1 + d \in Nat \ {0}
  BY <1>2, <1>4
<1>6. Pos(b, 1 + d, 1 + r) = Total(b, (1 + d) - 1) + (1 + r)
  BY <1>5, PosFirst
<1>7. (1 + d) - 1 = d
  BY <1>2
<1>8. x = Pos(b, 1 + d, 1 + r)
  BY <1>1, <1>2, <1>3, <1>6, <1>7
<1> QED BY <1>5, <1>8

LEMMA PosInverse ==
  ASSUME NEW b \in Nat \ {0}, NEW j \in Nat \ {0}, NEW i \in 1 .. b
  PROVE  /\ 1 + ((Pos(b, j, i) - 1) \div b) = j
         /\ 1 + ((Pos(b, j, i) - 1) % b) = i
<1>1. j - 1 \in Nat /\ i - 1 \in 0 .. b - 1
  OBVIOUS
<1>2. Total(b, j - 1) \in Nat
  BY <1>1, TotalType
<1>3. Pos(b, j, i) - 1 = Total(b, j - 1) + (i - 1)
  BY <1>2, PosFirst
<1>4. Whole(b, Pos(b, j, i) - 1) = j - 1 /\ Rest(b, Pos(b, j, i) - 1) = i - 1
  BY <1>1, <1>3, WholeRestUnique
<1> QED BY <1>4 DEF Whole, Rest

------------------------------------------------------------------------------
(* Buffers *)

LEMMA ZeroesType ==
  ASSUME NEW B, 0 \in B, NEW k \in Nat
  PROVE  Zeroes(k) \in [1 .. k -> B] /\ Zeroes(k) \in Seq(B) /\ Len(Zeroes(k)) = k
  BY DEF Zeroes

(* The part of q from offset on. *)
LEMMA Part ==
  ASSUME NEW B, NEW q \in Seq(B), NEW offset \in Nat, NEW k \in Nat,
         offset + k <= Len(q)
  PROVE  LET s == SubSeq(q, offset + 1, offset + k) IN
         /\ s \in Seq(B)
         /\ Len(s) = k
         /\ s \in [1 .. k -> B]
         /\ \A i \in 1 .. k : s[i] = q[offset + i]
<1> DEFINE s == SubSeq(q, offset + 1, offset + k)
<1>1. Len(q) \in Nat /\ \A i \in offset + 1 .. offset + k : q[i] \in B
  BY ElementOfSeq
<1>2. /\ s \in Seq(B)
      /\ Len(s) = IF offset + 1 <= offset + k THEN (offset + k) - (offset + 1) + 1 ELSE 0
      /\ \A i \in 1 .. (offset + k) - (offset + 1) + 1 : s[i] = q[offset + 1 + i - 1]
  BY <1>1, SubSeqProperties
<1> HIDE DEF s
<1>3. Len(s) = k
  BY <1>2
<1>4. \A i \in 1 .. k : s[i] = q[offset + i]
  BY <1>2
<1>5. s \in [1 .. k -> B]
  BY <1>2, <1>3, LenProperties
<1> QED BY <1>2, <1>3, <1>4, <1>5 DEF s

LEMMA Prefix ==
  ASSUME NEW B, NEW q \in Seq(B), NEW k \in Nat, k <= Len(q)
  PROVE  /\ SubSeq(q, 1, k) \in Seq(B)
         /\ Len(SubSeq(q, 1, k)) = k
         /\ \A i \in 1 .. k : SubSeq(q, 1, k)[i] = q[i]
<1>1. Len(q) \in Nat /\ \A i \in 1 .. k : q[i] \in B
  BY ElementOfSeq
<1>2. /\ SubSeq(q, 1, k) \in Seq(B)
      /\ Len(SubSeq(q, 1, k)) = IF 1 <= k THEN k - 1 + 1 ELSE 0
      /\ \A i \in 1 .. k - 1 + 1 : SubSeq(q, 1, k)[i] = q[1 + i - 1]
  BY <1>1, SubSeqProperties
<1>3. Len(SubSeq(q, 1, k)) = k
  BY <1>2
<1>4. \A i \in 1 .. k : SubSeq(q, 1, k)[i] = q[i]
  BY <1>2
<1> QED BY <1>2, <1>3, <1>4

LEMMA CopyToType ==
  ASSUME NEW B, NEW b \in Nat, NEW buffer \in Block(b, B),
         NEW offset \in Nat, NEW p \in Seq(B)
  PROVE  CopyTo(buffer, offset, p) \in Block(b, B)
<1>1. buffer \in Seq(B) /\ Len(buffer) = b /\ buffer \in [1 .. b -> B]
  BY DEF Block
<1>2. ASSUME NEW i \in 1 .. b, offset < i /\ i <= offset + Len(p)
      PROVE  p[i - offset] \in B
  BY <1>2
<1> QED BY <1>1, <1>2 DEF CopyTo, Block

(* What a buffer holds up to the end of what was copied into it. *)
LEMMA CopyPrefix ==
  ASSUME NEW B, NEW b \in Nat, NEW buffer \in Block(b, B),
         NEW offset \in Nat, NEW p \in Seq(B), offset + Len(p) <= b
  PROVE  SubSeq(CopyTo(buffer, offset, p), 1, offset + Len(p))
           = SubSeq(buffer, 1, offset) \o p
<1> DEFINE c == CopyTo(buffer, offset, p)
           l == SubSeq(c, 1, offset + Len(p))
           f == SubSeq(buffer, 1, offset)
<1>1. Len(p) \in Nat
  OBVIOUS
<1>2. buffer \in Seq(B) /\ Len(buffer) = b
  BY DEF Block
<1>3. c \in Seq(B) /\ Len(c) = b
  <2>1. c \in Block(b, B)
    BY CopyToType
  <2> QED BY <2>1 DEF Block
<1>4. \A i \in 1 .. b :
        c[i] = IF offset < i /\ i <= offset + Len(p) THEN p[i - offset] ELSE buffer[i]
  BY <1>2 DEF CopyTo
<1> HIDE DEF c
<1>5. /\ l \in Seq(B) /\ Len(l) = offset + Len(p)
      /\ \A i \in 1 .. offset + Len(p) : l[i] = c[i]
  <2>1. offset + Len(p) \in Nat /\ offset + Len(p) <= Len(c)
    BY <1>1, <1>3
  <2> QED BY <1>3, <2>1, Prefix
<1>6. /\ f \in Seq(B) /\ Len(f) = offset
      /\ \A i \in 1 .. offset : f[i] = buffer[i]
  <2>1. offset <= Len(buffer)
    BY <1>1, <1>2
  <2> QED BY <1>2, <2>1, Prefix
<1> HIDE DEF l, f
<1>7. /\ f \o p \in Seq(B)
      /\ Len(f \o p) = Len(f) + Len(p)
      /\ \A i \in 1 .. Len(f) + Len(p) :
           (f \o p)[i] = IF i <= Len(f) THEN f[i] ELSE p[i - Len(f)]
  BY <1>6, ConcatProperties
<1>8. ASSUME NEW i \in 1 .. offset + Len(p) PROVE l[i] = (f \o p)[i]
  BY <1>1, <1>4, <1>5, <1>6, <1>7
<1>9. l = f \o p
  BY <1>5, <1>6, <1>7, <1>8, SeqEqual
<1> QED BY <1>9 DEF l, f, c

------------------------------------------------------------------------------
(* Blocks and BytesOf *)

(* Blocks cuts whole blocks, of bytes of q in their order. *)
LEMMA BlocksType ==
  ASSUME NEW B, NEW b \in Nat \ {0}, NEW q \in Seq(B)
  PROVE  /\ Blocks(b, q) \in BlockSeq(b, B)
         /\ Len(Blocks(b, q)) = Whole(b, Len(q))
         /\ \A j \in 1 .. Whole(b, Len(q)), i \in 1 .. b :
              Blocks(b, q)[j][i] = q[Pos(b, j, i)]
<1> DEFINE d == Whole(b, Len(q))
<1>0. Len(q) \in Nat
  OBVIOUS
<1>1. d \in Nat /\ Total(b, d) <= Len(q)
  <2>1. /\ d \in Nat
        /\ Rest(b, Len(q)) \in 0 .. b - 1
        /\ Len(q) = Total(b, d) + Rest(b, Len(q))
    BY <1>0, WholeRest
  <2>2. Total(b, d) \in Nat
    BY <2>1, TotalType
  <2> QED BY <2>1, <2>2
<1> HIDE DEF d
<1>2. ASSUME NEW j \in 1 .. d
      PROVE  LET s == SubSeq(q, (j - 1) * b + 1, j * b) IN
             /\ s \in [1 .. b -> B]
             /\ \A i \in 1 .. b : s[i] = q[Pos(b, j, i)]
  <2>1. PICK e \in Nat : e = j - 1 /\ e < d
    BY <1>1
  <2>2. Total(b, e) + b <= Total(b, d) /\ Total(b, e) \in Nat /\ Total(b, d) \in Nat
    BY <1>1, <2>1, TotalMonotonic, TotalType
  <2>3. PICK o \in Nat : o = Total(b, e)
    BY <2>2
  <2>4. o + b <= Len(q)
    BY <1>0, <1>1, <2>2, <2>3
  <2>5. /\ SubSeq(q, o + 1, o + b) \in [1 .. b -> B]
        /\ \A i \in 1 .. b : SubSeq(q, o + 1, o + b)[i] = q[o + i]
    <3>1. b \in Nat
      OBVIOUS
    <3> QED BY <2>4, <3>1, Part
  <2>6. (j - 1) * b + 1 = o + 1 /\ j * b = o + b
    BY <2>1, <2>3 DEF Total
  <2>7. \A i \in 1 .. b : o + i = Pos(b, j, i)
    BY <2>1, <2>3 DEF Total, Pos
  <2> QED BY <2>5, <2>6, <2>7
<1>3. Blocks(b, q) = [j \in 1 .. d |-> SubSeq(q, (j - 1) * b + 1, j * b)]
  BY DEF Blocks, Whole, d
<1>4. Blocks(b, q) \in [1 .. d -> [1 .. b -> B]]
  BY <1>2, <1>3
<1>5. \A j \in 1 .. d, i \in 1 .. b : Blocks(b, q)[j][i] = q[Pos(b, j, i)]
  BY <1>2, <1>3
<1>6. Blocks(b, q) \in BlockSeq(b, B) /\ Len(Blocks(b, q)) = d
  BY <1>1, <1>4 DEF BlockSeq, Block
<1> QED BY <1>5, <1>6 DEF d

LEMMA BytesOfType ==
  ASSUME NEW B, NEW b \in Nat \ {0}, NEW s \in BlockSeq(b, B)
  PROVE  /\ BytesOf(b, s) \in Seq(B)
         /\ Len(BytesOf(b, s)) = Total(b, Len(s))
         /\ \A j \in 1 .. Len(s), i \in 1 .. b :
              BytesOf(b, s)[Pos(b, j, i)] = s[j][i]
<1> DEFINE n == Total(b, Len(s))
<1>0. s \in Seq([1 .. b -> B]) /\ Len(s) \in Nat
  BY DEF BlockSeq, Block
<1>1. n \in Nat
  BY <1>0, TotalType
<1>2. BytesOf(b, s)
        = [x \in 1 .. n |-> s[1 + ((x - 1) \div b)][1 + ((x - 1) % b)]]
  BY DEF BytesOf, Total
<1>3. ASSUME NEW j \in 1 .. Len(s), NEW i \in 1 .. b
      PROVE  /\ BytesOf(b, s)[Pos(b, j, i)] = s[j][i]
             /\ s[j][i] \in B
  <2>1. Pos(b, j, i) \in 1 .. n
    BY <1>0, PosType
  <2> HIDE DEF n
  <2>2. PICK x \in 1 .. n : x = Pos(b, j, i)
    BY <2>1
  <2>3. BytesOf(b, s)[x] = s[1 + ((x - 1) \div b)][1 + ((x - 1) % b)]
    BY <1>2, Zenon
  <2>4. j \in Nat \ {0}
    BY <1>0
  <2>5. 1 + ((x - 1) \div b) = j /\ 1 + ((x - 1) % b) = i
    BY <2>2, <2>4, PosInverse
  <2>6. s[j] \in [1 .. b -> B]
    BY <1>0, ElementOfSeq
  <2> QED BY <2>2, <2>3, <2>5, <2>6, Zenon
<1>4. \A x \in 1 .. n : BytesOf(b, s)[x] \in B
  <2>1. SUFFICES ASSUME NEW x \in 1 .. n PROVE BytesOf(b, s)[x] \in B
    OBVIOUS
  <2>2. PICK j \in 1 .. Len(s), i \in 1 .. b : x = Pos(b, j, i)
    BY <1>0, PosCover
  <2> QED BY <1>3, <2>2
<1> HIDE DEF n
<1>5. BytesOf(b, s) \in [1 .. n -> B]
  <2>1. DOMAIN BytesOf(b, s) = 1 .. n /\ BytesOf(b, s) = [x \in 1 .. n |-> BytesOf(b, s)[x]]
    BY <1>2, Zenon
  <2> QED BY <1>4, <2>1
<1>6. BytesOf(b, s) \in Seq(B) /\ Len(BytesOf(b, s)) = n
  BY <1>1, <1>5
<1> QED BY <1>3, <1>6 DEF n

(* BytesOf distributes over concatenation. *)
LEMMA BytesOfConcat ==
  ASSUME NEW B, NEW b \in Nat \ {0},
         NEW s \in BlockSeq(b, B), NEW t \in BlockSeq(b, B)
  PROVE  BytesOf(b, s \o t) = BytesOf(b, s) \o BytesOf(b, t)
<1> DEFINE u  == s \o t
           k  == Len(s)
           l  == Len(t)
           m  == Total(b, k)
           n  == Total(b, l)
           fs == BytesOf(b, s)
           ft == BytesOf(b, t)
           fu == BytesOf(b, u)
<1>1. /\ u \in BlockSeq(b, B)
      /\ Len(u) = k + l
      /\ \A j \in 1 .. k + l : u[j] = IF j <= k THEN s[j] ELSE t[j - k]
  BY ConcatProperties DEF BlockSeq
<1>2. k \in Nat /\ l \in Nat
  BY DEF BlockSeq
<1>3. m \in Nat /\ n \in Nat /\ Total(b, k + l) = m + n
  BY <1>2, TotalType, TotalPlus
<1>4. /\ fs \in Seq(B) /\ Len(fs) = m
      /\ \A j \in 1 .. k, i \in 1 .. b : fs[Pos(b, j, i)] = s[j][i]
  BY BytesOfType
<1>5. /\ ft \in Seq(B) /\ Len(ft) = n
      /\ \A j \in 1 .. l, i \in 1 .. b : ft[Pos(b, j, i)] = t[j][i]
  BY BytesOfType
<1> HIDE DEF u
<1>6. /\ fu \in Seq(B) /\ Len(fu) = m + n
      /\ \A j \in 1 .. k + l, i \in 1 .. b : fu[Pos(b, j, i)] = u[j][i]
  <2>0. u \in BlockSeq(b, B)
    BY <1>1
  <2>1. /\ fu \in Seq(B) /\ Len(fu) = Total(b, Len(u))
        /\ \A j \in 1 .. Len(u), i \in 1 .. b : fu[Pos(b, j, i)] = u[j][i]
    BY <2>0, BytesOfType
  <2> QED BY <1>1, <1>3, <2>1
<1> HIDE DEF fs, ft, fu
<1>7. /\ fs \o ft \in Seq(B)
      /\ Len(fs \o ft) = Len(fs) + Len(ft)
      /\ \A x \in 1 .. Len(fs) + Len(ft) :
           (fs \o ft)[x] = IF x <= Len(fs) THEN fs[x] ELSE ft[x - Len(fs)]
  BY <1>4, <1>5, ConcatProperties
<1>8. ASSUME NEW x \in 1 .. m + n
      PROVE  fu[x] = (fs \o ft)[x]
  <2>0. (fs \o ft)[x] = IF x <= m THEN fs[x] ELSE ft[x - m]
    BY <1>4, <1>5, <1>7
  <2>1. PICK j \in 1 .. k + l, i \in 1 .. b : x = Pos(b, j, i)
    <3>1. k + l \in Nat /\ x \in 1 .. Total(b, k + l)
      BY <1>2, <1>3
    <3> HIDE DEF k, l
    <3> QED BY <3>1, PosCover
  <2>2. fu[x] = u[j][i]
    BY <1>6, <2>1
  <2>3. CASE j <= k
    <3>1. j \in 1 .. k /\ u[j] = s[j]
      BY <1>1, <1>2, <2>3
    <3>2. Pos(b, j, i) \in 1 .. m
      BY <1>2, <3>1, PosType
    <3>3. (fs \o ft)[x] = fs[x]
      BY <1>3, <2>0, <2>1, <3>2
    <3> QED BY <1>4, <2>1, <2>2, <3>1, <3>3
  <2>4. CASE j > k
    <3> HIDE DEF k, l
    <3>1. PICK e \in 1 .. l : j = k + e
      <4>1. j - k \in 1 .. l /\ j = k + (j - k)
        BY <1>2, <2>4
      <4> QED BY <4>1
    <3>2. e \in Nat \ {0}
      BY <1>2
    <3>3. Pos(b, k + e, i) = m + Pos(b, e, i)
      BY <1>2, <3>2, PosShift
    <3>4. Pos(b, e, i) \in 1 .. n
      BY <1>2, PosType
    <3> HIDE DEF m, n
    <3>5. ~(x <= m) /\ x - m = Pos(b, e, i)
      BY <1>3, <2>1, <3>1, <3>3, <3>4
    <3>6. u[j] = t[e]
      BY <1>1, <1>2, <3>1
    <3>7. ft[Pos(b, e, i)] = t[e][i]
      BY <1>5
    <3>8. (fs \o ft)[x] = ft[Pos(b, e, i)]
      BY <2>0, <3>5
    <3> QED BY <2>2, <3>6, <3>7, <3>8
  <2>5. j <= k \/ j > k
    BY <1>2
  <2> QED BY <2>3, <2>4, <2>5, Zenon
<1>9. fu = fs \o ft
  <2> HIDE DEF m, n
  <2>1. Len(fs \o ft) = Len(fu) /\ Len(fu) = m + n
    BY <1>3, <1>4, <1>5, <1>6, <1>7
  <2> QED BY <1>6, <1>7, <1>8, <2>1, SeqEqual
<1> QED BY <1>9 DEF fs, ft, fu, u

LEMMA BytesOfAppend ==
  ASSUME NEW B, NEW b \in Nat \ {0},
         NEW s \in BlockSeq(b, B), NEW block \in Block(b, B)
  PROVE  BytesOf(b, Append(s, block)) = BytesOf(b, s) \o block
<1> DEFINE t == <<block>>
<1>1. t \in BlockSeq(b, B) /\ Len(t) = 1 /\ t[1] = block
  BY DEF BlockSeq
<1>2. Append(s, block) = s \o t
  BY AppendIsConcat DEF BlockSeq
<1> HIDE DEF t
<1>3. BytesOf(b, t) = block
  <2>0. t \in BlockSeq(b, B)
    BY <1>1
  <2>1. /\ BytesOf(b, t) \in Seq(B)
        /\ Len(BytesOf(b, t)) = Total(b, Len(t))
        /\ \A j \in 1 .. Len(t), i \in 1 .. b : BytesOf(b, t)[Pos(b, j, i)] = t[j][i]
    BY <2>0, BytesOfType
  <2>2. block \in Seq(B) /\ Len(block) = b
    BY DEF Block
  <2>3. Len(BytesOf(b, t)) = b
    BY <1>1, <2>1, TotalOne
  <2>4. ASSUME NEW i \in 1 .. b PROVE BytesOf(b, t)[i] = block[i]
    <3>1. Pos(b, 1, i) = i
      BY DEF Pos
    <3>2. BytesOf(b, t)[Pos(b, 1, i)] = t[1][i]
      BY <1>1, <2>1
    <3> QED BY <1>1, <3>1, <3>2
  <2> QED BY <2>1, <2>2, <2>3, <2>4, SeqEqual
<1>4. BytesOf(b, s \o t) = BytesOf(b, s) \o BytesOf(b, t)
  BY <1>1, BytesOfConcat
<1> QED BY <1>2, <1>3, <1>4, Zenon

(* Cutting q into blocks loses only what does not fill one. *)
LEMMA BytesOfBlocks ==
  ASSUME NEW B, NEW b \in Nat \ {0}, NEW q \in Seq(B)
  PROVE  LET r == Rest(b, Len(q)) IN
         BytesOf(b, Blocks(b, q)) \o SubSeq(q, Len(q) - r + 1, Len(q)) = q
<1> DEFINE d == Whole(b, Len(q))
           r == Rest(b, Len(q))
           n == Total(b, d)
           t == Blocks(b, q)
           f == BytesOf(b, t)
           g == SubSeq(q, n + 1, n + r)
<1>1. d \in Nat /\ r \in 0 .. b - 1 /\ Len(q) = n + r
  <2>1. Len(q) \in Nat
    OBVIOUS
  <2> QED BY <2>1, WholeRest
<1>2. /\ t \in BlockSeq(b, B) /\ Len(t) = d
      /\ \A j \in 1 .. d, i \in 1 .. b : t[j][i] = q[Pos(b, j, i)]
  BY BlocksType
<1> HIDE DEF d, r, t
<1>3. n \in Nat
  BY <1>1, TotalType
<1>4. /\ f \in Seq(B) /\ Len(f) = n
      /\ \A j \in 1 .. d, i \in 1 .. b : f[Pos(b, j, i)] = t[j][i]
  <2>1. /\ f \in Seq(B) /\ Len(f) = Total(b, Len(t))
        /\ \A j \in 1 .. Len(t), i \in 1 .. b : f[Pos(b, j, i)] = t[j][i]
    BY <1>2, BytesOfType
  <2> QED BY <1>2, <2>1
<1> HIDE DEF f
<1>5. \A x \in 1 .. n : f[x] = q[x]
  <2>1. SUFFICES ASSUME NEW x \in 1 .. n PROVE f[x] = q[x]
    OBVIOUS
  <2>2. PICK j \in 1 .. d, i \in 1 .. b : x = Pos(b, j, i)
    BY <1>1, PosCover
  <2>3. f[x] = t[j][i] /\ t[j][i] = q[x]
    BY <1>2, <1>4, <2>2
  <2> QED BY <2>3
<1> HIDE DEF n
<1>6. /\ g \in Seq(B) /\ Len(g) = r
      /\ \A i \in 1 .. r : g[i] = q[n + i]
  <2>1. r \in Nat /\ n + r <= Len(q)
    BY <1>1, <1>3
  <2> QED BY <1>3, <2>1, Part
<1> HIDE DEF g
<1>7. /\ f \o g \in Seq(B)
      /\ Len(f \o g) = Len(f) + Len(g)
      /\ \A x \in 1 .. Len(f) + Len(g) :
           (f \o g)[x] = IF x <= Len(f) THEN f[x] ELSE g[x - Len(f)]
  BY <1>4, <1>6, ConcatProperties
<1>8. \A x \in 1 .. n + r : (f \o g)[x] = q[x]
  <2>1. SUFFICES ASSUME NEW x \in 1 .. n + r PROVE (f \o g)[x] = q[x]
    OBVIOUS
  <2>2. (f \o g)[x] = IF x <= n THEN f[x] ELSE g[x - n]
    BY <1>4, <1>6, <1>7
  <2>3. CASE x <= n
    <3>1. x \in 1 .. n
      BY <1>1, <1>3, <2>3
    <3> QED BY <1>5, <2>2, <2>3, <3>1
  <2>4. CASE ~(x <= n)
    <3>1. x - n \in 1 .. r /\ n + (x - n) = x
      BY <1>1, <1>3, <2>4
    <3> QED BY <1>6, <2>2, <2>4, <3>1
  <2> QED BY <2>3, <2>4
<1>9. f \o g = q
  <2>1. Len(f \o g) = n + r
    BY <1>4, <1>6, <1>7
  <2> QED BY <1>1, <1>7, <1>8, <2>1, SeqEqual
<1>10. Len(q) - r + 1 = n + 1
  BY <1>1, <1>3
<1> QED BY <1>1, <1>9, <1>10 DEF f, g, t, r
------------------------------------------------------------------------------
(* Parts of sequences *)

Regroups(f, g, y, z) == (f \o (g \o y)) \o z = (f \o g) \o (y \o z)

LEMMA ConcatRegroup ==
  ASSUME NEW B, NEW f \in Seq(B), NEW g \in Seq(B), NEW y \in Seq(B), NEW z \in Seq(B)
  PROVE  Regroups(f, g, y, z)
<1> DEFINE w == f \o g
<1>1. w \o y = f \o (g \o y)
  BY ConcatAssociative, SMTT(30)
<1>2. w \in Seq(B)
  BY ConcatProperties
<1> HIDE DEF w
<1>3. (w \o y) \o z = w \o (y \o z)
  BY <1>2, ConcatAssociative, SMTT(30)
<1> QED BY <1>1, <1>3, Zenon DEF w, Regroups

(* Cutting a sequence in two. *)
LEMMA CutInTwo ==
  ASSUME NEW B, NEW p \in Seq(B), NEW k \in 0 .. Len(p)
  PROVE  /\ SubSeq(p, 1, k) \in Seq(B) /\ Len(SubSeq(p, 1, k)) = k
         /\ SubSeq(p, k + 1, Len(p)) \in Seq(B)
         /\ Len(SubSeq(p, k + 1, Len(p))) = Len(p) - k
         /\ SubSeq(p, 1, k) \o SubSeq(p, k + 1, Len(p)) = p
<1>1. Len(p) \in Nat /\ k \in Nat /\ Len(p) - k \in Nat
      /\ k + (Len(p) - k) = Len(p)
  OBVIOUS
<1>2. SubSeq(p, 1, k) \in Seq(B) /\ Len(SubSeq(p, 1, k)) = k
  BY <1>1, Prefix, SMTT(30)
<1>3. /\ SubSeq(p, k + 1, Len(p)) \in Seq(B)
      /\ Len(SubSeq(p, k + 1, Len(p))) = Len(p) - k
  <2> DEFINE d == Len(p) - k
  <2>1. d \in Nat /\ k + d <= Len(p) /\ k + d = Len(p)
    BY <1>1
  <2> HIDE DEF d
  <2>2. /\ SubSeq(p, k + 1, k + d) \in Seq(B)
        /\ Len(SubSeq(p, k + 1, k + d)) = d
    BY <1>1, <2>1, Part
  <2> QED BY <2>1, <2>2 DEF d
<1>4. SubSeq(p, 1, k) \o SubSeq(p, k + 1, Len(p)) = SubSeq(p, 1, Len(p))
  <2>1. 1 \in 1 .. Len(p) + 1 /\ k \in 1 - 1 .. Len(p) /\ Len(p) \in k .. Len(p)
    BY <1>1
  <2> QED BY <2>1, ConcatAdjacentSubSeq
<1> QED BY <1>2, <1>3, <1>4, SubSeqFull

(* What is left of q after its whole blocks. *)
LEMMA LastPart ==
  ASSUME NEW B, NEW b \in Nat \ {0}, NEW q \in Seq(B)
  PROVE  LET r == Rest(b, Len(q))
             t == SubSeq(q, Len(q) - r + 1, Len(q))
         IN  /\ r \in 0 .. b - 1 /\ r <= Len(q)
             /\ t \in Seq(B) /\ Len(t) = r
<1> DEFINE r == Rest(b, Len(q))
<1>0. Len(q) \in Nat
  OBVIOUS
<1>1. r \in 0 .. b - 1 /\ r <= Len(q)
  <2>1. /\ Whole(b, Len(q)) \in Nat /\ r \in 0 .. b - 1
        /\ Len(q) = Total(b, Whole(b, Len(q))) + r
    BY <1>0, WholeRest
  <2>2. Total(b, Whole(b, Len(q))) \in Nat
    BY <2>1, TotalType
  <2> QED BY <2>1, <2>2
<1> HIDE DEF r
<1> DEFINE k == Len(q) - r
<1>2. k \in 0 .. Len(q) /\ Len(q) - k = r
  BY <1>0, <1>1
<1> HIDE DEF k
<1>3. /\ SubSeq(q, k + 1, Len(q)) \in Seq(B)
      /\ Len(SubSeq(q, k + 1, Len(q))) = Len(q) - k
  BY <1>2, CutInTwo
<1> QED BY <1>1, <1>2, <1>3 DEF k, r
(* t is the end of s, behind the bytes of q that p does not have. *)
EndsLike(p, q, s, t) == \A i \in 1 .. Len(t) : t[i] = s[Len(q) - Len(p) + i]

(* Two ways to see one sequence as a message and what follows it. *)
LEMMA SameWhole ==
  ASSUME NEW B, NEW p \in Seq(B), NEW q \in Seq(B), NEW s \in Seq(B), NEW t \in Seq(B),
         p \o s = q \o t
  PROVE  /\ Len(p) + Len(s) = Len(q) + Len(t)
         /\ Len(p) = Len(q) => p = q
         /\ Len(p) < Len(q) => EndsLike(p, q, s, t)
<1>1. /\ Len(p) \in Nat /\ Len(q) \in Nat /\ Len(s) \in Nat /\ Len(t) \in Nat
  OBVIOUS
<1>2. /\ Len(p \o s) = Len(p) + Len(s)
      /\ \A i \in 1 .. Len(p) + Len(s) :
           (p \o s)[i] = IF i <= Len(p) THEN p[i] ELSE s[i - Len(p)]
  BY ConcatProperties
<1>3. /\ Len(q \o t) = Len(q) + Len(t)
      /\ \A i \in 1 .. Len(q) + Len(t) :
           (q \o t)[i] = IF i <= Len(q) THEN q[i] ELSE t[i - Len(q)]
  BY ConcatProperties
<1> DEFINE v == p \o s
<1>4. v = q \o t
  OBVIOUS
<1> HIDE DEF v
<1>5. Len(p) + Len(s) = Len(q) + Len(t)
  BY <1>2, <1>3, <1>4 DEF v
<1>6. ASSUME Len(p) = Len(q) PROVE p = q
  <2>1. ASSUME NEW i \in 1 .. Len(p) PROVE p[i] = q[i]
    <3>1. i \in 1 .. Len(p) + Len(s) /\ i <= Len(p)
          /\ i \in 1 .. Len(q) + Len(t) /\ i <= Len(q)
      BY <1>1, <1>6
    <3>2. v[i] = p[i]
      BY <1>2, <3>1 DEF v
    <3>3. v[i] = q[i]
      BY <1>3, <1>4, <3>1
    <3> QED BY <3>2, <3>3
  <2> QED BY <1>6, <2>1, SeqEqual
<1>7. ASSUME Len(p) < Len(q), NEW i \in 1 .. Len(t)
      PROVE  t[i] = s[Len(q) - Len(p) + i]
  <2>1. PICK j \in 1 .. Len(q) + Len(t) : j = Len(q) + i
    BY <1>1
  <2>2. /\ j \in 1 .. Len(p) + Len(s) /\ ~(j <= Len(p)) /\ ~(j <= Len(q))
        /\ j - Len(q) = i /\ j - Len(p) = Len(q) - Len(p) + i
    BY <1>1, <1>5, <1>7, <2>1
  <2>3. v[j] = s[j - Len(p)]
    BY <1>2, <2>2 DEF v
  <2>4. v[j] = t[j - Len(q)]
    BY <1>3, <1>4, <2>2
  <2> QED BY <2>2, <2>3, <2>4
<1> QED BY <1>5, <1>6, <1>7 DEF EndsLike
------------------------------------------------------------------------------
(* Zeroes at the end *)

(* The bytes of a sequence, and zeroes. *)
ByteOf(p, i) == IF i <= Len(p) THEN p[i] ELSE 0

(* Sequences that differ in zeroes at their end are the same without them. *)
LEMMA StrippedIs ==
  ASSUME NEW p \in Seq(Nat), NEW q \in Seq(Nat), NEW x \in Stripped(p),
         NEW b \in Nat, Len(p) <= b, Len(q) <= b,
         \A i \in 1 .. b : ByteOf(p, i) = ByteOf(q, i)
  PROVE  x \in Stripped(q)
<1>1. Len(p) \in Nat /\ Len(q) \in Nat
  OBVIOUS
<1>2. PICK k \in 0 .. Len(p) : x = SubSeq(p, 1, k)
  BY DEF Stripped
<1>3. k \in Nat /\ k <= Len(p) /\ x \in Seq(Nat) /\ Len(x) = k
      /\ \A i \in 1 .. k : x[i] = p[i]
  <2>1. k \in 1 - 1 .. Len(p) /\ \A i \in 1 .. k : p[i] \in Nat
    BY <1>1
  <2> QED BY <1>1, <1>2, <2>1, SubSeqProperties
<1>4. x = << >> \/ x[Len(x)] # 0
  BY DEF Stripped
<1>5. \A i \in Len(x) + 1 .. Len(p) : p[i] = 0
  BY DEF Stripped
<1>6. k <= Len(q)
  <2> SUFFICES ASSUME ~(k <= Len(q)) PROVE FALSE
    OBVIOUS
  <2>1. k \in 1 .. b /\ k \in 1 .. k /\ k # 0
    BY <1>1, <1>3
  <2>2. x # << >>
    BY <1>3, <2>1
  <2>3. p[k] # 0
    BY <1>3, <1>4, <2>1, <2>2
  <2>4. ByteOf(p, k) = p[k] /\ ByteOf(q, k) = 0
    BY <1>3 DEF ByteOf
  <2> QED BY <2>1, <2>3, <2>4
<1>7. x = SubSeq(q, 1, k)
  <2>1. \A i \in 1 .. k : q[i] \in Nat
    <3>1. \A i \in 1 .. Len(q) : q[i] \in Nat
      OBVIOUS
    <3> QED BY <1>1, <1>3, <1>6, <3>1
  <2>2. /\ SubSeq(q, 1, k) \in Seq(Nat) /\ Len(SubSeq(q, 1, k)) = k
        /\ \A i \in 1 .. k : SubSeq(q, 1, k)[i] = q[i]
    BY <1>1, <1>3, <1>6, <2>1, SubSeqProperties
  <2>3. ASSUME NEW i \in 1 .. k PROVE p[i] = q[i]
    <3>1. i \in 1 .. b /\ i <= Len(p) /\ i <= Len(q)
      BY <1>1, <1>3, <1>6
    <3>2. ByteOf(p, i) = ByteOf(q, i)
      BY <3>1
    <3> QED BY <3>1, <3>2 DEF ByteOf
  <2>4. \A i \in 1 .. k : x[i] = SubSeq(q, 1, k)[i]
    BY <1>3, <2>2, <2>3
  <2> DEFINE y == SubSeq(q, 1, k)
  <2>5. y \in Seq(Nat) /\ Len(x) = Len(y) /\ \A i \in 1 .. Len(x) : x[i] = y[i]
    BY <1>3, <2>2, <2>4
  <2> HIDE DEF y
  <2>6. x = y
    BY <1>3, <2>5, SeqEqual
  <2> QED BY <2>6 DEF y
<1>8. ASSUME NEW i \in Len(x) + 1 .. Len(q) PROVE q[i] = 0
  <2>1. i \in 1 .. b /\ i <= Len(q)
    BY <1>1, <1>3
  <2>2. ByteOf(p, i) = ByteOf(q, i)
    BY <2>1
  <2>3. ByteOf(p, i) = 0
    <3>1. CASE i <= Len(p)
      <4>1. i \in Len(x) + 1 .. Len(p)
        BY <1>1, <1>3, <3>1
      <4> QED BY <1>5, <3>1, <4>1 DEF ByteOf
    <3>2. CASE ~(i <= Len(p))
      BY <3>2 DEF ByteOf
    <3> QED BY <3>1, <3>2
  <2> QED BY <2>1, <2>2, <2>3 DEF ByteOf
<1>9. x \in {SubSeq(q, 1, l) : l \in 0 .. Len(q)}
  BY <1>1, <1>3, <1>6, <1>7
<1> QED BY <1>4, <1>8, <1>9 DEF Stripped

LEMMA SameWithoutZeroes ==
  ASSUME NEW p \in Seq(Nat), NEW q \in Seq(Nat), NEW b \in Nat, Len(p) <= b, Len(q) <= b,
         \A i \in 1 .. b : ByteOf(p, i) = ByteOf(q, i)
  PROVE  WithoutZeroes(p) = WithoutZeroes(q)
<1>1. \A x \in Stripped(p) : x \in Stripped(q)
  BY StrippedIs
<1>2. \A x \in Stripped(q) : x \in Stripped(p)
  BY StrippedIs
<1>3. Stripped(p) = Stripped(q)
  BY <1>1, <1>2
<1> QED BY <1>3, Zenon DEF WithoutZeroes

------------------------------------------------------------------------------
(* Sequences of anything *)

LEMMA FunctionIs ==
  ASSUME NEW n \in Nat, NEW B, NEW f \in [1 .. n -> B]
  PROVE  f \in Seq(B) /\ Len(f) = n
  OBVIOUS

LEMMA SequenceIs ==
  ASSUME NEW B, NEW s \in Seq(B)
  PROVE  IsSequence(s)
<1> DEFINE n == Len(s)
           E == {s[i] : i \in 1 .. n}
<1>1. s \in [1 .. n -> B] /\ n \in Nat
  BY LenProperties
<1>2. s \in [1 .. n -> E]
  BY <1>1
<1> HIDE DEF E, n
<1>3. s \in Seq(E)
  BY <1>1, <1>2, FunctionIs
<1> QED BY <1>3 DEF IsSequence, E, n

(* One set for the elements of several sequences. *)
Elements(s) == {s[i] : i \in 1 .. Len(s)}

LEMMA Over ==
  ASSUME NEW s, IsSequence(s), NEW B
  PROVE  s \in Seq(Elements(s) \cup B)
<1>1. s \in Seq(Elements(s))
  BY DEF IsSequence, Elements
<1> QED BY <1>1, SeqMonotonic

LEMMA Joined ==
  ASSUME NEW s, IsSequence(s), NEW t, IsSequence(t)
  PROVE  /\ IsSequence(s \o t)
         /\ Len(s) \in Nat /\ Len(t) \in Nat
         /\ Len(s \o t) = Len(s) + Len(t)
         /\ \A i \in 1 .. Len(s) : (s \o t)[i] = s[i]
         /\ \A i \in 1 .. Len(t) : (s \o t)[Len(s) + i] = t[i]
<1>1. PICK B : s \in Seq(B) /\ t \in Seq(B)
  <2>1. s \in Seq(Elements(s) \cup Elements(t))
    BY Over
  <2>2. t \in Seq(Elements(t) \cup Elements(s))
    BY Over
  <2>3. Elements(t) \cup Elements(s) = Elements(s) \cup Elements(t)
    OBVIOUS
  <2> QED BY <2>1, <2>2, <2>3
<1>2. /\ s \o t \in Seq(B) /\ Len(s \o t) = Len(s) + Len(t)
      /\ \A i \in 1 .. Len(s) + Len(t) :
           (s \o t)[i] = IF i <= Len(s) THEN s[i] ELSE t[i - Len(s)]
  BY <1>1, ConcatProperties
<1>3. Len(s) \in Nat /\ Len(t) \in Nat
  BY <1>1, LenProperties
<1>4. IsSequence(s \o t)
  BY <1>2, SequenceIs
<1>5. ASSUME NEW i \in 1 .. Len(t) PROVE (s \o t)[Len(s) + i] = t[i]
  <2>1. Len(s) + i \in 1 .. Len(s) + Len(t) /\ ~(Len(s) + i <= Len(s))
        /\ (Len(s) + i) - Len(s) = i
    BY <1>3
  <2> QED BY <1>2, <2>1
<1>6. ASSUME NEW i \in 1 .. Len(s) PROVE (s \o t)[i] = s[i]
  BY <1>2, <1>3
<1> QED BY <1>2, <1>3, <1>4, <1>5, <1>6

LEMMA Regrouped ==
  ASSUME NEW s, IsSequence(s), NEW t, IsSequence(t), NEW u, IsSequence(u)
  PROVE  (s \o t) \o u = s \o (t \o u)
<1>1. PICK B : s \in Seq(B) /\ t \in Seq(B) /\ u \in Seq(B)
  <2> DEFINE A == Elements(s) \cup (Elements(t) \cup Elements(u))
  <2>1. s \in Seq(A)
    BY Over
  <2>2. t \in Seq(Elements(t) \cup A)
    BY Over
  <2>3. u \in Seq(Elements(u) \cup A)
    BY Over
  <2>4. Elements(t) \cup A = A /\ Elements(u) \cup A = A
    OBVIOUS
  <2> QED BY <2>1, <2>2, <2>3, <2>4
<1> QED BY <1>1, ConcatAssociative

LEMMA WithNothing ==
  ASSUME NEW s, IsSequence(s)
  PROVE  << >> \o s = s /\ s \o << >> = s
  BY ConcatEmptySeq DEF IsSequence

(* Sequences of one length with the same elements. *)
LEMMA SameElements ==
  ASSUME NEW s, IsSequence(s), NEW t, IsSequence(t), Len(s) = Len(t),
         \A i \in 1 .. Len(s) : s[i] = t[i]
  PROVE  s = t
<1>1. s \in Seq(Elements(s)) /\ t \in Seq(Elements(t))
  BY DEF IsSequence, Elements
<1>2. Elements(s) = Elements(t)
  BY DEF Elements
<1> QED BY <1>1, <1>2, SeqEqual
==============================================================================
