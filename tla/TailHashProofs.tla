---------------------------- MODULE TailHashProofs ----------------------------
(***************************************************************************)
(* Proofs about TailHash, for every size of a block, counter, input, key   *)
(* and seed.                                                               *)
(***************************************************************************)
EXTENDS TailHash, DataLemmas

(* The whole blocks of b bytes at the start of d, and what is left. *)
Front(b, d) == SubSeq(d, 1, Len(d) - Rest(b, Len(d)))
Last(b, d)  == SubSeq(d, Len(d) - Rest(b, Len(d)) + 1, Len(d))

LEMMA ThreeParts ==
  ASSUME NEW B, NEW x \in Seq(B), NEW y \in Seq(B), NEW z \in Seq(B)
  PROVE  (x \o y) \o z = x \o (y \o z)
  BY ConcatAssociative

LEMMA Cut ==
  ASSUME NEW B, NEW b \in Nat \ {0}, NEW d \in Seq(B)
  PROVE  /\ Front(b, d) \in Seq(B) /\ Last(b, d) \in Seq(B)
         /\ Whole(b, Len(d)) \in Nat /\ Rest(b, Len(d)) \in 0 .. b - 1
         /\ Len(Front(b, d)) = Total(b, Whole(b, Len(d)))
         /\ Len(Last(b, d)) = Rest(b, Len(d))
         /\ Front(b, d) \o Last(b, d) = d
<1> DEFINE r == Rest(b, Len(d))
           w == Whole(b, Len(d))
<1>1. /\ Len(d) \in Nat /\ w \in Nat /\ r \in 0 .. b - 1
      /\ Len(d) = Total(b, w) + r /\ Total(b, w) \in Nat
  BY LenProperties, WholeRest, TotalType
<1> HIDE DEF r, w
<1> DEFINE k == Len(d) - r
<1>2. k \in 0 .. Len(d) /\ k = Total(b, w) /\ Len(d) - k = r
  BY <1>1
<1> HIDE DEF k
<1>3. /\ SubSeq(d, 1, k) \in Seq(B) /\ Len(SubSeq(d, 1, k)) = k
      /\ SubSeq(d, k + 1, Len(d)) \in Seq(B)
      /\ Len(SubSeq(d, k + 1, Len(d))) = Len(d) - k
      /\ SubSeq(d, 1, k) \o SubSeq(d, k + 1, Len(d)) = d
  BY <1>2, CutInTwo, ZenonT(60)
<1>4. Front(b, d) = SubSeq(d, 1, k) /\ Last(b, d) = SubSeq(d, k + 1, Len(d))
  BY DEF Front, Last, k, r
<1> QED BY <1>1, <1>2, <1>3, <1>4 DEF r, w

(* A sequence is cut in one way. *)
LEMMA CutUnique ==
  ASSUME NEW B, NEW b \in Nat \ {0}, NEW f \in Seq(B), NEW l \in Seq(B),
         NEW k \in Nat, Len(f) = Total(b, k), Len(l) < b
  PROVE  Front(b, f \o l) = f /\ Last(b, f \o l) = l
<1> DEFINE d == f \o l
           x == Front(b, d)
           y == Last(b, d)
<1>1. d \in Seq(B) /\ Len(d) = Len(f) + Len(l) /\ Len(f) \in Nat /\ Len(l) \in Nat
  BY ConcatProperties, LenProperties
<1> HIDE DEF d
<1>2. /\ x \in Seq(B) /\ y \in Seq(B) /\ Len(x) = Total(b, Whole(b, Len(d)))
      /\ Len(y) = Rest(b, Len(d)) /\ x \o y = d
  BY <1>1, Cut, ZenonT(60)
<1>3. PICK r \in 0 .. b - 1 : r = Len(l)
  BY <1>1
<1>4. Len(d) = Total(b, k) + r
  BY <1>1, <1>3
<1>5. Whole(b, Total(b, k) + r) = k /\ Rest(b, Total(b, k) + r) = r
  BY WholeRestUnique
<1>6. Len(x) = Len(f) /\ Len(y) = Len(l)
  BY <1>2, <1>3, <1>4, <1>5
<1> HIDE DEF x, y
<1>7. x \o y = f \o l
  BY <1>2 DEF d
<1>8. x = f
  <2>1. x \in Seq(B) /\ y \in Seq(B)
    BY <1>2
  <2>2. Len(x) = Len(f) => x = f
    BY <1>7, <2>1, SameWhole
  <2> QED BY <1>6, <2>2
<1>9. y = l
  <2>1. f \o y = f \o l
    BY <1>7, <1>8
  <2> QED BY <1>2, <2>1, ConcatSimplifications
<1> QED BY <1>8, <1>9 DEF x, y, d

(* Cutting d and what follows it is cutting d first, and then what is left *)
(* of it with what follows.                                                *)
CutsOn(b, d, p) ==
  /\ Front(b, d \o p) = Front(b, d) \o Front(b, Last(b, d) \o p)
  /\ Last(b, d \o p) = Last(b, Last(b, d) \o p)

LEMMA CutAgain ==
  ASSUME NEW B, NEW b \in Nat \ {0}, NEW d \in Seq(B), NEW p \in Seq(B)
  PROVE  CutsOn(b, d, p)
<1> DEFINE f == Front(b, d)
           l == Last(b, d)
           e == l \o p
           g == Front(b, e)
           m == Last(b, e)
           j == Whole(b, Len(d))
           k == Whole(b, Len(e))
<1>1. /\ f \in Seq(B) /\ l \in Seq(B) /\ j \in Nat /\ Len(f) = Total(b, j) /\ f \o l = d
  BY Cut, ZenonT(60)
<1> HIDE DEF f, l, j
<1>2. e \in Seq(B)
  BY <1>1, ConcatProperties
<1>3. e = l \o p
  OBVIOUS
<1> HIDE DEF e
<1>4. /\ g \in Seq(B) /\ m \in Seq(B) /\ k \in Nat /\ Len(g) = Total(b, k) /\ g \o m = e
      /\ Len(m) < b
  <2>1. /\ g \in Seq(B) /\ m \in Seq(B) /\ k \in Nat /\ Rest(b, Len(e)) \in 0 .. b - 1
        /\ Len(g) = Total(b, k) /\ Len(m) = Rest(b, Len(e)) /\ g \o m = e
    BY <1>2, Cut, ZenonT(60)
  <2> HIDE DEF g, m, k
  <2>2. Len(m) < b
    BY <2>1
  <2> QED BY <2>1, <2>2
<1> HIDE DEF g, m, k
<1>12. f \in Seq(B) /\ l \in Seq(B) /\ g \in Seq(B) /\ m \in Seq(B)
  BY <1>1, <1>4
<1>5. d \o p = (f \o g) \o m
  <2>1. d \o p = f \o (l \o p)
    <3>1. f \in Seq(B) /\ l \in Seq(B) /\ p \in Seq(B)
      BY <1>12
    <3>2. (f \o l) \o p = f \o (l \o p)
      <4>1. \A x, y, z \in Seq(B) : (x \o y) \o z = x \o (y \o z)
        BY ThreeParts, SMTT(30)
      <4> QED BY <3>1, <4>1, SMTT(30)
    <3> QED BY <1>1, <3>2
  <2>2. (f \o g) \o m = f \o (g \o m)
    BY <1>12, ThreeParts, SMTT(30)
  <2> QED BY <1>3, <1>4, <2>1, <2>2
<1>6. f \o g \in Seq(B) /\ Len(f \o g) = Len(f) + Len(g)
  BY <1>1, <1>4, ConcatProperties
<1>7. Len(f \o g) = Total(b, j + k) /\ j + k \in Nat
  BY <1>1, <1>4, <1>6, TotalPlus, SMTT(30)
<1> DEFINE x == f \o g
<1>8. x \in Seq(B) /\ Len(x) = Total(b, j + k)
  BY <1>6, <1>7
<1> HIDE DEF x
<1>9. Front(b, x \o m) = x /\ Last(b, x \o m) = m
  BY <1>4, <1>7, <1>8, CutUnique
<1>10. d \o p = x \o m
  BY <1>5 DEF x
<1>11. Front(b, d \o p) = f \o g /\ Last(b, d \o p) = m
  BY <1>9, <1>10 DEF x
<1> QED BY <1>11 DEF CutsOn, f, g, m, e, l

(* Less than a block, and a block. *)
LEMMA CutShort ==
  ASSUME NEW B, NEW b \in Nat \ {0}, NEW d \in Seq(B), Len(d) < b
  PROVE  Front(b, d) = << >> /\ Last(b, d) = d
<1>1. << >> \in Seq(B) /\ Len(<< >>) = Total(b, 0) /\ << >> \o d = d
  BY TotalOne, EmptySeq, ConcatEmptySeq
<1> DEFINE z == << >>
<1>2. z \in Seq(B) /\ Len(z) = Total(b, 0) /\ z \o d = d
  BY <1>1
<1> HIDE DEF z
<1>3. Front(b, z \o d) = z /\ Last(b, z \o d) = d
  BY <1>2, CutUnique, ZenonT(60)
<1> QED BY <1>2, <1>3 DEF z

Fills(b, d) == Len(d) = b

LEMMA CutBlock ==
  ASSUME NEW B, NEW b \in Nat \ {0}, NEW d \in Seq(B), Fills(b, d), NEW q \in Seq(B)
  PROVE  Front(b, d \o q) = d \o Front(b, q) /\ Last(b, d \o q) = Last(b, q)
<1> DEFINE f == Front(b, q)
           l == Last(b, q)
           k == Whole(b, Len(q))
           x == d \o f
<1>1. /\ f \in Seq(B) /\ l \in Seq(B) /\ k \in Nat /\ Len(f) = Total(b, k) /\ f \o l = q
      /\ Len(l) < b
  <2>1. /\ f \in Seq(B) /\ l \in Seq(B) /\ k \in Nat /\ Rest(b, Len(q)) \in 0 .. b - 1
        /\ Len(f) = Total(b, k) /\ Len(l) = Rest(b, Len(q)) /\ f \o l = q
    BY Cut, ZenonT(60)
  <2> HIDE DEF f, l, k
  <2>2. Len(l) < b
    BY <2>1
  <2> QED BY <2>1, <2>2
<1> HIDE DEF f, l, k
<1>7. f \in Seq(B) /\ l \in Seq(B)
  BY <1>1
<1>2. x \in Seq(B) /\ Len(x) = Len(d) + Len(f)
  BY <1>1, ConcatProperties
<1>3. Total(b, 1 + k) = Total(b, 1) + Total(b, k) /\ Total(b, 1) = b /\ 1 + k \in Nat
  BY <1>1, TotalPlus, TotalOne
<1>4. Len(x) = Total(b, 1 + k)
  BY <1>1, <1>2, <1>3 DEF Fills
<1>5. x \o l = d \o q
  <2>1. (d \o f) \o l = d \o (f \o l)
    BY <1>7, ThreeParts, SMTT(30)
  <2> QED BY <1>1, <2>1
<1> HIDE DEF x
<1>6. Front(b, x \o l) = x /\ Last(b, x \o l) = l
  BY <1>1, <1>2, <1>3, <1>4, CutUnique, SMTT(30)
<1> QED BY <1>5, <1>6 DEF x, f, l
------------------------------------------------------------------------------
(* Blocks, and the tokens they are taken in as *)

LEMMA BlocksOf ==
  \A B : \A u \in Nat \ {0} : \A q \in Seq(B) :
    /\ Blocks(u, q) \in BlockSeq(u, B)
    /\ Len(Blocks(u, q)) = Whole(u, Len(q))
    /\ \A j \in 1 .. Whole(u, Len(q)), i \in 1 .. u : Blocks(u, q)[j][i] = q[Pos(u, j, i)]
  BY BlocksType

LEMMA BlocksConcat ==
  ASSUME NEW B, NEW u \in Nat \ {0}, NEW f \in Seq(B), NEW g \in Seq(B),
         NEW k \in Nat, Len(f) = Total(u, k)
  PROVE  Blocks(u, f \o g) = Blocks(u, f) \o Blocks(u, g)
<1> DEFINE d == f \o g
           n == Whole(u, Len(g))
           x == Blocks(u, f)
           y == Blocks(u, g)
           z == Blocks(u, d)
<1>1. /\ d \in Seq(B) /\ Len(d) = Len(f) + Len(g) /\ Len(g) \in Nat
      /\ \A i \in 1 .. Len(f) + Len(g) : d[i] = IF i <= Len(f) THEN f[i] ELSE g[i - Len(f)]
  BY ConcatProperties, LenProperties
<1> HIDE DEF d
<1>2. /\ n \in Nat /\ Rest(u, Len(g)) \in 0 .. u - 1
      /\ Len(g) = Total(u, n) + Rest(u, Len(g)) /\ Total(u, n) \in Nat /\ Total(u, k) \in Nat
  BY <1>1, WholeRest, TotalType
<1>3. Whole(u, Len(d)) = k + n
  <2>1. Total(u, k + n) = Total(u, k) + Total(u, n)
    BY <1>2, TotalPlus
  <2>2. PICK r \in 0 .. u - 1 : r = Rest(u, Len(g))
    BY <1>2
  <2>3. Len(d) = Total(u, k + n) + r
    BY <1>1, <1>2, <2>1, <2>2, SMTT(30)
  <2>4. k + n \in Nat
    BY <1>2
  <2>5. Whole(u, Total(u, k + n) + r) = k + n
    BY <2>4, WholeRestUnique
  <2> QED BY <2>3, <2>5
<1>4. Whole(u, Len(f)) = k
  <2>1. Whole(u, Total(u, k) + 0) = k
    BY WholeRestUnique
  <2>2. Total(u, k) + 0 = Len(f)
    BY <1>2
  <2> QED BY <2>1, <2>2
<1>5. /\ x \in BlockSeq(u, B) /\ Len(x) = k
      /\ \A j \in 1 .. k, i \in 1 .. u : x[j][i] = f[Pos(u, j, i)]
  <2>1. /\ x \in BlockSeq(u, B) /\ Len(x) = Whole(u, Len(f))
        /\ \A j \in 1 .. Whole(u, Len(f)), i \in 1 .. u : x[j][i] = f[Pos(u, j, i)]
    BY BlocksOf
  <2> QED BY <1>4, <2>1, Zenon
<1>6. /\ y \in BlockSeq(u, B) /\ Len(y) = n
      /\ \A j \in 1 .. n, i \in 1 .. u : y[j][i] = g[Pos(u, j, i)]
  BY BlocksOf
<1>7. /\ z \in BlockSeq(u, B) /\ Len(z) = k + n
      /\ \A j \in 1 .. k + n, i \in 1 .. u : z[j][i] = d[Pos(u, j, i)]
  <2>1. /\ z \in BlockSeq(u, B) /\ Len(z) = Whole(u, Len(d))
        /\ \A j \in 1 .. Whole(u, Len(d)), i \in 1 .. u : z[j][i] = d[Pos(u, j, i)]
    BY <1>1, BlocksOf, SMTT(30)
  <2> QED BY <1>3, <2>1, Zenon
<1> HIDE DEF x, y, z, n
<1>8. /\ x \o y \in BlockSeq(u, B) /\ Len(x \o y) = k + n
      /\ \A j \in 1 .. k : (x \o y)[j] = x[j]
      /\ \A j \in 1 .. n : (x \o y)[k + j] = y[j]
  <2>1. x \in Seq(Block(u, B)) /\ y \in Seq(Block(u, B))
    BY <1>5, <1>6 DEF BlockSeq
  <2>2. /\ x \o y \in Seq(Block(u, B)) /\ Len(x \o y) = Len(x) + Len(y)
        /\ \A j \in 1 .. Len(x) + Len(y) :
             (x \o y)[j] = IF j <= Len(x) THEN x[j] ELSE y[j - Len(x)]
    BY <2>1, ConcatProperties
  <2>3. Len(x) = k /\ Len(y) = n
    BY <1>5, <1>6
  <2>4. \A j \in 1 .. k + n : (x \o y)[j] = IF j <= k THEN x[j] ELSE y[j - k]
    BY <2>2, <2>3, Zenon
  <2>5. ASSUME NEW j \in 1 .. n PROVE (x \o y)[k + j] = y[j]
    <3>1. k + j \in 1 .. k + n /\ ~(k + j <= k) /\ (k + j) - k = j
      BY <1>2
    <3> QED BY <2>4, <3>1
  <2>6. ASSUME NEW j \in 1 .. k PROVE (x \o y)[j] = x[j]
    <3>1. j \in 1 .. k + n /\ j <= k
      BY <1>2
    <3> QED BY <2>4, <3>1
  <2> QED BY <2>2, <2>3, <2>5, <2>6 DEF BlockSeq
<1>9. ASSUME NEW j \in 1 .. k + n PROVE z[j] = (x \o y)[j]
  <2>1. CASE j <= k
    <3>1. j \in 1 .. k /\ j \in Nat \ {0}
      BY <2>1
    <3>2. ASSUME NEW i \in 1 .. u PROVE z[j][i] = x[j][i]
      <4>1. Pos(u, j, i) \in 1 .. Total(u, k)
        BY <3>1, PosType
      <4>2. d[Pos(u, j, i)] = f[Pos(u, j, i)]
        BY <1>1, <1>2, <4>1, SMTT(30)
      <4> QED BY <1>5, <1>7, <3>1, <4>2
    <3>3. z[j] \in [1 .. u -> B] /\ x[j] \in [1 .. u -> B]
      BY <1>5, <1>7, <3>1 DEF BlockSeq, Block
    <3>4. z[j] = x[j]
      <4> DEFINE a == z[j]
                 c == x[j]
      <4>1. a \in [1 .. u -> B] /\ c \in [1 .. u -> B] /\ \A i \in 1 .. u : a[i] = c[i]
        BY <3>2, <3>3
      <4> HIDE DEF a, c
      <4>2. a = c
        BY <4>1
      <4> QED BY <4>2 DEF a, c
    <3> QED BY <1>8, <3>1, <3>4
  <2>2. CASE ~(j <= k)
    <3>1. PICK e \in 1 .. n : j = k + e
      <4>1. j - k \in 1 .. n /\ j = k + (j - k)
        BY <1>2, <2>2
      <4> QED BY <4>1
    <3>2. ASSUME NEW i \in 1 .. u PROVE z[j][i] = y[e][i]
      <4>8. n \in Nat
        BY <1>2
      <4>1. Pos(u, e, i) \in 1 .. Total(u, n) /\ e \in Nat \ {0}
        BY <4>8, PosType, SMTT(30)
      <4>2. Pos(u, k + e, i) = Total(u, k) + Pos(u, e, i)
        BY <4>1, PosShift
      <4>3. PICK c \in 1 .. Total(u, n) : c = Pos(u, e, i)
        BY <4>1
      <4>4. Len(f) + c \in 1 .. Len(f) + Len(g) /\ ~(Len(f) + c <= Len(f))
            /\ (Len(f) + c) - Len(f) = c
        <5>1. PICK t \in Nat : t = Total(u, n)
          BY <1>2
        <5>2. Len(g) >= t /\ Len(f) \in Nat
          BY <1>2, <5>1
        <5> QED BY <1>1, <5>1, <5>2
      <4>5. d[Len(f) + c] = g[c]
        BY <1>1, <4>4
      <4>6. z[j][i] = d[Pos(u, k + e, i)]
        BY <1>7, <3>1
      <4>7. y[e][i] = g[Pos(u, e, i)]
        BY <1>6
      <4> QED BY <4>2, <4>3, <4>5, <4>6, <4>7
    <3>3. z[j] \in [1 .. u -> B] /\ y[e] \in [1 .. u -> B]
      BY <1>6, <1>7 DEF BlockSeq, Block
    <3>4. z[j] = y[e]
      BY <3>2, <3>3
    <3> QED BY <1>8, <3>1, <3>4
  <2> QED BY <2>1, <2>2
<1>10. z = x \o y
  <2>1. z \in Seq(Block(u, B)) /\ x \o y \in Seq(Block(u, B)) /\ Len(z) = Len(x \o y)
        /\ \A j \in 1 .. Len(z) : z[j] = (x \o y)[j]
    BY <1>7, <1>8, <1>9 DEF BlockSeq
  <2> QED BY <2>1, SeqEqual
<1> QED BY <1>10 DEF x, y, z, d

(* What update_ appends to the state. *)
Tokens(u, p) == [j \in 1 .. Len(Blocks(u, p)) |-> Token("block", Blocks(u, p)[j], 0)]

Kinds  == {"block", "end", "short", "perturb", "round"}
Of(B)  == [op : Kinds, bytes : Seq(B), n : 0 .. SizeMod - 1]

LEMMA TokenType ==
  ASSUME NEW B, NEW op \in Kinds, NEW bytes \in Seq(B), NEW n \in 0 .. SizeMod - 1
  PROVE  Token(op, bytes, n) \in Of(B)
  BY DEF Token, Of

LEMMA TokensType ==
  ASSUME NEW B, NEW u \in Nat \ {0}, NEW p \in Seq(B)
  PROVE  /\ Tokens(u, p) \in Seq(Of(B)) /\ Len(Tokens(u, p)) = Len(Blocks(u, p))
         /\ Len(Blocks(u, p)) \in Nat
         /\ \A j \in 1 .. Len(Blocks(u, p)) : Tokens(u, p)[j] = Token("block", Blocks(u, p)[j], 0)
<1> DEFINE x == Blocks(u, p)
           k == Len(x)
<1>1. x \in Seq(Block(u, B)) /\ k \in Nat
  <2>1. x \in BlockSeq(u, B)
    BY BlocksType
  <2>2. x \in Seq(Block(u, B))
    BY <2>1 DEF BlockSeq
  <2> HIDE DEF x
  <2> QED BY <2>2, LenProperties
<1>2. ASSUME NEW j \in 1 .. k PROVE Token("block", x[j], 0) \in Of(B)
  <2>1. x[j] \in Block(u, B)
    <3> HIDE DEF x
    <3> QED BY <1>1
  <2> DEFINE y == x[j]
  <2>2. y \in Seq(B)
    <3>1. y \in [1 .. u -> B] /\ u \in Nat
      BY <2>1 DEF Block
    <3> HIDE DEF y
    <3> QED BY <3>1
  <2> HIDE DEF y
  <2>3. "block" \in Kinds /\ 0 \in 0 .. SizeMod - 1
    BY SizeAssumption DEF Kinds
  <2>4. Token("block", y, 0) \in Of(B)
    BY <2>2, <2>3, TokenType
  <2> QED BY <2>4 DEF y
<1> DEFINE e(j) == Token("block", x[j], 0)
           T == Tokens(u, p)
<1>3. T = [j \in 1 .. k |-> e(j)]
  BY DEF Tokens
<1> HIDE DEF T, k
<1>4. T \in [1 .. k -> Of(B)] /\ \A j \in 1 .. k : T[j] = e(j)
  BY <1>2, <1>3
<1> HIDE DEF e
<1>5. T \in Seq(Of(B)) /\ Len(T) = k
  BY <1>1, <1>4
<1> QED BY <1>1, <1>4, <1>5 DEF T, k, e

LEMMA TokensOf ==
  \A B : \A u \in Nat \ {0} : \A p \in Seq(B) :
    /\ Tokens(u, p) \in Seq(Of(B)) /\ Len(Tokens(u, p)) = Len(Blocks(u, p))
    /\ Len(Blocks(u, p)) \in Nat
    /\ \A j \in 1 .. Len(Blocks(u, p)) : Tokens(u, p)[j] = Token("block", Blocks(u, p)[j], 0)
  BY TokensType

LEMMA NoTokens ==
  ASSUME NEW u \in Nat \ {0}
  PROVE  Tokens(u, << >>) = << >>
<1>1. Len(Blocks(u, << >>)) = 0
  <2>1. << >> \in Seq(Nat) /\ Len(<< >>) = 0
    OBVIOUS
  <2>2. Len(Blocks(u, << >>)) = Whole(u, 0)
    BY <2>1, BlocksOf, ZenonT(60)
  <2>3. Whole(u, Total(u, 0) + 0) = 0
    BY WholeRestUnique
  <2>4. Total(u, 0) + 0 = 0
    BY TotalOne
  <2> QED BY <2>2, <2>3, <2>4
<1> DEFINE b == Blocks(u, << >>)
<1>2. Tokens(u, << >>) = [j \in 1 .. Len(b) |-> Token("block", b[j], 0)]
  BY DEF Tokens
<1> HIDE DEF b
<1>3. Tokens(u, << >>) = [j \in 1 .. 0 |-> Token("block", b[j], 0)]
  BY <1>1, <1>2, Zenon DEF b
<1> QED BY <1>3

LEMMA TokensConcat ==
  ASSUME NEW B, NEW u \in Nat \ {0}, NEW f \in Seq(B), NEW g \in Seq(B),
         NEW k \in Nat, Len(f) = Total(u, k)
  PROVE  Tokens(u, f \o g) = Tokens(u, f) \o Tokens(u, g)
<1> DEFINE x == Blocks(u, f)
           y == Blocks(u, g)
           s == Tokens(u, f)
           t == Tokens(u, g)
           r == Tokens(u, f \o g)
           w == x \o y
<1>1. Blocks(u, f \o g) = w
  BY BlocksConcat
<1>2. f \o g \in Seq(B)
  BY ConcatProperties
<1>3. /\ r \in Seq(Of(B)) /\ Len(r) = Len(w)
      /\ \A j \in 1 .. Len(w) : r[j] = Token("block", w[j], 0)
  <2> DEFINE d == f \o g
  <2>1. d \in Seq(B)
    BY <1>2
  <2> HIDE DEF d
  <2>2. /\ Tokens(u, d) \in Seq(Of(B)) /\ Len(Tokens(u, d)) = Len(Blocks(u, d))
        /\ \A j \in 1 .. Len(Blocks(u, d)) : Tokens(u, d)[j] = Token("block", Blocks(u, d)[j], 0)
    BY <2>1, TokensOf
  <2>3. Blocks(u, d) = w
    BY <1>1 DEF d
  <2> HIDE DEF w
  <2> QED BY <2>2, <2>3, Zenon DEF d
<1>4. /\ s \in Seq(Of(B)) /\ Len(s) = Len(x) /\ Len(x) \in Nat
      /\ \A j \in 1 .. Len(x) : s[j] = Token("block", x[j], 0)
  BY TokensOf
<1>5. /\ t \in Seq(Of(B)) /\ Len(t) = Len(y) /\ Len(y) \in Nat
      /\ \A j \in 1 .. Len(y) : t[j] = Token("block", y[j], 0)
  BY TokensOf
<1>6. x \in Seq(Block(u, B)) /\ y \in Seq(Block(u, B))
  <2>1. x \in BlockSeq(u, B) /\ y \in BlockSeq(u, B)
    BY BlocksOf
  <2> QED BY <2>1 DEF BlockSeq
<1> HIDE DEF x, y, s, t, r
<1> USE DEF w
<1>7. /\ Len(w) = Len(x) + Len(y)
      /\ \A j \in 1 .. Len(x) + Len(y) : w[j] = IF j <= Len(x) THEN x[j] ELSE y[j - Len(x)]
  BY <1>6, ConcatProperties
<1>8. s \in Seq(Of(B)) /\ t \in Seq(Of(B))
  BY <1>4, <1>5
<1>9. /\ s \o t \in Seq(Of(B)) /\ Len(s \o t) = Len(s) + Len(t)
      /\ \A j \in 1 .. Len(s) + Len(t) : (s \o t)[j] = IF j <= Len(s) THEN s[j] ELSE t[j - Len(s)]
  BY <1>8, ConcatProperties
<1> HIDE DEF w
<1> DEFINE m == Len(x)
           n == Len(y)
           v == s \o t
<1>10. /\ v \in Seq(Of(B)) /\ Len(v) = m + n
       /\ \A j \in 1 .. m + n : v[j] = IF j <= m THEN s[j] ELSE t[j - m]
  <2>1. Len(s) = m /\ Len(t) = n
    BY <1>4, <1>5
  <2> HIDE DEF m, n
  <2> QED BY <1>9, <2>1, Zenon
<1> HIDE DEF v
<1>11. ASSUME NEW j \in 1 .. m + n PROVE r[j] = v[j]
  <2>1. r[j] = Token("block", w[j], 0)
    BY <1>3, <1>7
  <2>2. CASE j <= m
    <3>1. j \in 1 .. m
      BY <1>4, <1>5, <2>2
    <3>2. w[j] = x[j] /\ v[j] = s[j]
      BY <1>7, <1>10, <2>2
    <3> QED BY <1>4, <2>1, <3>1, <3>2
  <2>3. CASE ~(j <= m)
    <3>1. PICK e \in 1 .. n : e = j - m
      <4>1. j - m \in 1 .. n
        BY <1>4, <1>5, <2>3
      <4> QED BY <4>1
    <3>2. w[j] = y[e] /\ v[j] = t[e]
      BY <1>7, <1>10, <2>3, <3>1
    <3> QED BY <1>5, <2>1, <3>2
  <2> QED BY <2>2, <2>3
<1>12. r \in Seq(Of(B)) /\ v \in Seq(Of(B)) /\ Len(r) = Len(v) /\ \A j \in 1 .. Len(r) : r[j] = v[j]
  BY <1>3, <1>7, <1>10, <1>11
<1>13. r = v
  BY <1>12, SeqEqual
<1> QED BY <1>13 DEF r, v, s, t
------------------------------------------------------------------------------
(* Objects *)

LEMMA Sizes ==
  ASSUME NEW a \in Algorithm
  PROVE  /\ Size[a] \in Nat \ {0} /\ 1 < Size[a] /\ Size[a] < SizeMod /\ Size[a] < Radix
         /\ SizeMod \in Nat \ {0} /\ Radix \in Nat \ {0}
<1>1. Size[a] \in Nat /\ 1 < Size[a] /\ Size[a] < SizeMod /\ Size[a] < Radix
  BY SizeAssumption
<1>2. SizeMod \in Nat \ {0} /\ Radix \in Nat \ {0}
  BY SizeAssumption
<1> QED BY <1>1, <1>2

(* A block is one unit or two. *)
LEMMA UnitsFill ==
  ASSUME NEW a \in Algorithm
  PROVE  /\ Unit(a) \in Nat \ {0}
         /\ \A k \in Nat : \E j \in Nat : Total(Size[a], k) = Total(Unit(a), j)
<1>1. Size[a] \in Nat /\ 1 < Size[a]
  BY Sizes
<1>2. CASE a = "spooky2_128"
  <2>1. Size[a] % 2 = 0
    BY <1>2, SizeAssumption
  <2>2. PICK b \in Nat : b = Size[a]
    BY <1>1
  <2>3. PICK u \in Nat : u = b \div 2
    BY <2>2
  <2>4. b = 2 * u /\ u # 0
    BY <1>1, <2>1, <2>2, <2>3
  <2>5. Unit(a) = u
    BY <1>2, <2>2, <2>3 DEF Unit
  <2>6. ASSUME NEW k \in Nat PROVE \E j \in Nat : Total(Size[a], k) = Total(Unit(a), j)
    <3>1. k * (2 * u) = (2 * k) * u
      OBVIOUS
    <3>2. Total(Size[a], k) = Total(Unit(a), 2 * k) /\ 2 * k \in Nat
      BY <2>2, <2>4, <2>5, <3>1 DEF Total
    <3> QED BY <3>2
  <2> QED BY <2>4, <2>5, <2>6
<1>3. CASE a # "spooky2_128"
  <2>1. Unit(a) = Size[a]
    BY <1>3 DEF Unit
  <2> QED BY <1>1, <2>1
<1> QED BY <1>2, <1>3

(* Bytes that may be in a buffer, and those an object takes in: with       *)
(* Garbage or without.                                                     *)
Any      == Byte \cup {Garbage}
Contents == {Byte, Any}

LEMMA ContentsAre ==
  ASSUME NEW B \in Contents
  PROVE  Byte \subseteq B /\ B \subseteq Any /\ 0 \in B /\ 0 \in Byte
<1>1. 0 \in Byte
  BY SizeAssumption DEF Byte
<1> QED BY <1>1 DEF Contents, Any

Members(s, t, m, n, b) == [seed |-> s, state |-> t, m |-> m, n |-> n, buffer |-> b]

LEMMA MembersAre ==
  ASSUME NEW s, NEW t, NEW m, NEW n, NEW b
  PROVE  /\ Members(s, t, m, n, b).seed = s
         /\ Members(s, t, m, n, b).state = t
         /\ Members(s, t, m, n, b).m = m
         /\ Members(s, t, m, n, b).n = n
         /\ Members(s, t, m, n, b).buffer = b
  BY DEF Members

Object(a, B) ==
  [seed : Seq(Byte), state : Seq(Of(B)), m : 0 .. Size[a] - 1, n : 0 .. SizeMod - 1,
   buffer : Block(Size[a], Any)]

LEMMA ObjectIs ==
  ASSUME NEW a, NEW B, NEW o \in Object(a, B)
  PROVE  /\ o = Members(o.seed, o.state, o.m, o.n, o.buffer)
         /\ o.seed \in Seq(Byte) /\ o.state \in Seq(Of(B)) /\ o.m \in 0 .. Size[a] - 1
         /\ o.n \in 0 .. SizeMod - 1 /\ o.buffer \in Block(Size[a], Any)
  BY DEF Object, Members

LEMMA MembersType ==
  ASSUME NEW a, NEW B, NEW s \in Seq(Byte), NEW t \in Seq(Of(B)), NEW m \in 0 .. Size[a] - 1,
         NEW n \in 0 .. SizeMod - 1, NEW b \in Block(Size[a], Any)
  PROVE  Members(s, t, m, n, b) \in Object(a, B)
  BY DEF Object, Members

(* What the buffer holds counts, and is bytes of B. *)
Proper(a, B, o) == o \in Object(a, B) /\ Held(o) \in Seq(B)

(* The functions of the model on the members. *)
LEMMA UpdateRawIs ==
  ASSUME NEW a, NEW s, NEW t, NEW m, NEW n, NEW b, NEW p
  PROVE  update_(a, Members(s, t, m, n, b), p) = Members(s, t \o Tokens(Unit(a), p), m, n, b)
<1>1. update_(a, Members(s, t, m, n, b), p) =
        [Members(s, t, m, n, b) EXCEPT !.state = @ \o Tokens(Unit(a), p)]
  BY DEF update_, Tokens
<1> DEFINE T == Tokens(Unit(a), p)
<1> HIDE DEF T
<1>2. [Members(s, t, m, n, b) EXCEPT !.state = @ \o T] = Members(s, t \o T, m, n, b)
  BY DEF Members
<1> QED BY <1>1, <1>2 DEF T

WithBuffer(o, b, m) == [o EXCEPT !.buffer = b, !.m = m]

LEMMA WithBufferIs ==
  ASSUME NEW s, NEW t, NEW m, NEW n, NEW b, NEW b2, NEW m2
  PROVE  WithBuffer(Members(s, t, m, n, b), b2, m2) = Members(s, t, m2, n, b2)
<1> DEFINE o == Members(s, t, m, n, b)
           x == [o EXCEPT !.buffer = b2]
<1>1. x = Members(s, t, m, n, b2)
  BY DEF Members
<1>2. [o EXCEPT !.buffer = b2, !.m = m2] = [x EXCEPT !.m = m2]
  OBVIOUS
<1> HIDE DEF x
<1>3. [x EXCEPT !.m = m2] = Members(s, t, m2, n, b2)
  BY <1>1 DEF Members
<1> QED BY <1>2, <1>3 DEF WithBuffer

LEMMA AbsorbIs ==
  ASSUME NEW a, NEW s, NEW t, NEW m, NEW n, NEW b, NEW q
  PROVE  Absorb(a, Members(s, t, m, n, b), q) =
           Members(s, t \o Tokens(Unit(a), Front(Size[a], q)), Rest(Size[a], Len(q)), n,
                   CopyTo(b, 0, Last(Size[a], q)))
<1> DEFINE r == Rest(Size[a], Len(q))
           f == Front(Size[a], q)
           l == Last(Size[a], q)
           o == Members(s, t, m, n, b)
           T == t \o Tokens(Unit(a), f)
<1>1. Absorb(a, o, q) = [update_(a, o, f) EXCEPT !.buffer = CopyTo(@, 0, l), !.m = r]
  BY DEF Absorb, Front, Last, Rest
<1>2. update_(a, o, f) = Members(s, T, m, n, b)
  BY UpdateRawIs
<1> HIDE DEF r, f, l, o, T
<1>3. Absorb(a, o, q) = [Members(s, T, m, n, b) EXCEPT !.buffer = CopyTo(@, 0, l), !.m = r]
  BY <1>1, <1>2
<1>4. [Members(s, T, m, n, b) EXCEPT !.buffer = CopyTo(@, 0, l), !.m = r]
        = WithBuffer(Members(s, T, m, n, b), CopyTo(b, 0, l), r)
  <2>1. Members(s, T, m, n, b).buffer = b
    BY MembersAre
  <2> DEFINE M == Members(s, T, m, n, b)
  <2>2. M.buffer = b
    BY <2>1
  <2> HIDE DEF M
  <2>3. [M EXCEPT !.buffer = CopyTo(@, 0, l), !.m = r]
          = [M EXCEPT !.buffer = CopyTo(M.buffer, 0, l), !.m = r]
    OBVIOUS
  <2> QED BY <2>2, <2>3 DEF M, WithBuffer
<1>5. Absorb(a, o, q) = Members(s, T, r, n, CopyTo(b, 0, l))
  BY <1>3, <1>4, WithBufferIs
<1> QED BY <1>5 DEF r, f, l, o, T

LEMMA FlushIs ==
  ASSUME NEW a, NEW s, NEW t, NEW m, NEW n, NEW b
  PROVE  Flush(a, Members(s, t, m, n, b)) =
           Members(s, t \o Tokens(Unit(a), b), 0, n,
                   IF a \in Siphash THEN Zeroes(Size[a]) ELSE b)
<1> DEFINE o == Members(s, t, m, n, b)
           T == t \o Tokens(Unit(a), b)
           c == IF a \in Siphash THEN Zeroes(Size[a]) ELSE b
           M == Members(s, T, m, n, b)
           zero == 0
<1>1. o.buffer = b
  BY MembersAre
<1>2. update_(a, o, o.buffer) = M
  BY <1>1, UpdateRawIs
<1>3. Flush(a, o) = [M EXCEPT !.m = zero, !.buffer = IF a \in Siphash THEN Zeroes(Size[a]) ELSE @]
  BY <1>2 DEF Flush
<1>4. M.buffer = b
  BY MembersAre
<1> HIDE DEF M, zero, T
<1>5. [M EXCEPT !.m = zero, !.buffer = IF a \in Siphash THEN Zeroes(Size[a]) ELSE @]
        = [M EXCEPT !.m = zero, !.buffer = c]
  BY <1>4
<1> DEFINE N == [M EXCEPT !.m = zero]
<1>6. N = Members(s, T, zero, n, b)
  BY DEF M, Members
<1>7. [M EXCEPT !.m = zero, !.buffer = c] = [N EXCEPT !.buffer = c]
  OBVIOUS
<1> HIDE DEF N, c
<1>8. [N EXCEPT !.buffer = c] = Members(s, T, zero, n, c)
  BY <1>6 DEF Members
<1> QED BY <1>3, <1>5, <1>7, <1>8, Zenon DEF c, T, zero
------------------------------------------------------------------------------
(* update *)

(* How many bytes of p fit behind m. *)
Fit(a, m, p) == IF Len(p) < Size[a] - m THEN Len(p) ELSE Size[a] - m

LEMMA UpdateIs ==
  ASSUME NEW a, NEW s, NEW t, NEW m, NEW n, NEW b, NEW p
  PROVE  LET k  == Fit(a, m, p)
             n2 == (n + Len(p)) % SizeMod
             b2 == CopyTo(b, m, SubSeq(p, 1, k))
         IN  update(a, Members(s, t, m, n, b), p) =
               IF m = 0 THEN Absorb(a, Members(s, t, m, n2, b), p)
               ELSE IF m + k < Size[a] THEN Members(s, t, m + k, n2, b2)
               ELSE Absorb(a, Flush(a, Members(s, t, m + k, n2, b2)), SubSeq(p, k + 1, Len(p)))
<1> DEFINE k  == Fit(a, m, p)
           n2 == (n + Len(p)) % SizeMod
           b2 == CopyTo(b, m, SubSeq(p, 1, k))
           o == Members(s, t, m, n, b)
           c == [o EXCEPT !.n = (@ + Len(p)) % SizeMod]
           j == IF Len(p) < Size[a] - o.m THEN Len(p) ELSE Size[a] - o.m
           filled == [c EXCEPT !.buffer = CopyTo(@, o.m, SubSeq(p, 1, j)), !.m = @ + j]
<1>1. update(a, o, p) =
        IF o.m = 0 THEN Absorb(a, c, p)
        ELSE IF filled.m < Size[a] THEN filled
        ELSE Absorb(a, Flush(a, filled), SubSeq(p, j + 1, Len(p)))
  BY DEF update
<1>2. o.m = m /\ o.n = n /\ j = k
  BY MembersAre DEF Fit
<1>3. c = Members(s, t, m, n2, b)
  BY DEF Members
<1>4. filled = Members(s, t, m + k, n2, b2)
  <2> DEFINE C == Members(s, t, m, n2, b)
  <2>1. C.buffer = b /\ C.m = m
    BY MembersAre
  <2>2. filled = [C EXCEPT !.buffer = CopyTo(@, m, SubSeq(p, 1, k)), !.m = @ + k]
    <3> HIDE DEF c, o
    <3> QED BY <1>2, <1>3
  <2> HIDE DEF C
  <2>3. [C EXCEPT !.buffer = CopyTo(@, m, SubSeq(p, 1, k)), !.m = @ + k]
          = [C EXCEPT !.buffer = b2, !.m = m + k]
    BY <2>1
  <2>4. WithBuffer(Members(s, t, m, n2, b), b2, m + k) = Members(s, t, m + k, n2, b2)
    BY WithBufferIs
  <2> HIDE DEF filled
  <2> QED BY <2>2, <2>3, <2>4, Zenon DEF WithBuffer, C
<1>5. Members(s, t, m + k, n2, b2).m = m + k
  BY MembersAre
<1> HIDE DEF o, c, filled, j, k, n2, b2
<1>6. update(a, o, p) =
        IF m = 0 THEN Absorb(a, Members(s, t, m, n2, b), p)
        ELSE IF m + k < Size[a] THEN Members(s, t, m + k, n2, b2)
        ELSE Absorb(a, Flush(a, Members(s, t, m + k, n2, b2)), SubSeq(p, k + 1, Len(p)))
  BY <1>1, <1>2, <1>3, <1>4, <1>5, Zenon
<1> QED BY <1>6 DEF o, k, n2, b2

(* x is o after taking in the bytes d in place of those held. *)
Took(a, B, s, t, n, d, x) ==
  /\ x \in Object(a, B) /\ Held(x) = Last(Size[a], d) /\ Last(Size[a], d) \in Seq(B)
  /\ x.seed = s /\ x.n = n /\ x.state = t \o Tokens(Unit(a), Front(Size[a], d))

(* The beginning of the buffer that was copied to it. *)
LEMMA Copied ==
  ASSUME NEW a \in Algorithm, NEW b \in Block(Size[a], Any), NEW m \in Nat, NEW p \in Seq(Any),
         m + Len(p) <= Size[a]
  PROVE  /\ CopyTo(b, m, p) \in Block(Size[a], Any)
         /\ SubSeq(CopyTo(b, m, p), 1, m + Len(p)) = SubSeq(b, 1, m) \o p
<1> DEFINE z == Size[a]
<1>1. z \in Nat
  BY Sizes
<1> HIDE DEF z
<1>2. b \in Block(z, Any) /\ m + Len(p) <= z
  BY DEF z
<1>3. CopyTo(b, m, p) \in Block(z, Any)
  BY <1>1, <1>2, CopyToType
<1>4. SubSeq(CopyTo(b, m, p), 1, m + Len(p)) = SubSeq(b, 1, m) \o p
  BY <1>1, <1>2, CopyPrefix, SMTT(30)
<1> QED BY <1>3, <1>4 DEF z

(* Bytes of B are bytes that may be in a buffer. *)
LEMMA FitsBuffer ==
  ASSUME NEW B \in Contents, NEW p \in Seq(B)
  PROVE  p \in Seq(Any)
<1>1. B \subseteq Any
  BY ContentsAre
<1> QED BY <1>1, SeqMonotonic

LEMMA AbsorbTakes ==
  ASSUME NEW a \in Algorithm, NEW B \in Contents, NEW s \in Seq(Byte), NEW t \in Seq(Of(B)),
         NEW m, NEW n \in 0 .. SizeMod - 1, NEW b \in Block(Size[a], Any), NEW q \in Seq(B)
  PROVE  Took(a, B, s, t, n, q, Absorb(a, Members(s, t, m, n, b), q))
<1> DEFINE z == Size[a]
           f == Front(z, q)
           l == Last(z, q)
           r == Rest(z, Len(q))
           T == Tokens(Unit(a), f)
           x == Absorb(a, Members(s, t, m, n, b), q)
<1>1. x = Members(s, t \o T, r, n, CopyTo(b, 0, l))
  BY AbsorbIs
<1>2. z \in Nat \ {0} /\ Unit(a) \in Nat \ {0}
  BY Sizes, UnitsFill
<1>3. f \in Seq(B) /\ l \in Seq(B) /\ Len(l) = r /\ r \in 0 .. z - 1
  <2> HIDE DEF z
  <2> QED BY <1>2, Cut, ZenonT(60)
<1> HIDE DEF f, l, r, x
<1>4. T \in Seq(Of(B))
  BY <1>2, <1>3, TokensType
<1> HIDE DEF T
<1>5. t \o T \in Seq(Of(B))
  BY <1>4, ConcatProperties
<1>6. l \in Seq(Any)
  BY <1>3, FitsBuffer
<1> DEFINE c == CopyTo(b, 0, l)
<1>7. c \in Block(z, Any) /\ SubSeq(c, 1, r) = l
  <2>1. 0 \in Nat /\ 0 + Len(l) <= z /\ 0 + Len(l) = r
    BY <1>2, <1>3
  <2>2. c \in Block(Size[a], Any) /\ SubSeq(c, 1, 0 + Len(l)) = SubSeq(b, 1, 0) \o l
    BY <1>6, <2>1, Copied
  <2>3. SubSeq(b, 1, 0) = << >>
    BY SubSeqEmpty
  <2>4. << >> \o l = l
    BY <1>6, ConcatEmptySeq
  <2> HIDE DEF c
  <2> QED BY <2>1, <2>2, <2>3, <2>4, Zenon DEF z
<1> HIDE DEF c
<1>8. x = Members(s, t \o T, r, n, c)
  BY <1>1 DEF c
<1>9. x \in Object(a, B)
  BY <1>3, <1>5, <1>7, <1>8, MembersType DEF z
<1>10. x.seed = s /\ x.n = n /\ x.state = t \o T /\ x.m = r /\ x.buffer = c
  BY <1>8 DEF Members
<1>11. Held(x) = l
  BY <1>7, <1>10 DEF Held
<1> QED BY <1>3, <1>9, <1>10, <1>11 DEF Took, x, f, l, T, z

LEMMA BlockIsSeq ==
  ASSUME NEW z \in Nat, NEW b \in Block(z, Any)
  PROVE  b \in Seq(Any) /\ Len(b) = z
  BY DEF Block

LEMMA HeldIs ==
  ASSUME NEW a \in Algorithm, NEW m \in 0 .. Size[a] - 1, NEW b \in Block(Size[a], Any)
  PROVE  SubSeq(b, 1, m) \in Seq(Any) /\ Len(SubSeq(b, 1, m)) = m
<1>1. Size[a] \in Nat
  BY Sizes
<1>2. b \in Seq(Any) /\ Len(b) = Size[a]
  BY <1>1 DEF Block
<1>3. m \in Nat /\ m <= Len(b)
  BY <1>1, <1>2
<1> QED BY <1>2, <1>3, Prefix

LEMMA TakesMembers ==
  ASSUME NEW a \in Algorithm, NEW B \in Contents, NEW s \in Seq(Byte), NEW t \in Seq(Of(B)),
         NEW m \in 0 .. Size[a] - 1, NEW n \in 0 .. SizeMod - 1, NEW b \in Block(Size[a], Any),
         SubSeq(b, 1, m) \in Seq(B), NEW p \in Seq(B)
  PROVE  Took(a, B, s, t, (n + Len(p)) % SizeMod, SubSeq(b, 1, m) \o p,
              update(a, Members(s, t, m, n, b), p))
<1> DEFINE z == Size[a]
           H == SubSeq(b, 1, m)
           k == Fit(a, m, p)
           first == SubSeq(p, 1, k)
           rest == SubSeq(p, k + 1, Len(p))
           b2 == CopyTo(b, m, first)
           n2 == (n + Len(p)) % SizeMod
           x == update(a, Members(s, t, m, n, b), p)
<1>1. /\ z \in Nat \ {0} /\ SizeMod \in Nat \ {0} /\ m \in Nat /\ m < z /\ Len(p) \in Nat
      /\ Unit(a) \in Nat \ {0}
  <2>1. z \in Nat \ {0} /\ SizeMod \in Nat \ {0}
    BY Sizes
  <2>2. Unit(a) \in Nat \ {0}
    BY UnitsFill
  <2>3. Len(p) \in Nat
    BY LenProperties
  <2> QED BY <2>1, <2>2, <2>3
<1>2. /\ k \in 0 .. Len(p) /\ k \in Nat /\ m + k <= z /\ (m + k < z => k = Len(p))
      /\ m + k < z \/ m + k = z
  BY <1>1 DEF Fit
<1>3. n2 \in 0 .. SizeMod - 1
  <2>1. n + Len(p) \in Nat
    BY <1>1
  <2> QED BY <1>1, <2>1, DivMod
<1>4. H \in Seq(B) /\ Len(H) = m
  BY HeldIs
<1>5. x = IF m = 0 THEN Absorb(a, Members(s, t, m, n2, b), p)
          ELSE IF m + k < z THEN Members(s, t, m + k, n2, b2)
          ELSE Absorb(a, Flush(a, Members(s, t, m + k, n2, b2)), rest)
  BY UpdateIs
<1> HIDE DEF k, n2, x
<1>6. /\ first \in Seq(B) /\ Len(first) = k /\ rest \in Seq(B) /\ first \o rest = p
  BY <1>2, CutInTwo
<1> HIDE DEF first, rest
<1>7. first \in Seq(Any)
  BY <1>6, FitsBuffer
<1>8. b2 \in Block(z, Any) /\ SubSeq(b2, 1, m + k) = H \o first
  <2>1. m + Len(first) <= Size[a] /\ m + Len(first) = m + k
    BY <1>2, <1>6
  <2>2. b2 \in Block(Size[a], Any) /\ SubSeq(b2, 1, m + Len(first)) = SubSeq(b, 1, m) \o first
    BY <1>1, <1>7, <2>1, Copied, ZenonT(60)
  <2> HIDE DEF b2
  <2> QED BY <2>1, <2>2, Zenon DEF z, H
<1> HIDE DEF b2, H
<1>9. H \o first \in Seq(B) /\ Len(H \o first) = m + k
  <2>1. H \in Seq(B) /\ first \in Seq(B)
    BY <1>4, <1>6
  <2>2. H \o first \in Seq(B) /\ Len(H \o first) = Len(H) + Len(first)
    BY <2>1, ConcatProperties
  <2> QED BY <1>4, <1>6, <2>2
<1>10. Took(a, B, s, t, n2, H \o p, x)
  <2>1. CASE m = 0
    <3>1. x = Absorb(a, Members(s, t, m, n2, b), p)
      BY <1>5, <2>1, Zenon
    <3>2. Took(a, B, s, t, n2, p, Absorb(a, Members(s, t, m, n2, b), p))
      BY <1>3, AbsorbTakes
    <3>3. H \o p = p
      <4>1. H = << >>
        BY <1>4, <2>1, EmptySeq
      <4>2. << >> \o p = p
        BY ConcatEmptySeq
      <4> QED BY <4>1, <4>2, Zenon
    <3> QED BY <3>1, <3>2, <3>3, Zenon
  <2>2. CASE m # 0 /\ m + k < z
    <3>1. x = Members(s, t, m + k, n2, b2)
      BY <1>5, <2>2, Zenon
    <3>2. first = p
      <4>1. Len(rest) = 0
        <5>1. Len(first \o rest) = Len(first) + Len(rest) /\ Len(rest) \in Nat
          BY <1>6, ConcatProperties, LenProperties
        <5> QED BY <1>1, <1>2, <1>6, <2>2, <5>1
      <4>2. rest = << >>
        BY <1>6, <4>1, EmptySeq
      <4>3. first \o << >> = first
        BY <1>6, ConcatEmptySeq
      <4> QED BY <1>6, <4>2, <4>3, Zenon
    <3>3. H \o p \in Seq(B) /\ Len(H \o p) < z
      BY <1>9, <2>2, <3>2
    <3> DEFINE d == H \o p
    <3>4. d \in Seq(B) /\ Len(d) < z
      BY <3>3
    <3> HIDE DEF d
    <3>5. Front(z, d) = << >> /\ Last(z, d) = d
      BY <1>1, <3>4, CutShort
    <3>6. Tokens(Unit(a), << >>) = << >>
      BY NoTokens, <1>1
    <3>7. t \o << >> = t
      BY ConcatEmptySeq
    <3>8. m + k \in 0 .. z - 1
      BY <1>1, <1>2, <2>2
    <3>9. x \in Object(a, B)
      BY <1>3, <1>8, <3>1, <3>8, MembersType DEF z
    <3>10. x.seed = s /\ x.n = n2 /\ x.state = t /\ x.m = m + k /\ x.buffer = b2
      BY <3>1, MembersAre
    <3>11. Held(x) = d
      BY <1>8, <3>2, <3>10 DEF Held, d
    <3>12. x.state = t \o Tokens(Unit(a), Front(z, d))
      BY <3>5, <3>6, <3>7, <3>10, Zenon
    <3> QED BY <3>4, <3>5, <3>9, <3>10, <3>11, <3>12 DEF Took, z, d
  <2>3. CASE m # 0 /\ ~(m + k < z)
    <3> DEFINE c == IF a \in Siphash THEN Zeroes(Size[a]) ELSE b2
               T == Tokens(Unit(a), b2)
    <3>1. x = Absorb(a, Members(s, t \o T, 0, n2, c), rest)
      <4>1. x = Absorb(a, Flush(a, Members(s, t, m + k, n2, b2)), rest)
        BY <1>5, <2>3, Zenon
      <4>2. Flush(a, Members(s, t, m + k, n2, b2)) = Members(s, t \o T, 0, n2, c)
        BY FlushIs
      <4> HIDE DEF T, c
      <4> QED BY <4>1, <4>2, Zenon
    <3>2. m + k = z
      BY <1>2, <2>3, Zenon
    <3>3. b2 = H \o first
      <4>1. b2 \in Seq(Any) /\ Len(b2) = z
        BY <1>1, <1>8, BlockIsSeq
      <4>2. SubSeq(b2, 1, Len(b2)) = b2
        BY <4>1, SubSeqFull
      <4> QED BY <1>8, <3>2, <4>1, <4>2, Zenon
    <3>4. c \in Block(z, Any)
      <4>1. 0 \in Any /\ z \in Nat
        BY <1>1, ContentsAre
      <4>2. Zeroes(z) \in Block(z, Any)
        BY <4>1, ZeroesType DEF Block
      <4> QED BY <1>8, <4>2 DEF z
    <3>5. b2 \in Seq(B) /\ Fills(z, b2)
      BY <1>9, <3>2, <3>3 DEF Fills
    <3>6. T \in Seq(Of(B))
      BY <1>1, <3>5, TokensType
    <3>7. t \o T \in Seq(Of(B))
      BY <3>6, ConcatProperties
    <3> HIDE DEF c, T
    <3>8. Took(a, B, s, t \o T, n2, rest, x)
      <4>1. c \in Block(Size[a], Any)
        BY <3>4 DEF z
      <4> QED BY <1>3, <1>6, <3>1, <3>7, <4>1, AbsorbTakes
    <3>9. Front(z, b2 \o rest) = b2 \o Front(z, rest) /\ Last(z, b2 \o rest) = Last(z, rest)
      <4>1. z \in Nat \ {0} /\ rest \in Seq(B)
        BY <1>1, <1>6
      <4> HIDE DEF z
      <4> QED BY <3>5, <4>1, CutBlock
    <3>10. Tokens(Unit(a), b2 \o Front(z, rest)) = T \o Tokens(Unit(a), Front(z, rest))
      <4>1. Front(z, rest) \in Seq(B)
        BY <1>1, <1>6, Cut
      <4>2. PICK j \in Nat : Total(Size[a], 1) = Total(Unit(a), j)
        BY UnitsFill
      <4>3. Len(b2) = Total(Unit(a), j)
        BY <1>1, <3>5, <4>2, TotalOne DEF Fills, z
      <4> DEFINE u == Unit(a)
                 g == Front(z, rest)
      <4>4. u \in Nat \ {0} /\ b2 \in Seq(B) /\ g \in Seq(B) /\ Len(b2) = Total(u, j)
        BY <1>1, <3>5, <4>1, <4>3
      <4> HIDE DEF u, g
      <4>5. Tokens(u, b2 \o g) = Tokens(u, b2) \o Tokens(u, g)
        BY <4>4, TokensConcat, SMTT(30)
      <4> QED BY <4>5 DEF T, u, g
    <3>11. b2 \o rest = H \o p
      <4>1. H \in Seq(B) /\ first \in Seq(B) /\ rest \in Seq(B)
        BY <1>4, <1>6
      <4>2. (H \o first) \o rest = H \o (first \o rest)
        BY <4>1, ThreeParts, SMTT(30)
      <4> QED BY <1>6, <3>3, <4>2, Zenon
    <3> DEFINE F == Tokens(Unit(a), Front(z, rest))
    <3>12. F \in Seq(Of(B))
      <4>1. Front(z, rest) \in Seq(B)
        BY <1>1, <1>6, Cut
      <4> QED BY <1>1, <4>1, TokensType
    <3>13. x.state = (t \o T) \o F
      BY <3>8 DEF Took, z
    <3> HIDE DEF F
    <3>14. (t \o T) \o F = t \o (T \o F)
      BY <3>6, <3>12, ThreeParts, SMTT(30)
    <3>15. x.state = t \o Tokens(Unit(a), Front(z, H \o p))
      BY <3>9, <3>10, <3>11, <3>13, <3>14, Zenon DEF F
    <3>16. Last(z, H \o p) = Last(z, rest)
      BY <3>9, <3>11, Zenon
    <3> QED BY <3>8, <3>15, <3>16 DEF Took, z
  <2> QED BY <2>1, <2>2, <2>3
<1> QED BY <1>10 DEF x, n2, H

LEMMA UpdateTakes ==
  ASSUME NEW a \in Algorithm, NEW B \in Contents, NEW o, Proper(a, B, o), NEW p \in Seq(B)
  PROVE  Took(a, B, o.seed, o.state, (o.n + Len(p)) % SizeMod, Held(o) \o p, update(a, o, p))
<1> DEFINE s == o.seed
           t == o.state
           m == o.m
           n == o.n
           b == o.buffer
<1>1. /\ o = Members(s, t, m, n, b) /\ s \in Seq(Byte) /\ t \in Seq(Of(B))
      /\ m \in 0 .. Size[a] - 1 /\ n \in 0 .. SizeMod - 1 /\ b \in Block(Size[a], Any)
  BY ObjectIs DEF Proper
<1>2. SubSeq(b, 1, m) = Held(o) /\ SubSeq(b, 1, m) \in Seq(B)
  BY DEF Proper, Held
<1>3. o.seed = s /\ o.state = t /\ o.n = n
  OBVIOUS
<1> HIDE DEF s, t, m, n, b
<1>4. /\ s \in Seq(Byte) /\ t \in Seq(Of(B)) /\ m \in 0 .. Size[a] - 1 /\ n \in 0 .. SizeMod - 1
      /\ b \in Block(Size[a], Any) /\ SubSeq(b, 1, m) \in Seq(B)
  BY <1>1, <1>2
<1>5. Took(a, B, s, t, (n + Len(p)) % SizeMod, SubSeq(b, 1, m) \o p,
           update(a, Members(s, t, m, n, b), p))
  BY <1>4, TakesMembers
<1> QED BY <1>1, <1>2, <1>3, <1>5, Zenon

LEMMA TookProper ==
  ASSUME NEW a, NEW B, NEW s, NEW t, NEW n, NEW d, NEW x, Took(a, B, s, t, n, d, x)
  PROVE  Proper(a, B, x)
  BY DEF Took, Proper

(* Taking in nothing. *)
LEMMA TookNothing ==
  ASSUME NEW a \in Algorithm, NEW B \in Contents, NEW o, Proper(a, B, o)
  PROVE  Took(a, B, o.seed, o.state, o.n, Held(o), o)
<1> DEFINE z == Size[a]
           H == Held(o)
<1>1. o \in Object(a, B) /\ H \in Seq(B)
  BY DEF Proper
<1>2. o.state \in Seq(Of(B)) /\ o.m \in 0 .. z - 1 /\ o.buffer \in Block(z, Any)
  BY <1>1, ObjectIs
<1>3. z \in Nat \ {0} /\ Unit(a) \in Nat \ {0}
  BY Sizes, UnitsFill
<1>4. Len(H) < z
  <2>1. Len(SubSeq(o.buffer, 1, o.m)) = o.m
    BY <1>2, HeldIs
  <2> HIDE DEF z
  <2> QED BY <1>2, <1>3, <2>1 DEF Held
<1>5. Front(z, H) = << >> /\ Last(z, H) = H
  <2> HIDE DEF z, H
  <2> QED BY <1>1, <1>3, <1>4, CutShort
<1>6. Tokens(Unit(a), << >>) = << >>
  BY <1>3, NoTokens
<1>7. o.state \o << >> = o.state
  BY <1>2, ConcatEmptySeq
<1>8. o.state = o.state \o Tokens(Unit(a), Front(z, H))
  BY <1>5, <1>6, <1>7, Zenon
<1> QED BY <1>1, <1>5, <1>8 DEF Took

(* What is taken in after something is taken in. *)
LEMMA TookOn ==
  ASSUME NEW a \in Algorithm, NEW B \in Contents, NEW s, NEW t \in Seq(Of(B)), NEW n \in Nat,
         NEW d \in Seq(B), NEW x, Took(a, B, s, t, n % SizeMod, d, x), NEW p \in Seq(B)
  PROVE  Took(a, B, s, t, (n + Len(p)) % SizeMod, d \o p, update(a, x, p))
<1> DEFINE z == Size[a]
           y == update(a, x, p)
           u == Unit(a)
           l == Last(z, d)
           e == l \o p
           f == Front(z, d)
           g == Front(z, e)
<1>1. z \in Nat \ {0} /\ SizeMod \in Nat \ {0} /\ u \in Nat \ {0} /\ Len(p) \in Nat
  <2>1. z \in Nat \ {0} /\ SizeMod \in Nat \ {0}
    BY Sizes
  <2>2. u \in Nat \ {0}
    BY UnitsFill
  <2>3. Len(p) \in Nat
    BY LenProperties
  <2> QED BY <2>1, <2>2, <2>3
<1>2. Took(a, B, x.seed, x.state, (x.n + Len(p)) % SizeMod, Held(x) \o p, y)
  BY TookProper, UpdateTakes
<1>3. x.seed = s /\ x.n = n % SizeMod /\ x.state = t \o Tokens(u, f) /\ Held(x) = l
  BY DEF Took
<1>4. ((n % SizeMod) + Len(p)) % SizeMod = (n + Len(p)) % SizeMod
  BY <1>1, ModPlus
<1> HIDE DEF y, l
<1>5. Took(a, B, s, t \o Tokens(u, f), (n + Len(p)) % SizeMod, e, y)
  BY <1>2, <1>3, <1>4, Zenon
<1>6. Front(z, d \o p) = f \o g /\ Last(z, d \o p) = Last(z, e)
  <2>1. CutsOn(z, d, p)
    <3> HIDE DEF z
    <3> QED BY <1>1, CutAgain
  <2> QED BY <2>1 DEF CutsOn, l
<1>7. f \in Seq(B) /\ l \in Seq(B) /\ \E k \in Nat : Len(f) = Total(z, k)
  <2> HIDE DEF z
  <2> QED BY <1>1, Cut DEF l
<1>8. e \in Seq(B)
  BY <1>7, ConcatProperties
<1> HIDE DEF e
<1>9. g \in Seq(B)
  <2> HIDE DEF z
  <2> QED BY <1>1, <1>8, Cut
<1>10. Tokens(u, f \o g) = Tokens(u, f) \o Tokens(u, g)
  <2>1. PICK k \in Nat : Len(f) = Total(z, k)
    BY <1>7
  <2>2. PICK j \in Nat : Total(z, k) = Total(u, j)
    BY UnitsFill
  <2>3. f \in Seq(B) /\ g \in Seq(B) /\ u \in Nat \ {0} /\ Len(f) = Total(u, j)
    BY <1>1, <1>7, <1>9, <2>1, <2>2
  <2> HIDE DEF f, g, u
  <2> QED BY <2>3, TokensConcat, SMTT(30)
<1>11. Tokens(u, f) \in Seq(Of(B)) /\ Tokens(u, g) \in Seq(Of(B))
  <2>1. f \in Seq(B) /\ g \in Seq(B) /\ u \in Nat \ {0}
    BY <1>1, <1>7, <1>9
  <2> HIDE DEF f, g, u
  <2> QED BY <2>1, TokensOf
<1> DEFINE F == Tokens(u, f)
           G == Tokens(u, g)
<1>12. (t \o F) \o G = t \o (F \o G)
  <2>1. F \in Seq(Of(B)) /\ G \in Seq(Of(B))
    BY <1>11
  <2> HIDE DEF F, G
  <2> QED BY <2>1, ThreeParts, SMTT(30)
<1>13. y.state = (t \o F) \o G
  BY <1>5 DEF Took
<1> HIDE DEF F, G
<1>14. y.state = t \o Tokens(u, Front(z, d \o p))
  BY <1>6, <1>10, <1>12, <1>13, Zenon DEF F, G
<1>15. /\ y \in Object(a, B) /\ Held(y) = Last(z, e) /\ Last(z, e) \in Seq(B)
       /\ y.seed = s /\ y.n = (n + Len(p)) % SizeMod
  BY <1>5 DEF Took
<1>16. Last(z, d \o p) = Last(z, e)
  BY <1>6
<1> QED BY <1>14, <1>15, <1>16 DEF Took, y

(* Objects that have taken in the same are alike. *)
LEMMA TookAlike ==
  ASSUME NEW a, NEW B, NEW s, NEW t, NEW n, NEW d, NEW x, NEW y,
         Took(a, B, s, t, n, d, x), Took(a, B, s, t, n, d, y)
  PROVE  Visible(x) = Visible(y)
  BY DEF Took, Visible
------------------------------------------------------------------------------
(* result *)

(* A part of what the buffer holds. *)
LEMMA HeldPart ==
  ASSUME NEW a \in Algorithm, NEW B \in Contents, NEW o, Proper(a, B, o),
         NEW j \in 0 .. o.m, NEW i \in 0 .. j
  PROVE  SubSeq(o.buffer, i + 1, j) \in Seq(B)
<1> DEFINE z == Size[a]
           b == o.buffer
           m == o.m
           H == Held(o)
<1>1. z \in Nat /\ b \in Block(z, Any) /\ m \in 0 .. z - 1 /\ H \in Seq(B)
  BY Sizes, ObjectIs DEF Proper
<1>2. H = SubSeq(b, 1, m) /\ j \in 0 .. m
  BY DEF Held
<1> HIDE DEF z, b, m, H
<1>3. b \in Seq(Any) /\ Len(b) = z
  BY <1>1, BlockIsSeq
<1>4. m \in Nat /\ m <= Len(b) /\ j \in Nat /\ i \in Nat
  BY <1>1, <1>2, <1>3
<1>5. \A x \in 1 .. m : H[x] = b[x]
  BY <1>2, <1>3, <1>4, Prefix
<1>6. Len(H) = m
  BY <1>2, <1>3, <1>4, Prefix
<1>7. \A x \in 1 .. m : b[x] \in B
  BY <1>1, <1>5, <1>6, ElementOfSeq
<1>8. PICK k \in Nat : j = i + k
  <2>1. j - i \in Nat /\ j = i + (j - i)
    BY <1>4
  <2> QED BY <2>1
<1>9. i + k <= Len(b)
  BY <1>2, <1>4, <1>8
<1> DEFINE s == SubSeq(b, i + 1, i + k)
<1>10. s \in [1 .. k -> Any] /\ \A x \in 1 .. k : s[x] = b[i + x]
  <2>1. b \in Seq(Any) /\ i \in Nat
    BY <1>3, <1>4
  <2> QED BY <1>9, <2>1, Part
<1> HIDE DEF s
<1>11. \A x \in 1 .. k : s[x] \in B
  <2> TAKE x \in 1 .. k
  <2>1. i + x \in 1 .. m
    BY <1>2, <1>4, <1>8
  <2> QED BY <1>7, <1>10, <2>1
<1>12. s \in [1 .. k -> B]
  BY <1>10, <1>11
<1>13. s \in Seq(B)
  BY <1>12
<1> QED BY <1>8, <1>13 DEF s, b

(* Some bytes, zeroes and a byte make a block. *)
LEMMA LastBlock ==
  ASSUME NEW B \in Contents, NEW z \in Nat, NEW p \in Seq(B), NEW i \in Nat, NEW v \in Byte
  PROVE  CopyTo(CopyTo(Zeroes(z), 0, p), i, <<v>>) \in Seq(B)
<1>1. 0 \in B /\ v \in B /\ 0 \in Nat
  BY ContentsAre
<1>2. Zeroes(z) \in Block(z, B)
  BY <1>1, ZeroesType DEF Block
<1>3. CopyTo(Zeroes(z), 0, p) \in Block(z, B)
  BY <1>1, <1>2, CopyToType
<1>4. <<v>> \in Seq(B)
  BY <1>1
<1>5. CopyTo(CopyTo(Zeroes(z), 0, p), i, <<v>>) \in Block(z, B)
  BY <1>3, <1>4, CopyToType
<1> DEFINE c == CopyTo(CopyTo(Zeroes(z), 0, p), i, <<v>>)
<1> HIDE DEF c
<1>6. c \in Block(z, B)
  BY <1>5 DEF c
<1>7. c \in Seq(B)
  BY <1>6 DEF Block
<1> QED BY <1>7 DEF c

(* o after its words took in the tokens T. *)
After(o, T) == [o EXCEPT !.state = @ \o T]

(* ... at least one of them. *)
Final(B, o, y) == \E T \in Seq(Of(B)) : Len(T) > 0 /\ y = After(o, T)

LEMMA AppendIs ==
  \A S : \A t \in Seq(S), x \in S : Append(t, x) = t \o <<x>> /\ <<x>> \in Seq(S) /\ Len(<<x>>) = 1
<1> TAKE S
<1> TAKE t \in Seq(S), x \in S
<1>1. <<x>> \in Seq(S) /\ Len(<<x>>) = 1 /\ <<x>>[1] = x
  OBVIOUS
<1>2. Append(t, x) = t \o <<x>>
  BY AppendIsConcat
<1> QED BY <1>1, <1>2

LEMMA SiphashFinal ==
  ASSUME NEW a \in Algorithm, NEW B \in Contents, NEW o, Proper(a, B, o)
  PROVE  Final(B, o, siphash_last(a, o))
<1> DEFINE z == Size[a]
           tail == siphash_tail(a, o)
           x == Token("block", tail, 0)
           y == Token("end", << >>, 0)
<1>1. z \in Nat /\ z - 1 \in Nat /\ o.n \in Nat /\ Radix \in Nat \ {0} /\ Held(o) \in Seq(B)
  BY Sizes, ObjectIs DEF Proper
<1>2. o.n % Radix \in Byte
  BY <1>1, DivMod DEF Byte
<1>3. tail \in Seq(B)
  <2> HIDE DEF z
  <2>1. CopyTo(CopyTo(Zeroes(z), 0, Held(o)), z - 1, <<o.n % Radix>>) \in Seq(B)
    BY <1>1, <1>2, LastBlock
  <2> QED BY <2>1 DEF siphash_tail, z
<1>4. "block" \in Kinds /\ "end" \in Kinds /\ 0 \in 0 .. SizeMod - 1 /\ << >> \in Seq(B)
  BY Sizes DEF Kinds
<1> HIDE DEF tail
<1>5. x \in Of(B) /\ y \in Of(B)
  BY <1>3, <1>4, TokenType
<1>6. siphash_last(a, o) = After(o, <<x, y>>)
  BY DEF siphash_last, After, tail
<1> HIDE DEF x, y
<1>7. <<x, y>> \in Seq(Of(B)) /\ Len(<<x, y>>) > 0
  BY <1>5
<1> QED BY <1>6, <1>7 DEF Final

LEMMA XxhashFinal ==
  ASSUME NEW a \in Algorithm, NEW B \in Contents, NEW o, Proper(a, B, o)
  PROVE  Final(B, o, xxhash_perturb(o))
<1> DEFINE x == Token("perturb", Held(o), o.n)
<1>1. o.n \in 0 .. SizeMod - 1 /\ Held(o) \in Seq(B) /\ o.state \in Seq(Of(B))
  BY ObjectIs DEF Proper
<1>2. x \in Of(B)
  BY <1>1, TokenType DEF Kinds
<1>3. xxhash_perturb(o) = [o EXCEPT !.state = Append(@, x)]
  BY DEF xxhash_perturb
<1> HIDE DEF x
<1>4. Append(o.state, x) = o.state \o <<x>> /\ <<x>> \in Seq(Of(B)) /\ Len(<<x>>) > 0
  BY <1>1, <1>2, AppendIs
<1>5. [o EXCEPT !.state = Append(@, x)] = After(o, <<x>>)
  BY <1>4 DEF After
<1> QED BY <1>3, <1>4, <1>5 DEF Final

LEMMA ModSmall ==
  ASSUME NEW b \in Nat \ {0}, NEW r \in 0 .. b - 1
  PROVE  r % b = r
<1>1. b * 0 + r = r
  OBVIOUS
<1>2. (b * 0 + r) % b = r
  BY DivModOf
<1> QED BY <1>1, <1>2

LEMMA SpookyFinal ==
  ASSUME NEW B \in Contents, NEW o, "spooky2_128" \in Algorithm, Proper("spooky2_128", B, o),
         B = Any \/ o.m = o.n % Size["spooky2_128"]
  PROVE  Final(B, o, spooky2_last(o))
<1> DEFINE a == "spooky2_128"
           z == Size[a]
           half == Unit(a)
<1>1. /\ z \in Nat \ {0} /\ half \in Nat \ {0} /\ Radix \in Nat \ {0}
      /\ o.m \in 0 .. z - 1 /\ o.n \in 0 .. SizeMod - 1 /\ o.state \in Seq(Of(B))
      /\ o.buffer \in Block(z, Any) /\ Held(o) \in Seq(B)
  BY Sizes, UnitsFill, ObjectIs DEF Proper
<1>2. CASE o.n < z
  <2> DEFINE p == spooky2_short(o)
             x == Token("short", p, o.n)
  <2>1. p \in Seq(B)
    <3>1. CASE B = Any
      <4>1. o.buffer \in Seq(Any) /\ Len(o.buffer) = z
        BY <1>1, BlockIsSeq
      <4>2. o.n \in Nat /\ o.n <= Len(o.buffer)
        BY <1>1, <1>2, <4>1
      <4>3. SubSeq(o.buffer, 1, o.n) \in Seq(Any)
        BY <4>1, <4>2, Prefix
      <4> QED BY <3>1, <4>3 DEF spooky2_short
    <3>2. CASE o.m = o.n % Size["spooky2_128"]
      <4>1. o.n % z = o.n
        <5>1. o.n \in 0 .. z - 1
          BY <1>1, <1>2
        <5> HIDE DEF z
        <5> QED BY <1>1, <5>1, ModSmall
      <4>2. p = Held(o)
        BY <3>2, <4>1 DEF spooky2_short, Held
      <4> QED BY <1>1, <4>2
    <3> QED BY <3>1, <3>2
  <2> HIDE DEF p
  <2>2. x \in Of(B)
    BY <1>1, <2>1, TokenType DEF Kinds
  <2>3. spooky2_last(o) = [o EXCEPT !.state = Append(@, x)]
    BY <1>2 DEF spooky2_last, p
  <2> HIDE DEF x
  <2>4. Append(o.state, x) = o.state \o <<x>> /\ <<x>> \in Seq(Of(B)) /\ Len(<<x>>) > 0
    <3>1. o.state \in Seq(Of(B))
      BY <1>1
    <3>2. \A S : \A t \in Seq(S), y \in S :
            Append(t, y) = t \o <<y>> /\ <<y>> \in Seq(S) /\ Len(<<y>>) = 1
      BY AppendIs
    <3>3. Append(o.state, x) = o.state \o <<x>> /\ <<x>> \in Seq(Of(B)) /\ Len(<<x>>) = 1
      BY <2>2, <3>1, <3>2, Zenon
    <3> QED BY <3>3
  <2>5. [o EXCEPT !.state = Append(@, x)] = After(o, <<x>>)
    BY <2>4 DEF After
  <2> QED BY <2>3, <2>4, <2>5 DEF Final
<1>3. CASE ~(o.n < z)
  <2> DEFINE most == IF o.m >= half THEN SubSeq(o.buffer, 1, half) ELSE << >>
             rest == SubSeq(o.buffer, Len(most) + 1, o.m)
             end  == CopyTo(CopyTo(Zeroes(half), 0, rest), half - 1, <<Len(rest) % Radix>>)
             x == Token("end", end, 0)
             T == Tokens(half, most)
  <2>1. most \in Seq(B) /\ Len(most) \in 0 .. o.m
    <3>1. CASE o.m >= half
      <4>1. half \in 0 .. o.m /\ 0 \in 0 .. half
        BY <1>1, <3>1
      <4>2. SubSeq(o.buffer, 0 + 1, half) \in Seq(B)
        BY <4>1, HeldPart
      <4>3. half \in Nat /\ half <= Len(o.buffer) /\ o.buffer \in Seq(Any)
        <5>1. o.buffer \in Seq(Any) /\ Len(o.buffer) = z
          BY <1>1, BlockIsSeq
        <5> QED BY <1>1, <3>1, <5>1
      <4>4. Len(SubSeq(o.buffer, 1, half)) = half
        BY <4>3, Prefix
      <4> DEFINE c == SubSeq(o.buffer, 1, half)
      <4>5. c \in Seq(B) /\ Len(c) = half
        BY <4>2, <4>4
      <4>6. most = c
        BY <3>1, Zenon
      <4> HIDE DEF c, most
      <4> QED BY <4>1, <4>5, <4>6
    <3>2. CASE ~(o.m >= half)
      <4>1. most = << >>
        BY <3>2
      <4>2. << >> \in Seq(B) /\ Len(<< >>) \in 0 .. o.m
        BY <1>1
      <4> HIDE DEF most
      <4> QED BY <4>1, <4>2
    <3> QED BY <3>1, <3>2
  <2> HIDE DEF most
  <2>2. rest \in Seq(B)
    <3>1. o.m \in 0 .. o.m
      BY <1>1
    <3>2. PICK i \in 0 .. o.m : i = Len(most)
      BY <2>1
    <3>3. SubSeq(o.buffer, i + 1, o.m) \in Seq(B)
      BY <3>1, HeldPart
    <3> QED BY <3>2, <3>3
  <2> HIDE DEF rest
  <2>3. Len(rest) % Radix \in Byte
    BY <1>1, <2>2, LenProperties, DivMod DEF Byte
  <2>4. end \in Seq(B)
    <3>1. half \in Nat /\ half - 1 \in Nat
      BY <1>1
    <3> HIDE DEF half
    <3> QED BY <2>2, <2>3, <3>1, LastBlock
  <2> HIDE DEF end
  <2>5. x \in Of(B)
    BY <1>1, <2>4, TokenType, Sizes DEF Kinds
  <2>6. T \in Seq(Of(B))
    BY <1>1, <2>1, TokensOf
  <2>7. spooky2_last(o) = [update_(a, o, most) EXCEPT !.state = Append(@, x)]
    BY <1>3 DEF spooky2_last, most, rest, end
  <2>8. update_(a, o, most) = After(o, T)
    BY DEF update_, Tokens, After
  <2> HIDE DEF x, T
  <2>9. o.state \o T \in Seq(Of(B)) /\ <<x>> \in Seq(Of(B))
    BY <1>1, <2>5, <2>6, ConcatProperties
  <2>10. Append(o.state \o T, x) = o.state \o (T \o <<x>>)
    <3>1. Append(o.state \o T, x) = (o.state \o T) \o <<x>>
      BY <2>5, <2>9, AppendIs
    <3>2. (o.state \o T) \o <<x>> = o.state \o (T \o <<x>>)
      <4>1. o.state \in Seq(Of(B)) /\ T \in Seq(Of(B)) /\ <<x>> \in Seq(Of(B))
        BY <1>1, <2>6, <2>9
      <4>2. \A u, v, w \in Seq(Of(B)) : (u \o v) \o w = u \o (v \o w)
        BY ThreeParts
      <4> QED BY <4>1, <4>2, Zenon
    <3> QED BY <3>1, <3>2
  <2>11. [After(o, T) EXCEPT !.state = Append(@, x)] = After(o, T \o <<x>>)
    <3>1. o = Members(o.seed, o.state, o.m, o.n, o.buffer)
      BY ObjectIs DEF Proper
    <3>2. After(o, T).state = o.state \o T
      BY <3>1 DEF After, Members
    <3>3. [After(o, T) EXCEPT !.state = Append(@, x)] = [After(o, T) EXCEPT !.state = o.state \o (T \o <<x>>)]
      BY <2>10, <3>2
    <3>4. [After(o, T) EXCEPT !.state = o.state \o (T \o <<x>>)] = After(o, T \o <<x>>)
      BY DEF After
    <3> QED BY <3>3, <3>4
  <2>12. T \o <<x>> \in Seq(Of(B)) /\ Len(T \o <<x>>) > 0
    <3>1. Len(<<x>>) = 1 /\ Len(T) \in Nat
      BY <2>5, <2>6, AppendIs, LenProperties
    <3>2. T \o <<x>> \in Seq(Of(B)) /\ Len(T \o <<x>>) = Len(T) + Len(<<x>>)
      BY <2>6, <2>9, ConcatProperties
    <3> QED BY <3>1, <3>2
  <2> QED BY <2>7, <2>8, <2>11, <2>12 DEF Final
<1> QED BY <1>2, <1>3

(* n_ after it is rounded up to whole blocks. *)
Rounded(a, o) ==
  LET n == (o.n + Size[a] - o.m) % SizeMod IN
  IF a = "spooky2_128" /\ n < Size[a] THEN 0 ELSE n

(* x is what result leaves of o. *)
Left(a, B, o, x) ==
  \E T \in Seq(Of(B)) :
    /\ a \notin Murmur3 => Len(T) > 0
    /\ x = Members(o.seed, o.state \o T, 0, Rounded(a, o), Zeroes(Size[a]))

LEMMA WipeIs ==
  ASSUME NEW a, NEW s, NEW t, NEW m, NEW n, NEW b
  PROVE  Wipe(a, Members(s, t, m, n, b)) =
           Members(s, t, 0, (n + Size[a] - m) % SizeMod, Zeroes(Size[a]))
<1> DEFINE o == Members(s, t, m, n, b)
           n2 == (n + Size[a] - m) % SizeMod
           c == Zeroes(Size[a])
           zero == 0
           x == [o EXCEPT !.n = n2]
<1>1. o.n = n /\ o.m = m
  BY MembersAre
<1>2. Wipe(a, o) = [o EXCEPT !.n = n2, !.m = zero, !.buffer = c]
  <2> HIDE DEF o
  <2> QED BY <1>1 DEF Wipe
<1> HIDE DEF c, zero, n2
<1>3. x = Members(s, t, m, n2, b)
  BY DEF Members
<1>4. [o EXCEPT !.n = n2, !.m = zero, !.buffer = c] = WithBuffer(x, c, zero)
  <2> HIDE DEF o
  <2> QED BY DEF WithBuffer
<1> HIDE DEF x
<1>5. WithBuffer(x, c, zero) = Members(s, t, zero, n2, c)
  BY <1>3, WithBufferIs
<1> HIDE DEF o
<1>6. Wipe(a, o) = Members(s, t, zero, n2, c)
  BY <1>2, <1>4, <1>5
<1> QED BY <1>6 DEF o, zero, n2, c

LEMMA WrapIs ==
  ASSUME NEW s, NEW t, NEW m, NEW n, NEW b
  PROVE  spooky2_wrap(Members(s, t, m, n, b)) =
           Members(s, t, m, IF n < Size["spooky2_128"] THEN 0 ELSE n, b)
<1> DEFINE o == Members(s, t, m, n, b)
           zero == 0
<1>1. o.n = n
  BY MembersAre
<1>2. spooky2_wrap(o) = IF n < Size["spooky2_128"] THEN [o EXCEPT !.n = zero] ELSE o
  <2> HIDE DEF o
  <2> QED BY <1>1 DEF spooky2_wrap
<1> HIDE DEF zero
<1>3. [o EXCEPT !.n = zero] = Members(s, t, m, zero, b)
  BY DEF Members
<1>4. CASE n < Size["spooky2_128"]
  BY <1>2, <1>3, <1>4 DEF zero
<1>5. CASE ~(n < Size["spooky2_128"])
  BY <1>2, <1>5
<1> QED BY <1>4, <1>5

LEMMA AfterIs ==
  ASSUME NEW s, NEW t, NEW m, NEW n, NEW b, NEW T
  PROVE  After(Members(s, t, m, n, b), T) = Members(s, t \o T, m, n, b)
  BY DEF After, Members

(* Of the algorithms but spooky2, and of it. *)
LEMMA WipeAfter ==
  ASSUME NEW a, NEW B, NEW o \in Object(a, B), NEW T
  PROVE  LET x == Wipe(a, After(o, T)) IN
         /\ a # "spooky2_128" =>
              x = Members(o.seed, o.state \o T, 0, Rounded(a, o), Zeroes(Size[a]))
         /\ a = "spooky2_128" =>
              spooky2_wrap(x) = Members(o.seed, o.state \o T, 0, Rounded(a, o), Zeroes(Size[a]))
<1> DEFINE s == o.seed
           t == o.state
           m == o.m
           n == o.n
           b == o.buffer
           n2 == (n + Size[a] - m) % SizeMod
           x == Wipe(a, After(o, T))
<1>1. o = Members(s, t, m, n, b)
  BY ObjectIs
<1>2. After(o, T) = Members(s, t \o T, m, n, b)
  <2> HIDE DEF s, t, m, n, b
  <2> QED BY <1>1, AfterIs
<1> DEFINE tT == t \o T
           c == Zeroes(Size[a])
           zero == 0
<1>3. x = Members(s, tT, zero, n2, c)
  <2>1. After(o, T) = Members(s, tT, m, n, b)
    BY <1>2
  <2>2. Wipe(a, Members(s, tT, m, n, b)) = Members(s, tT, 0, (n + Size[a] - m) % SizeMod, Zeroes(Size[a]))
    BY WipeIs
  <2> HIDE DEF tT, s, m, n, b
  <2> QED BY <2>1, <2>2
<1>4. CASE a # "spooky2_128"
  <2>1. Rounded(a, o) = n2
    BY <1>4 DEF Rounded
  <2> QED BY <1>3, <1>4, <2>1
<1>5. CASE a = "spooky2_128"
  <2> DEFINE n3 == IF n2 < Size["spooky2_128"] THEN 0 ELSE n2
  <2>1. Rounded(a, o) = n3
    BY <1>5 DEF Rounded
  <2>2. spooky2_wrap(Members(s, tT, zero, n2, c)) = Members(s, tT, zero, n3, c)
    <3> HIDE DEF tT, zero, n2, c, s
    <3> QED BY WrapIs
  <2>3. spooky2_wrap(x) = Members(s, tT, zero, Rounded(a, o), c)
    <3> HIDE DEF x, n3, n2, zero, c, s, tT
    <3> QED BY <1>3, <2>1, <2>2
  <2> QED BY <1>5, <2>3
<1> QED BY <1>4, <1>5

Agree(a, o) == o.m = o.n % Size[a]

LEMMA ResultLeaves ==
  ASSUME NEW a \in Algorithm, NEW B \in Contents, NEW o, Proper(a, B, o),
         B = Any \/ Agree(a, o)
  PROVE  Left(a, B, o, result(a, o))
<1>1. o \in Object(a, B)
  BY DEF Proper
<1>2. ASSUME NEW y, Final(B, o, y)
      PROVE  /\ a # "spooky2_128" => Left(a, B, o, Wipe(a, y))
             /\ a = "spooky2_128" => Left(a, B, o, spooky2_wrap(Wipe(a, y)))
  <2>1. PICK T \in Seq(Of(B)) : Len(T) > 0 /\ y = After(o, T)
    BY <1>2 DEF Final
  <2>2. CASE a # "spooky2_128"
    <3>1. Wipe(a, After(o, T)) = Members(o.seed, o.state \o T, 0, Rounded(a, o), Zeroes(Size[a]))
      BY <1>1, <2>2, WipeAfter
    <3> QED BY <2>1, <2>2, <3>1 DEF Left
  <2>3. CASE a = "spooky2_128"
    <3>1. spooky2_wrap(Wipe(a, After(o, T)))
            = Members(o.seed, o.state \o T, 0, Rounded(a, o), Zeroes(Size[a]))
      BY <1>1, <2>3, WipeAfter
    <3> QED BY <2>1, <2>3, <3>1 DEF Left
  <2> QED BY <2>2, <2>3
<1>3. CASE a \in Siphash
  <2>1. result(a, o) = Wipe(a, siphash_last(a, o)) /\ a # "spooky2_128"
    BY <1>3 DEF result, Siphash, Xxhash, Murmur3
  <2> QED BY <1>2, <2>1, SiphashFinal
<1>4. CASE a \in Xxhash
  <2>1. result(a, o) = Wipe(a, xxhash_perturb(o)) /\ a # "spooky2_128"
    BY <1>4 DEF result, Siphash, Xxhash, Murmur3
  <2> QED BY <1>2, <2>1, XxhashFinal
<1>5. CASE a \in Murmur3
  <2>1. result(a, o) = Wipe(a, o) /\ a # "spooky2_128"
    BY <1>5 DEF result, Siphash, Xxhash, Murmur3
  <2>2. o.state \in Seq(Of(B))
    BY <1>1, ObjectIs
  <2>3. o = After(o, << >>)
    <3>1. o.state \o << >> = o.state
      BY <2>2, ConcatEmptySeq
    <3>2. [o EXCEPT !.state = o.state] = o
      BY <1>1 DEF Object
    <3> QED BY <3>1, <3>2 DEF After
  <2>4. Wipe(a, After(o, << >>)) = Members(o.seed, o.state \o << >>, 0, Rounded(a, o), Zeroes(Size[a]))
    BY <1>1, <2>1, WipeAfter
  <2>5. << >> \in Seq(Of(B))
    OBVIOUS
  <2> QED BY <1>5, <2>1, <2>3, <2>4, <2>5 DEF Left
<1>6. CASE a = "spooky2_128"
  <2>1. result(a, o) = spooky2_wrap(Wipe(a, spooky2_last(o)))
    BY <1>6 DEF result, Siphash, Xxhash, Murmur3
  <2>2. Final(B, o, spooky2_last(o))
    BY <1>6, SpookyFinal DEF Agree
  <2> QED BY <1>2, <1>6, <2>1, <2>2
<1> QED BY <1>3, <1>4, <1>5, <1>6, AlgorithmAssumption DEF Siphash, Xxhash, Murmur3

LEMMA RoundedType ==
  ASSUME NEW a \in Algorithm, NEW B, NEW o \in Object(a, B)
  PROVE  Rounded(a, o) \in 0 .. SizeMod - 1
<1>1. /\ Size[a] \in Nat \ {0} /\ SizeMod \in Nat \ {0}
      /\ o.n \in 0 .. SizeMod - 1 /\ o.m \in 0 .. Size[a] - 1
  BY Sizes, ObjectIs
<1>2. o.n + Size[a] - o.m \in Nat
  BY <1>1
<1>3. (o.n + Size[a] - o.m) % SizeMod \in 0 .. SizeMod - 1 /\ 0 \in 0 .. SizeMod - 1
  <2>1. PICK e \in Nat : e = o.n + Size[a] - o.m
    BY <1>2
  <2>2. SizeMod \in Nat \ {0}
    BY <1>1
  <2>3. e % SizeMod \in 0 .. SizeMod - 1
    BY <2>2, DivMod
  <2> QED BY <2>1, <2>2, <2>3
<1> QED BY <1>3 DEF Rounded

LEMMA LeftProper ==
  ASSUME NEW a \in Algorithm, NEW B \in Contents, NEW o, Proper(a, B, o), NEW x, Left(a, B, o, x)
  PROVE  /\ Proper(a, B, x) /\ Held(x) = << >> /\ x.m = 0 /\ x.seed = o.seed
         /\ x.n = Rounded(a, o) /\ x.buffer = Zeroes(Size[a])
<1> DEFINE r == Rounded(a, o)
           c == Zeroes(Size[a])
           s == o.seed
<1>1. PICK T \in Seq(Of(B)) : x = Members(s, o.state \o T, 0, r, c)
  BY DEF Left
<1> DEFINE t == o.state \o T
           zero == 0
<1>2. x = Members(s, t, zero, r, c)
  BY <1>1
<1>3. o \in Object(a, B)
  BY DEF Proper
<1>4. o.state \in Seq(Of(B)) /\ s \in Seq(Byte)
  BY <1>3, ObjectIs
<1>5. t \in Seq(Of(B))
  BY <1>4, ConcatProperties
<1>6. r \in 0 .. SizeMod - 1
  BY <1>3, RoundedType
<1>7. Size[a] \in Nat \ {0} /\ 0 \in Any
  BY Sizes, ContentsAre
<1>8. c \in Block(Size[a], Any) /\ zero \in 0 .. Size[a] - 1
  BY <1>7, ZeroesType DEF Block
<1> HIDE DEF t, c, r, zero, s
<1>9. x \in Object(a, B)
  BY <1>2, <1>4, <1>5, <1>6, <1>8, MembersType
<1>10. x.seed = s /\ x.m = zero /\ x.n = r /\ x.buffer = c
  BY <1>2, MembersAre
<1>11. Held(x) = << >>
  BY <1>10, SubSeqEmpty DEF Held, zero
<1>12. << >> \in Seq(B)
  OBVIOUS
<1> QED BY <1>9, <1>10, <1>11, <1>12 DEF Proper, s, c, r, zero

(* Where m_ is n_ % N, rounding up gives whole blocks. *)
LEMMA RoundedAgrees ==
  ASSUME NEW a \in Algorithm, NEW B, NEW o \in Object(a, B), Agree(a, o)
  PROVE  Rounded(a, o) % Size[a] = 0
<1> DEFINE z == Size[a]
           n == o.n
           m == o.m
           M == SizeMod
           q == n \div z
<1>1. z \in Nat \ {0} /\ M \in Nat \ {0} /\ n \in 0 .. M - 1 /\ m \in 0 .. z - 1 /\ z < M
  BY Sizes, ObjectIs
<1>2. m = n % z
  BY DEF Agree
<1>3. Rounded(a, o) = IF a = "spooky2_128" /\ (n + z - m) % M < z THEN 0 ELSE (n + z - m) % M
  BY DEF Rounded
<1>4. a # "spooky2_128" => M % z = 0
  BY SizeAssumption
<1> HIDE DEF z, n, m, M, q
<1>5. q \in Nat /\ n = z * q + m
  <2>1. n \in Nat
    BY <1>1
  <2>2. q \in Nat /\ n = z * q + (n % z)
    BY <1>1, <2>1, DivMod DEF q
  <2> QED BY <1>2, <2>2
<1>6. PICK e \in Nat : e = n + z - m /\ e = z * (q + 1)
  <2>1. n + z - m \in Nat
    BY <1>1
  <2>2. z * (q + 1) = z * q + z /\ z * q \in Nat
    BY <1>1, <1>5
  <2> QED BY <1>1, <1>5, <2>1, <2>2
<1>7. e % z = 0
  <2>1. q + 1 \in Nat /\ 0 \in 0 .. z - 1
    BY <1>1, <1>5
  <2>2. (z * (q + 1) + 0) % z = 0
    BY <1>1, <2>1, DivModOf
  <2>3. z * (q + 1) + 0 = e
    BY <1>6
  <2> QED BY <2>2, <2>3
<1>8. 0 % z = 0
  <2>1. 0 \in 0 .. z - 1
    BY <1>1
  <2> QED BY <1>1, <2>1, ModSmall
<1>9. CASE a # "spooky2_128"
  <2>1. (e % M) % z = e % z
    BY <1>1, <1>4, <1>9, ModOfMod
  <2>2. Rounded(a, o) = e % M
    BY <1>3, <1>6, <1>9
  <2> QED BY <1>7, <2>1, <2>2 DEF z
<1>10. CASE a = "spooky2_128"
  <2>1. Rounded(a, o) = IF e % M < z THEN 0 ELSE e % M
    BY <1>3, <1>6, <1>10
  <2>2. CASE e < M
    <3>1. e \in 0 .. M - 1
      BY <1>1, <2>2
    <3>2. e % M = e
      BY <1>1, <3>1, ModSmall
    <3>3. Rounded(a, o) = 0 \/ Rounded(a, o) = e
      BY <2>1, <3>2
    <3> QED BY <1>7, <1>8, <3>3 DEF z
  <2>3. CASE ~(e < M)
    <3>1. PICK d \in 0 .. M - 1 : e = M * 1 + d /\ d < z
      <4>1. e - M \in 0 .. M - 1 /\ e - M < z /\ e = M * 1 + (e - M)
        BY <1>1, <1>6, <2>3
      <4> QED BY <4>1
    <3>2. (M * 1 + d) % M = d
      BY <1>1, DivModOf
    <3>3. Rounded(a, o) = 0
      BY <2>1, <3>1, <3>2
    <3> QED BY <1>8, <3>3 DEF z
  <2> QED BY <2>2, <2>3
<1> QED BY <1>9, <1>10

(* An object whose bytes were written and whose counters agree. *)
Sound(a, o) == Proper(a, Byte, o) /\ Agree(a, o)

LEMMA ResultSound ==
  ASSUME NEW a \in Algorithm, NEW o, Sound(a, o)
  PROVE  Sound(a, result(a, o))
<1>1. Byte \in Contents /\ Proper(a, Byte, o) /\ Agree(a, o) /\ o \in Object(a, Byte)
  BY DEF Contents, Sound, Proper
<1>2. Left(a, Byte, o, result(a, o))
  BY <1>1, ResultLeaves
<1>3. /\ Proper(a, Byte, result(a, o)) /\ result(a, o).m = 0
      /\ result(a, o).n = Rounded(a, o)
  BY <1>1, <1>2, LeftProper
<1>4. Rounded(a, o) % Size[a] = 0
  BY <1>1, RoundedAgrees
<1> QED BY <1>3, <1>4 DEF Sound, Agree

(* A total of bytes that n_ can count, where N does not divide its range. *)
Counts(a, o, p) == a = "spooky2_128" => o.n + Len(p) < SizeMod

LEMMA UpdateSound ==
  ASSUME NEW a \in Algorithm, NEW o, Sound(a, o), NEW p \in Seq(Byte), Counts(a, o, p)
  PROVE  Sound(a, update(a, o, p))
<1> DEFINE z == Size[a]
           M == SizeMod
           n == o.n
           m == o.m
           k == Len(p)
           d == Held(o) \o p
           x == update(a, o, p)
<1>1. Byte \in Contents /\ Proper(a, Byte, o)
  BY DEF Contents, Sound
<1>2. Took(a, Byte, o.seed, o.state, (n + k) % M, d, x)
  BY <1>1, UpdateTakes
<1>3. Proper(a, Byte, x)
  BY <1>2, TookProper
<1>4. x.n = (n + k) % M /\ Held(x) = Last(z, d) /\ x \in Object(a, Byte)
  BY <1>2 DEF Took
<1>5. /\ z \in Nat \ {0} /\ M \in Nat \ {0} /\ n \in 0 .. M - 1 /\ m \in 0 .. z - 1
      /\ o.buffer \in Block(z, Any)
  BY <1>1, Sizes, ObjectIs DEF Proper
<1>6. k \in Nat
  BY LenProperties
<1>7. Held(o) \in Seq(Byte) /\ Len(Held(o)) = m
  <2>1. Len(SubSeq(o.buffer, 1, o.m)) = m
    BY <1>5, HeldIs
  <2> QED BY <1>1, <2>1 DEF Proper, Held
<1>8. d \in Seq(Byte) /\ Len(d) = m + k
  <2>1. Held(o) \in Seq(Byte)
    BY <1>7
  <2>2. d \in Seq(Byte) /\ Len(d) = Len(Held(o)) + Len(p)
    BY <2>1, ConcatProperties
  <2> QED BY <1>7, <2>2
<1>9. x.m = (m + k) % z
  <2>1. d \in Seq(Byte)
    BY <1>8
  <2>2. Len(Last(z, d)) = Rest(z, Len(d))
    <3> HIDE DEF z, d
    <3> QED BY <1>5, <2>1, Cut, ZenonT(60)
  <2>3. x.m \in 0 .. z - 1 /\ x.buffer \in Block(z, Any)
    BY <1>4, ObjectIs
  <2>4. Len(SubSeq(x.buffer, 1, x.m)) = x.m
    <3> HIDE DEF x
    <3> QED BY <2>3, HeldIs
  <2>5. Len(Held(x)) = x.m
    BY <2>4 DEF Held
  <2> HIDE DEF x, d
  <2> QED BY <1>4, <1>8, <2>2, <2>5 DEF Rest
<1>10. m = n % z
  BY DEF Sound, Agree
<1>11. a # "spooky2_128" => M % z = 0
  BY SizeAssumption
<1>12. a = "spooky2_128" => n + k < M
  BY DEF Counts
<1>13. x.n = (n + k) % M
  BY <1>4
<1> HIDE DEF z, M, n, m, k, x
<1>14. n \in Nat /\ m \in Nat /\ n + k \in Nat
  BY <1>5, <1>6
<1>15. (m + k) % z = (n + k) % z
  <2>1. ((n % z) + k) % z = (n + k) % z
    BY <1>5, <1>6, <1>14, ModPlus
  <2> QED BY <1>10, <2>1
<1>16. ((n + k) % M) % z = (n + k) % z
  <2>1. CASE a # "spooky2_128"
    BY <1>5, <1>11, <1>14, <2>1, ModOfMod
  <2>2. CASE a = "spooky2_128"
    <3>1. n + k \in 0 .. M - 1
      BY <1>5, <1>12, <1>14, <2>2
    <3>2. (n + k) % M = n + k
      BY <1>5, <3>1, ModSmall
    <3> QED BY <3>2
  <2> QED BY <2>1, <2>2
<1>17. x.m = x.n % z
  BY <1>9, <1>13, <1>15, <1>16
<1> QED BY <1>3, <1>17 DEF Sound, Agree, z, x
------------------------------------------------------------------------------
(* Construction *)

(* Nothing but a seed was taken in, and the counters are zero. *)
Fresh(a, o) == Sound(a, o) /\ o.n = 0

LEMMA SeededMembers ==
  ASSUME NEW a \in Algorithm, NEW seed \in Seq(Byte), NEW t \in Seq(Of(Byte))
  PROVE  Fresh(a, [seeded(a, seed) EXCEPT !.state = t])
<1> DEFINE b == IF Initialized(a) THEN Zeroes(Size[a]) ELSE [i \in 1 .. Size[a] |-> Garbage]
           o == [seeded(a, seed) EXCEPT !.state = t]
           zero == 0
<1>1. /\ Size[a] \in Nat \ {0} /\ SizeMod \in Nat \ {0} /\ 0 \in Any /\ Garbage \in Any
      /\ Byte \in Contents
  BY Sizes, ContentsAre DEF Any, Contents
<1>2. b \in Block(Size[a], Any)
  <2>1. Zeroes(Size[a]) \in Block(Size[a], Any)
    BY <1>1, ZeroesType DEF Block
  <2>2. [i \in 1 .. Size[a] |-> Garbage] \in Block(Size[a], Any)
    BY <1>1 DEF Block
  <2> QED BY <2>1, <2>2
<1>3. o = Members(seed, t, zero, zero, b)
  <2> HIDE DEF b
  <2>1. seeded(a, seed) = [seed |-> seed, state |-> << >>, m |-> zero, n |-> zero, buffer |-> b]
    BY DEF seeded, b
  <2> HIDE DEF zero
  <2> QED BY <2>1 DEF Members
<1>4. zero \in 0 .. Size[a] - 1 /\ zero \in 0 .. SizeMod - 1
  BY <1>1
<1> HIDE DEF b, zero, o
<1>5. o \in Object(a, Byte)
  BY <1>2, <1>3, <1>4, MembersType
<1>6. o.m = zero /\ o.n = zero /\ o.buffer = b
  BY <1>3, MembersAre
<1>7. Held(o) = << >>
  BY <1>6, SubSeqEmpty DEF Held, zero
<1>8. << >> \in Seq(Byte) /\ 0 % Size[a] = 0
  <2>1. 0 \in 0 .. Size[a] - 1
    BY <1>1
  <2>2. 0 % Size[a] = 0
    BY <1>1, <2>1, ModSmall
  <2> QED BY <2>2
<1>9. o.n = 0 /\ o.m = 0
  BY <1>6 DEF zero
<1>10. Sound(a, o)
  BY <1>5, <1>7, <1>8, <1>9 DEF Sound, Proper, Agree
<1> QED BY <1>9, <1>10 DEF Fresh, o

LEMMA SeededFresh ==
  ASSUME NEW a \in Algorithm, NEW seed \in Seq(Byte)
  PROVE  Fresh(a, seeded(a, seed))
<1> DEFINE t == << >>
<1>1. t \in Seq(Of(Byte))
  OBVIOUS
<1>2. seeded(a, seed) = [seeded(a, seed) EXCEPT !.state = t]
  <2> DEFINE b == IF Initialized(a) THEN Zeroes(Size[a]) ELSE [i \in 1 .. Size[a] |-> Garbage]
             zero == 0
  <2>1. seeded(a, seed) = [seed |-> seed, state |-> t, m |-> zero, n |-> zero, buffer |-> b]
    BY DEF seeded
  <2> HIDE DEF b, zero, t
  <2> QED BY <2>1
<1> HIDE DEF t
<1>3. Fresh(a, [seeded(a, seed) EXCEPT !.state = t])
  BY <1>1, SeededMembers
<1> QED BY <1>2, <1>3

LEMMA ZeroBytes ==
  ASSUME NEW k \in Nat
  PROVE  Zeroes(k) \in Seq(Byte) /\ Zeroes(k) \in Block(k, Byte)
<1>1. 0 \in Byte
  BY SizeAssumption DEF Byte
<1> QED BY <1>1, ZeroesType DEF Block

LEMMA PadType ==
  ASSUME NEW k \in Nat, NEW p \in Seq(Byte)
  PROVE  Pad(k, p) \in Seq(Byte)
<1>1. Zeroes(k) \in Block(k, Byte) /\ 0 \in Nat
  BY ZeroBytes
<1>2. Pad(k, p) \in Block(k, Byte)
  BY <1>1, CopyToType DEF Pad
<1> DEFINE c == Pad(k, p)
<1>3. c \in Block(k, Byte)
  BY <1>2
<1> HIDE DEF c
<1>4. c \in Seq(Byte)
  BY <1>3 DEF Block
<1> QED BY <1>4 DEF c

LEMMA MixedSound ==
  ASSUME NEW a \in Algorithm, NEW o, Fresh(a, o), NEW p \in Seq(Byte), Len(p) < SizeMod
  PROVE  Sound(a, Mixed(a, o, p))
<1>1. Sound(a, o) /\ Counts(a, o, p)
  <2>1. Len(p) \in Nat
    BY LenProperties
  <2> QED BY <2>1 DEF Fresh, Counts
<1>2. Sound(a, update(a, o, p))
  BY <1>1, UpdateSound
<1>3. Sound(a, result(a, update(a, o, p)))
  BY <1>2, ResultSound
<1> QED BY <1>1, <1>3 DEF Mixed

LEMMA SplitSound ==
  ASSUME NEW a \in Algorithm, NEW k \in Nat, NEW p \in Seq(Byte), Len(p) < SizeMod
  PROVE  Sound(a, Split(a, k, p))
<1>1. CASE Len(p) <= k
  <2>1. Pad(k, p) \in Seq(Byte)
    BY PadType
  <2>2. Fresh(a, seeded(a, Pad(k, p)))
    BY <2>1, SeededFresh
  <2> QED BY <1>1, <2>2 DEF Split, Fresh
<1>2. CASE ~(Len(p) <= k)
  <2> DEFINE f == SubSeq(p, 1, k)
             l == SubSeq(p, k + 1, Len(p))
  <2>1. k \in 0 .. Len(p) /\ Len(p) \in Nat
    BY <1>2, LenProperties
  <2>2. f \in Seq(Byte) /\ l \in Seq(Byte) /\ Len(l) = Len(p) - k
    BY <2>1, CutInTwo
  <2>3. Len(l) < SizeMod
    BY <2>1, <2>2, SizeAssumption
  <2>4. Fresh(a, seeded(a, f))
    <3>1. f \in Seq(Byte)
      BY <2>2
    <3> HIDE DEF f
    <3> QED BY <3>1, SeededFresh
  <2>5. Split(a, k, p) = Mixed(a, seeded(a, f), l)
    BY <1>2 DEF Split
  <2>6. Sound(a, Mixed(a, seeded(a, f), l))
    <3>1. l \in Seq(Byte)
      BY <2>2
    <3> HIDE DEF f, l
    <3> QED BY <2>3, <2>4, <3>1, MixedSound
  <2> QED BY <2>5, <2>6
<1> QED BY <1>1, <1>2

LEMMA SeedSizes ==
  ASSUME NEW a \in Algorithm
  PROVE  HalfBytes \in Nat /\ SeedSize[a] \in Nat /\ SeedSize[a] \div 2 \in Nat
<1>1. HalfBytes \in Nat
  BY SizeAssumption
<1> DEFINE w == IF a \in {"xxhash_32", "murmur3_32"} THEN 1
                ELSE IF a \in {"siphash_32", "xxhash_64"} THEN 2 ELSE 4
<1>2. SeedSize[a] = HalfBytes * w /\ w \in Nat
  BY DEF SeedSize
<1> HIDE DEF w
<1>3. PICK k \in Nat : k = HalfBytes * w
  BY <1>1, <1>2
<1>4. k \div 2 \in Nat
  OBVIOUS
<1> QED BY <1>1, <1>2, <1>3, <1>4

LEMMA ConstructSound ==
  ASSUME NEW a \in Algorithm, NEW p \in Key
  PROVE  Sound(a, construct(a, p))
<1>1. p \in Seq(Byte) /\ Len(p) < SizeMod
  BY InputAssumption
<1>2. SeedSize[a] \in Nat /\ SeedSize[a] \div 2 \in Nat
  BY SeedSizes
<1>3. Fresh(a, Default(a))
  BY <1>2, ZeroBytes, SeededFresh DEF Default
<1>4. Sound(a, Default(a)) /\ Sound(a, Mixed(a, Default(a), p))
  BY <1>1, <1>3, MixedSound DEF Fresh
<1>5. Fresh(a, seeded(a, p))
  BY <1>1, SeededFresh
<1>6. Sound(a, Split(a, SeedSize[a], p))
  BY <1>1, <1>2, SplitSound
<1>7. CASE a \in Siphash
  <2>1. construct(a, p) = siphash_key(a, p)
    BY <1>7 DEF construct, Siphash, Xxhash
  <2> QED BY <1>4, <1>5, <2>1 DEF siphash_key, Fresh
<1>8. CASE a \in Xxhash
  <2>1. construct(a, p) = xxhash_key(a, p)
    BY <1>8 DEF construct, Siphash, Xxhash
  <2> QED BY <1>4, <2>1 DEF xxhash_key
<1>9. CASE a = "murmur3_32"
  <2>1. construct(a, p) = murmur3_32_key(p)
    BY <1>9 DEF construct, Siphash, Xxhash
  <2> QED BY <1>6, <1>9, <2>1 DEF murmur3_32_key
<1>10. CASE a = "murmur3_128"
  <2> DEFINE k == SeedSize[a]
             w == Pad(k \div 2, p)
             e == w \o w
  <2>1. construct(a, p) = murmur3_128_key(p)
    BY <1>10 DEF construct, Siphash, Xxhash
  <2>2. w \in Seq(Byte)
    BY <1>1, <1>2, PadType
  <2>3. e \in Seq(Byte)
    <3> HIDE DEF w
    <3> QED BY <2>2, ConcatProperties
  <2> HIDE DEF e
  <2>4. Sound(a, seeded(a, e))
    BY <2>3, SeededFresh DEF Fresh
  <2>5. construct(a, p) = IF Len(p) <= k \div 2 THEN seeded(a, e) ELSE Split(a, k, p)
    BY <1>10, <2>1 DEF murmur3_128_key, e
  <2> QED BY <1>6, <2>4, <2>5
<1>11. CASE a = "spooky2_128"
  <2>1. construct(a, p) = spooky2_key(p)
    BY <1>11 DEF construct, Siphash, Xxhash
  <2> QED BY <1>6, <1>11, <2>1 DEF spooky2_key
<1> QED BY <1>7, <1>8, <1>9, <1>10, <1>11, AlgorithmAssumption DEF Siphash, Xxhash

LEMMA HalfWordType ==
  ASSUME NEW v \in Nat
  PROVE  HalfWord(v) \in Seq(Byte)
<1>1. HalfBytes \in Nat /\ Radix \in Nat \ {0} /\ \A i \in 0 .. HalfBytes : Radix ^ i \in Nat \ {0}
  BY SizeAssumption
<1>2. ASSUME NEW i \in 1 .. HalfBytes PROVE (v \div Radix ^ (i - 1)) % Radix \in Byte
  <2>1. i - 1 \in 0 .. HalfBytes
    BY <1>1
  <2>2. PICK w \in Nat \ {0} : w = Radix ^ (i - 1)
    BY <1>1, <2>1
  <2>3. PICK q \in Nat : q = v \div w
    BY DivMod
  <2>4. q % Radix \in 0 .. Radix - 1
    BY <1>1, DivMod
  <2> QED BY <2>2, <2>3, <2>4 DEF Byte
<1> DEFINE f(i) == (v \div Radix ^ (i - 1)) % Radix
           H == [i \in 1 .. HalfBytes |-> f(i)]
<1>3. \A i \in 1 .. HalfBytes : f(i) \in Byte
  BY <1>2
<1> HIDE DEF f
<1>4. H \in Seq(Byte)
  BY <1>1, <1>3
<1> QED BY <1>4 DEF H, f, HalfWord

LEMMA SeedType ==
  ASSUME NEW s \in Seed
  PROVE  s[1] \in Nat /\ s[2] \in Nat /\ Bytes64(s) \in Seq(Byte)
<1>1. s \in (0 .. HalfMod - 1) \X (0 .. HalfMod - 1)
  BY SeedAssumption
<1>2. s[1] \in Nat /\ s[2] \in Nat
  BY <1>1
<1>3. HalfWord(s[1]) \in Seq(Byte) /\ HalfWord(s[2]) \in Seq(Byte)
  BY <1>2, HalfWordType
<1>4. HalfWord(s[1]) \o HalfWord(s[2]) \in Seq(Byte)
  BY <1>3, ConcatProperties
<1> QED BY <1>2, <1>4 DEF Bytes64

LEMMA TwoSeedsSound ==
  ASSUME NEW a \in Algorithm, NEW s, NEW t, Bytes64(s) \in Seq(Byte), Bytes64(t) \in Seq(Byte)
  PROVE  Sound(a, two_seeds(a, s, t))
<1> DEFINE e == Bytes64(s) \o Bytes64(t)
<1>1. e \in Seq(Byte)
  BY ConcatProperties
<1> HIDE DEF e
<1>2. Fresh(a, seeded(a, e))
  BY <1>1, SeededFresh
<1> QED BY <1>2 DEF two_seeds, e, Fresh

LEMMA IntegerSound ==
  ASSUME NEW a \in Algorithm, NEW s \in Seed
  PROVE  Sound(a, from_integer(a, s))
<1>1. s[1] \in Nat /\ s[2] \in Nat /\ Bytes64(s) \in Seq(Byte)
  BY SeedType
<1>2. HalfWord(s[1]) \in Seq(Byte) /\ HalfWord(s[2]) \in Seq(Byte)
  BY <1>1, HalfWordType
<1>3. HalfBytes \in Nat /\ 2 * HalfBytes \in Nat /\ HalfMod \in Nat \ {0} /\ P2 \in Nat
      /\ 0 \in 0 .. SizeMod - 1
  BY SizeAssumption DEF HalfMod
<1>4. ASSUME NEW op \in Kinds, NEW bytes \in Seq(Byte)
      PROVE  <<Token(op, bytes, 0)>> \in Seq(Of(Byte))
  <2> DEFINE x == Token(op, bytes, 0)
  <2>1. x \in Of(Byte)
    BY <1>3, TokenType
  <2> HIDE DEF x
  <2>2. <<x>> \in Seq(Of(Byte))
    BY <2>1
  <2> QED BY <2>2 DEF x
<1>5. CASE a \in {"siphash_32", "xxhash_64"}
  <2>1. from_integer(a, s) = seeded(a, Bytes64(s))
    BY <1>5 DEF from_integer
  <2> QED BY <1>1, <2>1, SeededFresh DEF Fresh
<1>6. CASE a = "siphash_64"
  <2> DEFINE e == Bytes64(s) \o Zeroes(2 * HalfBytes)
  <2>1. from_integer(a, s) = seeded(a, e)
    BY <1>6 DEF from_integer
  <2>2. Zeroes(2 * HalfBytes) \in Seq(Byte)
    BY <1>3, ZeroBytes
  <2>3. e \in Seq(Byte)
    BY <1>1, <2>2, ConcatProperties
  <2> HIDE DEF e
  <2> QED BY <2>1, <2>3, SeededFresh DEF Fresh
<1>7. CASE a = "xxhash_32"
  <2> DEFINE v == (s[1] + s[2] * P2) % HalfMod
             T == <<Token("round", << >>, 0)>>
  <2>1. v \in Nat
    <3>1. PICK e \in Nat : e = s[1] + s[2] * P2
      <4>1. s[2] * P2 \in Nat
        BY <1>1, <1>3
      <4>2. s[1] + s[2] * P2 \in Nat
        BY <1>1, <4>1
      <4> QED BY <4>2
    <3>2. e % HalfMod \in 0 .. HalfMod - 1
      BY <1>3, DivMod
    <3> QED BY <1>3, <3>1, <3>2
  <2>2. from_integer(a, s) = IF s[2] = 0 THEN seeded(a, HalfWord(s[1]))
                             ELSE [seeded(a, HalfWord(v)) EXCEPT !.state = T]
    BY <1>7 DEF from_integer, xxhash_32_seed
  <2>3. T \in Seq(Of(Byte))
    <3>1. << >> \in Seq(Byte) /\ "round" \in Kinds
      BY DEF Kinds
    <3> QED BY <1>4, <3>1
  <2>4. HalfWord(v) \in Seq(Byte)
    BY <2>1, HalfWordType
  <2> HIDE DEF v, T
  <2>5. Fresh(a, [seeded(a, HalfWord(v)) EXCEPT !.state = T])
    BY <2>3, <2>4, SeededMembers
  <2>6. Fresh(a, seeded(a, HalfWord(s[1])))
    BY <1>2, SeededFresh
  <2> QED BY <2>2, <2>5, <2>6 DEF Fresh
<1>8. CASE a = "murmur3_32"
  <2> DEFINE T == <<Token("block", HalfWord(s[2]), 0)>>
  <2>1. from_integer(a, s) = IF s[2] = 0 THEN seeded(a, HalfWord(s[1]))
                             ELSE [seeded(a, HalfWord(s[1])) EXCEPT !.state = T]
    BY <1>8 DEF from_integer, murmur3_32_seed
  <2>2. T \in Seq(Of(Byte))
    BY <1>2, <1>4 DEF Kinds
  <2> HIDE DEF T
  <2>3. Fresh(a, [seeded(a, HalfWord(s[1])) EXCEPT !.state = T])
    BY <1>2, <2>2, SeededMembers
  <2>4. Fresh(a, seeded(a, HalfWord(s[1])))
    BY <1>2, SeededFresh
  <2> QED BY <2>1, <2>3, <2>4 DEF Fresh
<1>9. CASE a = "murmur3_128"
  <2>1. from_integer(a, s) = two_seeds(a, s, s)
    BY <1>9 DEF from_integer
  <2> QED BY <1>1, <2>1, TwoSeedsSound
<1>10. CASE a = "spooky2_128"
  <2> DEFINE o == <<0, 0>>
  <2>1. from_integer(a, s) = two_seeds(a, s, o)
    BY <1>10 DEF from_integer
  <2>2. Bytes64(o) \in Seq(Byte)
    <3>1. HalfWord(0) \in Seq(Byte)
      BY HalfWordType
    <3>2. HalfWord(0) \o HalfWord(0) \in Seq(Byte)
      BY <3>1, ConcatProperties
    <3> QED BY <3>2 DEF Bytes64
  <2> HIDE DEF o
  <2> QED BY <1>1, <2>1, <2>2, TwoSeedsSound
<1> QED BY <1>5, <1>6, <1>7, <1>8, <1>9, <1>10, AlgorithmAssumption

(* Every object is constructed sound. *)
LEMMA InitSound ==
  ASSUME Init
  PROVE  alg \in Algorithm /\ Sound(alg, h)
<1>1. alg \in Algorithm
  BY DEF Init
<1>2. CASE \E p \in Key : h = construct(alg, p)
  BY <1>1, <1>2, ConstructSound
<1>3. CASE \E s \in Seed : h = from_integer(alg, s)
  BY <1>1, <1>3, IntegerSound
<1>4. CASE \E s, t \in Seed : h = two_seeds(alg, s, t)
  <2>1. PICK s \in Seed, t \in Seed : h = two_seeds(alg, s, t)
    BY <1>4
  <2>2. Bytes64(s) \in Seq(Byte) /\ Bytes64(t) \in Seq(Byte)
    BY SeedType
  <2> QED BY <1>1, <2>1, <2>2, TwoSeedsSound
<1> QED BY <1>1, <1>2, <1>3, <1>4 DEF Init
------------------------------------------------------------------------------
(* What h has taken in since start, whatever the buffer held *)

LEMMA ProperAny ==
  ASSUME NEW a, NEW o, Proper(a, Byte, o)
  PROVE  Proper(a, Any, o)
<1>1. o \in Object(a, Byte) /\ Held(o) \in Seq(Byte)
  BY DEF Proper
<1>2. Byte \subseteq Any
  BY DEF Any
<1>3. Seq(Byte) \subseteq Seq(Any)
  BY <1>2, SeqMonotonic
<1>4. Of(Byte) \subseteq Of(Any)
  BY <1>3 DEF Of
<1>5. Seq(Of(Byte)) \subseteq Seq(Of(Any))
  BY <1>4, SeqMonotonic
<1>6. o \in Object(a, Any)
  BY <1>1, <1>5 DEF Object
<1> QED BY <1>1, <1>3, <1>6 DEF Proper

TakenBy(a, st, tx, o) ==
  Took(a, Any, st.seed, st.state, (st.n + Len(tx)) % SizeMod, Held(st) \o tx, o)

Taken ==
  /\ alg \in Algorithm
  /\ text \in Seq(Byte)
  /\ Proper(alg, Any, start)
  /\ TakenBy(alg, start, text, h)

LEMMA TakenStart ==
  ASSUME NEW a \in Algorithm, NEW o, Proper(a, Any, o)
  PROVE  TakenBy(a, o, << >>, o)
<1>1. Any \in Contents
  BY DEF Contents
<1>2. Took(a, Any, o.seed, o.state, o.n, Held(o), o)
  BY <1>1, TookNothing
<1>3. o.n \in 0 .. SizeMod - 1 /\ SizeMod \in Nat \ {0}
  BY Sizes, ObjectIs DEF Proper
<1>4. (o.n + Len(<< >>)) % SizeMod = o.n
  <2>1. o.n % SizeMod = o.n
    BY <1>3, ModSmall
  <2>2. o.n + Len(<< >>) = o.n
    BY <1>3
  <2> QED BY <2>1, <2>2
<1>5. Held(o) \o << >> = Held(o)
  BY ConcatEmptySeq DEF Proper
<1> QED BY <1>2, <1>4, <1>5 DEF TakenBy

LEMMA TakenOn ==
  ASSUME NEW a \in Algorithm, NEW st, Proper(a, Any, st), NEW tx \in Seq(Byte),
         NEW o, TakenBy(a, st, tx, o), NEW p \in Seq(Byte)
  PROVE  TakenBy(a, st, tx \o p, update(a, o, p))
<1> DEFINE s == st.seed
           t == st.state
           n == st.n + Len(tx)
           d == Held(st) \o tx
<1>1. Any \in Contents /\ Byte \subseteq Any
  BY DEF Contents, Any
<1>2. tx \in Seq(Any) /\ p \in Seq(Any)
  BY <1>1, SeqMonotonic
<1>3. Held(st) \in Seq(Any) /\ t \in Seq(Of(Any)) /\ st.n \in Nat
  BY ObjectIs DEF Proper
<1>4. n \in Nat /\ Len(tx) \in Nat /\ Len(p) \in Nat
  BY <1>3, LenProperties
<1>5. d \in Seq(Any)
  BY <1>2, <1>3, ConcatProperties
<1>6. Took(a, Any, s, t, n % SizeMod, d, o)
  BY DEF TakenBy
<1>7. d \o p = Held(st) \o (tx \o p)
  BY <1>2, <1>3, ThreeParts, SMTT(30)
<1>8. n + Len(p) = st.n + Len(tx \o p)
  <2>1. Len(tx \o p) = Len(tx) + Len(p)
    BY ConcatProperties
  <2> QED BY <1>3, <1>4, <2>1
<1> HIDE DEF n, d, s, t
<1>9. t \in Seq(Of(Any)) /\ n \in Nat /\ d \in Seq(Any) /\ p \in Seq(Any)
  BY <1>2, <1>3, <1>4, <1>5
<1>10. Took(a, Any, s, t, (n + Len(p)) % SizeMod, d \o p, update(a, o, p))
  BY <1>1, <1>6, <1>9, TookOn
<1>11. Took(a, Any, s, t, (st.n + Len(tx \o p)) % SizeMod, Held(st) \o (tx \o p), update(a, o, p))
  BY <1>7, <1>8, <1>10, Zenon
<1> QED BY <1>11 DEF TakenBy, s, t

LEMMA TakenInitially ==
  ASSUME Init
  PROVE  Taken
<1>1. alg \in Algorithm /\ Proper(alg, Any, h)
  BY InitSound, ProperAny DEF Sound
<1>2. start = h /\ text = << >>
  BY DEF Init
<1>3. TakenBy(alg, h, << >>, h)
  BY <1>1, TakenStart
<1>4. << >> \in Seq(Byte)
  OBVIOUS
<1> QED BY <1>1, <1>2, <1>3, <1>4, Zenon DEF Taken

LEMMA TakenResult ==
  ASSUME Taken
  PROVE  /\ Proper(alg, Any, h) /\ Left(alg, Any, h, result(alg, h))
         /\ Proper(alg, Any, result(alg, h))
<1>1. alg \in Algorithm /\ Any \in Contents
  BY DEF Taken, Contents
<1>2. Proper(alg, Any, h)
  BY TookProper DEF Taken, TakenBy
<1>3. Left(alg, Any, h, result(alg, h))
  BY <1>1, <1>2, ResultLeaves
<1>4. Proper(alg, Any, result(alg, h))
  BY <1>1, <1>2, <1>3, LeftProper
<1> QED BY <1>2, <1>3, <1>4

LEMMA TakenStep ==
  ASSUME Taken, [Next]_vars
  PROVE  Taken'
<1>1. alg \in Algorithm /\ text \in Seq(Byte) /\ Proper(alg, Any, start)
      /\ TakenBy(alg, start, text, h)
  BY DEF Taken
<1>2. ASSUME NEW p \in Input, Update(p) PROVE Taken'
  <2>1. /\ h' = update(alg, h, p) /\ text' = text \o p
        /\ alg' = alg /\ start' = start
    BY <1>2 DEF Update
  <2>2. p \in Seq(Byte)
    BY InputAssumption
  <2>3. TakenBy(alg, start, text \o p, update(alg, h, p))
    BY <1>1, <2>2, TakenOn
  <2>4. text \o p \in Seq(Byte)
    BY <1>1, <2>2, ConcatProperties
  <2> QED BY <1>1, <2>1, <2>3, <2>4 DEF Taken
<1>3. CASE Result
  <2>1. h' = result(alg, h) /\ start' = h' /\ text' = << >> /\ alg' = alg
    BY <1>3 DEF Result
  <2>2. Proper(alg, Any, result(alg, h))
    BY TakenResult
  <2> DEFINE x == result(alg, h)
  <2>3. TakenBy(alg, x, << >>, x)
    <3> HIDE DEF x
    <3> QED BY <1>1, <2>2, TakenStart DEF x
  <2>4. << >> \in Seq(Byte)
    OBVIOUS
  <2> HIDE DEF x
  <2>5. h' = x /\ start' = x
    BY <2>1 DEF x
  <2> QED BY <1>1, <2>1, <2>2, <2>3, <2>4, <2>5 DEF Taken, x
<1>4. CASE UNCHANGED vars
  BY <1>1, <1>4 DEF Taken, vars
<1> QED BY <1>2, <1>3, <1>4 DEF Next

LEMMA TakenSplits ==
  ASSUME Taken
  PROVE  SplitsDoNotMatter
<1>1. alg \in Algorithm /\ text \in Seq(Byte) /\ Proper(alg, Any, start) /\ Any \in Contents
  BY DEF Taken, Contents
<1>2. text \in Seq(Any)
  <2>1. Byte \subseteq Any
    BY DEF Any
  <2> QED BY <1>1, <2>1, SeqMonotonic
<1> DEFINE s == start.seed
           t == start.state
           n == (start.n + Len(text)) % SizeMod
           d == Held(start) \o text
           y == update(alg, start, text)
<1>3. Took(alg, Any, s, t, n, d, y)
  BY <1>1, <1>2, UpdateTakes
<1>4. Took(alg, Any, s, t, n, d, h)
  BY DEF Taken, TakenBy
<1> HIDE DEF s, t, n, d, y
<1>5. Visible(h) = Visible(y)
  BY <1>3, <1>4, TookAlike
<1> QED BY <1>5 DEF SplitsDoNotMatter, y

LEMMA SpecTaken == Spec => []Taken
<1>1. Init => Taken
  BY TakenInitially
<1>2. Taken /\ [Next]_vars => Taken'
  BY TakenStep
<1> QED BY <1>1, <1>2, PTL DEF Spec

(* However a message is split into calls of update, an object that buffers *)
(* its tail is the same as far as later calls can tell: for every size of  *)
(* a block and counter, also where n_ wraps and where the buffer was never *)
(* initialized.                                                            *)
THEOREM Splits == Spec => []SplitsDoNotMatter
<1>1. Taken => SplitsDoNotMatter
  BY TakenSplits
<1> QED BY <1>1, SpecTaken, PTL
------------------------------------------------------------------------------
(* Counters *)

(* 192 does not divide 2^64: the assertions of spooky2_128 need messages   *)
(* that n_ can count.                                                      *)
NoWrap == [][\A p \in Input : Update(p) => Counts(alg, h, p)]_vars

Inv == alg \in Algorithm /\ Sound(alg, h)

LEMMA InvStep ==
  ASSUME Inv, [Next]_vars, [\A p \in Input : Update(p) => Counts(alg, h, p)]_vars
  PROVE  Inv'
<1>1. alg \in Algorithm /\ Sound(alg, h)
  BY DEF Inv
<1>2. CASE UNCHANGED vars
  BY <1>1, <1>2 DEF Inv, vars
<1>3. ASSUME NEW p \in Input, Update(p), \A q \in Input : Update(q) => Counts(alg, h, q)
      PROVE  Inv'
  <2>1. h' = update(alg, h, p) /\ alg' = alg
    BY <1>3 DEF Update
  <2>2. p \in Seq(Byte) /\ Counts(alg, h, p)
    BY <1>3, InputAssumption
  <2>3. Sound(alg, update(alg, h, p))
    BY <1>1, <2>2, UpdateSound
  <2> QED BY <1>1, <2>1, <2>3 DEF Inv
<1>4. CASE Result
  <2>1. h' = result(alg, h) /\ alg' = alg
    BY <1>4 DEF Result
  <2>2. Sound(alg, result(alg, h))
    BY <1>1, ResultSound
  <2> QED BY <1>1, <2>1, <2>2 DEF Inv
<1> QED BY <1>2, <1>3, <1>4 DEF Next

LEMMA SpecInv == Spec /\ NoWrap => []Inv
<1>1. Init => Inv
  BY InitSound DEF Inv
<1>2. Inv /\ [Next]_vars /\ [\A p \in Input : Update(p) => Counts(alg, h, p)]_vars => Inv'
  BY InvStep
<1> QED BY <1>1, <1>2, PTL DEF Spec, NoWrap

(* Nothing that an object took in or that counts in its buffer is a byte   *)
(* nobody wrote.                                                           *)
THEOREM TypeCorrect == Spec /\ NoWrap => []TypeOK
<1>1. Inv => TypeOK
  <2> SUFFICES ASSUME Inv PROVE TypeOK
    OBVIOUS
  <2>1. h \in Object(alg, Byte) /\ Held(h) \in Seq(Byte)
    BY DEF Inv, Sound, Proper
  <2>2. h.m \in 0 .. Size[alg] - 1 /\ h.n \in 0 .. SizeMod - 1 /\ h.state \in Seq(Of(Byte))
    BY <2>1, ObjectIs
  <2> QED BY <2>1, <2>2 DEF TypeOK, Of, Kinds
<1> QED BY <1>1, SpecInv, PTL

(* m_ == n_ % N, which update and result assert on entry: a result rounds  *)
(* n_ up to whole blocks, and spooky2_128 sets it to zero where it wraps.  *)
THEOREM Counters == Spec /\ NoWrap => []CountersAgree
<1>1. Inv => CountersAgree
  BY DEF Inv, Sound, Agree, CountersAgree
<1> QED BY <1>1, SpecInv, PTL

------------------------------------------------------------------------------
(* A second result *)

LEMMA LeftState ==
  ASSUME NEW a \in Algorithm \ Murmur3, NEW B \in Contents, NEW o, Proper(a, B, o),
         NEW x, Left(a, B, o, x)
  PROVE  /\ Len(o.state) \in Nat /\ Len(x.state) \in Nat /\ Len(x.state) > Len(o.state)
<1>1. o.state \in Seq(Of(B))
  BY ObjectIs DEF Proper
<1>2. PICK T \in Seq(Of(B)) :
        /\ Len(T) > 0
        /\ x = Members(o.seed, o.state \o T, 0, Rounded(a, o), Zeroes(Size[a]))
  BY DEF Left
<1> DEFINE t == o.state \o T
<1>3. x.state = t
  BY <1>2 DEF Members
<1>4. t \in Seq(Of(B)) /\ Len(t) = Len(o.state) + Len(T)
  BY <1>1, ConcatProperties
<1> HIDE DEF t
<1>5. Len(o.state) \in Nat /\ Len(T) \in Nat
  BY <1>1, LenProperties
<1> QED BY <1>2, <1>3, <1>4, <1>5

(* How much state goes into a digest. *)
LEMMA DigestState ==
  ASSUME NEW a \in Algorithm, NEW B \in Contents, NEW o, Proper(a, B, o)
  PROVE  /\ a \in Siphash \cup {"spooky2_128"} => ResultOf(a, o).state = result(a, o).state
         /\ a \in Xxhash => Len(ResultOf(a, o).state) = Len(o.state)
         /\ a \in Murmur3 => ResultOf(a, o).n = o.n
<1>1. o \in Object(a, B) /\ o.state \in Seq(Of(B))
  BY ObjectIs DEF Proper
<1>2. CASE a \in Siphash
  <2> DEFINE y == siphash_last(a, o)
  <2>1. ResultOf(a, o) = Digest(o, y.state, << >>, 0) /\ result(a, o) = Wipe(a, y)
    BY <1>2 DEF ResultOf, result, Siphash, Xxhash, Murmur3
  <2> HIDE DEF y
  <2>2. Wipe(a, y).state = y.state
    BY DEF Wipe
  <2>3. Digest(o, y.state, << >>, 0).state = y.state
    BY DEF Digest
  <2> QED BY <1>2, <2>1, <2>2, <2>3 DEF Siphash, Xxhash, Murmur3
<1>3. CASE a \in Xxhash
  <2> DEFINE t == IF o.n >= Size[a] THEN o.state ELSE Third(a, o.state)
  <2>1. ResultOf(a, o) = Digest(o, t, Held(o), o.n)
    BY <1>3 DEF ResultOf, Siphash, Xxhash, Murmur3
  <2>2. Len(Third(a, o.state)) = Len(o.state)
    BY <1>1 DEF Third
  <2>3. Len(t) = Len(o.state)
    BY <2>2
  <2>4. Digest(o, t, Held(o), o.n).state = t
    BY DEF Digest
  <2> QED BY <1>3, <2>1, <2>3, <2>4 DEF Siphash, Xxhash, Murmur3
<1>4. CASE a \in Murmur3
  <2>1. ResultOf(a, o) = Digest(o, o.state, Held(o), o.n)
    BY <1>4 DEF ResultOf, Siphash, Xxhash, Murmur3
  <2> QED BY <1>4, <2>1 DEF Digest, Siphash, Xxhash, Murmur3
<1>5. CASE a = "spooky2_128"
  <2> DEFINE y == spooky2_last(o)
  <2>1. ResultOf(a, o) = Digest(o, y.state, << >>, 0) /\ result(a, o) = spooky2_wrap(Wipe(a, y))
    BY <1>5 DEF ResultOf, result, Siphash, Xxhash, Murmur3
  <2> HIDE DEF y
  <2>2. Wipe(a, y).state = y.state
    BY DEF Wipe
  <2> DEFINE w == Wipe(a, y)
  <2>3. w.state = y.state
    BY <2>2
  <2> HIDE DEF w
  <2>4. spooky2_wrap(w).state = w.state
    BY DEF spooky2_wrap
  <2>5. Digest(o, y.state, << >>, 0).state = y.state
    BY DEF Digest
  <2> QED BY <1>5, <2>1, <2>3, <2>4, <2>5 DEF Siphash, Xxhash, Murmur3, w
<1> QED BY <1>2, <1>3, <1>4, <1>5, AlgorithmAssumption DEF Siphash, Xxhash, Murmur3

LEMMA RoundedMoves ==
  ASSUME NEW a \in Algorithm \cap Murmur3, NEW B, NEW o \in Object(a, B)
  PROVE  Rounded(a, o) # o.n
<1> DEFINE z == Size[a]
           n == o.n
           m == o.m
           M == SizeMod
<1>1. z \in Nat \ {0} /\ M \in Nat \ {0} /\ n \in 0 .. M - 1 /\ m \in 0 .. z - 1 /\ z < M
  BY Sizes, ObjectIs
<1>2. Rounded(a, o) = (n + z - m) % M
  BY DEF Rounded, Murmur3
<1> HIDE DEF z, n, m, M
<1>3. PICK k \in 1 .. M - 1 : k = z - m
  <2>1. z - m \in 1 .. M - 1
    BY <1>1
  <2> QED BY <2>1
<1>4. n + z - m = n + k
  BY <1>1, <1>3
<1>5. CASE n + k < M
  <2>1. n + k \in 0 .. M - 1
    BY <1>1, <1>5
  <2>2. (n + k) % M = n + k
    BY <1>1, <2>1, ModSmall
  <2>3. n + k # n
    BY <1>1, <1>3
  <2> QED BY <1>2, <1>4, <2>2, <2>3 DEF n
<1>6. CASE ~(n + k < M)
  <2>1. PICK d \in 0 .. M - 1 : d = n + k - M
    <3>1. n + k - M \in 0 .. M - 1
      BY <1>1, <1>6
    <3> QED BY <3>1
  <2>2. (M * 1 + d) % M = d
    BY <1>1, DivModOf
  <2>3. M * 1 + d = n + k /\ d # n
    BY <1>1, <1>3, <2>1
  <2> QED BY <1>2, <1>4, <2>2, <2>3 DEF n
<1> QED BY <1>5, <1>6

LEMMA SecondResult ==
  ASSUME Taken, Result
  PROVE  ResultOf(alg, h') # digest'
<1> DEFINE a == alg
           o == h
           x == result(alg, h)
<1>1. a \in Algorithm /\ Any \in Contents
  BY DEF Taken, Contents
<1>2. Proper(a, Any, o) /\ Left(a, Any, o, x) /\ Proper(a, Any, x)
  BY TakenResult
<1>3. h' = x /\ digest' = ResultOf(a, o)
  BY DEF Result
<1>4. Left(a, Any, x, result(a, x))
  BY <1>1, <1>2, ResultLeaves
<1>5. result(a, o) = x
  OBVIOUS
<1> HIDE DEF x, a, o
<1>6. SUFFICES ResultOf(a, x) # ResultOf(a, o)
  BY <1>3 DEF a
<1>7. CASE a \in Murmur3
  <2>1. ResultOf(a, o).n = o.n /\ ResultOf(a, x).n = x.n
    BY <1>1, <1>2, <1>7, DigestState
  <2>2. x.n = Rounded(a, o)
    BY <1>1, <1>2, LeftProper
  <2>3. o \in Object(a, Any)
    BY <1>2 DEF Proper
  <2>4. Rounded(a, o) # o.n
    BY <1>1, <1>7, <2>3, RoundedMoves
  <2> QED BY <2>1, <2>2, <2>4
<1>8. CASE a \in Xxhash
  <2>1. a \in Algorithm \ Murmur3
    BY <1>1, <1>8 DEF Xxhash, Murmur3
  <2>2. Len(ResultOf(a, o).state) = Len(o.state) /\ Len(ResultOf(a, x).state) = Len(x.state)
    BY <1>1, <1>2, <1>8, DigestState
  <2>3. Len(o.state) \in Nat /\ Len(x.state) \in Nat /\ Len(x.state) > Len(o.state)
    BY <1>1, <1>2, <2>1, LeftState
  <2> QED BY <2>2, <2>3
<1>9. CASE a \in Siphash \cup {"spooky2_128"}
  <2>1. a \in Algorithm \ Murmur3
    BY <1>1, <1>9 DEF Siphash, Murmur3
  <2>2. ResultOf(a, o).state = x.state /\ ResultOf(a, x).state = result(a, x).state
    BY <1>1, <1>2, <1>5, <1>9, DigestState
  <2>3. Len(x.state) \in Nat /\ Len(result(a, x).state) > Len(x.state)
    BY <1>1, <1>2, <1>4, <2>1, LeftState
  <2> QED BY <2>2, <2>3
<1> QED BY <1>1, <1>7, <1>8, <1>9, AlgorithmAssumption DEF Siphash, Xxhash, Murmur3

(* A second result is not the first one again: the object went on, in its  *)
(* words or, of murmur3, in n_.                                            *)
THEOREM FreshResults == Spec => ResultsDiffer
<1>1. Taken /\ [Next]_vars => [Result => ResultOf(alg, h') # digest']_vars
  <2> SUFFICES ASSUME Taken, Result PROVE ResultOf(alg, h') # digest'
    OBVIOUS
  <2> QED BY SecondResult
<1> QED BY <1>1, SpecTaken, PTL DEF Spec, ResultsDiffer
------------------------------------------------------------------------------
(* Integral seeds *)

(* The digits of a word determine it: dropping one digit at a time, from   *)
(* the highest, what is left of two words with the same digits is equal.   *)
LEMMA HalfWordDigits ==
  ASSUME NEW v \in 0 .. HalfMod - 1, NEW w \in 0 .. HalfMod - 1,
         HalfWord(v) = HalfWord(w)
  PROVE  v = w
<1> DEFINE H == HalfBytes
           P(i) == Radix ^ i
           S == {k \in Nat : k <= H => v \div P(H - k) = w \div P(H - k)}
<1>1. /\ H \in Nat \ {0} /\ Radix \in Nat \ {0} /\ \A i \in 0 .. H : P(i) \in Nat \ {0}
      /\ P(0) = 1 /\ \A i \in 0 .. H - 1 : P(i + 1) = Radix * P(i)
  BY SizeAssumption, PowerAssumption
<1>2. v \in 0 .. P(H) - 1 /\ w \in 0 .. P(H) - 1 /\ P(H) \in Nat \ {0}
  BY <1>1 DEF HalfMod
<1>3. \A i \in 1 .. H : (v \div P(i - 1)) % Radix = (w \div P(i - 1)) % Radix
  <2> SUFFICES ASSUME NEW i \in 1 .. H
               PROVE  (v \div P(i - 1)) % Radix = (w \div P(i - 1)) % Radix
    OBVIOUS
  <2>1. HalfWord(v)[i] = HalfWord(w)[i]
    OBVIOUS
  <2> QED BY <2>1 DEF HalfWord
<1> HIDE DEF H, P
<1>4. 0 \in S
  <2>1. v = P(H) * 0 + v /\ w = P(H) * 0 + w
    BY <1>2
  <2>2. (P(H) * 0 + v) \div P(H) = 0 /\ (P(H) * 0 + w) \div P(H) = 0
    BY <1>2, DivModOf
  <2>3. v \div P(H) = 0 /\ w \div P(H) = 0
    BY <2>1, <2>2
  <2>4. H - 0 = H
    BY <1>1
  <2> QED BY <2>3, <2>4
<1>5. \A k \in 0 .. H - 1 : k \in S => k + 1 \in S
  <2> SUFFICES ASSUME NEW k \in 0 .. H - 1, k \in S
               PROVE  v \div P(H - (k + 1)) = w \div P(H - (k + 1))
    BY <1>1
  <2>1. PICK j \in 0 .. H - 1 : j = H - (k + 1)
    BY <1>1
  <2>2. H - k = j + 1 /\ k <= H /\ j \in 0 .. H /\ j + 1 \in 1 .. H /\ (j + 1) - 1 = j
    BY <1>1, <2>1
  <2>3. v \div P(j + 1) = w \div P(j + 1)
    BY <2>2
  <2>4. P(j + 1) = Radix * P(j) /\ P(j) \in Nat \ {0} /\ v \in Nat /\ w \in Nat
    BY <1>1, <1>2, <2>2
  <2> DEFINE x == v \div P(j)
             y == w \div P(j)
  <2>5. x \in Nat /\ y \in Nat
    BY <2>4, DivMod
  <2>6. x \div Radix = y \div Radix
    BY <1>1, <2>3, <2>4, DivDiv
  <2>7. x % Radix = y % Radix
    BY <1>3, <2>2
  <2> HIDE DEF x, y
  <2>8. x = Radix * (x \div Radix) + (x % Radix) /\ y = Radix * (y \div Radix) + (y % Radix)
    BY <1>1, <2>5, DivMod
  <2>9. x = y
    BY <2>6, <2>7, <2>8
  <2> QED BY <2>1, <2>9 DEF x, y
<1>6. H \in 0 .. H
  BY <1>1
<1>7. H \in S
  <2> HIDE DEF S
  <2> QED BY <1>1, <1>4, <1>5, <1>6, Induction
<1>8. v \div P(0) = w \div P(0) /\ P(0) = 1
  <2>1. H <= H /\ H - H = 0
    BY <1>1
  <2> QED BY <1>1, <1>7, <2>1
<1> QED BY <1>2, <1>8

LEMMA HalfWordIs ==
  ASSUME NEW v \in 0 .. HalfMod - 1
  PROVE  HalfWord(v) \in Seq(Nat) /\ Len(HalfWord(v)) = HalfBytes
<1>1. HalfBytes \in Nat /\ Radix \in Nat \ {0} /\ v \in Nat
  BY SizeAssumption DEF HalfMod
<1>2. \A i \in 1 .. HalfBytes : (v \div Radix ^ (i - 1)) % Radix \in Nat
  <2> SUFFICES ASSUME NEW i \in 1 .. HalfBytes
               PROVE  (v \div Radix ^ (i - 1)) % Radix \in Nat
    OBVIOUS
  <2>1. i - 1 \in 0 .. HalfBytes
    BY <1>1
  <2>2. PICK p \in Nat \ {0} : p = Radix ^ (i - 1)
    BY <2>1, SizeAssumption
  <2>3. v \div p \in Nat
    BY <1>1, DivMod
  <2>4. (v \div p) % Radix \in Nat
    BY <1>1, <2>3, DivMod
  <2> QED BY <2>2, <2>4
<1>3. HalfWord(v) \in [1 .. HalfBytes -> Nat]
  BY <1>2 DEF HalfWord
<1> QED BY <1>1, <1>3

LEMMA HalfWordZero == HalfWord(0) = Zeroes(HalfBytes)
<1>1. \A i \in 1 .. HalfBytes : (0 \div Radix ^ (i - 1)) % Radix = 0
  <2> SUFFICES ASSUME NEW i \in 1 .. HalfBytes
               PROVE  (0 \div Radix ^ (i - 1)) % Radix = 0
    OBVIOUS
  <2>1. i - 1 \in 0 .. HalfBytes /\ Radix \in Nat \ {0}
    BY SizeAssumption
  <2>2. PICK p \in Nat \ {0} : p = Radix ^ (i - 1)
    BY <2>1, SizeAssumption
  <2>3. 0 \div p = 0
    <3>1. p * 0 + 0 = 0 /\ 0 \in 0 .. p - 1
      OBVIOUS
    <3> QED BY <3>1, DivModOf
  <2>4. 0 % Radix = 0
    <3>1. Radix * 0 + 0 = 0 /\ 0 \in 0 .. Radix - 1
      BY <2>1
    <3> QED BY <2>1, <3>1, DivModOf
  <2> QED BY <2>2, <2>3, <2>4
<1> QED BY <1>1 DEF HalfWord, Zeroes

(* Two sequences with the same whole and parts as long are the same. *)
LEMMA SameParts ==
  ASSUME NEW B, NEW x \in Seq(B), NEW y \in Seq(B), NEW u \in Seq(B), NEW w \in Seq(B),
         Len(x) = Len(u), x \o y = u \o w
  PROVE  x = u /\ y = w
<1>1. x = u
  BY SameWhole
<1>2. Len(x) + Len(y) = Len(u) + Len(w)
  BY SameWhole
<1>3. Len(y) = Len(w) /\ Len(x) \in Nat /\ Len(y) \in Nat
  BY <1>2
<1>4. \A i \in 1 .. Len(y) : y[i] = w[i]
  <2> SUFFICES ASSUME NEW i \in 1 .. Len(y) PROVE y[i] = w[i]
    OBVIOUS
  <2>1. i \in 1 .. Len(y) /\ i \in 1 .. Len(w) /\ Len(x) = Len(u)
    BY <1>3
  <2>2. ASSUME NEW s \in Seq(B), NEW t \in Seq(B), i \in 1 .. Len(t)
        PROVE  (s \o t)[Len(s) + i] = t[i]
    <3>1. \A k \in 1 .. Len(s) + Len(t) :
            (s \o t)[k] = IF k <= Len(s) THEN s[k] ELSE t[k - Len(s)]
      BY ConcatProperties, ZenonT(60)
    <3>2. /\ Len(s) + i \in 1 .. Len(s) + Len(t) /\ ~(Len(s) + i <= Len(s))
          /\ Len(s) + i - Len(s) = i
      BY <2>2, LenProperties
    <3> QED BY <3>1, <3>2
  <2>3. (x \o y)[Len(x) + i] = y[i] /\ (u \o w)[Len(u) + i] = w[i]
    BY <2>1, <2>2
  <2> QED BY <2>1, <2>3
<1> QED BY <1>1, <1>3, <1>4, SeqEqual

LEMMA ZeroesConcat ==
  ASSUME NEW j \in Nat, NEW k \in Nat
  PROVE  Zeroes(j) \o Zeroes(k) = Zeroes(j + k)
  BY DEF Zeroes

LEMMA Bytes64Is ==
  ASSUME NEW s \in Seed
  PROVE  /\ Bytes64(s) \in Seq(Nat) /\ Len(Bytes64(s)) = HalfBytes + HalfBytes
         /\ s[1] \in 0 .. HalfMod - 1 /\ s[2] \in 0 .. HalfMod - 1
<1>1. s[1] \in 0 .. HalfMod - 1 /\ s[2] \in 0 .. HalfMod - 1
  BY SeedAssumption
<1>2. /\ HalfWord(s[1]) \in Seq(Nat) /\ Len(HalfWord(s[1])) = HalfBytes
      /\ HalfWord(s[2]) \in Seq(Nat) /\ Len(HalfWord(s[2])) = HalfBytes
  BY <1>1, HalfWordIs
<1> QED BY <1>1, <1>2, ConcatProperties, ZenonT(60) DEF Bytes64

LEMMA Bytes64Differ ==
  ASSUME NEW s \in Seed, NEW t \in Seed, Bytes64(s) = Bytes64(t)
  PROVE  s = t
<1>1. /\ s[1] \in 0 .. HalfMod - 1 /\ s[2] \in 0 .. HalfMod - 1
      /\ t[1] \in 0 .. HalfMod - 1 /\ t[2] \in 0 .. HalfMod - 1
  BY Bytes64Is
<1>2. HalfWord(s[1]) = HalfWord(t[1]) /\ HalfWord(s[2]) = HalfWord(t[2])
  <2>1. /\ HalfWord(s[1]) \in Seq(Nat) /\ Len(HalfWord(s[1])) = HalfBytes
        /\ HalfWord(t[1]) \in Seq(Nat) /\ Len(HalfWord(t[1])) = HalfBytes
        /\ HalfWord(s[2]) \in Seq(Nat) /\ HalfWord(t[2]) \in Seq(Nat)
    BY <1>1, HalfWordIs
  <2>2. HalfWord(s[1]) \o HalfWord(s[2]) = HalfWord(t[1]) \o HalfWord(t[2])
    BY DEF Bytes64
  <2>3. Len(HalfWord(s[1])) = Len(HalfWord(t[1]))
    BY <2>1
  <2> DEFINE x == HalfWord(s[1])
             y == HalfWord(s[2])
             u == HalfWord(t[1])
             w == HalfWord(t[2])
  <2>4. x \in Seq(Nat) /\ y \in Seq(Nat) /\ u \in Seq(Nat) /\ w \in Seq(Nat)
    BY <2>1
  <2>5. Len(x) = Len(u) /\ x \o y = u \o w
    BY <2>2, <2>3
  <2> HIDE DEF x, y, u, w
  <2>6. x = u /\ y = w
    BY <2>4, <2>5, SameParts
  <2> QED BY <2>6 DEF x, y, u, w
<1>3. s[1] = t[1] /\ s[2] = t[2]
  BY <1>1, <1>2, HalfWordDigits
<1>4. s = <<s[1], s[2]>> /\ t = <<t[1], t[2]>>
  BY SeedAssumption
<1> QED BY <1>3, <1>4

(* What a constructor from an integer puts into the words of a class that  *)
(* has room for 64 bits.                                                   *)
LEMMA SeedWords ==
  ASSUME NEW a \in Algorithm, a \notin {"xxhash_32", "murmur3_32"},
         NEW s \in Seed, NEW t \in Seed,
         from_integer(a, s).seed = from_integer(a, t).seed
  PROVE  s = t
<1>1. /\ Bytes64(s) \in Seq(Nat) /\ Len(Bytes64(s)) = HalfBytes + HalfBytes
      /\ Bytes64(t) \in Seq(Nat) /\ Len(Bytes64(t)) = HalfBytes + HalfBytes
  BY Bytes64Is
<1>2. SUFFICES Bytes64(s) = Bytes64(t)
  BY Bytes64Differ
<1>3. CASE a \in {"siphash_32", "xxhash_64"}
  <2>1. from_integer(a, s).seed = Bytes64(s) /\ from_integer(a, t).seed = Bytes64(t)
    BY <1>3 DEF from_integer, seeded
  <2> QED BY <2>1
<1>4. ASSUME NEW x \in Seq(Nat), NEW y \in Seq(Nat),
             Bytes64(s) \o x = Bytes64(t) \o y
      PROVE  Bytes64(s) = Bytes64(t)
  <2>1. Len(Bytes64(s)) = Len(Bytes64(t))
    BY <1>1
  <2> QED BY <1>1, <1>4, <2>1, SameParts, ZenonT(60)
<1>5. CASE a = "siphash_64"
  <2>1. /\ from_integer(a, s).seed = Bytes64(s) \o Zeroes(2 * HalfBytes)
        /\ from_integer(a, t).seed = Bytes64(t) \o Zeroes(2 * HalfBytes)
    BY <1>5 DEF from_integer, seeded
  <2>2. Zeroes(2 * HalfBytes) \in Seq(Nat)
    <3>1. 2 * HalfBytes \in Nat
      BY SizeAssumption
    <3> QED BY <3>1, ZeroesType
  <2> QED BY <1>4, <2>1, <2>2
<1>6. CASE a = "murmur3_128"
  <2>1. /\ from_integer(a, s).seed = Bytes64(s) \o Bytes64(s)
        /\ from_integer(a, t).seed = Bytes64(t) \o Bytes64(t)
    BY <1>6 DEF from_integer, two_seeds, seeded
  <2> QED BY <1>1, <1>4, <2>1
<1>7. CASE a = "spooky2_128"
  <2>1. /\ from_integer(a, s).seed = Bytes64(s) \o Bytes64(<<0, 0>>)
        /\ from_integer(a, t).seed = Bytes64(t) \o Bytes64(<<0, 0>>)
    BY <1>7 DEF from_integer, two_seeds, seeded
  <2>2. Bytes64(<<0, 0>>) \in Seq(Nat)
    <3>1. Bytes64(<<0, 0>>) = Zeroes(HalfBytes) \o Zeroes(HalfBytes)
      BY HalfWordZero DEF Bytes64
    <3>2. Zeroes(HalfBytes) \in Seq(Nat)
      BY SizeAssumption, ZeroesType
    <3> QED BY <3>1, <3>2, ConcatProperties
  <2> QED BY <1>4, <2>1, <2>2
<1> QED BY <1>3, <1>5, <1>6, <1>7, AlgorithmAssumption

(* The integer 0 constructs the default object.                            *)
LEMMA ZeroSeed ==
  ASSUME NEW a \in Algorithm, a \notin {"xxhash_32", "murmur3_32"}
  PROVE  from_integer(a, <<0, 0>>) = Default(a)
<1> DEFINE z == <<0, 0>>
           H == HalfBytes
<1>1. H \in Nat /\ 2 * H = H + H /\ 4 * H = (H + H) + (H + H)
      /\ H + H \in Nat
  BY SizeAssumption
<1>2. Bytes64(z) = Zeroes(2 * H)
  <2>1. Bytes64(z) = Zeroes(H) \o Zeroes(H)
    BY HalfWordZero DEF Bytes64
  <2> QED BY <1>1, <2>1, ZeroesConcat
<1>3. Zeroes(2 * H) \o Zeroes(2 * H) = Zeroes(4 * H)
  BY <1>1, ZeroesConcat
<1>4. CASE a \in {"siphash_32", "xxhash_64"}
  <2>1. SeedSize[a] = H * 2 /\ H * 2 = 2 * H
    BY <1>1, <1>4 DEF SeedSize
  <2>2. from_integer(a, z) = seeded(a, Bytes64(z))
    BY <1>4 DEF from_integer
  <2> QED BY <1>2, <2>1, <2>2 DEF Default
<1>5. CASE a \in {"siphash_64", "murmur3_128", "spooky2_128"}
  <2>1. SeedSize[a] = H * 4 /\ H * 4 = 4 * H
    BY <1>1, <1>5 DEF SeedSize
  <2>2. from_integer(a, z) = seeded(a, Zeroes(4 * H))
    <3>1. CASE a = "siphash_64"
      BY <1>2, <1>3, <3>1 DEF from_integer
    <3>2. CASE a = "murmur3_128"
      BY <1>2, <1>3, <3>2 DEF from_integer, two_seeds
    <3>3. CASE a = "spooky2_128"
      BY <1>2, <1>3, <3>3 DEF from_integer, two_seeds
    <3> QED BY <1>5, <3>1, <3>2, <3>3
  <2> QED BY <2>1, <2>2 DEF Default
<1> QED BY <1>4, <1>5, AlgorithmAssumption

(* A class whose words have room for a 64-bit integer makes another object *)
(* of each, and of 0 the default one.                                      *)
THEOREM DistinctSeeds == Spec => []WideSeedsDiffer
<1>1. Taken => WideSeedsDiffer
  <2> SUFFICES ASSUME Taken, alg \notin {"xxhash_32", "murmur3_32"} PROVE SeedsDiffer
    BY DEF WideSeedsDiffer
  <2>1. alg \in Algorithm
    BY DEF Taken
  <2>2. ASSUME NEW s \in Seed, NEW t \in Seed,
               Visible(from_integer(alg, s)) = Visible(from_integer(alg, t))
        PROVE  s = t
    <3>1. from_integer(alg, s).seed = from_integer(alg, t).seed
      BY <2>2 DEF Visible
    <3> QED BY <2>1, <3>1, SeedWords
  <2> QED BY <2>1, <2>2, ZeroSeed DEF SeedsDiffer
<1> QED BY <1>1, SpecTaken, PTL
------------------------------------------------------------------------------
(* What a digest tells of the message *)

LEMMA AppendSame ==
  ASSUME NEW S, NEW s \in Seq(S), NEW t \in Seq(S), NEW x \in S, NEW y \in S,
         Append(s, x) = Append(t, y)
  PROVE  s = t /\ x = y
<1>1. Append(s, x) = s \o <<x>> /\ Append(t, y) = t \o <<y>>
  BY SMTT(30)
<1>2. <<x>> \in Seq(S) /\ <<y>> \in Seq(S) /\ Len(<<x>>) = 1 /\ Len(<<y>>) = 1
  OBVIOUS
<1>3. Len(s) \in Nat /\ Len(t) \in Nat
  OBVIOUS
<1> DEFINE u == <<x>>
           v == <<y>>
<1>4. u \in Seq(S) /\ v \in Seq(S) /\ Len(u) = 1 /\ Len(v) = 1 /\ s \o u = t \o v
  BY <1>1, <1>2
<1> HIDE DEF u, v
<1>5. Len(s) = Len(t)
  <2>1. Len(s) + Len(u) = Len(t) + Len(v)
    BY <1>4, SameWhole, SMTT(30)
  <2> QED BY <1>3, <1>4, <2>1
<1>6. s = t /\ u = v
  BY <1>4, <1>5, SameParts, ZenonT(60)
<1> QED BY <1>6 DEF u, v

(* The blocks taken in determine the bytes they were cut from. *)
LEMMA TokensSame ==
  ASSUME NEW B, NEW u \in Nat \ {0}, NEW p \in Seq(B), NEW q \in Seq(B),
         NEW j \in Nat, NEW k \in Nat, Len(p) = Total(u, j), Len(q) = Total(u, k),
         Tokens(u, p) = Tokens(u, q)
  PROVE  p = q
<1>1. Whole(u, Total(u, j)) = j /\ Whole(u, Total(u, k)) = k
  <2>1. /\ 0 \in 0 .. u - 1 /\ Total(u, j) \in Nat /\ Total(u, k) \in Nat
    BY TotalType
  <2>2. Whole(u, Total(u, j) + 0) = j /\ Whole(u, Total(u, k) + 0) = k
    BY <2>1, WholeRestUnique
  <2>3. Total(u, j) + 0 = Total(u, j) /\ Total(u, k) + 0 = Total(u, k)
    BY <2>1
  <2> QED BY <2>2, <2>3
<1>2. ASSUME NEW s \in Seq(B), NEW l, Whole(u, Len(s)) = l
      PROVE  /\ Len(Tokens(u, s)) = l
             /\ \A d \in 1 .. l, i \in 1 .. u : Blocks(u, s)[d][i] = s[Pos(u, d, i)]
             /\ \A d \in 1 .. l : Tokens(u, s)[d] = Token("block", Blocks(u, s)[d], 0)
  <2>1. Len(Blocks(u, s)) = Whole(u, Len(s))
        /\ \A d \in 1 .. Whole(u, Len(s)), i \in 1 .. u : Blocks(u, s)[d][i] = s[Pos(u, d, i)]
    BY BlocksOf, ZenonT(60)
  <2>2. Len(Tokens(u, s)) = Len(Blocks(u, s))
        /\ \A d \in 1 .. Len(Blocks(u, s)) : Tokens(u, s)[d] = Token("block", Blocks(u, s)[d], 0)
    BY TokensType, ZenonT(60)
  <2> QED BY <1>2, <2>1, <2>2, ZenonT(60)
<1>3. /\ Len(Tokens(u, p)) = j /\ Len(Tokens(u, q)) = k
      /\ \A d \in 1 .. j, i \in 1 .. u : Blocks(u, p)[d][i] = p[Pos(u, d, i)]
      /\ \A d \in 1 .. k, i \in 1 .. u : Blocks(u, q)[d][i] = q[Pos(u, d, i)]
      /\ \A d \in 1 .. j : Tokens(u, p)[d] = Token("block", Blocks(u, p)[d], 0)
      /\ \A d \in 1 .. k : Tokens(u, q)[d] = Token("block", Blocks(u, q)[d], 0)
  <2>1. Whole(u, Len(p)) = j /\ Whole(u, Len(q)) = k
    BY <1>1
  <2> QED BY <1>2, <2>1
<1>4. j = k /\ Len(p) = Len(q)
  BY <1>3
<1>5. ASSUME NEW d \in 1 .. j PROVE Blocks(u, p)[d] = Blocks(u, q)[d]
  <2>1. Token("block", Blocks(u, p)[d], 0) = Token("block", Blocks(u, q)[d], 0)
    BY <1>3, <1>4
  <2>2. Token("block", Blocks(u, p)[d], 0).bytes = Blocks(u, p)[d]
    BY DEF Token
  <2>3. Token("block", Blocks(u, q)[d], 0).bytes = Blocks(u, q)[d]
    BY DEF Token
  <2> QED BY <2>1, <2>2, <2>3
<1>6. ASSUME NEW x \in 1 .. Len(p) PROVE p[x] = q[x]
  <2>1. PICK d \in 1 .. j, i \in 1 .. u : x = Pos(u, d, i)
    BY PosCover
  <2>2. Blocks(u, p)[d][i] = p[x] /\ Blocks(u, q)[d][i] = q[x]
    BY <1>3, <1>4, <2>1
  <2> QED BY <1>5, <2>2
<1> QED BY <1>4, <1>6, SeqEqual

(* A tail, zeroes and a last byte of a block, as siphash and spooky2 make  *)
(* them.                                                                   *)
LastBlockOf(z, r, v) == CopyTo(CopyTo(Zeroes(z), 0, r), z - 1, <<v>>)

LEMMA LastBlockTells ==
  ASSUME NEW z \in Nat \ {0}, NEW r \in Seq(Byte), NEW s \in Seq(Byte),
         Len(r) < z, Len(s) < z, NEW v, NEW w,
         LastBlockOf(z, r, v) = LastBlockOf(z, s, w)
  PROVE  v = w /\ (Len(r) = Len(s) => r = s)
<1>1. Len(r) \in Nat /\ Len(s) \in Nat
  OBVIOUS
<1>2. ASSUME NEW q \in Seq(Byte), Len(q) < z, NEW x
      PROVE  /\ LastBlockOf(z, q, x)[z] = x
             /\ \A i \in 1 .. Len(q) : LastBlockOf(z, q, x)[i] = q[i]
  <2> DEFINE c == CopyTo(Zeroes(z), 0, q)
             l == <<x>>
  <2>1. Len(Zeroes(z)) = z /\ Len(q) \in Nat
    BY DEF Zeroes
  <2>2. Len(c) = z /\ \A i \in 1 .. Len(q) : c[i] = q[i]
    <3> DEFINE e == Zeroes(z)
    <3>1. Len(e) = z
      BY <2>1
    <3> HIDE DEF e
    <3>2. c = [i \in 1 .. z |-> IF 0 < i /\ i <= 0 + Len(q) THEN q[i - 0] ELSE e[i]]
      BY <3>1 DEF CopyTo, e
    <3>3. Len(c) = z
      BY <3>2
    <3>4. ASSUME NEW i \in 1 .. Len(q) PROVE c[i] = q[i]
      <4>1. i \in 1 .. z /\ 0 < i /\ i <= 0 + Len(q) /\ i - 0 = i
        BY <1>2, <2>1
      <4> QED BY <3>2, <4>1
    <3> QED BY <3>3, <3>4
  <2>3. Len(l) = 1 /\ l[1] = x
    OBVIOUS
  <2> HIDE DEF c, l
  <2>4. \A i \in 1 .. z : CopyTo(c, z - 1, l)[i] = IF i = z THEN l[1] ELSE c[i]
    <3> SUFFICES ASSUME NEW i \in 1 .. z
                 PROVE  CopyTo(c, z - 1, l)[i] = IF i = z THEN l[1] ELSE c[i]
      OBVIOUS
    <3>1. CopyTo(c, z - 1, l)[i] =
            IF z - 1 < i /\ i <= z - 1 + Len(l) THEN l[i - (z - 1)] ELSE c[i]
      BY <2>2 DEF CopyTo
    <3>2. (z - 1 < i /\ i <= z - 1 + Len(l)) <=> i = z
      BY <2>3
    <3>3. i = z => i - (z - 1) = 1
      OBVIOUS
    <3> QED BY <3>1, <3>2, <3>3
  <2>5. LastBlockOf(z, q, x) = CopyTo(c, z - 1, l)
    BY DEF LastBlockOf, c, l
  <2>6. z \in 1 .. z /\ \A i \in 1 .. Len(q) : i \in 1 .. z /\ i # z
    BY <1>2, <2>1
  <2> QED BY <2>2, <2>3, <2>4, <2>5, <2>6
<1>3. v = w
  BY <1>2
<1>4. ASSUME Len(r) = Len(s) PROVE r = s
  <2>1. \A i \in 1 .. Len(r) : r[i] = s[i]
    BY <1>2, <1>4
  <2> QED BY <1>4, <2>1, SeqEqual
<1> QED BY <1>3, <1>4

LEMMA SmallDifference ==
  ASSUME NEW m \in Nat \ {0}, NEW k \in Nat, NEW i \in 0 .. m - 1, NEW j \in 0 .. m - 1,
         (k + i) % m = (k + j) % m
  PROVE  i = j
<1> DEFINE q == k \div m
           r == k % m
<1>1. q \in Nat /\ r \in 0 .. m - 1 /\ k = m * q + r
  BY DivMod
<1> HIDE DEF q, r
<1>2. ASSUME NEW x \in 0 .. m - 1
      PROVE  (k + x) % m = IF r + x < m THEN r + x ELSE r + x - m
  <2>1. CASE r + x < m
    <3>1. k + x = m * q + (r + x) /\ r + x \in 0 .. m - 1
      BY <1>1, <2>1
    <3>2. (m * q + (r + x)) % m = r + x
      BY <1>1, <3>1, DivModOf
    <3> QED BY <2>1, <3>1, <3>2
  <2>2. CASE ~(r + x < m)
    <3>1. q + 1 \in Nat /\ r + x - m \in 0 .. m - 1 /\ m * (q + 1) = m * q + m /\ m * q \in Nat
      BY <1>1, <2>2
    <3>2. k + x = m * (q + 1) + (r + x - m)
      BY <1>1, <3>1
    <3>3. (m * (q + 1) + (r + x - m)) % m = r + x - m
      BY <3>1, DivModOf
    <3> QED BY <2>2, <3>2, <3>3
  <2> QED BY <2>1, <2>2
<1>3. (k + i) % m = (IF r + i < m THEN r + i ELSE r + i - m)
  BY <1>2
<1>4. (k + j) % m = (IF r + j < m THEN r + j ELSE r + j - m)
  BY <1>2
<1> QED BY <1>1, <1>3, <1>4

(* An object that went on from words t, with a count c and nothing         *)
(* buffered, and holds the bytes d.                                        *)
Holds(a, s, t, c, d, x) ==
  /\ s \in Seq(Byte) /\ t \in Seq(Of(Byte)) /\ c \in Nat /\ c % Size[a] = 0
  /\ d \in Seq(Byte) /\ Took(a, Byte, s, t, c + Len(d), d, x)

(* Of such an object: the bytes f in its words, the ones in its buffer.    *)
Halves(a, t, c, d, x, f) ==
  /\ x \in Object(a, Byte) /\ Held(x) \in Seq(Byte) /\ t \in Seq(Of(Byte)) /\ c \in Nat
  /\ x.n = c + Len(d) /\ x.n < SizeMod /\ x.n % Size[a] = x.m
  /\ Len(Held(x)) = x.m /\ x.m \in Nat /\ x.m < Size[a]
  /\ x.state = t \o Tokens(Unit(a), f)
  /\ f \in Seq(Byte) /\ d = f \o Held(x) /\ Len(d) = Len(f) + x.m /\ Len(f) \in Nat
  /\ f = Front(Size[a], d) /\ \E j \in Nat : Len(f) = Total(Unit(a), j)

LEMMA HoldsHalves ==
  ASSUME NEW a \in Algorithm, NEW s, NEW t, NEW c, NEW d, NEW x, Holds(a, s, t, c, d, x)
  PROVE  \E f : Halves(a, t, c, d, x, f)
<1> DEFINE z == Size[a]
           f == Front(z, d)
           l == Last(z, d)
<1>1. /\ x \in Object(a, Byte) /\ Held(x) = l /\ l \in Seq(Byte)
      /\ x.n = c + Len(d) /\ x.state = t \o Tokens(Unit(a), f)
      /\ d \in Seq(Byte) /\ c \in Nat /\ c % z = 0 /\ t \in Seq(Of(Byte))
  BY DEF Holds, Took
<1>2. z \in Nat \ {0} /\ SizeMod \in Nat
  BY Sizes
<1>3. /\ f \in Seq(Byte) /\ l \in Seq(Byte) /\ Whole(z, Len(d)) \in Nat
      /\ Len(f) = Total(z, Whole(z, Len(d))) /\ f \o l = d
  <2>1. d \in Seq(Byte) /\ z \in Nat \ {0}
    BY <1>1, <1>2
  <2> HIDE DEF z
  <2> QED BY <2>1, Cut, ZenonT(60)
<1>4. x.m \in 0 .. z - 1 /\ x.n \in 0 .. SizeMod - 1 /\ x.buffer \in Block(z, Any)
  BY <1>1, ObjectIs
<1>5. Len(Held(x)) = x.m
  BY <1>4, HeldIs DEF Held
<1>6. PICK j \in Nat : Total(z, Whole(z, Len(d))) = Total(Unit(a), j)
  BY <1>3, UnitsFill
<1> HIDE DEF f, l
<1>7. Len(d) = Len(f) + x.m /\ Len(f) \in Nat /\ Len(d) \in Nat
  <2>1. Len(f \o l) = Len(f) + Len(l)
    BY <1>3, ConcatProperties
  <2> QED BY <1>1, <1>3, <1>5, <2>1
<1>8. x.n % z = x.m
  <2>1. c = z * (c \div z) + (c % z) /\ c \div z \in Nat
    BY <1>1, <1>2, DivMod
  <2> DEFINE q == c \div z
             w == Whole(z, Len(d))
  <2>2. q \in Nat /\ w \in Nat /\ c = z * q /\ Len(f) = Total(z, w)
    BY <1>1, <1>2, <1>3, <2>1
  <2> HIDE DEF q, w
  <2>3. Total(z, w) = z * w
    BY <1>2, <2>2 DEF Total
  <2>4. z * (q + w) = z * q + z * w /\ q + w \in Nat /\ z * q \in Nat /\ z * w \in Nat
    BY <1>2, <2>2
  <2>5. x.n = z * (q + w) + x.m
    BY <1>1, <1>4, <1>7, <2>2, <2>3, <2>4, SMTT(30)
  <2>6. (z * (q + w) + x.m) % z = x.m
    BY <1>2, <1>4, <2>4, DivModOf
  <2> QED BY <2>5, <2>6
<1>9. x.m \in Nat /\ x.m < z /\ x.n < SizeMod
  BY <1>2, <1>4
<1>10. Len(f) = Total(Unit(a), j)
  BY <1>3, <1>6
<1>11. f = Front(z, d)
  BY DEF f
<1>12. Halves(a, t, c, d, x, f)
  BY <1>1, <1>3, <1>5, <1>7, <1>8, <1>9, <1>10, <1>11 DEF Halves
<1> QED BY <1>12

(* What digests commit to. *)
LEMMA DigestIs ==
  ASSUME NEW o, NEW s, NEW p, NEW n
  PROVE  /\ Digest(o, s, p, n).seed = o.seed /\ Digest(o, s, p, n).state = s
         /\ Digest(o, s, p, n).tail = p /\ Digest(o, s, p, n).n = n
  BY DEF Digest

(* Words that took in the same, from the same start, took in the same bytes. *)
LEMMA StateTells ==
  ASSUME NEW u \in Nat \ {0}, NEW t \in Seq(Of(Byte)), NEW p \in Seq(Byte), NEW q \in Seq(Byte),
         \E j \in Nat : Len(p) = Total(u, j), \E k \in Nat : Len(q) = Total(u, k),
         t \o Tokens(u, p) = t \o Tokens(u, q)
  PROVE  p = q
<1>1. PICK j \in Nat : Len(p) = Total(u, j)
  OBVIOUS
<1>2. PICK k \in Nat : Len(q) = Total(u, k)
  OBVIOUS
<1> DEFINE x == Tokens(u, p)
           y == Tokens(u, q)
           S == Of(Byte)
<1>3. x \in Seq(S) /\ y \in Seq(S) /\ t \in Seq(S) /\ t \o x = t \o y
  BY TokensType
<1> HIDE DEF x, y, S
<1>4. x = y
  BY <1>3, SameParts
<1>5. Tokens(u, p) = Tokens(u, q)
  BY <1>4 DEF x, y
<1> QED BY <1>1, <1>2, <1>5, TokensSame

LEMMA AlikeTell ==
  ASSUME NEW a \in Algorithm, NEW s, NEW t, NEW c, NEW d, NEW e, NEW x, NEW y,
         Holds(a, s, t, c, d, x), Holds(a, s, t, c, e, y),
         x.state = y.state, Held(x) = Held(y)
  PROVE  d = e
<1>1. PICK f : Halves(a, t, c, d, x, f)
  BY HoldsHalves
<1>2. PICK g : Halves(a, t, c, e, y, g)
  BY HoldsHalves
<1> DEFINE u == Unit(a)
<1>3. u \in Nat \ {0}
  BY UnitsFill
<1> HIDE DEF u
<1>4. /\ t \in Seq(Of(Byte)) /\ f \in Seq(Byte) /\ g \in Seq(Byte)
      /\ \E j \in Nat : Len(f) = Total(u, j)
      /\ \E j \in Nat : Len(g) = Total(u, j)
      /\ x.state = t \o Tokens(u, f) /\ y.state = t \o Tokens(u, g)
      /\ d = f \o Held(x) /\ e = g \o Held(y)
  BY <1>1, <1>2 DEF Halves, u
<1>5. t \o Tokens(u, f) = t \o Tokens(u, g)
  BY <1>4
<1>6. f = g
  BY <1>3, <1>4, <1>5, StateTells
<1> QED BY <1>4, <1>6

(* murmur3 returns its words, the tail and n_; xxhash too, or, of a message *)
(* shorter than a block, the tail is the message.                          *)
LEMMA Murmur3Tells ==
  ASSUME NEW a \in Algorithm, a \in Murmur3, NEW s, NEW t, NEW c, NEW d, NEW e, NEW x, NEW y,
         Holds(a, s, t, c, d, x), Holds(a, s, t, c, e, y), ResultOf(a, x) = ResultOf(a, y)
  PROVE  d = e
<1>1. ResultOf(a, x) = Digest(x, x.state, Held(x), x.n)
  BY DEF ResultOf, Siphash, Xxhash, Murmur3
<1>2. ResultOf(a, y) = Digest(y, y.state, Held(y), y.n)
  BY DEF ResultOf, Siphash, Xxhash, Murmur3
<1>3. x.state = y.state /\ Held(x) = Held(y)
  <2> DEFINE D == ResultOf(a, x)
  <2>1. D.state = x.state /\ D.tail = Held(x)
    BY <1>1, DigestIs
  <2>2. D = ResultOf(a, y)
    OBVIOUS
  <2> HIDE DEF D
  <2>3. D.state = y.state /\ D.tail = Held(y)
    BY <1>2, <2>2, DigestIs
  <2> QED BY <2>1, <2>3
<1> QED BY <1>3, AlikeTell, ZenonT(60)

LEMMA XxhashTells ==
  ASSUME NEW a \in Algorithm, a \in Xxhash, NEW s, NEW t, NEW c, NEW d, NEW e, NEW x, NEW y,
         Holds(a, s, t, c, d, x), Holds(a, s, t, c, e, y), ResultOf(a, x) = ResultOf(a, y)
  PROVE  d = e
<1> DEFINE z == Size[a]
           X == IF x.n >= z THEN x.state ELSE Third(a, x.state)
           Y == IF y.n >= z THEN y.state ELSE Third(a, y.state)
<1>1. ResultOf(a, x) = Digest(x, X, Held(x), x.n)
  BY DEF ResultOf, Siphash, Xxhash, Murmur3
<1>2. ResultOf(a, y) = Digest(y, Y, Held(y), y.n)
  BY DEF ResultOf, Siphash, Xxhash, Murmur3
<1> HIDE DEF X, Y
<1>3. x.n = y.n /\ Held(x) = Held(y) /\ X = Y
  <2> DEFINE D == ResultOf(a, x)
  <2>1. D.state = X /\ D.tail = Held(x) /\ D.n = x.n
    BY <1>1, DigestIs
  <2>2. D = ResultOf(a, y)
    OBVIOUS
  <2> HIDE DEF D
  <2>3. D.state = Y /\ D.tail = Held(y) /\ D.n = y.n
    BY <1>2, <2>2, DigestIs
  <2> QED BY <2>1, <2>3
<1>4. CASE x.n >= z
  <2>1. x.state = y.state
    BY <1>3, <1>4 DEF X, Y
  <2> QED BY <1>3, <2>1, AlikeTell, ZenonT(60)
<1>5. CASE ~(x.n >= z)
  <2>1. z \in Nat \ {0}
    BY Sizes
  <2>2. /\ x.n = c + Len(d) /\ c \in Nat /\ d \in Seq(Byte) /\ Held(x) = Last(z, d)
        /\ y.n = c + Len(e) /\ e \in Seq(Byte) /\ Held(y) = Last(z, e)
    BY DEF Holds, Took
  <2> HIDE DEF z
  <2>3. Len(d) < z /\ Len(e) < z
    <3>1. Len(d) \in Nat /\ Len(e) \in Nat
      BY <2>2
    <3>2. x.n = c + Len(d) /\ x.n = c + Len(e) /\ c \in Nat
      BY <1>3, <2>2
    <3>3. ~(x.n >= z)
      BY <1>5 DEF z
    <3> QED BY <2>1, <3>1, <3>2, <3>3
  <2>4. Last(z, d) = d /\ Last(z, e) = e
    BY <2>1, <2>2, <2>3, CutShort
  <2> QED BY <1>3, <2>2, <2>4
<1> QED BY <1>4, <1>5

(* The words of siphash take in a last block, of the tail and the low byte *)
(* of n_; after the same blocks that is the length of the tail.            *)
LEMMA SiphashEnds ==
  ASSUME NEW a \in Algorithm, a \in Siphash, NEW o \in Object(a, Byte), Held(o) \in Seq(Byte)
  PROVE  /\ o.state \in Seq(Of(Byte))
         /\ siphash_tail(a, o) = LastBlockOf(Size[a], Held(o), o.n % Radix)
         /\ Token("block", siphash_tail(a, o), 0) \in Of(Byte) /\ Token("end", << >>, 0) \in Of(Byte)
         /\ ResultOf(a, o).state =
              Append(Append(o.state, Token("block", siphash_tail(a, o), 0)), Token("end", << >>, 0))
<1> DEFINE z == Size[a]
           tail == siphash_tail(a, o)
           x == Token("block", tail, 0)
           y == Token("end", << >>, 0)
<1>1. /\ z \in Nat /\ z - 1 \in Nat /\ o.n \in Nat /\ Radix \in Nat \ {0}
      /\ o.state \in Seq(Of(Byte)) /\ Byte \in Contents
  BY Sizes, ObjectIs DEF Contents
<1>2. o.n % Radix \in Byte
  BY <1>1, DivMod DEF Byte
<1>3. tail = LastBlockOf(z, Held(o), o.n % Radix)
  BY DEF siphash_tail, LastBlockOf
<1>4. tail \in Seq(Byte)
  <2> HIDE DEF z, tail
  <2>1. CopyTo(CopyTo(Zeroes(z), 0, Held(o)), z - 1, <<o.n % Radix>>) \in Seq(Byte)
    BY <1>1, <1>2, LastBlock
  <2> QED BY <1>3, <2>1 DEF LastBlockOf
<1>5. "block" \in Kinds /\ "end" \in Kinds /\ 0 \in 0 .. SizeMod - 1 /\ << >> \in Seq(Byte)
  BY Sizes DEF Kinds
<1>6. siphash_last(a, o) = [o EXCEPT !.state = @ \o <<x, y>>]
  BY DEF siphash_last
<1> HIDE DEF tail
<1>7. x \in Of(Byte) /\ y \in Of(Byte)
  BY <1>4, <1>5, TokenType
<1>8. ResultOf(a, o) = Digest(o, siphash_last(a, o).state, << >>, 0)
  BY DEF ResultOf, Siphash, Xxhash, Murmur3
<1> HIDE DEF x, y
<1>9. siphash_last(a, o).state = o.state \o <<x, y>>
  <2>1. o = Members(o.seed, o.state, o.m, o.n, o.buffer)
    BY ObjectIs
  <2> DEFINE w == <<x, y>>
  <2> HIDE DEF w
  <2>2. siphash_last(a, o) = After(o, w)
    BY <1>6 DEF After, w
  <2>3. After(o, w) = Members(o.seed, o.state \o w, o.m, o.n, o.buffer)
    BY <2>1, AfterIs
  <2>4. \A v : Members(o.seed, v, o.m, o.n, o.buffer).state = v
    BY MembersAre
  <2> QED BY <2>2, <2>3, <2>4 DEF w
<1>10. o.state \o <<x, y>> = Append(Append(o.state, x), y)
  BY <1>1, <1>7, SMTT(30)
<1>11. ResultOf(a, o).state = Append(Append(o.state, x), y)
  <2>1. \A v : Digest(o, v, << >>, 0).state = v
    BY DigestIs
  <2> DEFINE v == siphash_last(a, o).state
  <2>2. ResultOf(a, o) = Digest(o, v, << >>, 0) /\ v = Append(Append(o.state, x), y)
    BY <1>8, <1>9, <1>10
  <2> HIDE DEF v
  <2> QED BY <2>1, <2>2
<1> QED BY <1>1, <1>3, <1>7, <1>11 DEF tail, x, y

(* Objects with the same words and tails that differ by less than Radix     *)
(* bytes count alike only when their tails are as long.                    *)
LEMMA SameLength ==
  ASSUME NEW k \in Nat, NEW i \in Nat, NEW j \in Nat, i < Radix, j < Radix,
         (k + i) % Radix = (k + j) % Radix
  PROVE  i = j
<1>1. Radix \in Nat \ {0}
  BY SizeAssumption
<1>2. i \in 0 .. Radix - 1 /\ j \in 0 .. Radix - 1
  BY <1>1
<1> QED BY <1>1, <1>2, SmallDifference

LEMMA SiphashTells ==
  ASSUME NEW a \in Algorithm, a \in Siphash, NEW s, NEW t, NEW c, NEW d, NEW e, NEW x, NEW y,
         Holds(a, s, t, c, d, x), Holds(a, s, t, c, e, y),
         ResultOf(a, x).state = ResultOf(a, y).state
  PROVE  d = e
<1>1. PICK f : Halves(a, t, c, d, x, f)
  BY HoldsHalves
<1>2. PICK g : Halves(a, t, c, e, y, g)
  BY HoldsHalves
<1> DEFINE z == Size[a]
           u == Unit(a)
           B == Of(Byte)
           X == siphash_tail(a, x)
           Y == siphash_tail(a, y)
           A(w) == Token("block", w, 0)
           E == Token("end", << >>, 0)
<1>3. z \in Nat \ {0} /\ Radix \in Nat \ {0} /\ z < Radix /\ u \in Nat \ {0}
  BY Sizes, UnitsFill
<1>4. /\ x \in Object(a, Byte) /\ Held(x) \in Seq(Byte) /\ y \in Object(a, Byte) /\ Held(y) \in Seq(Byte)
  BY <1>1, <1>2 DEF Halves
<1>5. /\ x.state \in Seq(B) /\ X = LastBlockOf(z, Held(x), x.n % Radix)
      /\ A(X) \in B /\ E \in B /\ ResultOf(a, x).state = Append(Append(x.state, A(X)), E)
  BY <1>4, SiphashEnds
<1>6. /\ y.state \in Seq(B) /\ Y = LastBlockOf(z, Held(y), y.n % Radix)
      /\ A(Y) \in B /\ ResultOf(a, y).state = Append(Append(y.state, A(Y)), E)
  BY <1>4, SiphashEnds
<1>7. \A v, w : A(v) = A(w) => v = w
  <2> TAKE v, w
  <2>1. Token("block", v, 0).bytes = v /\ Token("block", w, 0).bytes = w
    BY DEF Token
  <2> QED BY <2>1
<1> HIDE DEF A, B, E, X, Y
<1>8. x.state = y.state /\ X = Y
  <2> DEFINE v == Append(x.state, A(X))
             w == Append(y.state, A(Y))
             p == x.state
             q == y.state
             i == A(X)
             j == A(Y)
  <2>1. p \in Seq(B) /\ q \in Seq(B) /\ i \in B /\ j \in B /\ E \in B
    BY <1>5, <1>6
  <2>2. v = Append(p, i) /\ w = Append(q, j)
    OBVIOUS
  <2>3. Append(v, E) = Append(w, E)
    BY <1>5, <1>6
  <2> HIDE DEF v, w, p, q, i, j
  <2>4. v \in Seq(B) /\ w \in Seq(B)
    BY <2>1, <2>2
  <2>5. v = w
    BY <2>1, <2>3, <2>4, AppendSame
  <2>6. p = q /\ i = j
    <3>1. Append(p, i) = Append(q, j)
      BY <2>2, <2>5
    <3> QED BY <2>1, <3>1, AppendSame
  <2>7. x.state = y.state /\ A(X) = A(Y)
    BY <2>6 DEF p, q, i, j
  <2> QED BY <1>7, <2>7
<1> HIDE DEF z, u
<1>9. f = g
  <2>1. /\ t \in Seq(Of(Byte)) /\ f \in Seq(Byte) /\ g \in Seq(Byte)
        /\ \E j \in Nat : Len(f) = Total(u, j)
        /\ \E j \in Nat : Len(g) = Total(u, j)
        /\ t \o Tokens(u, f) = t \o Tokens(u, g)
    BY <1>1, <1>2, <1>8 DEF Halves, u
  <2> QED BY <1>3, <2>1, StateTells
<1>10. /\ c \in Nat /\ Len(f) \in Nat
       /\ x.n = c + Len(d) /\ Len(d) = Len(f) + x.m /\ Len(Held(x)) = x.m /\ x.m \in Nat /\ x.m < z
       /\ y.n = c + Len(e) /\ Len(e) = Len(g) + y.m /\ Len(Held(y)) = y.m /\ y.m \in Nat /\ y.m < z
  BY <1>1, <1>2 DEF Halves, z
<1>11. /\ x.n % Radix = y.n % Radix
       /\ Len(Held(x)) = Len(Held(y)) => Held(x) = Held(y)
  <2>1. LastBlockOf(z, Held(x), x.n % Radix) = LastBlockOf(z, Held(y), y.n % Radix)
    BY <1>5, <1>6, <1>8
  <2>2. Len(Held(x)) < z /\ Len(Held(y)) < z
    BY <1>10
  <2> QED BY <1>3, <1>4, <2>1, <2>2, LastBlockTells
<1>12. x.m = y.m
  <2> DEFINE k == c + Len(f)
  <2>1. k \in Nat /\ x.n = k + x.m /\ y.n = k + y.m
    BY <1>9, <1>10
  <2>2. x.m < Radix /\ y.m < Radix
    BY <1>3, <1>10, SMTT(30)
  <2> HIDE DEF k
  <2> QED BY <1>10, <1>11, <2>1, <2>2, SameLength
<1>13. Held(x) = Held(y)
  BY <1>10, <1>11, <1>12
<1> QED BY <1>8, <1>13, AlikeTell, ZenonT(60)

(* spooky2: a message shorter than a block, whole; of a longer one a half  *)
(* block more, and a last one that tells the length of what is left.       *)
Most(o) ==
  LET half == Unit("spooky2_128") IN
  IF o.m >= half THEN SubSeq(o.buffer, 1, half) ELSE << >>
Remains(o) == SubSeq(o.buffer, Len(Most(o)) + 1, o.m)

LEMMA PartOfPrefix ==
  ASSUME NEW B, NEW b \in Seq(B), NEW m \in 0 .. Len(b), NEW j \in 0 .. m, NEW i \in 0 .. j
  PROVE  SubSeq(SubSeq(b, 1, m), i + 1, j) = SubSeq(b, i + 1, j)
<1> DEFINE p == SubSeq(b, 1, m)
           k == j - i
<1>1. k \in Nat /\ i \in Nat /\ i + k = j /\ i + k <= m /\ m \in Nat /\ Len(b) \in Nat
  OBVIOUS
<1>2. p \in Seq(B) /\ Len(p) = m /\ \A x \in 1 .. m : p[x] = b[x]
  BY <1>1, Prefix
<1> HIDE DEF p, k
<1> DEFINE s == SubSeq(p, i + 1, i + k)
           t == SubSeq(b, i + 1, i + k)
<1>3. s \in [1 .. k -> B] /\ \A x \in 1 .. k : s[x] = p[i + x]
  BY <1>1, <1>2, Part
<1>4. t \in [1 .. k -> B] /\ \A x \in 1 .. k : t[x] = b[i + x]
  BY <1>1, Part
<1> HIDE DEF s, t
<1>5. \A x \in 1 .. k : s[x] = t[x]
  <2> TAKE x \in 1 .. k
  <2>1. i + x \in 1 .. m
    BY <1>1
  <2> QED BY <1>2, <1>3, <1>4, <2>1
<1>6. s = t
  <2>1. s = [x \in 1 .. k |-> s[x]] /\ t = [x \in 1 .. k |-> t[x]]
    BY <1>3, <1>4
  <2>2. [x \in 1 .. k |-> s[x]] = [x \in 1 .. k |-> t[x]]
    BY <1>5
  <2> QED BY <2>1, <2>2
<1> QED BY <1>1, <1>6 DEF s, t, p

LEMMA MostIs ==
  ASSUME "spooky2_128" \in Algorithm, NEW o, Proper("spooky2_128", Byte, o)
  PROVE  /\ Most(o) \in Seq(Byte) /\ Remains(o) \in Seq(Byte) /\ Held(o) = Most(o) \o Remains(o)
         /\ Len(Remains(o)) < Unit("spooky2_128")
         /\ Len(Most(o)) = Total(Unit("spooky2_128"), 0) \/ Len(Most(o)) = Total(Unit("spooky2_128"), 1)
         /\ o.m = Len(Most(o)) + Len(Remains(o))
<1> DEFINE a == "spooky2_128"
           u == Unit(a)
           p == Held(o)
           m == o.m
<1>1. /\ o \in Object(a, Byte) /\ p \in Seq(Byte) /\ m \in 0 .. Size[a] - 1 /\ o.buffer \in Block(Size[a], Any)
  BY ObjectIs DEF Proper
<1>2. u \in Nat \ {0} /\ Size[a] = u + u
  <2>1. Size[a] % 2 = 0 /\ Size[a] \in Nat
    BY SizeAssumption
  <2>2. u = Size[a] \div 2
    BY DEF Unit
  <2>3. Size[a] = 2 * (Size[a] \div 2) + (Size[a] % 2) /\ Size[a] \div 2 \in Nat
    BY <2>1, DivMod
  <2> QED BY <2>1, <2>2, <2>3, UnitsFill
<1>3. Len(p) = m /\ p = SubSeq(o.buffer, 1, m)
  BY <1>1, HeldIs DEF Held
<1>4. Total(u, 0) = 0 /\ Total(u, 1) = u
  BY <1>2, TotalOne
<1> HIDE DEF u
<1>5. CASE m >= u
  <2>1. Most(o) = SubSeq(o.buffer, 1, u)
    BY <1>5 DEF Most, u
  <2>2. u \in 0 .. Len(p)
    BY <1>1, <1>2, <1>3, <1>5
  <2> DEFINE x == SubSeq(p, 1, u)
             y == SubSeq(p, u + 1, Len(p))
  <2>3. x \in Seq(Byte) /\ Len(x) = u /\ y \in Seq(Byte) /\ Len(y) = Len(p) - u /\ x \o y = p
    BY <1>1, <2>2, CutInTwo
  <2> HIDE DEF x, y
  <2>4. x = SubSeq(o.buffer, 1, u) /\ y = SubSeq(o.buffer, u + 1, m)
    <3>1. o.buffer \in Seq(Any) /\ Len(o.buffer) = Size[a]
      BY <1>1, <1>2, BlockIsSeq
    <3>2. m \in 0 .. Len(o.buffer) /\ u \in 0 .. m /\ m \in 0 .. m /\ 0 \in 0 .. u /\ 0 + 1 = 1
      BY <1>1, <1>2, <1>3, <2>2, <3>1
    <3>3. SubSeq(SubSeq(o.buffer, 1, m), 0 + 1, u) = SubSeq(o.buffer, 0 + 1, u)
      BY <3>1, <3>2, PartOfPrefix
    <3>4. SubSeq(SubSeq(o.buffer, 1, m), u + 1, m) = SubSeq(o.buffer, u + 1, m)
      BY <3>1, <3>2, PartOfPrefix
    <3> QED BY <1>3, <3>2, <3>3, <3>4 DEF x, y
  <2>5. Most(o) = x /\ Remains(o) = y
    BY <2>1, <2>3, <2>4 DEF Remains
  <2>6. x \in Seq(Byte) /\ y \in Seq(Byte) /\ p = x \o y /\ Len(y) < u /\ Len(x) = Total(u, 1)
        /\ m = Len(x) + Len(y)
    BY <1>1, <1>2, <1>3, <1>4, <2>3
  <2> QED BY <2>5, <2>6 DEF u
<1>6. CASE ~(m >= u)
  <2>1. Most(o) = << >>
    BY <1>6 DEF Most, u
  <2>2. Remains(o) = p
    <3>1. Len(Most(o)) + 1 = 1
      BY <2>1
    <3> QED BY <1>3, <3>1 DEF Remains
  <2>3. << >> \in Seq(Byte) /\ Len(<< >>) = 0 /\ << >> \o p = p
    BY <1>1
  <2> QED BY <1>1, <1>2, <1>3, <1>4, <1>6, <2>1, <2>2, <2>3 DEF u
<1> QED BY <1>5, <1>6

(* The last token of spooky2 and what the words took in before it. *)
LEMMA SpookyShort ==
  ASSUME "spooky2_128" \in Algorithm, NEW t, NEW c, NEW d, NEW x, NEW f,
         Halves("spooky2_128", t, c, d, x, f), x.n < Size["spooky2_128"]
  PROVE  /\ Token("short", d, x.n) \in Of(Byte) /\ x.state \in Seq(Of(Byte))
         /\ ResultOf("spooky2_128", x).state = Append(x.state, Token("short", d, x.n))
<1> DEFINE a == "spooky2_128"
           z == Size[a]
           E == Token("short", d, x.n)
<1>1. /\ x \in Object(a, Byte) /\ Held(x) \in Seq(Byte) /\ x.n = c + Len(d) /\ x.n % z = x.m /\ c \in Nat
      /\ Len(d) = Len(f) + x.m /\ Len(f) \in Nat /\ d = f \o Held(x) /\ f \in Seq(Byte) /\ x.m \in Nat
  BY DEF Halves
<1>2. z \in Nat \ {0} /\ SizeMod \in Nat
  BY Sizes
<1>3. x.n \in 0 .. SizeMod - 1 /\ x.state \in Seq(Of(Byte))
  BY <1>1, ObjectIs
<1>4. x.m = x.n
  <2>1. x.n \in 0 .. z - 1
    BY <1>2, <1>3
  <2> HIDE DEF z
  <2>2. x.n % z = x.n
    BY <1>2, <2>1, ModSmall
  <2> QED BY <1>1, <2>2
<1>5. Len(f) = 0
  BY <1>1, <1>4
<1>6. f = << >>
  BY <1>1, <1>5
<1>7. d = Held(x)
  BY <1>1, <1>6
<1>8. spooky2_short(x) = d
  BY <1>4, <1>7 DEF spooky2_short, Held
<1>9. E \in Of(Byte)
  <2>1. "short" \in Kinds
    BY DEF Kinds
  <2> QED BY <1>1, <1>3, <1>7, <2>1, TokenType
<1>10. spooky2_last(x) = [x EXCEPT !.state = Append(@, E)]
  BY <1>8 DEF spooky2_last
<1> HIDE DEF E
<1>11. spooky2_last(x).state = Append(x.state, E)
  <2>1. x = Members(x.seed, x.state, x.m, x.n, x.buffer)
    BY <1>1, ObjectIs
  <2> QED BY <1>10, <2>1 DEF Members
<1>12. ResultOf(a, x) = Digest(x, spooky2_last(x).state, << >>, 0)
  BY DEF ResultOf, Siphash, Xxhash, Murmur3
<1>13. ResultOf(a, x).state = Append(x.state, E)
  <2>1. \A v : Digest(x, v, << >>, 0).state = v
    BY DigestIs
  <2> QED BY <1>11, <1>12, <2>1
<1> QED BY <1>3, <1>9, <1>13 DEF E

EndOf(o) ==
  LET half == Unit("spooky2_128") IN LastBlockOf(half, Remains(o), Len(Remains(o)) % Radix)

LEMMA SpookyLong ==
  ASSUME "spooky2_128" \in Algorithm, NEW t, NEW c, NEW d, NEW x, NEW f,
         Halves("spooky2_128", t, c, d, x, f), ~(x.n < Size["spooky2_128"])
  PROVE  LET u == Unit("spooky2_128")
             E == Token("end", EndOf(x), 0)
             w == t \o Tokens(u, f \o Most(x))
         IN  /\ E \in Of(Byte) /\ w \in Seq(Of(Byte))
             /\ f \o Most(x) \in Seq(Byte) /\ \E j \in Nat : Len(f \o Most(x)) = Total(u, j)
             /\ ResultOf("spooky2_128", x).state = Append(w, E)
<1> DEFINE a == "spooky2_128"
           u == Unit(a)
           p == Most(x)
           r == Remains(x)
           e == EndOf(x)
           E == Token("end", e, 0)
           w == t \o Tokens(u, f \o p)
<1>1. /\ x \in Object(a, Byte) /\ Held(x) \in Seq(Byte) /\ t \in Seq(Of(Byte)) /\ f \in Seq(Byte)
      /\ x.state = t \o Tokens(u, f) /\ \E j \in Nat : Len(f) = Total(u, j)
  BY DEF Halves
<1>2. u \in Nat \ {0} /\ Radix \in Nat \ {0} /\ Byte \in Contents
  BY UnitsFill, Sizes DEF Contents
<1>3. /\ p \in Seq(Byte) /\ r \in Seq(Byte) /\ (Len(p) = Total(u, 0) \/ Len(p) = Total(u, 1))
  BY <1>1, MostIs DEF Proper
<1> HIDE DEF u
<1>4. e \in Seq(Byte)
  <2> DEFINE v == Len(r) % Radix
             q == Remains(x)
  <2>1. v \in Byte
    BY <1>2, <1>3, LenProperties, DivMod DEF Byte
  <2> HIDE DEF v
  <2>2. CopyTo(CopyTo(Zeroes(u), 0, q), u - 1, <<v>>) \in Seq(Byte)
    <3>1. u \in Nat /\ u - 1 \in Nat /\ q \in Seq(Byte)
      BY <1>2, <1>3
    <3> HIDE DEF q
    <3> QED BY <1>2, <2>1, <3>1, LastBlock
  <2> QED BY <2>2 DEF EndOf, LastBlockOf, u, v
<1>5. E \in Of(Byte)
  <2>1. "end" \in Kinds /\ 0 \in 0 .. SizeMod - 1
    BY Sizes DEF Kinds
  <2> HIDE DEF e
  <2> QED BY <1>4, <2>1, TokenType
<1> HIDE DEF p, r, e
<1>6. PICK j \in Nat : Len(f) = Total(u, j)
  BY <1>1
<1>7. f \o p \in Seq(Byte) /\ \E i \in Nat : Len(f \o p) = Total(u, i)
  <2>1. f \o p \in Seq(Byte) /\ Len(f \o p) = Len(f) + Len(p)
    BY <1>1, <1>3, ConcatProperties
  <2>2. PICK i \in Nat : Len(p) = Total(u, i)
    <3>1. 0 \in Nat /\ 1 \in Nat
      OBVIOUS
    <3> QED BY <1>3, <3>1
  <2>3. Total(u, j + i) = Total(u, j) + Total(u, i) /\ j + i \in Nat
    BY <1>2, TotalPlus
  <2> QED BY <1>6, <2>1, <2>2, <2>3
<1>8. Tokens(u, f \o p) = Tokens(u, f) \o Tokens(u, p)
  BY <1>1, <1>2, <1>3, <1>6, TokensConcat, SMTT(30)
<1>9. Tokens(u, f) \in Seq(Of(Byte)) /\ Tokens(u, p) \in Seq(Of(Byte))
  BY <1>1, <1>2, <1>3, TokensOf
<1>10. w = x.state \o Tokens(u, p) /\ w \in Seq(Of(Byte))
  <2> DEFINE y == Tokens(u, f)
             v == Tokens(u, p)
             S == Of(Byte)
  <2>1. w = t \o (y \o v) /\ t \in Seq(S) /\ y \in Seq(S) /\ v \in Seq(S) /\ x.state = t \o y
    BY <1>1, <1>8, <1>9
  <2> HIDE DEF y, v, w, S
  <2>2. (t \o y) \o v = t \o (y \o v)
    BY <2>1, ThreeParts, SMTT(30)
  <2>3. w \in Seq(S)
    BY <2>1, ConcatProperties
  <2> QED BY <2>1, <2>2, <2>3 DEF v, S
<1> HIDE DEF w, E
<1>11. spooky2_last(x).state = Append(w, E)
  <2> DEFINE v == Tokens(u, p)
             y == update_(a, x, p)
  <2>1. spooky2_last(x) = [y EXCEPT !.state = Append(@, E)]
    BY DEF spooky2_last, Most, Remains, EndOf, LastBlockOf, E, e, p, r
  <2>2. y = Members(x.seed, x.state \o v, x.m, x.n, x.buffer)
    <3>1. x = Members(x.seed, x.state, x.m, x.n, x.buffer)
      BY <1>1, ObjectIs
    <3>2. update_(a, Members(x.seed, x.state, x.m, x.n, x.buffer), p)
            = Members(x.seed, x.state \o v, x.m, x.n, x.buffer)
      BY UpdateRawIs DEF u
    <3> QED BY <3>1, <3>2
  <2> HIDE DEF y, v
  <2>3. x.state \o v = w
    BY <1>10 DEF v
  <2>4. y = Members(x.seed, w, x.m, x.n, x.buffer)
    BY <2>2, <2>3
  <2>5. spooky2_last(x) = Members(x.seed, Append(w, E), x.m, x.n, x.buffer)
    BY <2>1, <2>4 DEF Members
  <2>6. \A z : Members(x.seed, z, x.m, x.n, x.buffer).state = z
    BY MembersAre
  <2> QED BY <2>5, <2>6
<1>12. ResultOf(a, x) = Digest(x, spooky2_last(x).state, << >>, 0)
  BY DEF ResultOf, Siphash, Xxhash, Murmur3
<1>13. ResultOf(a, x).state = Append(w, E)
  <2>1. \A v : Digest(x, v, << >>, 0).state = v
    BY DigestIs
  <2> QED BY <1>11, <1>12, <2>1
<1> QED BY <1>5, <1>7, <1>10, <1>13 DEF E, e, p, u, w

LEMMA SpookyTells ==
  ASSUME NEW a \in Algorithm, a = "spooky2_128",
         NEW s, NEW t, NEW c, NEW d, NEW e, NEW x, NEW y,
         Holds(a, s, t, c, d, x), Holds(a, s, t, c, e, y),
         ResultOf(a, x).state = ResultOf(a, y).state
  PROVE  d = e
<1> DEFINE z == Size[a]
           u == Unit(a)
           B == Of(Byte)
           R == ResultOf(a, x).state
<1>1. PICK f : Halves(a, t, c, d, x, f)
  BY HoldsHalves
<1>2. PICK g : Halves(a, t, c, e, y, g)
  BY HoldsHalves
<1>3. R = ResultOf(a, y).state
  OBVIOUS
<1>4. ASSUME x.n < z PROVE Token("short", d, x.n) \in B /\ x.state \in Seq(B)
                           /\ R = Append(x.state, Token("short", d, x.n))
  BY <1>1, <1>4, SpookyShort
<1>5. ASSUME y.n < z PROVE Token("short", e, y.n) \in B /\ y.state \in Seq(B)
                           /\ R = Append(y.state, Token("short", e, y.n))
  BY <1>2, <1>3, <1>5, SpookyShort
<1>6. ASSUME ~(x.n < z)
      PROVE  /\ Token("end", EndOf(x), 0) \in B /\ t \o Tokens(u, f \o Most(x)) \in Seq(B)
             /\ f \o Most(x) \in Seq(Byte) /\ \E j \in Nat : Len(f \o Most(x)) = Total(u, j)
             /\ R = Append(t \o Tokens(u, f \o Most(x)), Token("end", EndOf(x), 0))
  BY <1>1, <1>6, SpookyLong, SMTT(30)
<1>7. ASSUME ~(y.n < z)
      PROVE  /\ Token("end", EndOf(y), 0) \in B /\ t \o Tokens(u, g \o Most(y)) \in Seq(B)
             /\ g \o Most(y) \in Seq(Byte) /\ \E j \in Nat : Len(g \o Most(y)) = Total(u, j)
             /\ R = Append(t \o Tokens(u, g \o Most(y)), Token("end", EndOf(y), 0))
  <2>1. /\ Token("end", EndOf(y), 0) \in B /\ t \o Tokens(u, g \o Most(y)) \in Seq(B)
        /\ g \o Most(y) \in Seq(Byte) /\ \E j \in Nat : Len(g \o Most(y)) = Total(u, j)
        /\ ResultOf(a, y).state = Append(t \o Tokens(u, g \o Most(y)), Token("end", EndOf(y), 0))
    BY <1>2, <1>7, SpookyLong, SMTT(30)
  <2> HIDE DEF R
  <2> QED BY <1>3, <2>1
<1>8. ASSUME NEW v, NEW w, NEW i, NEW j, NEW k, NEW l, Token(v, i, k) = Token(w, j, l)
      PROVE  v = w /\ i = j
  <2>1. /\ Token(v, i, k).op = v /\ Token(v, i, k).bytes = i
        /\ Token(w, j, l).op = w /\ Token(w, j, l).bytes = j
    BY DEF Token
  <2> QED BY <1>8, <2>1
<1>9. ASSUME NEW v \in Seq(B), NEW w \in Seq(B), NEW i \in B, NEW j \in B,
             R = Append(v, i), R = Append(w, j)
      PROVE  v = w /\ i = j
  <2>1. Append(v, i) = Append(w, j)
    BY <1>9
  <2> QED BY <2>1, AppendSame
<1> HIDE DEF R, B, z, u
<1>10. CASE x.n < z /\ y.n < z
  <2>1. Token("short", d, x.n) = Token("short", e, y.n)
    BY <1>4, <1>5, <1>9, <1>10
  <2> QED BY <1>8, <2>1
<1>11. CASE x.n < z /\ ~(y.n < z)
  <2>1. Token("short", d, x.n) = Token("end", EndOf(y), 0)
    BY <1>4, <1>7, <1>9, <1>11
  <2>2. "short" = "end"
    BY <1>8, <2>1
  <2> QED BY <2>2
<1>12. CASE ~(x.n < z) /\ y.n < z
  <2>1. Token("end", EndOf(x), 0) = Token("short", e, y.n)
    BY <1>5, <1>6, <1>9, <1>12
  <2>2. "end" = "short"
    BY <1>8, <2>1
  <2> QED BY <2>2
<1>13. CASE ~(x.n < z) /\ ~(y.n < z)
  <2> DEFINE p == Most(x)
             q == Most(y)
             r == Remains(x)
             k == Remains(y)
  <2>1. /\ t \o Tokens(u, f \o p) = t \o Tokens(u, g \o q)
        /\ Token("end", EndOf(x), 0) = Token("end", EndOf(y), 0)
    BY <1>6, <1>7, <1>9, <1>13, ZenonT(60)
  <2>2. EndOf(x) = EndOf(y)
    BY <1>8, <2>1
  <2>3. u \in Nat \ {0} /\ z \in Nat \ {0} /\ z < Radix /\ u < Radix /\ Radix \in Nat \ {0}
    <3>1. /\ u \in Nat \ {0} /\ z \in Nat \ {0} /\ z < Radix /\ Radix \in Nat \ {0}
      BY Sizes, UnitsFill DEF u, z
    <3>2. z = 2 * (z \div 2) + (z % 2) /\ z \div 2 \in Nat /\ z % 2 \in 0 .. 1
      BY <3>1, DivMod
    <3>3. u = z \div 2
      BY DEF Unit, u, z
    <3> QED BY <3>1, <3>2, <3>3
  <2>4. /\ t \in Seq(Of(Byte)) /\ d = f \o Held(x) /\ e = g \o Held(y)
        /\ f \in Seq(Byte) /\ g \in Seq(Byte)
        /\ Proper(a, Byte, x) /\ Proper(a, Byte, y)
    BY <1>1, <1>2 DEF Halves, Proper
  <2>5. /\ f \o p \in Seq(Byte) /\ \E j \in Nat : Len(f \o p) = Total(u, j)
        /\ g \o q \in Seq(Byte) /\ \E j \in Nat : Len(g \o q) = Total(u, j)
    BY <1>6, <1>7, <1>13
  <2> HIDE DEF p, q, r, k
  <2>6. f \o p = g \o q
    <3> DEFINE i == f \o p
               j == g \o q
    <3>1. i \in Seq(Byte) /\ j \in Seq(Byte) /\ t \o Tokens(u, i) = t \o Tokens(u, j)
          /\ \E l \in Nat : Len(i) = Total(u, l) /\ \E l2 \in Nat : Len(j) = Total(u, l2)
      BY <2>1, <2>5
    <3> HIDE DEF i, j
    <3>2. i = j
      BY <2>3, <2>4, <3>1, StateTells
    <3> QED BY <3>2 DEF i, j
  <2>7. p \in Seq(Byte) /\ r \in Seq(Byte) /\ Held(x) = p \o r /\ Len(r) < u
    BY <2>4, MostIs DEF p, r, u
  <2>8. q \in Seq(Byte) /\ k \in Seq(Byte) /\ Held(y) = q \o k /\ Len(k) < u
    BY <2>4, MostIs DEF q, k, u
  <2>9. LastBlockOf(u, r, Len(r) % Radix) = LastBlockOf(u, k, Len(k) % Radix)
    BY <2>2 DEF EndOf, r, k, u
  <2>10. Len(r) % Radix = Len(k) % Radix /\ (Len(r) = Len(k) => r = k)
    BY <2>3, <2>7, <2>8, <2>9, LastBlockTells, SMTT(30)
  <2>11. Len(r) = Len(k)
    <3>1. Len(r) \in Nat /\ Len(k) \in Nat /\ Len(r) < Radix /\ Len(k) < Radix
      BY <2>3, <2>7, <2>8
    <3>2. 0 + Len(r) = Len(r) /\ 0 + Len(k) = Len(k) /\ 0 \in Nat
      BY <3>1, SMTT(30)
    <3>3. (0 + Len(r)) % Radix = (0 + Len(k)) % Radix
      BY <2>10, <3>2
    <3> QED BY <3>1, <3>2, <3>3, SameLength
  <2>12. r = k
    BY <2>10, <2>11
  <2>13. d = (f \o p) \o r /\ e = (g \o q) \o k
    <3>1. f \in Seq(Byte) /\ p \in Seq(Byte) /\ r \in Seq(Byte)
      BY <2>4, <2>7
    <3>2. g \in Seq(Byte) /\ q \in Seq(Byte) /\ k \in Seq(Byte)
      BY <2>4, <2>8
    <3>3. (f \o p) \o r = f \o (p \o r)
      BY <3>1, ThreeParts, SMTT(30)
    <3>4. (g \o q) \o k = g \o (q \o k)
      BY <3>2, ThreeParts, SMTT(30)
    <3> QED BY <2>4, <2>7, <2>8, <3>3, <3>4
  <2> QED BY <2>6, <2>12, <2>13
<1> QED BY <1>10, <1>11, <1>12, <1>13

(* The digest of an object that counts its bytes tells them. *)
LEMMA DigestTells ==
  ASSUME NEW a \in Algorithm, NEW s, NEW t, NEW c, NEW d, NEW e, NEW x, NEW y,
         Holds(a, s, t, c, d, x), Holds(a, s, t, c, e, y), ResultOf(a, x) = ResultOf(a, y)
  PROVE  d = e
<1>1. ResultOf(a, x).state = ResultOf(a, y).state
  OBVIOUS
<1>2. CASE a \in Siphash
  BY <1>1, <1>2, SiphashTells, ZenonT(60)
<1>3. CASE a \in Xxhash
  BY <1>3, XxhashTells, ZenonT(60)
<1>4. CASE a \in Murmur3
  BY <1>4, Murmur3Tells, ZenonT(60)
<1>5. CASE a = "spooky2_128"
  BY <1>1, <1>5, SpookyTells, ZenonT(60)
<1> QED BY <1>2, <1>3, <1>4, <1>5, AlgorithmAssumption DEF Siphash, Xxhash, Murmur3

(* An object that was sound, and took in bytes that n_ can count. *)
LEMMA HoldsFrom ==
  ASSUME NEW a \in Algorithm, NEW o, Sound(a, o), NEW p \in Seq(Byte), NEW x,
         o.n + Len(p) < SizeMod,
         Took(a, Byte, o.seed, o.state, (o.n + Len(p)) % SizeMod, Held(o) \o p, x)
  PROVE  Holds(a, o.seed, o.state, o.n - o.m, Held(o) \o p, x)
<1> DEFINE z == Size[a]
           n == o.n
           m == o.m
           c == n - m
           d == Held(o) \o p
<1>1. /\ o \in Object(a, Byte) /\ Held(o) \in Seq(Byte) /\ o.n % Size[a] = o.m
  BY DEF Sound, Proper, Agree
<1>2. /\ o.seed \in Seq(Byte) /\ o.state \in Seq(Of(Byte)) /\ m \in 0 .. z - 1
      /\ n \in 0 .. SizeMod - 1 /\ o.buffer \in Block(z, Any)
  BY <1>1, ObjectIs
<1>3. z \in Nat \ {0} /\ SizeMod \in Nat \ {0} /\ Len(p) \in Nat
  BY Sizes, LenProperties
<1>4. Len(Held(o)) = m
  BY <1>2, HeldIs DEF Held
<1>5. d \in Seq(Byte) /\ Len(d) = m + Len(p)
  <2>1. d \in Seq(Byte) /\ Len(d) = Len(Held(o)) + Len(p)
    BY <1>1, ConcatProperties
  <2> QED BY <1>4, <2>1
<1>6. (n + Len(p)) % SizeMod = n + Len(p)
  <2> DEFINE k == Len(p)
  <2>1. k \in Nat /\ n + k < SizeMod /\ n \in 0 .. SizeMod - 1 /\ SizeMod \in Nat \ {0}
    BY <1>2, <1>3
  <2> HIDE DEF n, k
  <2>2. n + k \in 0 .. SizeMod - 1
    BY <2>1
  <2>3. (n + k) % SizeMod = n + k
    BY <2>1, <2>2, ModSmall
  <2> QED BY <2>3 DEF k
<1>7. m = n % z
  BY <1>1
<1>8. Took(a, Byte, o.seed, o.state, n + Len(p), d, x)
  BY <1>6
<1> HIDE DEF z, n, m, c, d
<1>9. c \in Nat /\ c % z = 0 /\ c + Len(d) = n + Len(p)
  <2> DEFINE q == n \div z
  <2>1. q \in Nat /\ n = z * q + m
    <3>1. n \in Nat /\ z \in Nat \ {0}
      BY <1>2, <1>3
    <3>2. q \in Nat /\ n = z * q + (n % z)
      BY <3>1, DivMod
    <3> QED BY <1>7, <3>2
  <2> HIDE DEF q
  <2>2. c = z * q + 0 /\ z * q \in Nat /\ 0 \in 0 .. z - 1
    BY <1>2, <1>3, <2>1 DEF c
  <2>3. (z * q + 0) % z = 0
    BY <1>3, <2>1, <2>2, DivModOf
  <2>4. c + Len(d) = n + Len(p)
    BY <1>2, <1>3, <1>5 DEF c
  <2> QED BY <2>2, <2>3, <2>4
<1>10. Took(a, Byte, o.seed, o.state, c + Len(d), d, x)
  BY <1>8, <1>9
<1>11. Holds(a, o.seed, o.state, c, d, x)
  BY <1>2, <1>5, <1>9, <1>10 DEF Holds, z
<1> QED BY <1>11 DEF c, d, n, m

(* The messages looked at are ones that n_ can count. *)
Countable == start.n + Len(text) < SizeMod /\ start.n + MaxBytes < SizeMod

Sounds == Inv /\ Sound(alg, start)

LEMMA CountableCounts ==
  ASSUME Taken, Countable, Countable', [Next]_vars
  PROVE  [\A p \in Input : Update(p) => Counts(alg, h, p)]_vars
<1> SUFFICES ASSUME NEW p \in Input, Update(p) PROVE Counts(alg, h, p)
  OBVIOUS
<1>1. /\ start' = start /\ text' = text \o p /\ p \in Seq(Byte)
  BY InputAssumption DEF Update
<1>2. /\ alg \in Algorithm /\ text \in Seq(Byte) /\ Proper(alg, Any, start)
      /\ h.n = (start.n + Len(text)) % SizeMod
  BY DEF Taken, TakenBy, Took
<1>3. Len(text \o p) = Len(text) + Len(p) /\ Len(text) \in Nat /\ Len(p) \in Nat
  BY <1>1, <1>2, ConcatProperties, LenProperties
<1>4. start.n + Len(text) < SizeMod /\ start.n + Len(text \o p) < SizeMod
  BY <1>1 DEF Countable
<1>5. start.n \in Nat /\ SizeMod \in Nat \ {0}
  BY <1>2, Sizes, ObjectIs DEF Proper
<1>6. (start.n + Len(text)) % SizeMod = start.n + Len(text)
  <2>1. start.n + Len(text) \in 0 .. SizeMod - 1
    BY <1>3, <1>4, <1>5
  <2> QED BY <1>5, <2>1, ModSmall
<1>7. h.n + Len(p) < SizeMod
  BY <1>2, <1>3, <1>4, <1>5, <1>6
<1> QED BY <1>7 DEF Counts

LEMMA SoundsStep ==
  ASSUME Sounds, Inv', [Next]_vars
  PROVE  Sounds'
<1>1. CASE start' = start /\ alg' = alg
  BY <1>1 DEF Sounds
<1>2. CASE start' = h'
  BY <1>2 DEF Sounds, Inv
<1>3. (start' = start /\ alg' = alg) \/ start' = h'
  BY DEF Next, Update, Result, vars
<1> QED BY <1>1, <1>2, <1>3

LEMMA SoundsDigest ==
  ASSUME Taken, Sounds, Countable
  PROVE  DigestIsOfMessage
<1> DEFINE s == start.seed
           t == start.state
           c == start.n - start.m
           b == Held(start)
<1>1. /\ alg \in Algorithm /\ text \in Seq(Byte) /\ Sound(alg, start) /\ Sound(alg, h)
      /\ Byte \in Contents /\ b \in Seq(Byte)
  BY DEF Taken, Sounds, Inv, Contents, Sound, Proper
<1>2. start.n \in Nat /\ SizeMod \in Nat \ {0} /\ Len(text) \in Nat
  BY <1>1, Sizes, ObjectIs, LenProperties DEF Sound, Proper
<1>3. Holds(alg, s, t, c, b \o text, h)
  <2>1. Took(alg, Byte, s, t, (start.n + Len(text)) % SizeMod, b \o text, h)
    BY <1>1 DEF Taken, TakenBy, Took, Sound, Proper
  <2> QED BY <1>1, <2>1, HoldsFrom DEF Countable
<1>4. ASSUME NEW q \in Seq(Byte), Len(q) <= MaxBytes,
             ResultOf(alg, update(alg, start, q)) = ResultOf(alg, h)
      PROVE  q = text
  <2> DEFINE x == update(alg, start, q)
  <2>1. start.n + Len(q) < SizeMod
    BY <1>2, <1>4, LenProperties, BoundAssumption DEF Countable
  <2>2. Took(alg, Byte, s, t, (start.n + Len(q)) % SizeMod, b \o q, x)
    BY <1>1, UpdateTakes DEF Sound
  <2>3. Holds(alg, s, t, c, b \o q, x)
    BY <1>1, <2>1, <2>2, HoldsFrom
  <2>4. ResultOf(alg, x) = ResultOf(alg, h)
    BY <1>4
  <2> HIDE DEF x, s, t, c
  <2>5. b \o q = b \o text
    BY <1>1, <1>3, <2>3, <2>4, DigestTells
  <2> HIDE DEF b
  <2> QED BY <1>1, <2>5, SameParts
<1> SUFFICES ASSUME NEW p \in Input, NEW k \in 0 .. Len(text),
                    Len(SubSeq(text, 1, k) \o p) <= MaxBytes,
                    ResultOf(alg, update(alg, start, SubSeq(text, 1, k) \o p)) = ResultOf(alg, h)
             PROVE  SubSeq(text, 1, k) \o p = text
  BY DEF DigestIsOfMessage
<1>5. p \in Seq(Byte) /\ SubSeq(text, 1, k) \in Seq(Byte)
  BY <1>1, InputAssumption, CutInTwo
<1>6. SubSeq(text, 1, k) \o p \in Seq(Byte)
  BY <1>5, ConcatProperties
<1> QED BY <1>4, <1>6

(* The digest is of the whole message, as long as n_ can count it: whatever *)
(* object it started from, no other bytes give the same digest.            *)
THEOREM Committed == Spec /\ []Countable => []DigestIsOfMessage
<1>1. Taken /\ Countable /\ Countable' /\ [Next]_vars
        => [\A p \in Input : Update(p) => Counts(alg, h, p)]_vars
  BY CountableCounts
<1>2. Spec /\ []Countable => NoWrap
  BY <1>1, SpecTaken, PTL DEF Spec, NoWrap
<1>3. Init /\ Inv => Sounds
  BY DEF Init, Inv, Sounds
<1>4. Sounds /\ Inv' /\ [Next]_vars => Sounds'
  BY SoundsStep
<1>5. Spec /\ []Inv => []Sounds
  BY <1>3, <1>4, PTL DEF Spec
<1>6. Taken /\ Sounds /\ Countable => DigestIsOfMessage
  BY SoundsDigest
<1> QED BY <1>2, <1>5, <1>6, SpecInv, SpecTaken, PTL
------------------------------------------------------------------------------
(* Keys *)

(* An object that takes in its key and finalizes. *)
LEMMA MixedIs ==
  ASSUME NEW a \in Algorithm \ Murmur3, NEW o, Fresh(a, o), o.state = << >>,
         NEW p \in Seq(Byte), Len(p) < SizeMod
  PROVE  LET x == update(a, o, p) IN
         /\ Sound(a, x) /\ Holds(a, o.seed, << >>, 0, p, x)
         /\ x.state \in Seq(Of(Byte)) /\ result(a, x).seed = o.seed
         /\ Len(result(a, x).state) \in Nat /\ Len(result(a, x).state) > 0
<1> DEFINE x == update(a, o, p)
<1>1. /\ Sound(a, o) /\ o.n = 0 /\ Byte \in Contents /\ Proper(a, Byte, o)
      /\ o \in Object(a, Byte) /\ o.m = o.n % Size[a]
  BY DEF Fresh, Sound, Contents, Proper, Agree
<1>2. Size[a] \in Nat \ {0} /\ Len(p) \in Nat
  BY Sizes, LenProperties
<1>3. o.m = 0
  <2>1. 0 \in 0 .. Size[a] - 1
    BY <1>2
  <2> QED BY <1>1, <1>2, <2>1, ModSmall
<1>4. Held(o) = << >>
  BY <1>3, SubSeqEmpty DEF Held
<1>5. Held(o) \o p = p
  BY <1>4, ConcatEmptySeq
<1>6. Took(a, Byte, o.seed, o.state, (o.n + Len(p)) % SizeMod, Held(o) \o p, x)
  BY <1>1, UpdateTakes
<1>7. o.n + Len(p) < SizeMod /\ o.n - o.m = 0
  BY <1>1, <1>2, <1>3
<1>8. Counts(a, o, p)
  BY <1>7 DEF Counts
<1>9. Sound(a, x)
  BY <1>1, <1>8, UpdateSound
<1> HIDE DEF x
<1>10. Holds(a, o.seed, o.state, o.n - o.m, Held(o) \o p, x)
  BY <1>1, <1>6, <1>7, HoldsFrom
<1>11. Holds(a, o.seed, << >>, 0, p, x)
  BY <1>5, <1>7, <1>10
<1>12. x.seed = o.seed /\ Proper(a, Byte, x) /\ x \in Object(a, Byte) /\ Agree(a, x)
  BY <1>6, <1>9 DEF Took, Sound
<1>13. x.state \in Seq(Of(Byte))
  BY <1>12, ObjectIs
<1>14. Left(a, Byte, x, result(a, x))
  BY <1>1, <1>12, ResultLeaves
<1>15. result(a, x).seed = o.seed
  BY <1>1, <1>12, <1>14, LeftProper
<1>16. /\ Len(x.state) \in Nat /\ Len(result(a, x).state) \in Nat
       /\ Len(result(a, x).state) > Len(x.state)
  BY <1>1, <1>12, <1>14, LeftState
<1>17. Len(result(a, x).state) > 0
  BY <1>16
<1> QED BY <1>9, <1>11, <1>13, <1>15, <1>16, <1>17 DEF x

(* The words that xxhash leaves tell what was perturbed, and by what. *)
LEMMA XxhashLeaves ==
  ASSUME NEW a \in Algorithm, a \in Xxhash, NEW s, NEW t, NEW c, NEW d, NEW e, NEW x, NEW y,
         Holds(a, s, t, c, d, x), Holds(a, s, t, c, e, y),
         result(a, x).state = result(a, y).state
  PROVE  d = e
<1> DEFINE E(o) == Token("perturb", Held(o), o.n)
<1>1. ASSUME NEW o, NEW b, Holds(a, s, t, c, b, o)
      PROVE  /\ result(a, o).state = Append(o.state, E(o))
             /\ o.state \in Seq(Of(Byte)) /\ E(o) \in Of(Byte)
  <2>1. o \in Object(a, Byte) /\ Held(o) \in Seq(Byte)
    BY <1>1 DEF Holds, Took
  <2>2. /\ o = Members(o.seed, o.state, o.m, o.n, o.buffer)
        /\ o.state \in Seq(Of(Byte)) /\ o.n \in 0 .. SizeMod - 1
    BY <2>1, ObjectIs
  <2>3. "perturb" \in Kinds
    BY DEF Kinds
  <2>4. E(o) \in Of(Byte)
    BY <2>1, <2>2, <2>3, TokenType
  <2> DEFINE y0 == xxhash_perturb(o)
  <2>5. result(a, o) = Wipe(a, y0)
    BY DEF result, Siphash, Xxhash, Murmur3
  <2>6. y0 = [o EXCEPT !.state = Append(@, E(o))]
    BY DEF xxhash_perturb
  <2> HIDE DEF y0
  <2>7. Wipe(a, y0).state = y0.state
    BY DEF Wipe
  <2> HIDE DEF E
  <2>8. y0.state = Append(o.state, E(o))
    BY <2>2, <2>6 DEF Members
  <2> QED BY <2>2, <2>4, <2>5, <2>7, <2>8
<1> HIDE DEF E
<1>2. /\ result(a, x).state = Append(x.state, E(x))
      /\ x.state \in Seq(Of(Byte)) /\ E(x) \in Of(Byte)
  BY <1>1
<1>3. /\ result(a, y).state = Append(y.state, E(y))
      /\ y.state \in Seq(Of(Byte)) /\ E(y) \in Of(Byte)
  BY <1>1
<1>4. Append(x.state, E(x)) = Append(y.state, E(y))
  BY <1>2, <1>3
<1>5. x.state = y.state /\ E(x) = E(y)
  <2> DEFINE S == Of(Byte)
             v == x.state
             w == y.state
             i == E(x)
             j == E(y)
  <2>1. v \in Seq(S) /\ w \in Seq(S) /\ i \in S /\ j \in S /\ Append(v, i) = Append(w, j)
    BY <1>2, <1>3, <1>4
  <2> HIDE DEF S, v, w, i, j
  <2>2. v = w /\ i = j
    BY <2>1, AppendSame
  <2> QED BY <2>2 DEF v, w, i, j
<1>6. Held(x) = Held(y)
  <2>1. E(x).bytes = Held(x) /\ E(y).bytes = Held(y)
    BY DEF E, Token
  <2> QED BY <1>5, <2>1
<1> QED BY <1>5, <1>6, AlikeTell, ZenonT(60)

(* Of the same object, another key leaves other words. *)
LEMMA MixedTells ==
  ASSUME NEW a \in Algorithm \ Murmur3, NEW o, Fresh(a, o), o.state = << >>,
         NEW p \in Seq(Byte), Len(p) < SizeMod, NEW q \in Seq(Byte), Len(q) < SizeMod,
         Mixed(a, o, p).state = Mixed(a, o, q).state
  PROVE  p = q
<1> DEFINE x == update(a, o, p)
           y == update(a, o, q)
           s == o.seed
           none == << >>
<1>1. /\ Sound(a, x) /\ Holds(a, s, none, 0, p, x) /\ Len(result(a, x).state) > 0
  BY MixedIs
<1>2. /\ Sound(a, y) /\ Holds(a, s, none, 0, q, y) /\ Len(result(a, y).state) > 0
  BY MixedIs
<1>3. Len(o.state) = 0
  OBVIOUS
<1>4. Mixed(a, o, p) = (IF p = << >> THEN o ELSE result(a, x))
      /\ Mixed(a, o, q) = (IF q = << >> THEN o ELSE result(a, y))
  BY DEF Mixed
<1> HIDE DEF x, y, s, none
<1>5. CASE p = << >> \/ q = << >>
  BY <1>1, <1>2, <1>3, <1>4, <1>5
<1>6. CASE p # << >> /\ q # << >>
  <2>1. result(a, x).state = result(a, y).state
    BY <1>4, <1>6
  <2>2. /\ Byte \in Contents /\ a \in Algorithm
        /\ Proper(a, Byte, x) /\ Proper(a, Byte, y)
    BY <1>1, <1>2 DEF Sound, Contents
  <2>3. CASE a \in Xxhash
    BY <1>1, <1>2, <2>1, <2>2, <2>3, XxhashLeaves, ZenonT(60)
  <2>4. CASE a \in Siphash \cup {"spooky2_128"}
    <3>1. ResultOf(a, x).state = ResultOf(a, y).state
      BY <2>1, <2>2, <2>4, DigestState
    <3>2. CASE a \in Siphash
      BY <1>1, <1>2, <2>2, <3>1, <3>2, SiphashTells, ZenonT(60)
    <3>3. CASE a = "spooky2_128"
      BY <1>1, <1>2, <2>2, <3>1, <3>3, SpookyTells, ZenonT(60)
    <3> QED BY <2>4, <3>2, <3>3
  <2> QED BY <2>3, <2>4, AlgorithmAssumption DEF Siphash, Xxhash, Murmur3
<1> QED BY <1>5, <1>6

LEMMA MixedSeed ==
  ASSUME NEW a \in Algorithm \ Murmur3, NEW o, Fresh(a, o), o.state = << >>,
         NEW p \in Seq(Byte), Len(p) < SizeMod
  PROVE  Mixed(a, o, p).seed = o.seed /\ (Mixed(a, o, p).state = << >> <=> p = << >>)
<1> DEFINE x == update(a, o, p)
<1>1. /\ result(a, x).seed = o.seed
      /\ Len(result(a, x).state) \in Nat /\ Len(result(a, x).state) > 0
  BY MixedIs
<1>2. Mixed(a, o, p) = IF p = << >> THEN o ELSE result(a, x)
  BY DEF Mixed
<1> HIDE DEF x
<1>3. Len(<< >>) = 0
  OBVIOUS
<1> QED BY <1>1, <1>2, <1>3

LEMMA SeededIs ==
  ASSUME NEW a \in Algorithm, NEW s \in Seq(Byte)
  PROVE  Fresh(a, seeded(a, s)) /\ seeded(a, s).seed = s /\ seeded(a, s).state = << >>
<1>1. Fresh(a, seeded(a, s))
  BY SeededFresh
<1> QED BY <1>1 DEF seeded

(* Zeroes at the end of a key are lost where the rest of a seed is zero. *)
LEMMA PadSame ==
  ASSUME NEW k \in Nat, NEW p \in Seq(Byte), NEW q \in Seq(Byte),
         Len(p) <= k, Len(q) <= k, Pad(k, p) = Pad(k, q)
  PROVE  WithoutZeroes(p) = WithoutZeroes(q)
<1>1. Byte \subseteq Nat
  BY SizeAssumption DEF Byte
<1>2. p \in Seq(Nat) /\ q \in Seq(Nat)
  BY <1>1, SeqMonotonic
<1>3. ASSUME NEW x \in Seq(Byte), Len(x) <= k, NEW i \in 1 .. k
      PROVE  Pad(k, x)[i] = ByteOf(x, i)
  <2>1. Len(Zeroes(k)) = k /\ Zeroes(k)[i] = 0 /\ Len(x) \in Nat
    BY DEF Zeroes
  <2> DEFINE b == Zeroes(k)
  <2>2. Len(b) = k /\ b[i] = 0
    BY <2>1
  <2> HIDE DEF b
  <2>3. CopyTo(b, 0, x)[i] = IF 0 < i /\ i <= 0 + Len(x) THEN x[i - 0] ELSE b[i]
    BY <2>2 DEF CopyTo
  <2>4. 0 < i /\ 0 + Len(x) = Len(x) /\ i - 0 = i
    BY <2>1
  <2> QED BY <2>2, <2>3, <2>4 DEF Pad, ByteOf, b
<1>4. \A i \in 1 .. k : ByteOf(p, i) = ByteOf(q, i)
  BY <1>3
<1> QED BY <1>2, <1>4, SameWithoutZeroes

LEMMA SplitTells ==
  ASSUME NEW a \in Algorithm \ Murmur3, NEW k \in Nat,
         NEW p \in Seq(Byte), Len(p) < SizeMod, NEW q \in Seq(Byte), Len(q) < SizeMod,
         Split(a, k, p).seed = Split(a, k, q).seed,
         Split(a, k, p).state = Split(a, k, q).state
  PROVE  WithoutZeroes(p) = WithoutZeroes(q)
<1>1. ASSUME NEW r \in Seq(Byte), Len(r) <= k
      PROVE  Split(a, k, r).seed = Pad(k, r) /\ Split(a, k, r).state = << >>
  <2>1. Split(a, k, r) = seeded(a, Pad(k, r))
    BY <1>1 DEF Split
  <2> DEFINE b == Pad(k, r)
  <2>2. b \in Seq(Byte)
    BY PadType
  <2> HIDE DEF b
  <2>3. seeded(a, b).seed = b /\ seeded(a, b).state = << >>
    BY <2>2, SeededIs
  <2> QED BY <2>1, <2>3 DEF b
<1>2. ASSUME NEW r \in Seq(Byte), Len(r) < SizeMod, ~(Len(r) <= k)
      PROVE  LET f == SubSeq(r, 1, k)
                 l == SubSeq(r, k + 1, Len(r))
             IN  /\ f \in Seq(Byte) /\ l \in Seq(Byte) /\ Len(l) < SizeMod /\ r = f \o l
                 /\ Fresh(a, seeded(a, f)) /\ seeded(a, f).state = << >>
                 /\ Split(a, k, r) = Mixed(a, seeded(a, f), l)
                 /\ Split(a, k, r).seed = f /\ Split(a, k, r).state # << >>
  <2> DEFINE f == SubSeq(r, 1, k)
             l == SubSeq(r, k + 1, Len(r))
  <2>1. k \in 0 .. Len(r) /\ Len(r) \in Nat
    BY <1>2, LenProperties
  <2>2. f \in Seq(Byte) /\ l \in Seq(Byte) /\ Len(l) = Len(r) - k /\ f \o l = r
    BY <2>1, CutInTwo
  <2>3. Split(a, k, r) = Mixed(a, seeded(a, f), l)
    BY <1>2 DEF Split
  <2> HIDE DEF f, l
  <2>4. Len(l) < SizeMod /\ l # << >>
    BY <1>2, <2>1, <2>2, SizeAssumption
  <2>5. Fresh(a, seeded(a, f)) /\ seeded(a, f).seed = f /\ seeded(a, f).state = << >>
    BY <2>2, SeededIs
  <2>6. Split(a, k, r).seed = f /\ Split(a, k, r).state # << >>
    <3> DEFINE o == seeded(a, f)
    <3>1. Fresh(a, o) /\ o.state = << >> /\ o.seed = f
      BY <2>5
    <3> HIDE DEF o
    <3>2. Mixed(a, o, l).seed = o.seed /\ (Mixed(a, o, l).state = << >> <=> l = << >>)
      BY <2>2, <2>4, <3>1, MixedSeed
    <3> QED BY <2>3, <2>4, <3>1, <3>2 DEF o
  <2>7. r = f \o l
    BY <2>2
  <2> QED BY <2>2, <2>3, <2>4, <2>5, <2>6, <2>7 DEF f, l
<1>3. CASE Len(p) <= k /\ Len(q) <= k
  BY <1>1, <1>3, PadSame
<1>4. CASE Len(p) <= k /\ ~(Len(q) <= k)
  BY <1>1, <1>2, <1>4
<1>5. CASE ~(Len(p) <= k) /\ Len(q) <= k
  BY <1>1, <1>2, <1>5
<1>6. CASE ~(Len(p) <= k) /\ ~(Len(q) <= k)
  <2> DEFINE f == SubSeq(p, 1, k)
             l == SubSeq(p, k + 1, Len(p))
             g == SubSeq(q, 1, k)
             m == SubSeq(q, k + 1, Len(q))
             o == seeded(a, f)
  <2>1. /\ l \in Seq(Byte) /\ Len(l) < SizeMod /\ p = f \o l
        /\ Fresh(a, o) /\ o.state = << >>
        /\ Split(a, k, p) = Mixed(a, o, l) /\ Split(a, k, p).seed = f
    BY <1>2, <1>6
  <2>2. /\ m \in Seq(Byte) /\ Len(m) < SizeMod /\ q = g \o m
        /\ Split(a, k, q) = Mixed(a, seeded(a, g), m) /\ Split(a, k, q).seed = g
    BY <1>2, <1>6
  <2>3. f = g
    BY <2>1, <2>2
  <2>4. Mixed(a, o, l).state = Mixed(a, o, m).state
    BY <2>1, <2>2, <2>3
  <2> HIDE DEF f, l, g, m, o
  <2>5. l = m
    BY <2>1, <2>2, <2>4, MixedTells
  <2>6. p = q
    BY <2>1, <2>2, <2>3, <2>5
  <2> QED BY <2>6
<1> QED BY <1>3, <1>4, <1>5, <1>6

LEMMA SiphashKeys ==
  ASSUME NEW a \in Algorithm, a \in Siphash,
         NEW p \in Seq(Byte), Len(p) < SizeMod, NEW q \in Seq(Byte), Len(q) < SizeMod,
         siphash_key(a, p).seed = siphash_key(a, q).seed,
         siphash_key(a, p).state = siphash_key(a, q).state
  PROVE  WithoutZeroes(p) = WithoutZeroes(q)
<1> DEFINE k == SeedSize[a]
           D == Default(a)
           z == Zeroes(k)
<1>1. a \in Algorithm \ Murmur3 /\ k \in Nat
  BY SeedSizes DEF Siphash, Murmur3
<1>2. z \in Seq(Byte) /\ Len(z) = k
  <2>1. k \in Nat
    BY <1>1
  <2> HIDE DEF k
  <2>2. z \in Seq(Byte)
    BY <2>1, ZeroBytes
  <2>3. Len(z) = k
    BY <2>1 DEF Zeroes
  <2> QED BY <2>2, <2>3
<1>3. Fresh(a, D) /\ D.seed = z /\ D.state = << >>
  BY <1>2, SeededIs DEF Default
<1> HIDE DEF D, k
<1>4. ASSUME NEW r \in Seq(Byte), Len(r) = k
      PROVE  siphash_key(a, r).seed = r /\ siphash_key(a, r).state = << >>
  BY <1>4, SeededIs DEF siphash_key, k
<1>5. ASSUME NEW r \in Seq(Byte), Len(r) < SizeMod, Len(r) # k
      PROVE  /\ siphash_key(a, r) = Mixed(a, D, r) /\ siphash_key(a, r).seed = z
             /\ siphash_key(a, r).state = << >> <=> r = << >>
  <2>1. siphash_key(a, r) = Mixed(a, D, r)
    BY <1>5 DEF siphash_key, k, D
  <2>2. Mixed(a, D, r).seed = D.seed /\ (Mixed(a, D, r).state = << >> <=> r = << >>)
    BY <1>1, <1>3, <1>5, MixedSeed
  <2> QED BY <1>3, <2>1, <2>2
<1>6. WithoutZeroes(z) = WithoutZeroes(<< >>)
  <2> DEFINE e == << >>
  <2>1. e \in Seq(Byte) /\ Len(e) = 0 /\ Len(e) <= k /\ Len(z) <= k
    BY <1>1, <1>2
  <2>2. Pad(k, z) = z /\ Pad(k, e) = z
    BY <1>1 DEF Pad, CopyTo, Zeroes
  <2> HIDE DEF e, z
  <2>3. WithoutZeroes(z) = WithoutZeroes(e)
    BY <1>1, <1>2, <2>1, <2>2, PadSame
  <2> QED BY <2>3 DEF e
<1> HIDE DEF z
<1>7. CASE Len(p) = k /\ Len(q) = k
  <2>1. p = q
    BY <1>4, <1>7
  <2> QED BY <2>1
<1>8. CASE Len(p) = k /\ Len(q) # k
  <2>1. p = z /\ q = << >>
    BY <1>4, <1>5, <1>8
  <2> QED BY <1>6, <2>1
<1>9. CASE Len(p) # k /\ Len(q) = k
  <2>1. q = z /\ p = << >>
    BY <1>4, <1>5, <1>9
  <2> QED BY <1>6, <2>1
<1>10. CASE Len(p) # k /\ Len(q) # k
  <2>1. Mixed(a, D, p).state = Mixed(a, D, q).state
    BY <1>5, <1>10
  <2>2. p = q
    BY <1>1, <1>3, <2>1, MixedTells
  <2> QED BY <2>2
<1> QED BY <1>7, <1>8, <1>9, <1>10

LEMMA KeysApart ==
  ASSUME NEW a \in Algorithm \ Murmur3, NEW p \in Key, NEW q \in Key,
         Visible(construct(a, p)) = Visible(construct(a, q))
  PROVE  WithoutZeroes(p) = WithoutZeroes(q)
<1>1. /\ p \in Seq(Byte) /\ Len(p) < SizeMod
      /\ q \in Seq(Byte) /\ Len(q) < SizeMod
  BY InputAssumption
<1>2. /\ construct(a, p).seed = construct(a, q).seed
      /\ construct(a, p).state = construct(a, q).state
  BY DEF Visible
<1>3. CASE a \in Siphash
  <2>1. \A r : construct(a, r) = siphash_key(a, r)
    BY <1>3 DEF construct, Siphash, Xxhash
  <2> QED BY <1>1, <1>2, <1>3, <2>1, SiphashKeys
<1>4. CASE a \in Xxhash
  <2>1. \A r : construct(a, r) = Mixed(a, Default(a), r)
    BY <1>4 DEF construct, xxhash_key, Siphash, Xxhash
  <2>2. SeedSize[a] \in Nat
    BY SeedSizes
  <2>3. Fresh(a, Default(a)) /\ Default(a).state = << >>
    BY <2>2, ZeroBytes, SeededIs DEF Default
  <2>4. p = q
    BY <1>1, <1>2, <2>1, <2>3, MixedTells
  <2> QED BY <2>4
<1>5. CASE a = "spooky2_128"
  <2>1. \A r : construct(a, r) = Split(a, SeedSize[a], r)
    BY <1>5 DEF construct, spooky2_key, Siphash, Xxhash
  <2>2. SeedSize[a] \in Nat
    BY SeedSizes
  <2> QED BY <1>1, <1>2, <2>1, <2>2, SplitTells
<1> QED BY <1>3, <1>4, <1>5, AlgorithmAssumption DEF Siphash, Xxhash, Murmur3

(* But for zeroes at its end, another key makes another object, however    *)
(* long the two are and also where one is the seed and the other is hashed.*)
THEOREM DistinctKeys == Spec => []KeysDifferButForZeroes
<1>1. Taken => KeysDifferButForZeroes
  BY KeysApart DEF Taken, KeysDifferButForZeroes
<1> QED BY <1>1, SpecTaken, PTL
==============================================================================
