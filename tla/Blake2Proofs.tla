---------------------------- MODULE Blake2Proofs -----------------------------
(***************************************************************************)
(* Proofs about Blake2, for every size of a block and a word, every key    *)
(* and every input.                                                        *)
(***************************************************************************)
EXTENDS Blake2, DataLemmas

LEMMA Sizes ==
  /\ block_size \in Nat \ {0} /\ Word \in Nat \ {0}
  /\ block_size \in Nat /\ 1 < block_size /\ block_size < Word
  /\ block_size \div 2 \in 1 .. block_size - 1
  BY SizeAssumption

------------------------------------------------------------------------------
(* The count of bytes *)

Digit == 0 .. Word - 1

(* The two words of a count. *)
Pair(v) == <<v % Word, (v \div Word) % Word>>

LEMMA PairType ==
  ASSUME NEW v \in Nat
  PROVE  /\ Pair(v) \in Digit \X Digit
         /\ Pair(v)[1] = v % Word /\ Pair(v)[2] = (v \div Word) % Word
<1>1. v \div Word \in Nat /\ v % Word \in Digit
  BY Sizes, DivMod DEF Digit
<1>2. (v \div Word) % Word \in Digit
  BY Sizes, <1>1, DivMod DEF Digit
<1> QED BY <1>1, <1>2 DEF Pair

(* incr_len adds, and carries. *)
LEMMA IncrPair ==
  ASSUME NEW v \in Nat, NEW n \in 0 .. block_size
  PROVE  incr_len(Pair(v), n) = Pair(v + n)
<1> DEFINE W == Word
           x == v % W
           h == v \div W
<1>1. W \in Nat \ {0} /\ n \in Nat /\ n < W
  BY Sizes
<1>2. h \in Nat /\ x \in 0 .. W - 1 /\ v = W * h + x
  BY <1>1, DivMod
<1>3. Pair(v)[1] = x /\ Pair(v)[2] = h % W
  BY PairType
<1> HIDE DEF x, h, W
<1>4. CASE x + n < W
  <2>1. x + n \in 0 .. W - 1 /\ ~(x + n < n) /\ v + n = W * h + (x + n)
    BY <1>1, <1>2, <1>4
  <2>2. (v + n) \div W = h /\ (v + n) % W = x + n
    <3>1. PICK y \in 0 .. W - 1 : y = x + n
      BY <2>1
    <3>2. v + n = W * h + y
      BY <2>1, <3>1
    <3>3. (v + n) \div W = h /\ (v + n) % W = y
      BY <1>1, <1>2, <3>2, DivModOf
    <3> QED BY <3>1, <3>3
  <2>3. (x + n) % W = x + n
    <3>1. W * 0 + (x + n) = x + n
      BY <1>1, <2>1
    <3> QED BY <1>1, <2>1, <3>1, DivModOf
  <2>4. incr_len(Pair(v), n) = <<x + n, h % W>>
    BY <1>3, <2>1, <2>3, Zenon DEF incr_len, W
  <2> QED BY <2>2, <2>4 DEF Pair, W
<1>5. CASE ~(x + n < W)
  <2> DEFINE y == x + n - W
  <2>1. y \in 0 .. W - 1 /\ y < n /\ x + n = W * 1 + y /\ v + n = W * (h + 1) + y
    BY <1>1, <1>2, <1>5
  <2> HIDE DEF y
  <2>2. (v + n) \div W = h + 1 /\ (v + n) % W = y
    <3>1. h + 1 \in Nat
      BY <1>2
    <3> QED BY <1>1, <2>1, <3>1, DivModOf, ZenonT(60)
  <2>3. (x + n) % W = y
    BY <1>1, <2>1, DivModOf
  <2>4. ((h % W) + 1) % W = (h + 1) % W
    BY <1>1, <1>2, ModPlus
  <2>5. incr_len(Pair(v), n) = <<y, (h + 1) % W>>
    BY <1>3, <2>1, <2>3, <2>4, Zenon DEF incr_len, W
  <2> QED BY <2>2, <2>5 DEF Pair, W
<1> QED BY <1>4, <1>5

LEMMA WordSquared ==
  ASSUME NEW x \in Digit, NEW y \in Digit
  PROVE  /\ Word * Word \in Nat \ {0}
         /\ x + (Word * y) \in 0 .. (Word * Word) - 1
<1>1. Word \in Nat \ {0} /\ x \in Nat /\ y \in Nat /\ x <= Word - 1 /\ y <= Word - 1
  BY Sizes DEF Digit
<1>2. PICK d \in Nat : Word = 1 + y + d
  <2>1. Word - y - 1 \in Nat
    BY <1>1
  <2> QED BY <1>1, <2>1
<1>3. Word * Word = Word + (Word * y) + (Word * d)
  BY <1>1, <1>2
<1>4. Word * d \in Nat /\ Word * y \in Nat
  BY <1>1
<1> QED BY <1>1, <1>3, <1>4

(* The two words hold the count modulo the square of what one holds. *)
LEMMA PairValue ==
  ASSUME NEW v \in Nat
  PROVE  Value(Pair(v)) = v % (Word * Word)
<1> DEFINE x == v % Word
           h == v \div Word
           y == h % Word
           g == h \div Word
<1>1. h \in Nat /\ x \in Digit /\ v = Word * h + x
  BY Sizes, DivMod DEF Digit
<1> HIDE DEF x, h
<1>2. g \in Nat /\ y \in Digit /\ h = Word * g + y
  BY Sizes, <1>1, DivMod DEF Digit
<1>3. Value(Pair(v)) = x + (Word * y)
  BY PairType, Zenon DEF Value, x, y, h
<1> HIDE DEF y, g
<1>4. v = (Word * Word) * g + (x + (Word * y))
  <2>1. Word \in Nat /\ x \in Nat /\ y \in Nat
    BY Sizes, <1>1, <1>2 DEF Digit
  <2>2. Word * (Word * g + y) = (Word * Word) * g + (Word * y)
    BY <1>2, <2>1
  <2>3. Word * y \in Nat /\ (Word * Word) * g \in Nat
    BY <1>2, <2>1
  <2> QED BY <1>1, <1>2, <2>1, <2>2, <2>3
<1>5. Word * Word \in Nat \ {0} /\ x + (Word * y) \in 0 .. (Word * Word) - 1
  BY <1>1, <1>2, WordSquared
<1> DEFINE M == Word * Word
           r == x + (Word * y)
<1> HIDE DEF M, r
<1>6. v = M * g + r /\ M \in Nat \ {0} /\ r \in 0 .. M - 1
  BY <1>4, <1>5 DEF M, r
<1>7. v % M = r
  BY <1>2, <1>6, DivModOf
<1> QED BY <1>3, <1>7 DEF M, r

(* Every count is of this form. *)
LEMMA PairOf ==
  ASSUME NEW t \in Digit \X Digit
  PROVE  Value(t) \in Nat /\ t = Pair(Value(t))
<1>1. t = <<t[1], t[2]>> /\ t[1] \in Digit /\ t[2] \in Digit
  OBVIOUS
<1> DEFINE x == t[1]
           y == t[2]
           v == x + (Word * y)
<1>2. Value(t) = v
  BY DEF Value
<1> HIDE DEF x, y
<1>3. x \in Nat /\ y \in Nat /\ x \in 0 .. Word - 1 /\ y \in 0 .. Word - 1 /\ Word \in Nat \ {0}
  BY <1>1, Sizes DEF Digit, x, y
<1>4. Word * y \in Nat /\ v = Word * y + x
  BY <1>3
<1>5. v \div Word = y /\ v % Word = x
  <2> HIDE DEF v
  <2> QED BY <1>3, <1>4, DivModOf
<1>6. y % Word = y
  <2>1. Word * 0 + y = y
    BY <1>3
  <2> QED BY <1>3, <2>1, DivModOf
<1>7. v \in Nat
  BY <1>3, <1>4
<1>8. Pair(v) = <<x, y>>
  BY <1>5, <1>6, Zenon DEF Pair
<1> HIDE DEF v
<1> QED BY <1>1, <1>2, <1>7, <1>8 DEF x, y

------------------------------------------------------------------------------
(* Cutting a message: whole blocks, as long as there is more, and the rest *)

Before(len) == IF len = 0 THEN 0 ELSE (len - 1) \div block_size

LEMMA BeforeType ==
  ASSUME NEW len \in Nat
  PROVE  LET k == Before(len)  s == Total(block_size, k) IN
         /\ k \in Nat /\ s \in Nat /\ s <= len
         /\ len - s \in 0 .. block_size
         /\ len = 0 => k = 0 /\ s = 0
         /\ len # 0 => len - s \in 1 .. block_size
<1>1. CASE len = 0
  <2>1. Before(len) = 0
    BY <1>1 DEF Before
  <2>2. Total(block_size, 0) = 0
    BY Sizes, TotalOne
  <2> QED BY <1>1, <2>1, <2>2, Sizes
<1>2. CASE len # 0
  <2> DEFINE k == Whole(block_size, len - 1)
             s == Total(block_size, k)
  <2>1. len - 1 \in Nat
    BY <1>2
  <2>2. /\ k \in Nat
        /\ Rest(block_size, len - 1) \in 0 .. block_size - 1
        /\ len - 1 = s + Rest(block_size, len - 1)
    BY <2>1, Sizes, WholeRest
  <2>3. Before(len) = k
    BY <1>2 DEF Before, Whole
  <2> HIDE DEF k
  <2>4. s \in Nat
    BY <2>2, Sizes, TotalType
  <2> HIDE DEF s
  <2>5. s <= len /\ len - s \in 1 .. block_size
    BY <2>2, <2>4, Sizes
  <2>6. len - s \in 0 .. block_size
    BY <2>5
  <2> QED BY <1>2, <2>2, <2>3, <2>4, <2>5, <2>6 DEF s
<1> QED BY <1>1, <1>2

LEMMA BeforeOf ==
  ASSUME NEW k \in Nat, NEW r \in 1 .. block_size
  PROVE  Before(Total(block_size, k) + r) = k
<1>1. PICK e \in 0 .. block_size - 1 : r = e + 1
  <2>1. r - 1 \in 0 .. block_size - 1
    BY Sizes
  <2> QED BY <2>1
<1>2. PICK s \in Nat : s = Total(block_size, k)
  BY Sizes, TotalType
<1>3. s + r # 0 /\ (s + r) - 1 = s + e
  BY <1>1, <1>2
<1>4. Whole(block_size, s + e) = k
  BY <1>2, Sizes, WholeRestUnique
<1> QED BY <1>2, <1>3, <1>4, Zenon DEF Before, Whole

(* What follows a message is cut as what follows its last part. *)
LEMMA BeforeAdd ==
  ASSUME NEW len \in Nat, NEW n \in Nat
  PROVE  LET k == Before(len)  l == len - Total(block_size, k) IN
         Before(len + n) = k + Before(l + n)
<1> DEFINE k == Before(len)
           s == Total(block_size, k)
           l == len - s
           k2 == Before(l + n)
           s2 == Total(block_size, k2)
           r2 == (l + n) - s2
<1>1. /\ k \in Nat /\ s \in Nat /\ l \in Nat /\ s + l = len
      /\ len = 0 => k = 0 /\ s = 0
      /\ len # 0 => l # 0
  <2>1. /\ k \in Nat /\ s \in Nat /\ s <= len /\ l \in 0 .. block_size
        /\ len = 0 => k = 0 /\ s = 0
        /\ len # 0 => l \in 1 .. block_size
    BY BeforeType
  <2> HIDE DEF k, s
  <2> QED BY <2>1
<1> HIDE DEF k, s, l
<1>2. l + n \in Nat
  BY <1>1
<1>3. k2 \in Nat /\ s2 \in Nat /\ (l + n # 0 => r2 \in 1 .. block_size)
  BY <1>2, BeforeType
<1> HIDE DEF k2
<1>4. CASE len = 0
  <2>1. l = 0 /\ l + n = len + n /\ k = 0
    BY <1>1, <1>4
  <2> QED BY <1>3, <2>1 DEF k, s, l, k2
<1>5. CASE len # 0
  <2>1. l + n # 0
    BY <1>1, <1>5
  <2> HIDE DEF s2
  <2>2. r2 \in 1 .. block_size /\ len + n = (s + s2) + r2
    BY <1>1, <1>3, <2>1, Sizes
  <2>3. k + k2 \in Nat /\ Total(block_size, k + k2) = s + s2
    <3>1. Total(block_size, k + k2) = Total(block_size, k) + Total(block_size, k2)
      BY <1>1, <1>3, Sizes, TotalPlus
    <3>2. k + k2 \in Nat
      BY <1>1, <1>3
    <3> QED BY <3>1, <3>2 DEF s, s2
  <2> HIDE DEF r2
  <2>4. Before(len + n) = k + k2
    BY <2>2, <2>3, BeforeOf
  <2> QED BY <2>4 DEF k, s, l, k2
<1> QED BY <1>4, <1>5

Last(d)   == SubSeq(d, Total(block_size, Before(Len(d))) + 1, Len(d))
Cut(d, j) == [i \in 1 .. block_size |-> d[Pos(block_size, j, i)]]
Padded(q) == CopyTo(Zeroes(block_size), 0, q)

LEMMA LastType ==
  ASSUME NEW d \in Seq(Nat)
  PROVE  LET s == Total(block_size, Before(Len(d))) IN
         /\ Last(d) \in Seq(Nat)
         /\ Len(Last(d)) = Len(d) - s
         /\ Len(Last(d)) \in 0 .. block_size
         /\ \A i \in 1 .. Len(Last(d)) : Last(d)[i] = d[s + i]
<1> DEFINE s == Total(block_size, Before(Len(d)))
<1>1. Len(d) \in Nat
  OBVIOUS
<1>2. s \in Nat /\ s <= Len(d) /\ Len(d) - s \in 0 .. block_size
  BY <1>1, BeforeType
<1> HIDE DEF s
<1>3. PICK k \in Nat : k = Len(d) - s
  BY <1>1, <1>2
<1>4. s + k = Len(d) /\ s + k <= Len(d)
  BY <1>1, <1>2, <1>3
<1>5. LET q == SubSeq(d, s + 1, s + k) IN
      /\ q \in Seq(Nat) /\ Len(q) = k
      /\ \A i \in 1 .. k : q[i] = d[s + i]
  BY <1>2, <1>4, Part
<1>6. Last(d) = SubSeq(d, s + 1, s + k)
  BY <1>4 DEF Last, s
<1> QED BY <1>2, <1>3, <1>5, <1>6 DEF s

LEMMA CutType ==
  ASSUME NEW d \in Seq(Nat), NEW j \in 1 .. Before(Len(d))
  PROVE  /\ Cut(d, j) \in Block(block_size, Nat)
         /\ \A i \in 1 .. block_size : Pos(block_size, j, i) \in 1 .. Len(d)
<1> DEFINE k == Before(Len(d))
<1>1. Len(d) \in Nat
  OBVIOUS
<1>2. k \in Nat /\ Total(block_size, k) \in Nat /\ Total(block_size, k) <= Len(d)
  BY <1>1, BeforeType
<1> HIDE DEF k
<1>3. ASSUME NEW i \in 1 .. block_size
      PROVE  Pos(block_size, j, i) \in 1 .. Len(d)
  <2>1. j \in 1 .. k
    BY DEF k
  <2>2. Pos(block_size, j, i) \in 1 .. Total(block_size, k)
    BY <1>2, <2>1, Sizes, PosType
  <2> QED BY <1>1, <1>2, <2>2
<1>4. ASSUME NEW i \in 1 .. block_size
      PROVE  d[Pos(block_size, j, i)] \in Nat
  BY <1>3, ElementOfSeq
<1> QED BY <1>3, <1>4 DEF Cut, Block

LEMMA PaddedType ==
  ASSUME NEW q \in Seq(Nat), Len(q) <= block_size
  PROVE  /\ Padded(q) \in Block(block_size, Nat)
         /\ \A i \in 1 .. block_size : Padded(q)[i] = IF i <= Len(q) THEN q[i] ELSE 0
         /\ \A i \in Len(q) + 1 .. block_size : Padded(q)[i] = 0
         /\ SubSeq(Padded(q), 1, Len(q)) = q
<1>1. /\ Zeroes(block_size) \in [1 .. block_size -> Nat]
      /\ Zeroes(block_size) \in Seq(Nat) /\ Len(Zeroes(block_size)) = block_size
  BY Sizes, ZeroesType
<1>2. Zeroes(block_size) \in Block(block_size, Nat) /\ Len(q) \in Nat
  BY <1>1 DEF Block
<1>3. Padded(q) \in Block(block_size, Nat)
  BY <1>2, Sizes, CopyToType DEF Padded
<1>4. \A i \in 1 .. block_size : Padded(q)[i] = IF i <= Len(q) THEN q[i] ELSE 0
  <2>1. SUFFICES ASSUME NEW i \in 1 .. block_size
                 PROVE  Padded(q)[i] = IF i <= Len(q) THEN q[i] ELSE 0
    OBVIOUS
  <2>2. Zeroes(block_size)[i] = 0 /\ i - 0 = i /\ 0 < i /\ 0 + Len(q) = Len(q)
    BY <1>2 DEF Zeroes
  <2> QED BY <1>1, <2>2 DEF Padded, CopyTo
<1>5. SubSeq(Padded(q), 1, Len(q)) = q
  <2> DEFINE z == Zeroes(block_size)
  <2>1. 0 \in Nat /\ 0 + Len(q) = Len(q) /\ 0 + Len(q) <= block_size
    BY <1>2
  <2>2. SubSeq(CopyTo(z, 0, q), 1, 0 + Len(q)) = SubSeq(z, 1, 0) \o q
    BY <1>2, <2>1, Sizes, CopyPrefix
  <2>3. SubSeq(z, 1, 0) = << >>
    <3>1. SubSeq(z, 1, 0) \in Seq(Nat) /\ Len(SubSeq(z, 1, 0)) = 0
      <4>1. 0 \in Nat /\ 0 <= Len(z)
        BY <1>1, Sizes
      <4> QED BY <1>1, <4>1, Prefix
    <3> QED BY <3>1, EmptySeq
  <2>4. << >> \o q = q
    BY ConcatEmptySeq
  <2> QED BY <2>1, <2>2, <2>3, <2>4 DEF Padded
<1>6. \A i \in Len(q) + 1 .. block_size : Padded(q)[i] = 0
  BY <1>2, <1>4, Sizes
<1> QED BY <1>3, <1>4, <1>5, <1>6

------------------------------------------------------------------------------
(* Objects *)

Members(keylen, chain, b, m, t) ==
  [keylen |-> keylen, chain |-> chain, b |-> b, m |-> m, t |-> t]

LEMMA MembersType ==
  ASSUME NEW k \in 0 .. block_size \div 2, NEW c \in Seq(Compression),
         NEW b \in Block(block_size, Nat), NEW m \in 0 .. block_size,
         NEW t \in Digit \X Digit
  PROVE  Members(k, c, b, m, t) \in Object
  BY DEF Members, Object, Digit

LEMMA MembersAre ==
  ASSUME NEW k, NEW c, NEW b, NEW m, NEW t
  PROVE  /\ Members(k, c, b, m, t).keylen = k
         /\ Members(k, c, b, m, t).chain = c
         /\ Members(k, c, b, m, t).b = b
         /\ Members(k, c, b, m, t).m = m
         /\ Members(k, c, b, m, t).t = t
  BY DEF Members

WithBuffer(o, b, m) == [o EXCEPT !.b = b, !.m = m]

LEMMA WithBufferIs ==
  ASSUME NEW k, NEW c, NEW b0, NEW m0, NEW t, NEW b, NEW m
  PROVE  WithBuffer(Members(k, c, b0, m0, t), b, m) = Members(k, c, b, m, t)
<1> DEFINE o == Members(k, c, b0, m0, t)
           a == [o EXCEPT !.b = b]
<1>1. a = Members(k, c, b, m0, t)
  BY DEF Members
<1>2. [o EXCEPT !.b = b, !.m = m] = [a EXCEPT !.m = m]
  OBVIOUS
<1> HIDE DEF a
<1>3. [a EXCEPT !.m = m] = Members(k, c, b, m, t)
  BY <1>1 DEF Members
<1> QED BY <1>2, <1>3 DEF WithBuffer

LEMMA BytesAssociative ==
  ASSUME NEW f \in Seq(Nat), NEW g \in Seq(Nat), NEW h \in Seq(Nat)
  PROVE  (f \o g) \o h = f \o (g \o h)
<1> DEFINE N == Nat
<1>1. f \in Seq(N) /\ g \in Seq(N) /\ h \in Seq(N)
  OBVIOUS
<1> HIDE DEF N
<1> QED BY <1>1, ConcatAssociative, SMTT(30)

LEMMA ChainAssociative ==
  ASSUME NEW f \in Seq(Compression), NEW g \in Seq(Compression), NEW h \in Seq(Compression)
  PROVE  (f \o g) \o h = f \o (g \o h)
  BY ConcatAssociative

LEMMA BlockIs ==
  ASSUME NEW x \in Block(block_size, Nat)
  PROVE  /\ x \in Seq(Nat) /\ Len(x) = block_size
         /\ \A i \in 1 .. block_size : x[i] \in Nat
<1>1. block_size \in Nat
  BY Sizes
<1>2. x \in [1 .. block_size -> Nat]
  BY DEF Block
<1> QED BY <1>1, <1>2

LEMMA ObjectFacts ==
  ASSUME NEW o \in Object
  PROVE  /\ o = Members(o.keylen, o.chain, o.b, o.m, o.t)
         /\ o.keylen \in 0 .. block_size \div 2
         /\ o.chain \in Seq(Compression) /\ Len(o.chain) \in Nat
         /\ o.b \in Block(block_size, Nat)
         /\ o.b \in Seq(Nat) /\ Len(o.b) = block_size
         /\ o.m \in 0 .. block_size /\ o.m \in Nat
         /\ o.t \in Digit \X Digit
<1>1. /\ o = Members(o.keylen, o.chain, o.b, o.m, o.t)
      /\ o.keylen \in 0 .. block_size \div 2
      /\ o.chain \in Seq(Compression)
      /\ o.b \in Block(block_size, Nat)
      /\ o.m \in 0 .. block_size
      /\ o.t \in Digit \X Digit
  BY DEF Members, Object, Digit
<1>2. o.b \in Seq(Nat) /\ Len(o.b) = block_size
  BY <1>1, BlockIs
<1>3. Len(o.chain) \in Nat /\ o.m \in Nat
  BY <1>1, Sizes
<1> QED BY <1>1, <1>2, <1>3

LEMMA CompressedType ==
  ASSUME NEW block \in Block(block_size, Nat), NEW t \in Digit \X Digit, NEW final \in BOOLEAN
  PROVE  /\ Compressed(block, t, final) \in Compression
         /\ Compressed(block, t, final).block = block
         /\ Compressed(block, t, final).t = t
         /\ Compressed(block, t, final).final = final
  BY DEF Compressed, Compression, Digit

LEMMA TransformIs ==
  ASSUME NEW o \in Object, NEW block \in Block(block_size, Nat), NEW final \in BOOLEAN
  PROVE  LET c == Append(o.chain, Compressed(block, o.t, final)) IN
         /\ transform(o, block, final) = Members(o.keylen, c, o.b, o.m, o.t)
         /\ transform(o, block, final) \in Object
<1> DEFINE x == Compressed(block, o.t, final)
           c == Append(o.chain, x)
<1>1. c \in Seq(Compression)
  <2>1. x \in Compression
    BY ObjectFacts, CompressedType
  <2> HIDE DEF x
  <2> QED BY <2>1, ObjectFacts, AppendProperties
<1>2. transform(o, block, final) = [o EXCEPT !.chain = c]
  BY DEF transform
<1> HIDE DEF c
<1>3. [o EXCEPT !.chain = c] = Members(o.keylen, c, o.b, o.m, o.t)
  BY DEF Object, Members
<1>4. Members(o.keylen, c, o.b, o.m, o.t) \in Object
  BY <1>1, ObjectFacts, MembersType
<1> QED BY <1>2, <1>3, <1>4 DEF c

LEMMA CountedIs ==
  ASSUME NEW o \in Object, NEW t \in Digit \X Digit
  PROVE  /\ [o EXCEPT !.t = t] = Members(o.keylen, o.chain, o.b, o.m, t)
         /\ [o EXCEPT !.t = t] \in Object
<1>1. [o EXCEPT !.t = t] = Members(o.keylen, o.chain, o.b, o.m, t)
  BY DEF Object, Members
<1>2. Members(o.keylen, o.chain, o.b, o.m, t) \in Object
  BY ObjectFacts, MembersType
<1> QED BY <1>1, <1>2

(* One block of update, for an object that counted to v. *)
LEMMA ConsumeIs ==
  ASSUME NEW o \in Object, NEW v \in Nat, o.t = Pair(v),
         NEW block \in Block(block_size, Nat)
  PROVE  LET t == Pair(v + block_size)
             c == Append(o.chain, Compressed(block, t, FALSE))
         IN  /\ Consume(o, block) = Members(o.keylen, c, o.b, o.m, t)
             /\ Consume(o, block) \in Object
<1> DEFINE t == Pair(v + block_size)
           a == [o EXCEPT !.t = t]
           no == FALSE
<1>1. t = incr_len(o.t, block_size)
  <2>1. block_size \in 0 .. block_size
    BY Sizes
  <2> QED BY <2>1, IncrPair
<1>2. t \in Digit \X Digit
  <2>1. v + block_size \in Nat
    BY Sizes
  <2> QED BY <2>1, PairType
<1>3. Consume(o, block) = transform(a, block, no)
  BY <1>1, Zenon DEF Consume
<1> HIDE DEF t
<1>4. a = Members(o.keylen, o.chain, o.b, o.m, t) /\ a \in Object
  BY <1>2, CountedIs
<1> HIDE DEF a
<1>5. a.keylen = o.keylen /\ a.chain = o.chain /\ a.b = o.b /\ a.m = o.m /\ a.t = t
  BY <1>4, MembersAre
<1>6. no \in BOOLEAN
  OBVIOUS
<1> HIDE DEF no
<1>7. /\ transform(a, block, no)
          = Members(a.keylen, Append(a.chain, Compressed(block, a.t, no)), a.b, a.m, a.t)
      /\ transform(a, block, no) \in Object
  BY <1>4, <1>6, TransformIs
<1> QED BY <1>3, <1>5, <1>7, Zenon DEF t, no

------------------------------------------------------------------------------
(* The blocks that update compresses *)

BlocksOf == BlockSeq(block_size, Nat)

(* What is appended to the chain for these blocks, after v bytes. *)
Run(v, blocks) ==
  [j \in 1 .. Len(blocks) |-> Compressed(blocks[j], Pair(v + Total(block_size, j)), FALSE)]

LEMMA RunType ==
  ASSUME NEW v \in Nat, NEW f \in BlocksOf
  PROVE  /\ Run(v, f) \in Seq(Compression)
         /\ Len(Run(v, f)) = Len(f) /\ Len(f) \in Nat
         /\ \A j \in 1 .. Len(f) :
              Run(v, f)[j] = Compressed(f[j], Pair(v + Total(block_size, j)), FALSE)
<1> DEFINE B == Block(block_size, Nat)
           n == Len(f)
<1>1. f \in Seq(B) /\ n \in Nat
  BY DEF BlocksOf, BlockSeq
<1>2. ASSUME NEW j \in 1 .. n
      PROVE  Compressed(f[j], Pair(v + Total(block_size, j)), FALSE) \in Compression
  <2>1. f[j] \in B
    BY <1>1, ElementOfSeq
  <2>2. j \in Nat
    BY <1>1
  <2>3. v + Total(block_size, j) \in Nat
    <3>1. Total(block_size, j) \in Nat
      BY <2>2, Sizes, TotalType
    <3> QED BY <3>1
  <2>4. Pair(v + Total(block_size, j)) \in Digit \X Digit
    BY <2>3, PairType
  <2> QED BY <2>1, <2>4, CompressedType
<1> HIDE DEF n
<1>3. Run(v, f) = [j \in 1 .. n |-> Compressed(f[j], Pair(v + Total(block_size, j)), FALSE)]
  BY DEF Run, n
<1>4. Run(v, f) \in [1 .. n -> Compression]
  BY <1>2, <1>3
<1>5. \A j \in 1 .. n : Run(v, f)[j] = Compressed(f[j], Pair(v + Total(block_size, j)), FALSE)
  BY <1>3, Zenon
<1>6. Run(v, f) \in Seq(Compression) /\ Len(Run(v, f)) = n
  BY <1>1, <1>4
<1> QED BY <1>1, <1>5, <1>6 DEF n

(* The count goes on from the first blocks to the next. *)
LEMMA RunConcat ==
  ASSUME NEW v \in Nat, NEW f \in BlocksOf, NEW g \in BlocksOf
  PROVE  /\ f \o g \in BlocksOf
         /\ Run(v, f \o g) = Run(v, f) \o Run(v + Total(block_size, Len(f)), g)
<1> DEFINE B == Block(block_size, Nat)
           k == Len(f)
           n == Len(g)
           s == Total(block_size, k)
           e == f \o g
           r == Run(v, f)
           r2 == Run(v + s, g)
<1>1. /\ e \in Seq(B) /\ Len(e) = k + n /\ k \in Nat /\ n \in Nat
      /\ \A j \in 1 .. k + n : e[j] = IF j <= k THEN f[j] ELSE g[j - k]
  <2>1. f \in Seq(B) /\ g \in Seq(B)
    BY DEF BlocksOf, BlockSeq
  <2>2. k \in Nat /\ n \in Nat
    BY <2>1
  <2> HIDE DEF B
  <2>3. /\ e \in Seq(B) /\ Len(e) = k + n
        /\ \A j \in 1 .. k + n : e[j] = IF j <= k THEN f[j] ELSE g[j - k]
    BY <2>1, ConcatProperties
  <2> QED BY <2>2, <2>3
<1>2. e \in BlocksOf
  BY <1>1 DEF BlocksOf, BlockSeq
<1>3. s \in Nat /\ v + s \in Nat
  <2>1. s \in Nat
    BY <1>1, Sizes, TotalType
  <2> QED BY <2>1
<1> HIDE DEF e, s
<1>4. /\ Run(v, e) \in Seq(Compression) /\ Len(Run(v, e)) = k + n
      /\ \A j \in 1 .. k + n :
            Run(v, e)[j] = Compressed(e[j], Pair(v + Total(block_size, j)), FALSE)
  BY <1>1, <1>2, RunType
<1>5. /\ r \in Seq(Compression) /\ Len(r) = k
      /\ \A j \in 1 .. k : r[j] = Compressed(f[j], Pair(v + Total(block_size, j)), FALSE)
  BY RunType
<1>6. /\ r2 \in Seq(Compression) /\ Len(r2) = n
      /\ \A j \in 1 .. n : r2[j] = Compressed(g[j], Pair((v + s) + Total(block_size, j)), FALSE)
  BY <1>3, RunType
<1> HIDE DEF r, r2, k, n
<1>7. /\ r \o r2 \in Seq(Compression) /\ Len(r \o r2) = k + n
      /\ \A j \in 1 .. k + n : (r \o r2)[j] = IF j <= k THEN r[j] ELSE r2[j - k]
  BY <1>5, <1>6, ConcatProperties
<1>8. ASSUME NEW j \in 1 .. k + n
      PROVE  Run(v, e)[j] = (r \o r2)[j]
  <2>1. CASE j <= k
    <3>1. j \in 1 .. k
      BY <1>1, <2>1
    <3> QED BY <1>1, <1>4, <1>5, <1>7, <2>1, <3>1, ZenonT(60)
  <2>2. CASE ~(j <= k)
    <3>1. PICK i \in 1 .. n : i = j - k
      BY <1>1, <2>2
    <3>2. i \in Nat /\ j = k + i
      BY <1>1, <3>1
    <3>3. Total(block_size, k + i) = Total(block_size, k) + Total(block_size, i)
      BY <1>1, <3>2, Sizes, TotalPlus
    <3>4. Total(block_size, i) \in Nat
      BY <3>2, Sizes, TotalType
    <3>5. v + Total(block_size, j) = (v + s) + Total(block_size, i)
      BY <1>3, <3>2, <3>3, <3>4 DEF s
    <3>6. e[j] = g[i] /\ (r \o r2)[j] = r2[i]
      BY <1>1, <1>7, <2>2, <3>1
    <3> QED BY <1>4, <1>6, <3>5, <3>6, Zenon
  <2> QED BY <2>1, <2>2
<1>9. Run(v, e) = r \o r2
  BY <1>4, <1>7, <1>8, SeqEqual
<1> QED BY <1>2, <1>9 DEF e, r, r2, s, k

LEMMA RunOfOne ==
  ASSUME NEW v \in Nat, NEW block \in Block(block_size, Nat)
  PROVE  /\ <<block>> \in BlocksOf
         /\ Run(v, <<block>>) = <<Compressed(block, Pair(v + block_size), FALSE)>>
<1>1. <<block>> \in BlocksOf /\ Len(<<block>>) = 1 /\ <<block>>[1] = block
  BY DEF BlocksOf, BlockSeq
<1>2. Total(block_size, 1) = block_size
  BY Sizes, TotalOne
<1> DEFINE r == Run(v, <<block>>)
           x == Compressed(block, Pair(v + block_size), FALSE)
<1>3. r \in Seq(Compression) /\ Len(r) = 1 /\ r[1] = x
  <2>1. /\ r \in Seq(Compression) /\ Len(r) = Len(<<block>>)
        /\ \A j \in 1 .. Len(<<block>>) :
              r[j] = Compressed(<<block>>[j], Pair(v + Total(block_size, j)), FALSE)
    BY <1>1, RunType
  <2>2. 1 \in 1 .. Len(<<block>>)
    BY <1>1
  <2>3. r[1] = Compressed(<<block>>[1], Pair(v + Total(block_size, 1)), FALSE)
    BY <2>1, <2>2, Zenon
  <2> QED BY <1>1, <1>2, <2>1, <2>3, Zenon
<1> HIDE DEF r, x
<1>4. r = <<x>>
  BY <1>3
<1> QED BY <1>1, <1>4 DEF r, x

LEMMA ConsumeType ==
  ASSUME NEW o \in Object, NEW block \in Block(block_size, Nat)
  PROVE  Consume(o, block) \in Object
<1>1. Value(o.t) \in Nat /\ o.t = Pair(Value(o.t))
  BY ObjectFacts, PairOf
<1> QED BY <1>1, ConsumeIs

LEMMA ConsumedSteps ==
  ASSUME NEW o \in Object, NEW f \in BlocksOf
  PROVE  \E w : /\ w[0] = o /\ w[Len(f)] = Consumed(o, f)
               /\ \A i \in 1 .. Len(f) : w[i] = Consume(w[i - 1], f[i])
<1> DEFINE n == Len(f)
           F == [i \in 1 .. n |-> [x \in Object |-> Consume(x, f[i])]]
           Loop(w) == [i \in 0 .. n |-> IF i = 0 THEN o ELSE Consume(w[i - 1], f[i])]
           w == CHOOSE w : w = Loop(w)
<1>1. n \in Nat /\ \A i \in 1 .. n : f[i] \in Block(block_size, Nat)
  BY LenProperties, ElementOfSeq DEF BlocksOf, BlockSeq
<1>2. F \in [1 .. n -> [Object -> Object]]
  <2>1. \A i \in 1 .. n, x \in Object : Consume(x, f[i]) \in Object
    BY <1>1, ConsumeType
  <2> QED BY <2>1
<1>3. PICK g \in [0 .. n -> Object] :
        g[0] = o /\ \A i \in 1 .. n : g[i] = F[i][g[i - 1]]
  <2> HIDE DEF F, n, Loop, w
  <2>1. Loops(Object, o, n, F) # {}
    BY <1>1, <1>2, Recursion
  <2> QED BY <2>1 DEF Loops
<1>4. g = Loop(g)
  <2>1. ASSUME NEW i \in 1 .. n PROVE g[i] = Consume(g[i - 1], f[i])
    <3>1. i - 1 \in 0 .. n
      BY <1>1
    <3>2. g[i - 1] \in Object
      BY <3>1
    <3> QED BY <1>3, <3>2
  <2>2. \A i \in 0 .. n : g[i] = IF i = 0 THEN o ELSE Consume(g[i - 1], f[i])
    <3> HIDE DEF F
    <3> QED BY <1>1, <1>3, <2>1
  <2> HIDE DEF F
  <2> QED BY <2>2
<1>5. w = Loop(w)
  BY <1>4
<1>6. Consumed(o, f) = w[n]
  BY DEF Consumed
<1>7. w[0] = o /\ \A i \in 1 .. n : w[i] = Consume(w[i - 1], f[i])
  <2> HIDE DEF w
  <2> QED BY <1>1, <1>5
<1> QED BY <1>6, <1>7

(* The first i + 1 blocks are the first i and one more. *)
LEMMA NextPrefix ==
  ASSUME NEW f \in BlocksOf, NEW i \in 0 .. Len(f) - 1
  PROVE  /\ SubSeq(f, 1, i) \in BlocksOf /\ Len(SubSeq(f, 1, i)) = i
         /\ f[i + 1] \in Block(block_size, Nat)
         /\ SubSeq(f, 1, i + 1) = SubSeq(f, 1, i) \o <<f[i + 1]>>
<1> DEFINE B == Block(block_size, Nat)
           p == SubSeq(f, 1, i)
           q == SubSeq(f, 1, i + 1)
           x == f[i + 1]
<1>1. f \in Seq(B) /\ Len(f) \in Nat /\ i \in Nat /\ i <= Len(f)
      /\ i + 1 \in Nat /\ i + 1 <= Len(f) /\ i + 1 \in 1 .. Len(f)
  BY DEF BlocksOf, BlockSeq
<1> HIDE DEF B
<1>2. p \in Seq(B) /\ Len(p) = i /\ \A j \in 1 .. i : p[j] = f[j]
  BY <1>1, Prefix
<1>3. q \in Seq(B) /\ Len(q) = i + 1 /\ \A j \in 1 .. i + 1 : q[j] = f[j]
  BY <1>1, Prefix
<1>4. x \in B
  BY <1>1, ElementOfSeq
<1> HIDE DEF p, q, x
<1>5. <<x>> \in Seq(B) /\ Len(<<x>>) = 1 /\ <<x>>[1] = x
  BY <1>4
<1>6. /\ p \o <<x>> \in Seq(B) /\ Len(p \o <<x>>) = i + 1
      /\ \A j \in 1 .. i + 1 : (p \o <<x>>)[j] = IF j <= i THEN p[j] ELSE <<x>>[j - i]
  BY <1>2, <1>5, ConcatProperties
<1>7. ASSUME NEW j \in 1 .. i + 1 PROVE q[j] = (p \o <<x>>)[j]
  <2>1. CASE j <= i
    BY <1>1, <1>2, <1>3, <1>6, <2>1, SMTT(30)
  <2>2. CASE ~(j <= i)
    <3>1. j = i + 1 /\ j - i = 1
      BY <1>1, <2>2
    <3>2. q[j] = x
      BY <1>3, <3>1 DEF x
    <3> QED BY <1>5, <1>6, <2>2, <3>1, <3>2
  <2> QED BY <2>1, <2>2
<1>8. q = p \o <<x>>
  BY <1>3, <1>6, <1>7, SeqEqual
<1> QED BY <1>2, <1>4, <1>8 DEF p, q, x, B, BlocksOf, BlockSeq

(* What the loop of update over whole blocks does. *)
After(o, v, f, t) == Members(o.keylen, o.chain \o Run(v, f), o.b, o.m, t)

LEMMA AfterType ==
  ASSUME NEW o \in Object, NEW v \in Nat, NEW f \in BlocksOf, NEW t \in Digit \X Digit
  PROVE  /\ After(o, v, f, t) \in Object
         /\ o.chain \o Run(v, f) \in Seq(Compression)
<1>1. o.chain \o Run(v, f) \in Seq(Compression)
  BY ObjectFacts, RunType, ConcatProperties
<1> QED BY <1>1, ObjectFacts, MembersType DEF After

LEMMA ConsumeMore ==
  ASSUME NEW o \in Object, NEW v \in Nat, NEW f \in BlocksOf,
         NEW block \in Block(block_size, Nat)
  PROVE  Consume(After(o, v, f, Pair(v + Total(block_size, Len(f)))), block)
           = After(o, v, f \o <<block>>, Pair(v + Total(block_size, Len(f) + 1)))
<1> DEFINE n == Len(f)
           s == Total(block_size, n)
           a == After(o, v, f, Pair(v + s))
           t == Pair((v + s) + block_size)
           x == Compressed(block, t, FALSE)
           r == Run(v, f)
<1>1. n \in Nat
  BY RunType
<1>2. s \in Nat /\ v + s \in Nat
  <2>1. s \in Nat
    BY <1>1, Sizes, TotalType
  <2> QED BY <2>1
<1>3. v + Total(block_size, n + 1) = (v + s) + block_size
  <2>1. Total(block_size, n + 1) = s + block_size
    <3>1. Total(block_size, n + 1) = Total(block_size, n) + Total(block_size, 1)
      <4>1. 1 \in Nat
        OBVIOUS
      <4> QED BY <1>1, <4>1, Sizes, TotalPlus
    <3>2. Total(block_size, 1) = block_size
      BY Sizes, TotalOne
    <3> QED BY <3>1, <3>2
  <2> QED BY <1>2, <2>1, Sizes
<1>4. t \in Digit \X Digit
  <2>1. (v + s) + block_size \in Nat
    BY <1>2, Sizes
  <2> QED BY <2>1, PairType
<1>5. a \in Object /\ a.t = Pair(v + s) /\ a.keylen = o.keylen /\ a.b = o.b /\ a.m = o.m
      /\ a.chain = o.chain \o r
  <2>1. Pair(v + s) \in Digit \X Digit
    BY <1>2, PairType
  <2> HIDE DEF s
  <2>2. a \in Object
    BY <2>1, AfterType
  <2>3. a = Members(o.keylen, o.chain \o r, o.b, o.m, Pair(v + s))
    BY Zenon DEF After
  <2> HIDE DEF a, r
  <2> DEFINE c == o.chain \o r
             p == Pair(v + s)
  <2> HIDE DEF c, p
  <2>4. a = Members(o.keylen, c, o.b, o.m, p)
    BY <2>3 DEF c, p
  <2>5. a.t = p /\ a.keylen = o.keylen /\ a.b = o.b /\ a.m = o.m /\ a.chain = c
    BY <2>4, MembersAre
  <2> QED BY <2>2, <2>5 DEF c, p
<1>6. /\ f \o <<block>> \in BlocksOf
      /\ Run(v, f \o <<block>>) = r \o <<x>>
  <2>1. <<block>> \in BlocksOf /\ Run(v + s, <<block>>) = <<x>>
    BY <1>2, RunOfOne
  <2>2. /\ f \o <<block>> \in BlocksOf
        /\ Run(v, f \o <<block>>) = r \o Run(v + s, <<block>>)
    BY <2>1, RunConcat
  <2> QED BY <2>1, <2>2
<1> HIDE DEF s, a, n
<1>7. Consume(a, block) = Members(a.keylen, Append(a.chain, x), a.b, a.m, t)
  BY <1>2, <1>5, ConsumeIs
<1>8. Append(o.chain \o r, x) = o.chain \o (r \o <<x>>)
  <2>1. x \in Compression
    BY <1>4, CompressedType
  <2>2. r \in Seq(Compression) /\ o.chain \in Seq(Compression)
    BY RunType, ObjectFacts
  <2> DEFINE c == o.chain
             y == <<x>>
  <2> HIDE DEF r, x, c
  <2>3. y \in Seq(Compression) /\ c \o r \in Seq(Compression) /\ c \in Seq(Compression)
    BY <2>1, <2>2, ConcatProperties DEF c
  <2>4. Append(c \o r, x) = (c \o r) \o y
    BY <2>1, <2>3, AppendIsConcat
  <2>5. (c \o r) \o y = c \o (r \o y)
    <3> HIDE DEF y
    <3> QED BY <2>2, <2>3, ConcatAssociative, SMTT(30)
  <2> QED BY <2>4, <2>5 DEF c
<1> HIDE DEF r, x
<1>9. Consume(a, block) = Members(o.keylen, o.chain \o (r \o <<x>>), o.b, o.m, t)
  BY <1>5, <1>7, <1>8
<1>10. After(o, v, f \o <<block>>, t)
         = Members(o.keylen, o.chain \o (r \o <<x>>), o.b, o.m, t)
  BY <1>6, Zenon DEF After
<1>11. t = Pair(v + Total(block_size, n + 1))
  BY <1>3
<1> QED BY <1>9, <1>10, <1>11 DEF a, s, n

LEMMA ConsumedIs ==
  ASSUME NEW o \in Object, NEW v \in Nat, o.t = Pair(v), NEW f \in BlocksOf
  PROVE  Consumed(o, f) = After(o, v, f, Pair(v + Total(block_size, Len(f))))
<1> DEFINE n == Len(f)
           P(i) == SubSeq(f, 1, i)
           A(i) == After(o, v, P(i), Pair(v + Total(block_size, i)))
<1>1. n \in Nat /\ f \in Seq(Block(block_size, Nat))
  BY DEF BlocksOf, BlockSeq
<1>2. PICK w : /\ w[0] = o /\ w[n] = Consumed(o, f)
               /\ \A i \in 1 .. n : w[i] = Consume(w[i - 1], f[i])
  BY ConsumedSteps
<1> DEFINE S == {i \in 0 .. n : w[i] = A(i)}
<1>3. 0 \in S
  <2>1. Run(v, << >>) = << >> /\ << >> \in BlocksOf
    BY DEF Run, BlocksOf, BlockSeq
  <2>2. P(0) = << >>
    <3>1. 0 \in Nat /\ 0 <= Len(f)
      BY <1>1
    <3>2. P(0) \in Seq(Block(block_size, Nat)) /\ Len(P(0)) = 0
      BY <1>1, <3>1, Prefix
    <3> QED BY <3>2, EmptySeq
  <2>3. o.chain \o << >> = o.chain
    BY ObjectFacts, ConcatEmptySeq
  <2>4. Total(block_size, 0) = 0 /\ v + 0 = v
    BY Sizes, TotalOne
  <2>5. A(0) = Members(o.keylen, o.chain, o.b, o.m, o.t)
    BY <2>1, <2>2, <2>3, <2>4, Zenon DEF After
  <2>6. A(0) = o
    BY <2>5, ObjectFacts
  <2> HIDE DEF A
  <2> QED BY <1>1, <1>2, <2>6
<1>4. ASSUME NEW i \in 0 .. n - 1, i \in S PROVE i + 1 \in S
  <2>1. /\ P(i) \in BlocksOf /\ Len(P(i)) = i
        /\ f[i + 1] \in Block(block_size, Nat)
        /\ P(i + 1) = P(i) \o <<f[i + 1]>>
    BY NextPrefix
  <2>2. i + 1 \in 1 .. n /\ (i + 1) - 1 = i /\ i + 1 \in 0 .. n
    BY <1>1
  <2>3. w[i] = A(i)
    BY <1>4
  <2>4. w[i + 1] = Consume(A(i), f[i + 1])
    <3> HIDE DEF A
    <3> QED BY <1>2, <2>2, <2>3
  <2>5. Consume(A(i), f[i + 1]) = A(i + 1)
    <3> DEFINE p == P(i)
               x == f[i + 1]
    <3> HIDE DEF p, x
    <3>1. p \in BlocksOf /\ Len(p) = i /\ x \in Block(block_size, Nat) /\ P(i + 1) = p \o <<x>>
      BY <2>1 DEF p, x
    <3>2. Consume(After(o, v, p, Pair(v + Total(block_size, Len(p)))), x)
            = After(o, v, p \o <<x>>, Pair(v + Total(block_size, Len(p) + 1)))
      BY <3>1, ConsumeMore
    <3>3. Consume(After(o, v, p, Pair(v + Total(block_size, i))), x)
            = After(o, v, P(i + 1), Pair(v + Total(block_size, i + 1)))
      BY <3>1, <3>2, Zenon
    <3> QED BY <3>3 DEF p, x
  <2> HIDE DEF A
  <2> QED BY <2>2, <2>4, <2>5
<1>5. \A i \in 0 .. n : i \in S
  <2> HIDE DEF S
  <2> QED BY <1>1, <1>3, <1>4, Induction
<1>6. w[n] = A(n)
  <2>1. n \in 0 .. n
    BY <1>1
  <2>2. n \in S
    BY <1>5, <2>1
  <2> QED BY <2>2
<1>7. P(n) = f
  BY <1>1, SubSeqFull
<1> QED BY <1>2, <1>6, <1>7, Zenon

------------------------------------------------------------------------------
(* The whole blocks before the last part of a message *)

Front(d) == [j \in 1 .. Before(Len(d)) |-> Cut(d, j)]

LEMMA FrontType ==
  ASSUME NEW d \in Seq(Nat)
  PROVE  /\ Front(d) \in BlocksOf
         /\ Len(Front(d)) = Before(Len(d))
         /\ \A j \in 1 .. Before(Len(d)) : Front(d)[j] = Cut(d, j)
<1> DEFINE n == Before(Len(d))
<1>1. n \in Nat
  <2>1. Len(d) \in Nat
    OBVIOUS
  <2> QED BY <2>1, BeforeType
<1>2. \A j \in 1 .. n : Cut(d, j) \in Block(block_size, Nat)
  BY CutType
<1>3. Front(d) = [j \in 1 .. n |-> Cut(d, j)]
  BY DEF Front
<1> HIDE DEF n
<1>4. Front(d) \in [1 .. n -> Block(block_size, Nat)]
  BY <1>2, <1>3
<1>5. \A j \in 1 .. n : Front(d)[j] = Cut(d, j)
  BY <1>3, Zenon
<1> QED BY <1>1, <1>4, <1>5 DEF n, BlocksOf, BlockSeq

(* Two messages have the same block where they have the same bytes. *)
SameBytes(d, e, offset) ==
  /\ Len(e) = offset + Len(d)
  /\ \A x \in 1 .. Len(d) : e[offset + x] = d[x]

LEMMA SameCut ==
  ASSUME NEW d \in Seq(Nat), NEW e \in Seq(Nat), NEW k \in Nat,
         SameBytes(d, e, Total(block_size, k)), NEW j \in 1 .. Before(Len(d))
  PROVE  Cut(e, k + j) = Cut(d, j)
<1>1. Before(Len(d)) \in Nat
  <2>1. Len(d) \in Nat
    OBVIOUS
  <2> QED BY <2>1, BeforeType
<1>2. j \in Nat \ {0}
  BY <1>1
<1>3. ASSUME NEW i \in 1 .. block_size
      PROVE  e[Pos(block_size, k + j, i)] = d[Pos(block_size, j, i)]
  <2>1. Pos(block_size, k + j, i) = Total(block_size, k) + Pos(block_size, j, i)
    BY <1>2, Sizes, PosShift, ZenonT(60)
  <2>2. Pos(block_size, j, i) \in 1 .. Len(d)
    BY CutType
  <2> QED BY <2>1, <2>2 DEF SameBytes
<1> QED BY <1>3 DEF Cut

LEMMA SameLast ==
  ASSUME NEW d \in Seq(Nat), NEW e \in Seq(Nat), NEW k \in Nat,
         SameBytes(d, e, Total(block_size, k)),
         Before(Len(e)) = k + Before(Len(d))
  PROVE  Last(e) = Last(d)
<1> DEFINE n == Before(Len(d))
           s == Total(block_size, k)
           t == Total(block_size, n)
           l == Last(d)
           f == Last(e)
<1>1. Len(d) \in Nat /\ Len(e) \in Nat
  OBVIOUS
<1>2. n \in Nat /\ t \in Nat
  BY <1>1, BeforeType
<1>3. s \in Nat
  BY Sizes, TotalType
<1>4. Total(block_size, k + n) = s + t
  BY <1>2, Sizes, TotalPlus
<1>5. l \in Seq(Nat) /\ Len(l) = Len(d) - t /\ \A i \in 1 .. Len(l) : l[i] = d[t + i]
  BY LastType
<1>6. f \in Seq(Nat) /\ Len(f) = Len(e) - (s + t) /\ \A i \in 1 .. Len(f) : f[i] = e[(s + t) + i]
  BY <1>4, LastType
<1>7. Len(e) = s + Len(d) /\ \A x \in 1 .. Len(d) : e[s + x] = d[x]
  BY DEF SameBytes
<1> HIDE DEF n, s, t, l, f
<1>8. Len(f) = Len(l) /\ Len(l) \in Nat
  BY <1>1, <1>2, <1>3, <1>5, <1>6, <1>7
<1>9. ASSUME NEW i \in 1 .. Len(l) PROVE f[i] = l[i]
  <2>1. t + i \in 1 .. Len(d) /\ (s + t) + i = s + (t + i)
    BY <1>1, <1>2, <1>3, <1>5, <1>8
  <2> QED BY <1>5, <1>6, <1>7, <1>8, <2>1
<1>10. f = l
  BY <1>5, <1>6, <1>8, <1>9, SeqEqual
<1> QED BY <1>10 DEF f, l

(* More of a message is cut as more of its last part. *)
LEMMA FrontAdd ==
  ASSUME NEW d \in Seq(Nat), NEW p \in Seq(Nat)
  PROVE  /\ d \o p \in Seq(Nat) /\ Last(d) \o p \in Seq(Nat)
         /\ Front(d \o p) = Front(d) \o Front(Last(d) \o p)
         /\ Last(d \o p) = Last(Last(d) \o p)
         /\ Before(Len(d \o p)) = Before(Len(d)) + Before(Len(Last(d) \o p))
<1> DEFINE l == Last(d)
           e == d \o p
           f == l \o p
           k == Before(Len(d))
           n == Before(Len(f))
           s == Total(block_size, k)
<1>1. Len(d) \in Nat /\ Len(p) \in Nat
  OBVIOUS
<1>2. k \in Nat /\ s \in Nat /\ s <= Len(d)
  BY <1>1, BeforeType
<1>3. l \in Seq(Nat) /\ Len(l) = Len(d) - s /\ \A i \in 1 .. Len(l) : l[i] = d[s + i]
  BY LastType
<1>4. Before(Len(d) + Len(p)) = k + Before((Len(d) - s) + Len(p))
  BY <1>1, BeforeAdd
<1> HIDE DEF l, s
<1>5. /\ e \in Seq(Nat) /\ Len(e) = Len(d) + Len(p)
      /\ \A x \in 1 .. Len(d) + Len(p) : e[x] = IF x <= Len(d) THEN d[x] ELSE p[x - Len(d)]
  BY ConcatProperties
<1>6. /\ f \in Seq(Nat) /\ Len(f) = Len(l) + Len(p)
      /\ \A x \in 1 .. Len(l) + Len(p) : f[x] = IF x <= Len(l) THEN l[x] ELSE p[x - Len(l)]
  BY <1>3, ConcatProperties
<1>7. n \in Nat
  <2>1. Len(f) \in Nat
    BY <1>1, <1>2, <1>3, <1>6
  <2> QED BY <2>1, BeforeType
<1> HIDE DEF e, f
<1>8. Before(Len(e)) = k + n
  BY <1>3, <1>4, <1>5, <1>6
<1> HIDE DEF n, k
<1>9. SameBytes(f, e, s)
  <2>1. Len(l) \in Nat /\ Len(l) + s = Len(d)
    BY <1>1, <1>2, <1>3
  <2>2. Len(e) = s + Len(f)
    <3>1. Len(e) = Len(d) + Len(p) /\ Len(f) = Len(l) + Len(p)
      BY <1>5, <1>6
    <3> QED BY <1>1, <1>2, <2>1, <3>1, SMTT(30)
  <2>3. ASSUME NEW x \in 1 .. Len(f) PROVE e[s + x] = f[x]
    <3>1. s + x \in 1 .. Len(d) + Len(p) /\ x \in 1 .. Len(l) + Len(p)
      BY <1>1, <1>2, <1>6, <2>1
    <3>2. CASE x <= Len(l)
      <4>1. s + x <= Len(d) /\ x \in 1 .. Len(l)
        BY <1>1, <1>2, <2>1, <3>1, <3>2
      <4> QED BY <1>3, <1>5, <1>6, <3>1, <3>2, <4>1
    <3>3. CASE ~(x <= Len(l))
      <4>0. x \in Nat
        BY <1>1, <2>1, <3>1
      <4>1. ~(s + x <= Len(d)) /\ (s + x) - Len(d) = x - Len(l)
        BY <1>1, <1>2, <2>1, <3>3, <4>0, SMTT(30)
      <4> QED BY <1>5, <1>6, <3>1, <3>3, <4>1
    <3> QED BY <3>2, <3>3
  <2> QED BY <2>2, <2>3 DEF SameBytes
<1>10. Last(e) = Last(f)
  BY <1>2, <1>5, <1>6, <1>8, <1>9, SameLast DEF s, n
<1>11. Front(e) = Front(d) \o Front(f)
  <2> DEFINE B == Block(block_size, Nat)
             g == Front(d)
             h == Front(f)
             q == Front(e)
  <2>1. q \in BlocksOf /\ Len(q) = k + n /\ \A j \in 1 .. k + n : q[j] = Cut(e, j)
    BY <1>5, <1>8, FrontType
  <2>2. g \in BlocksOf /\ Len(g) = k /\ \A j \in 1 .. k : g[j] = Cut(d, j)
    BY FrontType DEF k
  <2>3. h \in BlocksOf /\ Len(h) = n /\ \A j \in 1 .. n : h[j] = Cut(f, j)
    BY <1>6, FrontType DEF n
  <2> HIDE DEF g, h, q
  <2>4. g \in Seq(B) /\ h \in Seq(B) /\ q \in Seq(B)
    BY <2>1, <2>2, <2>3 DEF BlocksOf, BlockSeq
  <2> HIDE DEF B
  <2>5. /\ g \o h \in Seq(B) /\ Len(g \o h) = k + n
        /\ \A j \in 1 .. k + n : (g \o h)[j] = IF j <= k THEN g[j] ELSE h[j - k]
    BY <2>2, <2>3, <2>4, ConcatProperties
  <2>6. ASSUME NEW j \in 1 .. k + n PROVE q[j] = (g \o h)[j]
    <3>1. CASE j <= k
      <4>1. j \in 1 .. k
        BY <1>2, <1>7, <3>1
      <4>2. j \in 1 .. Before(Len(d))
        BY <4>1 DEF k
      <4>3. ASSUME NEW i \in 1 .. block_size
            PROVE  e[Pos(block_size, j, i)] = d[Pos(block_size, j, i)]
        <5>1. Pos(block_size, j, i) \in 1 .. Len(d)
          BY <4>2, CutType
        <5> QED BY <1>1, <1>5, <5>1, SMTT(30)
      <4>4. Cut(e, j) = Cut(d, j)
        BY <4>3 DEF Cut
      <4> QED BY <2>1, <2>2, <2>5, <3>1, <4>1, <4>4
    <3>2. CASE ~(j <= k)
      <4>1. PICK i \in 1 .. n : i = j - k
        BY <1>2, <1>7, <3>2
      <4>2. j = k + i
        BY <1>2, <1>7, <4>1
      <4>3. Cut(e, k + i) = Cut(f, i)
        BY <1>2, <1>5, <1>6, <1>9, SameCut DEF s, n
      <4> QED BY <2>1, <2>3, <2>5, <3>2, <4>1, <4>2, <4>3
    <3> QED BY <3>1, <3>2
  <2>7. q = g \o h
    BY <2>1, <2>4, <2>5, <2>6, SeqEqual
  <2> QED BY <2>7 DEF q, g, h
<1>12. Before(Len(e)) = Before(Len(d)) + Before(Len(f))
  BY <1>8 DEF k, n
<1> QED BY <1>5, <1>6, <1>10, <1>11, <1>12 DEF e, f, l

(* What fits a block is all last part. *)
LEMMA ShortData ==
  ASSUME NEW d \in Seq(Nat), Len(d) <= block_size
  PROVE  /\ Before(Len(d)) = 0 /\ Total(block_size, Before(Len(d))) = 0
         /\ Front(d) = << >> /\ Last(d) = d
<1>1. Len(d) \in Nat
  OBVIOUS
<1>2. Total(block_size, 0) = 0
  BY Sizes, TotalOne
<1>3. Before(Len(d)) = 0
  <2>1. CASE Len(d) = 0
    BY <2>1 DEF Before
  <2>2. CASE Len(d) # 0
    <3>1. PICK r \in 1 .. block_size : r = Len(d)
      BY <1>1, <2>2, Sizes
    <3>2. Total(block_size, 0) + r = Len(d)
      BY <1>2, <3>1, Sizes
    <3>3. 0 \in Nat
      OBVIOUS
    <3> QED BY <3>2, <3>3, BeforeOf
  <2> QED BY <2>1, <2>2
<1>4. Front(d) = << >>
  <2>1. Front(d) \in Seq(Block(block_size, Nat)) /\ Len(Front(d)) = 0
    BY <1>3, FrontType DEF BlocksOf, BlockSeq
  <2> QED BY <2>1, EmptySeq
<1>5. Last(d) = d
  <2> DEFINE s == Total(block_size, Before(Len(d)))
  <2>0. /\ Last(d) \in Seq(Nat) /\ Len(Last(d)) = Len(d) - s
        /\ \A i \in 1 .. Len(Last(d)) : Last(d)[i] = d[s + i]
    BY LastType
  <2>s. s = 0
    BY <1>2, <1>3, Zenon
  <2> HIDE DEF s
  <2>1. Last(d) \in Seq(Nat) /\ Len(Last(d)) = Len(d) - 0
        /\ \A i \in 1 .. Len(Last(d)) : Last(d)[i] = d[0 + i]
    BY <2>0, <2>s
  <2>2. Len(Last(d)) = Len(d)
    BY <1>1, <2>1
  <2>3. ASSUME NEW i \in 1 .. Len(d) PROVE Last(d)[i] = d[i]
    <3>1. 0 + i = i
      BY <1>1
    <3> QED BY <2>1, <2>2, <3>1
  <2> QED BY <2>1, <2>2, <2>3, SeqEqual
<1> QED BY <1>2, <1>3, <1>4, <1>5

(* The loop of update leaves the last part of what it goes through. *)
LEMMA LoopCuts ==
  ASSUME NEW q \in Seq(Nat), Len(q) # 0
  PROVE  LET rest == StayFrom(q) IN
         /\ rest = Len(Last(q)) /\ rest \in 1 .. block_size
         /\ Blocks(block_size, SubSeq(q, 1, Len(q) - rest)) = Front(q)
         /\ SubSeq(q, Len(q) - rest + 1, Len(q)) = Last(q)
<1> DEFINE rest == StayFrom(q)
           n == Before(Len(q))
           s == Total(block_size, n)
           f == SubSeq(q, 1, s)
           g == Blocks(block_size, f)
           h == Front(q)
<1>1. Len(q) \in Nat /\ Len(q) - 1 \in Nat
  BY LenProperties
<1>2. n = Whole(block_size, Len(q) - 1)
  BY DEF Before, Whole
<1>3. /\ n \in Nat
      /\ Rest(block_size, Len(q) - 1) \in 0 .. block_size - 1
      /\ Len(q) - 1 = s + Rest(block_size, Len(q) - 1)
  BY <1>1, <1>2, Sizes, WholeRest
<1>4. rest = 1 + Rest(block_size, Len(q) - 1)
  BY DEF StayFrom, Rest
<1>5. s \in Nat
  BY <1>3, Sizes, TotalType
<1> HIDE DEF s
<1>6. rest \in 1 .. block_size /\ Len(q) - rest = s /\ rest = Len(q) - s /\ s <= Len(q)
  <2>1. PICK r \in 0 .. block_size - 1 : r = Rest(block_size, Len(q) - 1)
    BY <1>3
  <2> HIDE DEF rest, n
  <2>2. rest = 1 + r /\ Len(q) - 1 = s + r /\ block_size \in Nat
    BY <1>3, <1>4, <2>1, Sizes
  <2>3. PICK len \in Nat : len = Len(q)
    BY <1>1
  <2>4. len = s + (1 + r) /\ r \in Nat /\ 1 + r \in 1 .. block_size
    BY <1>5, <2>1, <2>2, <2>3, SMTT(30)
  <2> QED BY <1>5, <2>2, <2>3, <2>4
<1>7. Len(Last(q)) = rest
  BY <1>6, LastType DEF s
<1>8. SubSeq(q, s + 1, Len(q)) = Last(q)
  BY DEF Last, s
<1>9. g = h
  <2>1. f \in Seq(Nat) /\ Len(f) = s /\ \A i \in 1 .. s : f[i] = q[i]
    BY <1>5, <1>6, Prefix
  <2>2. Whole(block_size, s) = n
    <3>1. 0 \in 0 .. block_size - 1 /\ s + 0 = s
      BY <1>5, Sizes
    <3> QED BY <1>3, <3>1, Sizes, WholeRestUnique DEF s
  <2> HIDE DEF f
  <2>3. /\ g \in BlocksOf /\ Len(g) = n
        /\ \A j \in 1 .. n, i \in 1 .. block_size : g[j][i] = f[Pos(block_size, j, i)]
    <3>0. block_size \in Nat \ {0} /\ f \in Seq(Nat)
      BY <2>1, Sizes
    <3>1. /\ g \in BlockSeq(block_size, Nat) /\ Len(g) = Whole(block_size, Len(f))
          /\ \A j \in 1 .. Whole(block_size, Len(f)), i \in 1 .. block_size :
                g[j][i] = f[Pos(block_size, j, i)]
      BY <3>0, BlocksType, SMTT(30)
    <3> QED BY <2>1, <2>2, <3>1 DEF BlocksOf
  <2>4. h \in BlocksOf /\ Len(h) = n /\ \A j \in 1 .. n : h[j] = Cut(q, j)
    BY FrontType
  <2> HIDE DEF n, g, h
  <2>5. ASSUME NEW j \in 1 .. n PROVE g[j] = h[j]
    <3>1. g[j] \in Block(block_size, Nat)
      BY <2>3, ElementOfSeq DEF BlocksOf, BlockSeq
    <3>2. ASSUME NEW i \in 1 .. block_size PROVE g[j][i] = q[Pos(block_size, j, i)]
      <4>1. Pos(block_size, j, i) \in 1 .. s
        BY <1>3, Sizes, PosType DEF s
      <4> QED BY <2>1, <2>3, <4>1
    <3>3. g[j] = Cut(q, j)
      BY <3>1, <3>2 DEF Block, Cut
    <3> QED BY <2>4, <3>3
  <2>6. g = h
    <3>1. g \in Seq(Block(block_size, Nat)) /\ h \in Seq(Block(block_size, Nat))
      BY <2>3, <2>4 DEF BlocksOf, BlockSeq
    <3> QED BY <2>3, <2>4, <2>5, <3>1, SeqEqual
  <2> QED BY <2>6
<1> HIDE DEF rest
<1>10. Blocks(block_size, SubSeq(q, 1, Len(q) - rest)) = Front(q)
  BY <1>6, <1>9
<1>11. SubSeq(q, Len(q) - rest + 1, Len(q)) = Last(q)
  BY <1>6, <1>8
<1> QED BY <1>6, <1>7, <1>10, <1>11 DEF rest

LEMMA BeforeMore ==
  ASSUME NEW len \in Nat \ {0}
  PROVE  Before(block_size + len) = 1 + Before(len)
<1> DEFINE n == Before(len)
           s == Total(block_size, n)
<1>1. n \in Nat /\ s \in Nat /\ len - s \in 1 .. block_size
  BY BeforeType
<1>2. Total(block_size, 1 + n) = Total(block_size, 1) + Total(block_size, n)
  <2>1. 1 \in Nat
    OBVIOUS
  <2> HIDE DEF n
  <2> QED BY <1>1, <2>1, Sizes, TotalPlus
<1>3. Total(block_size, 1) = block_size
  BY Sizes, TotalOne
<1> HIDE DEF n
<1>4. PICK r \in 1 .. block_size : r = len - s
  BY <1>1
<1>5. Total(block_size, 1 + n) + r = block_size + len
  <2> HIDE DEF s
  <2>1. Total(block_size, 1 + n) = block_size + s
    BY <1>2, <1>3 DEF s
  <2> QED BY <1>1, <1>4, <2>1, Sizes
<1>6. 1 + n \in Nat
  BY <1>1
<1>7. Before(Total(block_size, 1 + n) + r) = 1 + n
  BY <1>6, BeforeOf
<1> QED BY <1>5, <1>7 DEF n

(* A full block and more. *)
LEMMA FullThenMore ==
  ASSUME NEW d \in Seq(Nat), Len(d) = block_size, NEW q \in Seq(Nat), Len(q) # 0
  PROVE  /\ d \o q \in Seq(Nat)
         /\ Front(d \o q) = <<Padded(d)>> \o Front(q)
         /\ Last(d \o q) = Last(q)
         /\ Before(Len(d \o q)) = 1 + Before(Len(q))
<1> DEFINE e == d \o q
           n == Before(Len(q))
           x == Padded(d)
<1>1. Len(q) \in Nat /\ n \in Nat
  <2>1. Len(q) \in Nat
    OBVIOUS
  <2> QED BY <2>1, BeforeType
<1>2. /\ e \in Seq(Nat) /\ Len(e) = block_size + Len(q)
      /\ \A i \in 1 .. block_size + Len(q) :
            e[i] = IF i <= block_size THEN d[i] ELSE q[i - block_size]
  BY ConcatProperties
<1>3. Total(block_size, 1) = block_size
  BY Sizes, TotalOne
<1>4. Before(Len(e)) = 1 + n
  <2>1. Len(q) \in Nat \ {0}
    BY <1>1
  <2> QED BY <1>2, <2>1, BeforeMore
<1> HIDE DEF n, e
<1>5. SameBytes(q, e, block_size)
  <2>1. ASSUME NEW i \in 1 .. Len(q) PROVE e[block_size + i] = q[i]
    <3>1. block_size + i \in 1 .. block_size + Len(q) /\ ~(block_size + i <= block_size)
          /\ (block_size + i) - block_size = i
      BY <1>1, Sizes
    <3> QED BY <1>2, <3>1
  <2> QED BY <1>2, <2>1 DEF SameBytes
<1>6. Last(e) = Last(q)
  <2>1. 1 \in Nat
    OBVIOUS
  <2> QED BY <1>2, <1>3, <1>4, <1>5, <2>1, SameLast DEF n
<1>7. x \in Block(block_size, Nat) /\ x = Cut(e, 1)
  <2>1. /\ x \in Block(block_size, Nat)
        /\ \A i \in 1 .. block_size : x[i] = IF i <= Len(d) THEN d[i] ELSE 0
    BY Sizes, PaddedType
  <2>2. ASSUME NEW i \in 1 .. block_size PROVE x[i] = e[Pos(block_size, 1, i)]
    <3>1. Pos(block_size, 1, i) = i
      BY Sizes DEF Pos
    <3>2. i \in 1 .. block_size + Len(q) /\ i <= block_size
      BY <1>1, Sizes
    <3> QED BY <1>2, <2>1, <3>1, <3>2
  <2> HIDE DEF x
  <2> QED BY <2>1, <2>2 DEF Block, Cut
<1> HIDE DEF x
<1>8. Front(e) = <<x>> \o Front(q)
  <2> DEFINE B == Block(block_size, Nat)
             g == <<x>>
             h == Front(q)
             f == Front(e)
  <2>1. f \in BlocksOf /\ Len(f) = 1 + n /\ \A j \in 1 .. 1 + n : f[j] = Cut(e, j)
    BY <1>2, <1>4, FrontType
  <2>2. h \in BlocksOf /\ Len(h) = n /\ \A j \in 1 .. n : h[j] = Cut(q, j)
    BY FrontType DEF n
  <2> HIDE DEF f, h
  <2>3. h \in Seq(B) /\ f \in Seq(B) /\ x \in B
    BY <1>7, <2>1, <2>2 DEF BlocksOf, BlockSeq
  <2> HIDE DEF B
  <2>4. g \in Seq(B) /\ Len(g) = 1 /\ g[1] = x
    BY <2>3
  <2> HIDE DEF g
  <2>5. /\ g \o h \in Seq(B) /\ Len(g \o h) = 1 + n
        /\ \A j \in 1 .. 1 + n : (g \o h)[j] = IF j <= 1 THEN g[j] ELSE h[j - 1]
    <3>1. /\ g \o h \in Seq(B) /\ Len(g \o h) = Len(g) + Len(h)
          /\ \A j \in 1 .. Len(g) + Len(h) :
                (g \o h)[j] = IF j <= Len(g) THEN g[j] ELSE h[j - Len(g)]
      BY <2>3, <2>4, ConcatProperties
    <3>2. Len(g) = 1 /\ Len(h) = n
      BY <2>2, <2>4
    <3> QED BY <3>1, <3>2
  <2>6. ASSUME NEW j \in 1 .. 1 + n PROVE f[j] = (g \o h)[j]
    <3>1. CASE j = 1
      <4>1. 1 \in 1 .. 1 + n /\ 1 <= 1
        BY <1>1
      <4>2. f[1] = x /\ (g \o h)[1] = x
        BY <1>7, <2>1, <2>4, <2>5, <4>1
      <4> QED BY <3>1, <4>2
    <3>2. CASE j # 1
      <4>1. PICK i \in 1 .. n : i = j - 1
        BY <1>1, <3>2
      <4>2. j = 1 + i /\ ~(j <= 1)
        BY <1>1, <3>2, <4>1
      <4>3. Cut(e, 1 + i) = Cut(q, i)
        <5>1. 1 \in Nat
          OBVIOUS
        <5> QED BY <1>2, <1>3, <1>5, <5>1, SameCut DEF n
      <4> QED BY <2>1, <2>2, <2>5, <4>1, <4>2, <4>3
    <3> QED BY <3>1, <3>2
  <2>7. f = g \o h
    BY <2>1, <2>3, <2>5, <2>6, SeqEqual
  <2> QED BY <2>7 DEF f, g, h
<1> QED BY <1>2, <1>4, <1>6, <1>8 DEF e, n, x

------------------------------------------------------------------------------
(* update: an object fed with a message *)

Held(o) == SubSeq(o.b, 1, o.m)

LEMMA HeldType ==
  ASSUME NEW o \in Object, Clean(o)
  PROVE  /\ Held(o) \in Seq(Nat) /\ Len(Held(o)) = o.m /\ o.b = Padded(Held(o))
         /\ \A i \in 1 .. o.m : Held(o)[i] = o.b[i]
<1> DEFINE h == Held(o)
<1>1. o.b \in Block(block_size, Nat) /\ o.b \in Seq(Nat) /\ Len(o.b) = block_size
      /\ o.m \in Nat /\ o.m <= block_size
  BY ObjectFacts, Sizes
<1>2. h \in Seq(Nat) /\ Len(h) = o.m /\ \A i \in 1 .. o.m : h[i] = o.b[i]
  BY <1>1, Prefix DEF Held
<1> HIDE DEF h
<1>3. /\ Padded(h) \in Block(block_size, Nat)
      /\ \A i \in 1 .. block_size : Padded(h)[i] = IF i <= Len(h) THEN h[i] ELSE 0
  BY <1>1, <1>2, PaddedType
<1>4. ASSUME NEW i \in 1 .. block_size PROVE o.b[i] = Padded(h)[i]
  <2>1. CASE i <= o.m
    <3>1. i \in 1 .. o.m
      BY <1>1, <2>1
    <3> QED BY <1>2, <1>3, <2>1, <3>1
  <2>2. CASE ~(i <= o.m)
    <3>1. i \in o.m + 1 .. block_size
      BY <1>1, <2>2, Sizes
    <3> QED BY <1>2, <1>3, <2>2, <3>1 DEF Clean
  <2> QED BY <2>1, <2>2
<1>5. o.b = Padded(h)
  BY <1>1, <1>3, <1>4 DEF Block
<1> QED BY <1>2, <1>5 DEF h

LEMMA CopyHeld ==
  ASSUME NEW o \in Object, Clean(o), NEW p \in Seq(Nat), o.m + Len(p) <= block_size
  PROVE  /\ Held(o) \o p \in Seq(Nat) /\ Len(Held(o) \o p) = o.m + Len(p)
         /\ CopyTo(o.b, o.m, p) = Padded(Held(o) \o p)
<1> DEFINE h == Held(o)
           d == h \o p
           c == CopyTo(o.b, o.m, p)
<1>1. o.b \in Block(block_size, Nat) /\ Len(o.b) = block_size /\ o.m \in Nat /\ Len(p) \in Nat
  BY ObjectFacts
<1>2. h \in Seq(Nat) /\ Len(h) = o.m /\ \A i \in 1 .. o.m : h[i] = o.b[i]
  BY HeldType
<1> HIDE DEF h
<1>3. /\ d \in Seq(Nat) /\ Len(d) = o.m + Len(p)
      /\ \A i \in 1 .. o.m + Len(p) : d[i] = IF i <= o.m THEN h[i] ELSE p[i - o.m]
  <2>1. /\ d \in Seq(Nat) /\ Len(d) = Len(h) + Len(p)
        /\ \A i \in 1 .. Len(h) + Len(p) :
              d[i] = IF i <= Len(h) THEN h[i] ELSE p[i - Len(h)]
    <3>1. h \in Seq(Nat)
      BY <1>2
    <3> QED BY <3>1, ConcatProperties
  <2>2. Len(h) = o.m
    BY <1>2
  <2> HIDE DEF d
  <2> QED BY <2>1, <2>2
<1> HIDE DEF d
<1>4. /\ Padded(d) \in Block(block_size, Nat)
      /\ \A i \in 1 .. block_size : Padded(d)[i] = IF i <= Len(d) THEN d[i] ELSE 0
  BY <1>3, PaddedType
<1>5. c \in Block(block_size, Nat)
  BY <1>1, Sizes, CopyToType
<1>6. ASSUME NEW i \in 1 .. block_size PROVE c[i] = Padded(d)[i]
  <2>1. c[i] = IF o.m < i /\ i <= o.m + Len(p) THEN p[i - o.m] ELSE o.b[i]
    BY <1>1 DEF CopyTo
  <2>2. CASE i <= o.m
    <3>1. i \in 1 .. o.m /\ i \in 1 .. o.m + Len(p) /\ ~(o.m < i) /\ i <= o.m + Len(p)
      BY <1>1, <2>2
    <3> QED BY <1>2, <1>3, <1>4, <2>1, <2>2, <3>1
  <2>3. CASE o.m < i /\ i <= o.m + Len(p)
    <3>1. i \in 1 .. o.m + Len(p) /\ ~(i <= o.m)
      BY <1>1, <2>3
    <3> QED BY <1>3, <1>4, <2>1, <2>3, <3>1
  <2>4. CASE o.m + Len(p) < i
    <3>1. i \in o.m + 1 .. block_size /\ ~(i <= o.m + Len(p))
      BY <1>1, <2>4, Sizes
    <3> QED BY <1>3, <1>4, <2>1, <3>1 DEF Clean
  <2> QED BY <1>1, <2>2, <2>3, <2>4
<1> HIDE DEF c
<1>7. c = Padded(d)
  <2> DEFINE e == Padded(d)
  <2>1. e \in Block(block_size, Nat) /\ \A i \in 1 .. block_size : c[i] = e[i]
    BY <1>4, <1>6
  <2> HIDE DEF e
  <2>2. c \in [1 .. block_size -> Nat] /\ e \in [1 .. block_size -> Nat]
    BY <1>5, <2>1 DEF Block
  <2>3. c = e
    <3>1. block_size \in Nat
      BY Sizes
    <3> QED BY <2>1, <2>2, <3>1
  <2> QED BY <2>3 DEF e
<1> QED BY <1>3, <1>7 DEF c, d, h

(* The object o, whose chain ends after v bytes, after the message d. *)
Fed(o, v, d) ==
  Members(o.keylen, o.chain \o Run(v, Front(d)), Padded(Last(d)), Len(Last(d)),
          Pair(v + Total(block_size, Before(Len(d)))))

LEMMA FedType ==
  ASSUME NEW o \in Object, NEW v \in Nat, NEW d \in Seq(Nat)
  PROVE  /\ Fed(o, v, d) \in Object /\ Clean(Fed(o, v, d))
         /\ Held(Fed(o, v, d)) = Last(d)
         /\ v + Total(block_size, Before(Len(d))) \in Nat
<1> DEFINE c == o.chain \o Run(v, Front(d))
           l == Last(d)
           b == Padded(l)
           w == v + Total(block_size, Before(Len(d)))
           t == Pair(w)
           m == Len(l)
<1>1. w \in Nat
  <2>1. Len(d) \in Nat
    OBVIOUS
  <2>2. Total(block_size, Before(Len(d))) \in Nat
    BY <2>1, BeforeType
  <2> QED BY <2>2
<1> HIDE DEF w
<1>2. t \in Digit \X Digit
  BY <1>1, PairType
<1>3. c \in Seq(Compression)
  <2>1. Front(d) \in BlocksOf
    BY FrontType
  <2> QED BY <1>2, <2>1, AfterType
<1>4. l \in Seq(Nat) /\ m \in 0 .. block_size
  BY LastType
<1> HIDE DEF l
<1>5. /\ b \in Block(block_size, Nat) /\ \A i \in m + 1 .. block_size : b[i] = 0
      /\ SubSeq(b, 1, m) = l
  <2>1. m <= block_size
    BY <1>4, Sizes
  <2> QED BY <1>4, <2>1, PaddedType
<1> HIDE DEF b, c, t, m
<1> DEFINE f == Members(o.keylen, c, b, m, t)
<1>6. f \in Object
  BY <1>2, <1>3, <1>4, <1>5, ObjectFacts, MembersType
<1>7. f.b = b /\ f.m = m
  BY MembersAre
<1>8. f = Fed(o, v, d)
  BY DEF Fed, c, b, m, t, l, w
<1> HIDE DEF f
<1>9. Clean(f) /\ Held(f) = l
  BY <1>5, <1>7 DEF Clean, Held
<1> QED BY <1>1, <1>6, <1>8, <1>9 DEF w, l

LEMMA UpdateIs ==
  ASSUME NEW o \in Object, Clean(o), NEW v \in Nat, o.t = Pair(v), NEW p \in Seq(Nat)
  PROVE  update(o, p) = Fed(o, v, Held(o) \o p)
<1> DEFINE k == block_size - o.m
<1>1. /\ o.m \in Nat /\ o.m <= block_size /\ Len(p) \in Nat /\ k \in Nat /\ o.m + k = block_size
  BY ObjectFacts, Sizes
<1> HIDE DEF k
<1>2. CASE Len(p) <= k
  <2> DEFINE d == Held(o) \o p
             m == o.m + Len(p)
             b == Padded(d)
  <2>1. o.m + Len(p) <= block_size
    BY <1>1, <1>2
  <2>2. d \in Seq(Nat) /\ Len(d) = m /\ CopyTo(o.b, o.m, p) = b
    BY <2>1, CopyHeld
  <2>3. update(o, p) = [o EXCEPT !.b = b, !.m = m]
    BY <1>2, <2>2 DEF update, k
  <2>4. [o EXCEPT !.b = b, !.m = m] = Members(o.keylen, o.chain, b, m, o.t)
    <3> HIDE DEF b, m
    <3>1. o = Members(o.keylen, o.chain, o.b, o.m, o.t)
      BY ObjectFacts
    <3>2. WithBuffer(Members(o.keylen, o.chain, o.b, o.m, o.t), b, m)
            = Members(o.keylen, o.chain, b, m, o.t)
      BY WithBufferIs
    <3>3. WithBuffer(o, b, m) = Members(o.keylen, o.chain, b, m, o.t)
      BY <3>1, <3>2
    <3> QED BY <3>3 DEF WithBuffer
  <2> HIDE DEF d
  <2>5. /\ Total(block_size, Before(Len(d))) = 0
        /\ Front(d) = << >> /\ Last(d) = d
    BY <2>1, <2>2, ShortData
  <2>6. Run(v, << >>) = << >>
    BY DEF Run
  <2>7. o.chain \o << >> = o.chain
    BY ObjectFacts, ConcatEmptySeq
  <2>8. v + 0 = v
    OBVIOUS
  <2>9. Fed(o, v, d) = Members(o.keylen, o.chain, b, m, o.t)
    BY <2>2, <2>5, <2>6, <2>7, <2>8, Zenon DEF Fed
  <2> QED BY <2>3, <2>4, <2>9 DEF d
<1>3. CASE ~(Len(p) <= k)
  <2> DEFINE p1   == SubSeq(p, 1, k)
             q    == SubSeq(p, k + 1, Len(p))
             d    == Held(o) \o p1
             x    == Padded(d)
             full == Consume(o, x)
             done == Consumed(full, Front(q))
             b    == Padded(Last(q))
             m    == Len(Last(q))
  <2>1. /\ p1 \in Seq(Nat) /\ Len(p1) = k /\ q \in Seq(Nat) /\ Len(q) # 0
        /\ p1 \o q = p
    <3>1. k \in 0 .. Len(p)
      BY <1>1, <1>3
    <3>2. /\ p1 \in Seq(Nat) /\ Len(p1) = k /\ q \in Seq(Nat) /\ Len(q) = Len(p) - k
          /\ p1 \o q = p
      BY <3>1, CutInTwo
    <3> HIDE DEF p1, q
    <3>3. Len(p) - k # 0
      BY <1>1, <1>3
    <3>4. Len(q) # 0
      BY <3>2, <3>3
    <3> QED BY <3>2, <3>4
  <2>2. d \in Seq(Nat) /\ Len(d) = block_size /\ CopyTo(o.b, o.m, p1) = x
    <3> HIDE DEF p1
    <3>1. o.m + Len(p1) <= block_size
      BY <1>1, <2>1, SMTT(30)
    <3> QED BY <1>1, <2>1, <3>1, CopyHeld
  <2>3. /\ Blocks(block_size, SubSeq(q, 1, Len(q) - StayFrom(q))) = Front(q)
        /\ SubSeq(q, Len(q) - StayFrom(q) + 1, Len(q)) = Last(q)
        /\ StayFrom(q) = m
    <3> HIDE DEF q
    <3> QED BY <2>1, LoopCuts
  <2>4. update(o, p) = [done EXCEPT !.b = b, !.m = m]
    <3>1. ~(Len(p) <= block_size - o.m)
      BY <1>3 DEF k
    <3>2. update(o, p) =
            [Consumed(Consume(o, CopyTo(o.b, o.m, p1)),
                      Blocks(block_size, SubSeq(q, 1, Len(q) - StayFrom(q))))
               EXCEPT !.b = CopyTo(Zeroes(block_size), 0,
                                   SubSeq(q, Len(q) - StayFrom(q) + 1, Len(q))),
                      !.m = StayFrom(q)]
      BY <3>1, Zenon DEF update, k
    <3> HIDE DEF p1, q, d
    <3> QED BY <2>2, <2>3, <3>2, Zenon DEF Padded
  <2> HIDE DEF p1, q
  <2>5. Front(q) \in BlocksOf /\ Len(Front(q)) = Before(Len(q))
    BY <2>1, FrontType
  <2> DEFINE t == Pair(v + block_size)
             y == Compressed(x, t, FALSE)
             w == v + block_size
  <2>6. x \in Block(block_size, Nat)
    <3> HIDE DEF d
    <3> QED BY <2>2, Sizes, PaddedType
  <2>7. w \in Nat /\ t \in Digit \X Digit
    <3>1. w \in Nat
      BY Sizes
    <3> QED BY <3>1, PairType
  <2>8. full \in Object /\ full.keylen = o.keylen /\ full.chain = Append(o.chain, y) /\ full.t = t
    <3> HIDE DEF x
    <3>1. full = Members(o.keylen, Append(o.chain, y), o.b, o.m, t) /\ full \in Object
      BY <2>6, ConsumeIs
    <3> HIDE DEF full, y, t
    <3> DEFINE c == Append(o.chain, y)
    <3> HIDE DEF c
    <3>2. full = Members(o.keylen, c, o.b, o.m, t)
      BY <3>1 DEF c
    <3>3. full.keylen = o.keylen /\ full.chain = c /\ full.t = t
      BY <3>2, MembersAre
    <3> QED BY <3>1, <3>3 DEF c
  <2> HIDE DEF full
  <2> DEFINE r == Run(w, Front(q))
             z == Pair(w + Total(block_size, Before(Len(q))))
  <2>9. done = Members(o.keylen, Append(o.chain, y) \o r, full.b, full.m, z) /\ done \in Object
    <3> HIDE DEF w
    <3>1. done = After(full, w, Front(q), Pair(w + Total(block_size, Len(Front(q)))))
      BY <2>5, <2>7, <2>8, ConsumedIs DEF w
    <3>2. w + Total(block_size, Before(Len(q))) \in Nat
      BY <2>1, <2>7, <2>8, FedType
    <3>3. z \in Digit \X Digit
      BY <3>2, PairType
    <3>4. done = After(full, w, Front(q), z)
      BY <2>5, <3>1
    <3>5. done \in Object
      <4> HIDE DEF z, done
      <4> QED BY <2>5, <2>7, <2>8, <3>3, <3>4, AfterType
    <3> HIDE DEF y
    <3> QED BY <2>8, <3>4, <3>5, Zenon DEF After
  <2>10. [done EXCEPT !.b = b, !.m = m]
           = Members(o.keylen, Append(o.chain, y) \o r, b, m, z)
    <3> DEFINE c == Append(o.chain, y) \o r
    <3> HIDE DEF b, m, done, c, z
    <3>1. done = Members(o.keylen, c, full.b, full.m, z)
      BY <2>9 DEF c
    <3>2. [done EXCEPT !.b = b, !.m = m] = Members(o.keylen, c, b, m, z)
      <4>1. WithBuffer(Members(o.keylen, c, full.b, full.m, z), b, m)
              = Members(o.keylen, c, b, m, z)
        BY WithBufferIs
      <4>2. WithBuffer(done, b, m) = Members(o.keylen, c, b, m, z)
        BY <3>1, <4>1
      <4> QED BY <4>2 DEF WithBuffer
    <3> QED BY <3>2 DEF c
  <2>11. Append(o.chain, y) \o r = o.chain \o Run(v, <<x>> \o Front(q))
    <3> HIDE DEF x
    <3>1. <<x>> \in BlocksOf /\ Run(v, <<x>>) = <<y>> /\ Len(<<x>>) = 1
      BY <2>6, RunOfOne
    <3>2. Run(v, <<x>> \o Front(q)) = <<y>> \o r
      <4> DEFINE f == <<x>>
                 g == Front(q)
      <4> HIDE DEF f, g, y, w
      <4>1. f \in BlocksOf /\ Run(v, f) = <<y>> /\ Len(f) = 1 /\ g \in BlocksOf
        BY <2>5, <3>1 DEF f, g
      <4>2. Run(v, f \o g) = Run(v, f) \o Run(v + Total(block_size, Len(f)), g)
        BY <4>1, RunConcat
      <4>3. Total(block_size, 1) = block_size
        BY Sizes, TotalOne
      <4>4. Run(v, f \o g) = <<y>> \o Run(w, g)
        BY <4>1, <4>2, <4>3, Zenon DEF w
      <4> QED BY <4>4 DEF f, g
    <3>3. y \in Compression
      BY <2>6, <2>7, CompressedType
    <3>4. r \in Seq(Compression)
      BY <2>5, <2>7, RunType
    <3> DEFINE c == o.chain
               u == <<y>>
    <3> HIDE DEF y, r, c
    <3>5. c \in Seq(Compression) /\ u \in Seq(Compression)
      BY <3>3, ObjectFacts DEF c
    <3>6. Append(c, y) = c \o u
      BY <3>3, <3>5, AppendIsConcat
    <3>7. (c \o u) \o r = c \o (u \o r)
      <4> HIDE DEF u
      <4> QED BY <3>4, <3>5, ConcatAssociative, SMTT(30)
    <3> QED BY <3>2, <3>6, <3>7, Zenon DEF c
  <2>12. /\ Front(d \o q) = <<x>> \o Front(q)
         /\ Last(d \o q) = Last(q)
         /\ Before(Len(d \o q)) = 1 + Before(Len(q))
    <3> HIDE DEF d
    <3> QED BY <2>1, <2>2, FullThenMore
  <2>13. v + Total(block_size, 1 + Before(Len(q))) = w + Total(block_size, Before(Len(q)))
    <3> DEFINE n == Before(Len(q))
    <3>1. Len(q) \in Nat
      BY <2>1
    <3>2. n \in Nat /\ Total(block_size, n) \in Nat
      BY <3>1, BeforeType
    <3> HIDE DEF n
    <3>3. Total(block_size, 1 + n) = Total(block_size, 1) + Total(block_size, n)
      <4>1. 1 \in Nat
        OBVIOUS
      <4> QED BY <3>2, <4>1, Sizes, TotalPlus
    <3>4. Total(block_size, 1) = block_size
      BY Sizes, TotalOne
    <3>5. v + Total(block_size, 1 + n) = w + Total(block_size, n)
      BY <3>2, <3>3, <3>4, Sizes, SMTT(30)
    <3> QED BY <3>5 DEF n
  <2>14. d \o q = Held(o) \o p
    <3> DEFINE h == Held(o)
    <3>1. h \in Seq(Nat) /\ p1 \in Seq(Nat) /\ q \in Seq(Nat)
      BY <2>1, HeldType
    <3> HIDE DEF h
    <3>2. (h \o p1) \o q = h \o (p1 \o q)
      BY <3>1, BytesAssociative, ZenonT(60)
    <3> QED BY <2>1, <3>2 DEF h
  <2>15. Fed(o, v, d \o q) = Members(o.keylen, Append(o.chain, y) \o r, b, m, z)
    <3> HIDE DEF d, y, r, x, w
    <3> QED BY <2>11, <2>12, <2>13, Zenon DEF Fed
  <2> QED BY <2>4, <2>10, <2>14, <2>15, Zenon
<1> QED BY <1>2, <1>3

LEMMA UpdateType ==
  ASSUME NEW o \in Object, Clean(o), NEW p \in Seq(Nat)
  PROVE  update(o, p) \in Object /\ Clean(update(o, p))
<1> DEFINE v == Value(o.t)
           d == Held(o) \o p
<1>1. v \in Nat /\ o.t = Pair(v)
  BY ObjectFacts, PairOf
<1> HIDE DEF v
<1>2. update(o, p) = Fed(o, v, d)
  BY <1>1, UpdateIs
<1>3. d \in Seq(Nat)
  BY HeldType, ConcatProperties
<1> HIDE DEF d
<1>4. Fed(o, v, d) \in Object /\ Clean(Fed(o, v, d))
  BY <1>1, <1>3, FedType
<1> QED BY <1>2, <1>4

LEMMA FedIs ==
  ASSUME NEW o, NEW v, NEW d
  PROVE  /\ Fed(o, v, d).keylen = o.keylen
         /\ Fed(o, v, d).chain = o.chain \o Run(v, Front(d))
         /\ Fed(o, v, d).m = Len(Last(d))
         /\ Fed(o, v, d).t = Pair(v + Total(block_size, Before(Len(d))))
<1> DEFINE c == o.chain \o Run(v, Front(d))
           b == Padded(Last(d))
           m == Len(Last(d))
           t == Pair(v + Total(block_size, Before(Len(d))))
<1>1. Fed(o, v, d) = Members(o.keylen, c, b, m, t)
  BY DEF Fed
<1> HIDE DEF c, b, m, t
<1>2. /\ Fed(o, v, d).keylen = o.keylen /\ Fed(o, v, d).chain = c
      /\ Fed(o, v, d).m = m /\ Fed(o, v, d).t = t
  BY <1>1, MembersAre
<1> QED BY <1>2 DEF c, m, t

(* An object that was fed is fed on. *)
LEMMA FedOn ==
  ASSUME NEW o \in Object, NEW v \in Nat, NEW d \in Seq(Nat), NEW p \in Seq(Nat)
  PROVE  Fed(Fed(o, v, d), v + Total(block_size, Before(Len(d))), Last(d) \o p)
           = Fed(o, v, d \o p)
<1> DEFINE k == Before(Len(d))
           s == Total(block_size, k)
           w == v + s
           f == Fed(o, v, d)
           q == Last(d) \o p
           e == d \o p
           n == Before(Len(q))
           r == Run(v, Front(d))
           r2 == Run(w, Front(q))
<1>1. /\ e \in Seq(Nat) /\ q \in Seq(Nat)
      /\ Front(e) = Front(d) \o Front(q)
      /\ Last(e) = Last(q)
      /\ Before(Len(e)) = k + n
  BY FrontAdd
<1>2. k \in Nat /\ s \in Nat
  <2>1. Len(d) \in Nat
    OBVIOUS
  <2> QED BY <2>1, BeforeType
<1> HIDE DEF q, e
<1>3. n \in Nat /\ Total(block_size, n) \in Nat
  <2>1. Len(q) \in Nat
    BY <1>1
  <2> QED BY <2>1, BeforeType
<1>4. f.keylen = o.keylen /\ f.chain = o.chain \o r
  BY FedIs
<1> HIDE DEF f
<1>5. Front(d) \in BlocksOf /\ Len(Front(d)) = k /\ Front(q) \in BlocksOf
  BY <1>1, FrontType
<1>6. Run(v, Front(e)) = r \o r2
  <2> DEFINE g == Front(d)
             h == Front(q)
  <2> HIDE DEF g, h, k
  <2>1. g \in BlocksOf /\ h \in BlocksOf /\ Len(g) = k
    BY <1>5 DEF g, h
  <2>2. Run(v, g \o h) = Run(v, g) \o Run(v + Total(block_size, Len(g)), h)
    BY <2>1, RunConcat
  <2>3. Run(v, g \o h) = Run(v, g) \o Run(v + Total(block_size, k), h)
    BY <2>1, <2>2
  <2> QED BY <1>1, <2>3 DEF g, h
<1>7. (o.chain \o r) \o r2 = o.chain \o (r \o r2)
  <2>0. w \in Nat
    BY <1>2
  <2> DEFINE c == o.chain
  <2> HIDE DEF w
  <2>1. c \in Seq(Compression) /\ r \in Seq(Compression) /\ r2 \in Seq(Compression)
    BY <1>5, <2>0, ObjectFacts, RunType
  <2> HIDE DEF c, r, r2
  <2>2. (c \o r) \o r2 = c \o (r \o r2)
    BY <2>1, ChainAssociative
  <2> QED BY <2>2 DEF c
<1>8. w + Total(block_size, n) = v + Total(block_size, k + n)
  <2> HIDE DEF k, n
  <2>1. Total(block_size, k + n) = Total(block_size, k) + Total(block_size, n)
    BY <1>2, <1>3, Sizes, TotalPlus
  <2> QED BY <1>2, <1>3, <2>1
<1> HIDE DEF k, n, r, r2, w
<1>9. Fed(f, w, q) = Members(o.keylen, o.chain \o (r \o r2), Padded(Last(q)), Len(Last(q)),
                            Pair(v + Total(block_size, k + n)))
  BY <1>4, <1>7, <1>8, Zenon DEF Fed, r2, n
<1>10. Fed(o, v, e) = Members(o.keylen, o.chain \o (r \o r2), Padded(Last(q)), Len(Last(q)),
                             Pair(v + Total(block_size, k + n)))
  BY <1>1, <1>6, Zenon DEF Fed
<1> QED BY <1>9, <1>10 DEF f, w, q, e, k

(* Two updates are one with the concatenation. *)
LEMMA UpdateConcat ==
  ASSUME NEW o \in Object, Clean(o), NEW p \in Seq(Nat), NEW q \in Seq(Nat)
  PROVE  update(update(o, p), q) = update(o, p \o q)
<1> DEFINE v == Value(o.t)
           h == Held(o)
           d == h \o p
           w == v + Total(block_size, Before(Len(d)))
           f == Fed(o, v, d)
<1>1. v \in Nat /\ o.t = Pair(v)
  BY ObjectFacts, PairOf
<1> HIDE DEF v
<1>2. h \in Seq(Nat)
  BY HeldType
<1> HIDE DEF h
<1>3. d \in Seq(Nat)
  BY <1>2, ConcatProperties
<1>4. update(o, p) = f
  BY <1>1, UpdateIs DEF h
<1> HIDE DEF d
<1>5. f \in Object /\ Clean(f) /\ Held(f) = Last(d) /\ w \in Nat
  BY <1>1, <1>3, FedType
<1>6. f.t = Pair(w)
  BY FedIs
<1> HIDE DEF f, w
<1>7. update(f, q) = Fed(f, w, Held(f) \o q)
  BY <1>5, <1>6, UpdateIs
<1>8. update(f, q) = Fed(f, w, Last(d) \o q)
  BY <1>5, <1>7
<1>9. Fed(f, w, Last(d) \o q) = Fed(o, v, d \o q)
  BY <1>1, <1>3, FedOn DEF f, w
<1>10. d \o q = h \o (p \o q)
  BY <1>2, BytesAssociative DEF d
<1>11. update(o, p \o q) = Fed(o, v, h \o (p \o q))
  <2> DEFINE pq == p \o q
  <2>1. pq \in Seq(Nat)
    BY ConcatProperties
  <2> HIDE DEF pq
  <2>2. update(o, pq) = Fed(o, v, h \o pq)
    BY <1>1, <2>1, UpdateIs DEF h
  <2> QED BY <2>2 DEF pq
<1> QED BY <1>4, <1>8, <1>9, <1>10, <1>11

LEMMA UpdateNothing ==
  ASSUME NEW o \in Object, Clean(o)
  PROVE  update(o, << >>) = o
<1> DEFINE h == Held(o)
<1>1. h \in Seq(Nat) /\ Len(h) = o.m /\ o.b = Padded(h)
  BY HeldType
<1>2. o.m <= block_size /\ o.m \in Nat
  BY ObjectFacts, Sizes
<1>3. << >> \in Seq(Nat) /\ Len(<< >>) = 0
  OBVIOUS
<1>4. CopyTo(o.b, o.m, << >>) = o.b
  <2>1. o.m + Len(<< >>) <= block_size
    BY <1>2, <1>3
  <2>2. CopyTo(o.b, o.m, << >>) = Padded(h \o << >>)
    BY <1>3, <2>1, CopyHeld
  <2>3. h \o << >> = h
    BY <1>1, ConcatEmptySeq
  <2> QED BY <1>1, <2>2, <2>3
<1> DEFINE b == o.b
           m == o.m
<1>5. update(o, << >>) = [o EXCEPT !.b = b, !.m = m]
  <2>1. Len(<< >>) <= block_size - o.m /\ o.m + Len(<< >>) = o.m
    BY <1>2, <1>3, Sizes
  <2> QED BY <1>4, <2>1, Zenon DEF update
<1> HIDE DEF b, m
<1>6. WithBuffer(Members(o.keylen, o.chain, o.b, o.m, o.t), b, m)
        = Members(o.keylen, o.chain, b, m, o.t)
  BY WithBufferIs
<1>7. o = Members(o.keylen, o.chain, o.b, o.m, o.t)
  BY ObjectFacts
<1>8. WithBuffer(o, b, m) = o
  BY <1>6, <1>7 DEF b, m
<1> QED BY <1>5, <1>8 DEF WithBuffer

------------------------------------------------------------------------------
(* result and construction *)

LEMMA ZeroBlock ==
  /\ Zeroes(block_size) \in Block(block_size, Nat)
  /\ \A i \in 1 .. block_size : Zeroes(block_size)[i] = 0
<1>1. Zeroes(block_size) \in [1 .. block_size -> Nat]
  BY Sizes, ZeroesType
<1> QED BY <1>1 DEF Block, Zeroes

LEMMA ResultIs ==
  ASSUME NEW o \in Object, Clean(o), NEW v \in Nat, o.t = Pair(v)
  PROVE  LET t == Pair(v + o.m)
             x == Compressed(Padded(Held(o)), t, TRUE)
         IN  /\ result(o) = Members(o.keylen, Append(o.chain, x), Zeroes(block_size), 0, t)
             /\ x \in Compression
             /\ result(o) \in Object /\ Clean(result(o))
<1> DEFINE t   == Pair(v + o.m)
           b   == Padded(Held(o))
           yes == TRUE
           x   == Compressed(b, t, yes)
           c   == Append(o.chain, x)
           z   == Zeroes(block_size)
           a   == [o EXCEPT !.t = t]
           f   == transform(a, b, yes)
<1>1. o.m \in Nat /\ o.m \in 0 .. block_size /\ o.m <= block_size /\ v + o.m \in Nat
  BY ObjectFacts, Sizes
<1>2. incr_len(o.t, o.m) = t
  BY <1>1, IncrPair
<1>3. t \in Digit \X Digit
  BY <1>1, PairType
<1>4. b \in Block(block_size, Nat)
  <2> DEFINE h == Held(o)
  <2>1. h \in Seq(Nat) /\ Len(h) = o.m
    BY HeldType
  <2> HIDE DEF h
  <2>2. Len(h) <= block_size
    BY <1>1, <2>1
  <2>3. Padded(h) \in Block(block_size, Nat)
    BY <2>1, <2>2, PaddedType
  <2> QED BY <2>3 DEF h
<1>5. z \in Block(block_size, Nat) /\ \A i \in 1 .. block_size : z[i] = 0
  BY ZeroBlock
<1>6. result(o) = [f EXCEPT !.b = z, !.m = 0]
  BY <1>2, Zenon DEF result, Padded, Held, Clear
<1>7. yes \in BOOLEAN
  OBVIOUS
<1> HIDE DEF t, b, z, yes
<1>8. x \in Compression
  BY <1>3, <1>4, <1>7, CompressedType
<1>9. a = Members(o.keylen, o.chain, o.b, o.m, t) /\ a \in Object
  BY <1>3, CountedIs
<1> HIDE DEF a
<1>10. a.keylen = o.keylen /\ a.chain = o.chain /\ a.b = o.b /\ a.m = o.m /\ a.t = t
  BY <1>9, MembersAre
<1>11. f = Members(a.keylen, Append(a.chain, Compressed(b, a.t, yes)), a.b, a.m, a.t)
  BY <1>4, <1>7, <1>9, TransformIs
<1>12. f = Members(o.keylen, c, o.b, o.m, t)
  BY <1>10, <1>11, Zenon
<1>13. c \in Seq(Compression)
  <2> HIDE DEF x
  <2> QED BY <1>8, ObjectFacts, AppendProperties
<1> HIDE DEF f, c, x
<1>14. result(o) = Members(o.keylen, c, z, 0, t)
  <2> DEFINE nil == 0
  <2> HIDE DEF nil
  <2>1. WithBuffer(Members(o.keylen, c, o.b, o.m, t), z, nil) = Members(o.keylen, c, z, nil, t)
    BY WithBufferIs
  <2>2. WithBuffer(f, z, nil) = Members(o.keylen, c, z, nil, t)
    BY <1>12, <2>1
  <2> QED BY <1>6, <2>2, Zenon DEF WithBuffer, nil
<1>15. result(o) \in Object
  <2>1. 0 \in 0 .. block_size
    BY Sizes
  <2> QED BY <1>3, <1>5, <1>13, <1>14, <2>1, ObjectFacts, MembersType
<1>16. Clean(result(o))
  <2>1. result(o).b = z /\ result(o).m = 0
    BY <1>14, MembersAre
  <2>2. ASSUME NEW i \in 0 + 1 .. block_size PROVE z[i] = 0
    BY <1>5, Sizes
  <2> HIDE DEF z
  <2> QED BY <2>1, <2>2 DEF Clean
<1> QED BY <1>8, <1>14, <1>15, <1>16, Zenon DEF c, x, b, yes, t, z

LEMMA ResultType ==
  ASSUME NEW o \in Object, Clean(o)
  PROVE  /\ result(o) \in Object /\ Clean(result(o))
         /\ result(o).keylen = o.keylen /\ result(o).m = 0
         /\ result(o).chain # << >>
<1> DEFINE v == Value(o.t)
           t == Pair(v + o.m)
           x == Compressed(Padded(Held(o)), t, TRUE)
           c == Append(o.chain, x)
           z == Zeroes(block_size)
<1>1. v \in Nat /\ o.t = Pair(v)
  BY ObjectFacts, PairOf
<1> HIDE DEF v
<1>2. /\ result(o) = Members(o.keylen, c, z, 0, t)
      /\ x \in Compression
      /\ result(o) \in Object /\ Clean(result(o))
  BY <1>1, ResultIs
<1> HIDE DEF x
<1>3. c # << >>
  <2> DEFINE s == o.chain
  <2>1. s \in Seq(Compression)
    BY ObjectFacts
  <2> HIDE DEF s
  <2>2. Append(s, x) # << >>
    BY <1>2, <2>1, AppendProperties
  <2> QED BY <2>2 DEF s
<1> HIDE DEF c, z, t
<1>4. result(o).keylen = o.keylen /\ result(o).m = 0 /\ result(o).chain = c
  BY <1>2, MembersAre
<1> QED BY <1>2, <1>3, <1>4

LEMMA InitType ==
  ASSUME NEW k \in 0 .. block_size \div 2
  PROVE  /\ init(k) \in Object /\ Clean(init(k))
         /\ init(k) = Members(k, << >>, Zeroes(block_size), 0, Pair(0))
         /\ init(k).keylen = k /\ init(k).chain = << >> /\ init(k).m = 0
         /\ init(k).t = Pair(0) /\ Held(init(k)) = << >>
<1> DEFINE z == Zeroes(block_size)
           t == Pair(0)
           e == << >>
           nil == 0
           o == Members(k, e, z, nil, t)
<1>1. t = <<0, 0>> /\ t \in Digit \X Digit
  <2>1. 0 % Word = 0 /\ 0 \div Word = 0
    <3>1. Word * 0 + 0 = 0 /\ 0 \in 0 .. Word - 1 /\ 0 \in Nat
      BY Sizes
    <3>2. (Word * 0 + 0) \div Word = 0 /\ (Word * 0 + 0) % Word = 0
      BY <3>1, Sizes, DivModOf
    <3> QED BY <3>1, <3>2
  <2>2. 0 \in Nat
    OBVIOUS
  <2> QED BY <2>1, <2>2, PairType DEF Pair
<1>2. z \in Block(block_size, Nat) /\ \A i \in 1 .. block_size : z[i] = 0
  BY ZeroBlock
<1>3. nil \in 0 .. block_size
  BY Sizes
<1>4. e \in Seq(Compression)
  OBVIOUS
<1>5. init(k) = o
  BY <1>1 DEF init, Members
<1> HIDE DEF z, t, e, nil
<1>6. o \in Object
  BY <1>1, <1>2, <1>3, <1>4, MembersType
<1>7. o.keylen = k /\ o.chain = e /\ o.b = z /\ o.m = nil /\ o.t = t
  BY MembersAre
<1> HIDE DEF o
<1>8. Clean(o)
  <2>1. ASSUME NEW i \in 0 + 1 .. block_size PROVE z[i] = 0
    BY <1>2, Sizes
  <2> QED BY <1>7, <2>1 DEF Clean, nil
<1>9. Held(o) = << >>
  <2>1. Held(o) \in Seq(Nat) /\ Len(Held(o)) = 0
    BY <1>6, <1>7, <1>8, HeldType DEF nil
  <2> QED BY <2>1, EmptySeq
<1> QED BY <1>5, <1>6, <1>7, <1>8, <1>9, Zenon DEF o, z, t, e, nil

(* The part of a key that is a block of its own, and the rest of it. *)
KeyLen(p) == IF Len(p) < block_size \div 2 THEN Len(p) ELSE block_size \div 2
KeyPart(p) == SubSeq(p, 1, KeyLen(p))
KeyRest(p) == SubSeq(p, KeyLen(p) + 1, Len(p))
Keyed(p) == Members(KeyLen(p), << >>, Padded(KeyPart(p)), block_size, Pair(0))

LEMMA KeyCut ==
  ASSUME NEW p \in Seq(Nat)
  PROVE  /\ KeyLen(p) \in 0 .. block_size \div 2 /\ KeyLen(p) <= block_size
         /\ KeyPart(p) \in Seq(Nat) /\ Len(KeyPart(p)) = KeyLen(p)
         /\ KeyRest(p) \in Seq(Nat) /\ Len(KeyRest(p)) = Len(p) - KeyLen(p)
         /\ KeyPart(p) \o KeyRest(p) = p
         /\ Len(p) # KeyLen(p) => KeyLen(p) = block_size \div 2
<1>1. /\ KeyLen(p) \in 0 .. block_size \div 2 /\ KeyLen(p) <= block_size /\ KeyLen(p) \in 0 .. Len(p)
      /\ Len(p) # KeyLen(p) => KeyLen(p) = block_size \div 2
  <2> DEFINE half == block_size \div 2
             len  == Len(p)
  <2>1. half \in 1 .. block_size - 1 /\ len \in Nat /\ block_size \in Nat
    BY Sizes
  <2>2. KeyLen(p) = IF len < half THEN len ELSE half
    BY DEF KeyLen
  <2> HIDE DEF half, len
  <2>3. /\ KeyLen(p) \in 0 .. half /\ KeyLen(p) <= block_size /\ KeyLen(p) \in 0 .. len
        /\ len # KeyLen(p) => KeyLen(p) = half
    BY <2>1, <2>2
  <2> QED BY <2>3 DEF half, len
<1>2. /\ KeyPart(p) \in Seq(Nat) /\ Len(KeyPart(p)) = KeyLen(p)
      /\ KeyRest(p) \in Seq(Nat) /\ Len(KeyRest(p)) = Len(p) - KeyLen(p)
      /\ KeyPart(p) \o KeyRest(p) = p
  BY <1>1, CutInTwo, ZenonT(60) DEF KeyPart, KeyRest
<1> QED BY <1>1, <1>2

LEMMA KeyedType ==
  ASSUME NEW p \in Seq(Nat)
  PROVE  /\ Keyed(p) \in Object /\ Clean(Keyed(p))
         /\ Keyed(p).keylen = KeyLen(p) /\ Keyed(p).chain = << >>
         /\ Keyed(p).b = Padded(KeyPart(p)) /\ Keyed(p).m = block_size
         /\ Keyed(p).t = Pair(0) /\ Held(Keyed(p)) = Padded(KeyPart(p))
<1> DEFINE k == KeyLen(p)
           e == << >>
           b == Padded(KeyPart(p))
           t == Pair(0)
           o == Members(k, e, b, block_size, t)
<1>1. k \in 0 .. block_size \div 2
  BY KeyCut
<1>2. b \in Block(block_size, Nat)
  <2>1. KeyPart(p) \in Seq(Nat) /\ Len(KeyPart(p)) <= block_size
    BY KeyCut
  <2> QED BY <2>1, PaddedType
<1>3. t \in Digit \X Digit /\ e \in Seq(Compression) /\ block_size \in 0 .. block_size
  <2>1. 0 \in Nat /\ e \in Seq(Compression)
    OBVIOUS
  <2>2. block_size \in 0 .. block_size
    BY Sizes
  <2> QED BY <2>1, <2>2, PairType
<1> HIDE DEF k, e, b, t
<1>4. o \in Object
  BY <1>1, <1>2, <1>3, MembersType
<1>5. o.keylen = k /\ o.chain = e /\ o.b = b /\ o.m = block_size /\ o.t = t
  BY MembersAre
<1>6. o = Keyed(p)
  BY DEF Keyed, k, e, b, t
<1> HIDE DEF o
<1>7. Clean(o)
  BY <1>5, Sizes DEF Clean
<1>8. Held(o) = b
  <2>1. b \in Seq(Nat) /\ Len(b) = block_size
    BY <1>2, BlockIs
  <2> QED BY <1>5, <2>1, SubSeqFull DEF Held
<1> QED BY <1>4, <1>5, <1>6, <1>7, <1>8, Zenon DEF k, e, b, t

LEMMA ConstructIs ==
  ASSUME NEW p \in Seq(Nat)
  PROVE  construct(p) =
           IF p = << >> THEN init(0)
           ELSE IF Len(p) = KeyLen(p) THEN Keyed(p)
           ELSE result(update(Keyed(p), KeyRest(p)))
<1> DEFINE k == KeyLen(p)
           q == KeyPart(p)
           i == init(k)
           o == update(i, q)
           keyed == [o EXCEPT !.m = block_size]
<1>1. construct(p) =
           IF p = << >> THEN init(0)
           ELSE IF Len(p) = k THEN keyed
           ELSE result(update(keyed, KeyRest(p)))
  BY Zenon DEF construct, KeyLen, KeyPart, KeyRest
<1>2. keyed = Keyed(p)
  <2>1. q \in Seq(Nat) /\ Len(q) = k /\ k <= block_size /\ k \in 0 .. block_size \div 2
    BY KeyCut
  <2>2. i \in Object /\ Clean(i) /\ i.keylen = k /\ i.chain = << >> /\ i.m = 0
        /\ i.t = Pair(0) /\ Held(i) = << >>
    BY <2>1, InitType
  <2> HIDE DEF i, k, q
  <2>3. o = Fed(i, 0, q)
    <3>1. 0 \in Nat
      OBVIOUS
    <3>2. << >> \o q = q
      BY <2>1, ConcatEmptySeq
    <3>3. o = Fed(i, 0, << >> \o q)
      BY <2>1, <2>2, <3>1, UpdateIs
    <3> QED BY <3>2, <3>3
  <2>4. Fed(i, 0, q) = Members(k, << >>, Padded(q), k, Pair(0))
    <3>1. /\ Total(block_size, Before(Len(q))) = 0 /\ Front(q) = << >> /\ Last(q) = q
      BY <2>1, ShortData
    <3>2. Run(0, << >>) = << >> /\ << >> \o << >> = << >> /\ 0 + 0 = 0
      BY DEF Run
    <3> QED BY <2>1, <2>2, <3>1, <3>2, Zenon DEF Fed
  <2> DEFINE b == Padded(q)
             t == Pair(0)
             e == << >>
  <2> HIDE DEF o, b, t, e
  <2>5. o = Members(k, e, b, k, t)
    BY <2>3, <2>4 DEF b, t, e
  <2>6. keyed = Members(k, e, b, block_size, t)
    BY <2>5 DEF Members
  <2> QED BY <2>6 DEF Keyed, k, q, b, t, e
<1> QED BY <1>1, <1>2, Zenon

LEMMA ConstructType ==
  ASSUME NEW p \in Seq(Nat)
  PROVE  LET o == construct(p) IN
         /\ o \in Object /\ Clean(o)
         /\ o.m \in {0, block_size}
         /\ o.chain = << >> => o.t = Pair(0)
<1> DEFINE o == construct(p)
<1>1. CASE p = << >>
  <2>1. o = init(0)
    BY <1>1, ConstructIs
  <2>2. 0 \in 0 .. block_size \div 2
    BY Sizes
  <2> HIDE DEF o
  <2> QED BY <2>1, <2>2, InitType DEF o
<1>2. CASE p # << >> /\ Len(p) = KeyLen(p)
  <2>1. o = Keyed(p)
    BY <1>2, ConstructIs
  <2> HIDE DEF o
  <2> QED BY <2>1, KeyedType DEF o
<1>3. CASE p # << >> /\ Len(p) # KeyLen(p)
  <2> DEFINE u == update(Keyed(p), KeyRest(p))
  <2>1. o = result(u)
    BY <1>3, ConstructIs
  <2>2. u \in Object /\ Clean(u)
    BY KeyedType, KeyCut, UpdateType
  <2> HIDE DEF o, u
  <2>3. o \in Object /\ Clean(o) /\ o.m = 0 /\ o.chain # << >>
    BY <2>1, <2>2, ResultType
  <2> QED BY <2>3 DEF o
<1> QED BY <1>1, <1>2, <1>3

------------------------------------------------------------------------------
(* The invariant *)

(* An object starts with no byte or a key in the buffer; until it has       *)
(* compressed something it has counted nothing.                             *)
StartsFresh ==
  /\ start.m \in {0, block_size}
  /\ start.chain = << >> => start.t = Pair(0)

Inv == TypeOK /\ SplitsDoNotMatter /\ StartsFresh

LEMMA InitInv == Init => Inv
<1> SUFFICES ASSUME Init PROVE Inv
  OBVIOUS
<1>1. PICK p \in Key : blake = construct(p)
  BY DEF Init
<1>2. p \in Seq(Nat)
  BY InputAssumption
<1> DEFINE o == construct(p)
<1>3. o \in Object /\ Clean(o) /\ o.m \in {0, block_size} /\ (o.chain = << >> => o.t = Pair(0))
  BY <1>2, ConstructType
<1> HIDE DEF o
<1>4. blake = o /\ start = o /\ text = << >> /\ results = 0 /\ digest = NoDigest
  BY <1>1 DEF Init, o
<1>5. update(o, << >>) = o
  BY <1>3, UpdateNothing
<1>6. SplitsDoNotMatter
  BY <1>4, <1>5 DEF SplitsDoNotMatter
<1>7. StartsFresh
  BY <1>3, <1>4 DEF StartsFresh
<1>8. TypeOK
  <2>1. results \in 0 .. MaxResults /\ text \in Seq(Nat)
    BY <1>4, BoundAssumption
  <2> QED BY <1>3, <1>4, <2>1 DEF TypeOK
<1> QED BY <1>6, <1>7, <1>8 DEF Inv

LEMMA NextInv == Inv /\ [Next]_vars => Inv'
<1> SUFFICES ASSUME Inv, [Next]_vars PROVE Inv'
  OBVIOUS
<1> USE DEF Inv
<1>t. /\ blake \in Object /\ Clean(blake) /\ start \in Object /\ Clean(start)
      /\ text \in Seq(Nat) /\ results \in 0 .. MaxResults
  BY DEF TypeOK
<1>1. ASSUME NEW p \in Input, Update(p) PROVE Inv'
  <2>1. p \in Seq(Nat)
    BY InputAssumption
  <2>2. /\ blake' = update(blake, p) /\ text' = text \o p
        /\ start' = start /\ results' = results /\ digest' = digest
    BY <1>1 DEF Update
  <2>3. blake' \in Object /\ Clean(blake')
    BY <1>t, <2>1, <2>2, UpdateType
  <2>4. text' \in Seq(Nat)
    BY <1>t, <2>1, <2>2, ConcatProperties
  <2>5. blake' = update(start, text')
    <3>1. blake = update(start, text)
      BY DEF SplitsDoNotMatter
    <3>2. update(update(start, text), p) = update(start, text \o p)
      BY <1>t, <2>1, UpdateConcat
    <3> QED BY <2>2, <3>1, <3>2
  <2>6. SplitsDoNotMatter'
    BY <2>2, <2>5 DEF SplitsDoNotMatter
  <2>7. StartsFresh'
    BY <2>2 DEF StartsFresh
  <2>8. TypeOK'
    BY <1>t, <2>2, <2>3, <2>4 DEF TypeOK, Clean
  <2> QED BY <2>6, <2>7, <2>8
<1>2. ASSUME Result PROVE Inv'
  <2> DEFINE o == result(blake)
  <2>1. /\ o \in Object /\ Clean(o) /\ o.keylen = blake.keylen /\ o.m = 0 /\ o.chain # << >>
    BY <1>t, ResultType
  <2> HIDE DEF o
  <2>2. /\ blake' = o /\ start' = o /\ text' = << >> /\ results' = results + 1
        /\ results < MaxResults
        /\ digest' = [keylen |-> o.keylen, chain |-> o.chain]
    BY <1>2 DEF Result, o
  <2>3. update(o, << >>) = o
    BY <2>1, UpdateNothing
  <2>4. SplitsDoNotMatter'
    BY <2>2, <2>3 DEF SplitsDoNotMatter
  <2>5. StartsFresh'
    BY <2>1, <2>2 DEF StartsFresh
  <2>6. digest' \in [keylen : 0 .. block_size \div 2, chain : Seq(Compression)]
    BY <2>1, <2>2, ObjectFacts
  <2>7. results' \in 0 .. MaxResults /\ text' \in Seq(Nat)
    BY <1>t, <2>2, BoundAssumption
  <2>8. TypeOK'
    BY <2>1, <2>2, <2>6, <2>7 DEF TypeOK, Clean
  <2> QED BY <2>4, <2>5, <2>8
<1>3. CASE UNCHANGED vars
  BY <1>3 DEF vars, TypeOK, Clean, SplitsDoNotMatter, StartsFresh
<1> QED BY <1>1, <1>2, <1>3 DEF Next

LEMMA Invariance == Spec => []Inv
  BY InitInv, NextInv, PTL DEF Spec

(* The buffer of blake2 is never overfull and holds zeroes where it holds   *)
(* no byte of the message, so that the last block is padded with them.      *)
THEOREM TypeCorrect == Spec => []TypeOK
  BY Invariance, PTL DEF Inv

(* update may be called with any parts of a message, before and after       *)
(* results: the object is the one that one call would have left.            *)
THEOREM Splits == Spec => []SplitsDoNotMatter
  BY Invariance, PTL DEF Inv

(* What an object has counted and buffered after a message. *)
LEMMA FedCounts ==
  ASSUME NEW o \in Object, Clean(o), NEW p \in Seq(Nat)
  PROVE  (Value(update(o, p).t) + update(o, p).m) % (Word * Word)
           = (Value(o.t) + o.m + Len(p)) % (Word * Word)
<1> DEFINE v == Value(o.t)
           d == Held(o) \o p
           s == Total(block_size, Before(Len(d)))
           f == Fed(o, v, d)
           m == Len(Last(d))
           M == Word * Word
<1>1. v \in Nat /\ o.t = Pair(v) /\ o.m \in Nat /\ Len(p) \in Nat
  BY ObjectFacts, PairOf
<1> HIDE DEF v
<1>2. update(o, p) = f
  BY <1>1, UpdateIs
<1>3. d \in Seq(Nat) /\ Len(d) = o.m + Len(p)
  <2> DEFINE h == Held(o)
  <2>1. h \in Seq(Nat) /\ Len(h) = o.m
    BY HeldType
  <2> HIDE DEF h
  <2>2. h \o p \in Seq(Nat) /\ Len(h \o p) = Len(h) + Len(p)
    BY <2>1, ConcatProperties
  <2> QED BY <2>1, <2>2 DEF h
<1> HIDE DEF d
<1>4. f.t = Pair(v + s) /\ f.m = m
  BY FedIs
<1>5. s \in Nat /\ m = Len(d) - s /\ Len(d) \in Nat /\ s <= Len(d)
  <2>1. Len(d) \in Nat
    BY <1>3
  <2> QED BY <1>3, <2>1, BeforeType, LastType
<1> HIDE DEF s, f, m
<1>6. v + s \in Nat /\ m \in Nat /\ (v + s) + m = v + o.m + Len(p)
  <2>1. v + s \in Nat /\ m \in Nat
    BY <1>1, <1>5
  <2> QED BY <1>1, <1>3, <1>5, <2>1, SMTT(30)
<1>7. Value(f.t) = (v + s) % M
  BY <1>4, <1>6, PairValue
<1>8. M \in Nat \ {0}
  BY Sizes
<1> HIDE DEF M
<1>9. (((v + s) % M) + m) % M = ((v + s) + m) % M
  BY <1>6, <1>8, ModPlus
<1>10. (Value(f.t) + f.m) % M = (v + o.m + Len(p)) % M
  BY <1>4, <1>6, <1>7, <1>9
<1> QED BY <1>2, <1>10 DEF v, M

(* The two words of the count, with the carry from one to the other, count  *)
(* all the bytes given, for every split of them and across results.         *)
THEOREM Counted == Spec => []BytesCounted
<1>1. Inv => BytesCounted
  BY FedCounts DEF Inv, TypeOK, SplitsDoNotMatter, BytesCounted
<1> QED BY <1>1, Invariance, PTL

------------------------------------------------------------------------------
(* The function of RFC 7693 *)

LEMMA HeldIs ==
  ASSUME NEW o \in Object, Clean(o), o.m \in {0, block_size}
  PROVE  (IF o.m = 0 THEN << >> ELSE o.b) = Held(o)
<1>1. CASE o.m = 0
  <2>1. Held(o) \in Seq(Nat) /\ Len(Held(o)) = 0
    BY <1>1, HeldType
  <2>2. Held(o) = << >>
    BY <2>1, EmptySeq
  <2> QED BY <1>1, <2>2
<1>2. CASE o.m # 0
  <2>1. o.m = block_size /\ o.b \in Seq(Nat) /\ Len(o.b) = block_size
    BY <1>2, ObjectFacts
  <2>2. SubSeq(o.b, 1, Len(o.b)) = o.b
    <3> DEFINE b == o.b
    <3>1. b \in Seq(Nat)
      BY <2>1
    <3> HIDE DEF b
    <3>2. SubSeq(b, 1, Len(b)) = b
      BY <3>1, SubSeqFull
    <3> QED BY <3>2 DEF b
  <2>3. Held(o) = o.b
    BY <2>1, <2>2, Zenon DEF Held
  <2> QED BY <1>2, <2>3
<1> QED BY <1>1, <1>2

(* What the RFC compresses as block j of the data d. *)
Prescribed(d, j) ==
  LET n == Before(Len(d))
      v == IF j - 1 = n THEN Len(d) ELSE ((j - 1) + 1) * block_size
  IN  Compressed([i \in 1 .. block_size |->
                    IF ((j - 1) * block_size) + i <= Len(d)
                    THEN d[((j - 1) * block_size) + i] ELSE 0],
                 <<v % Word, (v \div Word) % Word>>, j = n + 1)

LEMMA RFCIs ==
  ASSUME NEW o \in Object, Clean(o), o.m \in {0, block_size}, NEW q \in Seq(Nat)
  PROVE  RFC7693(o, q) = [j \in 1 .. Before(Len(Held(o) \o q)) + 1 |-> Prescribed(Held(o) \o q, j)]
<1> DEFINE h == Held(o)
           d == h \o q
<1>1. (IF o.m = 0 THEN << >> ELSE o.b) = h
  BY HeldIs
<1>2. h \in Seq(Nat)
  BY HeldType
<1> HIDE DEF h
<1>3. d \in Seq(Nat)
  BY <1>2, ConcatProperties
<1> HIDE DEF d
<1>4. (d = << >>) = (Len(d) = 0)
  BY <1>3, EmptySeq
<1>5. (IF d = << >> THEN 0 ELSE (Len(d) - 1) \div block_size) = Before(Len(d))
  BY <1>4, Zenon DEF Before
<1>6. (IF o.m = 0 THEN << >> ELSE o.b) \o q = d
  BY <1>1 DEF d
<1> DEFINE n == Before(Len(d))
<1>7. RFC7693(o, q) = [j \in 1 .. n + 1 |-> Prescribed(d, j)]
  <2>1. RFC7693(o, q) =
         LET byte(i) == IF i <= Len(d) THEN d[i] ELSE 0
             upto(i) == IF i = n THEN Len(d) ELSE (i + 1) * block_size
         IN  [j \in 1 .. n + 1 |->
               Compressed([i \in 1 .. block_size |-> byte(((j - 1) * block_size) + i)],
                    <<upto(j - 1) % Word, (upto(j - 1) \div Word) % Word>>,
                    j = n + 1)]
    BY <1>5, <1>6, ZenonT(60) DEF RFC7693
  <2> HIDE DEF n
  <2> QED BY <2>1, Zenon DEF Prescribed, n
<1> QED BY <1>7 DEF d, h

(* Block j of what is compressed is what is prescribed, if not the last. *)
LEMMA PrescribedBlock ==
  ASSUME NEW d \in Seq(Nat), NEW j \in 1 .. Before(Len(d))
  PROVE  Prescribed(d, j) = Compressed(Cut(d, j), Pair(0 + Total(block_size, j)), FALSE)
<1> DEFINE n == Before(Len(d))
           x == [i \in 1 .. block_size |->
                    IF ((j - 1) * block_size) + i <= Len(d)
                    THEN d[((j - 1) * block_size) + i] ELSE 0]
           u == ((j - 1) + 1) * block_size
<1>1. n \in Nat
  <2>1. Len(d) \in Nat
    OBVIOUS
  <2> QED BY <2>1, BeforeType
<1>2. x = Cut(d, j)
  <2>1. ASSUME NEW i \in 1 .. block_size
        PROVE  ((j - 1) * block_size) + i <= Len(d)
    <3>1. Pos(block_size, j, i) \in 1 .. Len(d)
      BY CutType
    <3> QED BY <3>1 DEF Pos
  <2>2. \A i \in 1 .. block_size :
          (IF ((j - 1) * block_size) + i <= Len(d)
           THEN d[((j - 1) * block_size) + i] ELSE 0) = d[Pos(block_size, j, i)]
    BY <2>1, Zenon DEF Pos
  <2> QED BY <2>2, Zenon DEF Cut
<1>3. ~(j - 1 = n) /\ ~(j = n + 1) /\ (j - 1) + 1 = j /\ j \in Nat
  <2> HIDE DEF n
  <2>1. j \in 1 .. n
    BY DEF n
  <2> QED BY <1>1, <2>1
<1>4. u = Total(block_size, j)
  BY <1>3 DEF Total
<1>5. 0 + Total(block_size, j) = Total(block_size, j)
  <2>1. Total(block_size, j) \in Nat
    BY <1>3, Sizes, TotalType
  <2> QED BY <2>1
<1>6. (j = n + 1) = FALSE
  BY <1>3
<1>7. Prescribed(d, j) =
        LET v == IF j - 1 = n THEN Len(d) ELSE u
        IN  Compressed(x, <<v % Word, (v \div Word) % Word>>, j = n + 1)
  BY Zenon DEF Prescribed
<1> HIDE DEF n, u, x
<1>8. Prescribed(d, j) = Compressed(x, <<u % Word, (u \div Word) % Word>>, FALSE)
  BY <1>3, <1>6, <1>7, Zenon
<1> QED BY <1>2, <1>4, <1>5, <1>8, Zenon DEF Pair

LEMMA PrescribedLast ==
  ASSUME NEW d \in Seq(Nat)
  PROVE  Prescribed(d, Before(Len(d)) + 1) = Compressed(Padded(Last(d)), Pair(Len(d)), TRUE)
<1> DEFINE n == Before(Len(d))
           s == Total(block_size, n)
           l == Last(d)
           j == n + 1
           x == [i \in 1 .. block_size |->
                    IF ((j - 1) * block_size) + i <= Len(d)
                    THEN d[((j - 1) * block_size) + i] ELSE 0]
           u == ((j - 1) + 1) * block_size
<1>1. n \in Nat /\ Len(d) \in Nat /\ s \in Nat /\ s <= Len(d)
  <2>1. Len(d) \in Nat
    OBVIOUS
  <2> QED BY <2>1, BeforeType
<1>2. /\ l \in Seq(Nat) /\ Len(l) = Len(d) - s /\ Len(l) \in 0 .. block_size
      /\ \A i \in 1 .. Len(l) : l[i] = d[s + i]
  BY LastType
<1>3. /\ Padded(l) \in Block(block_size, Nat)
      /\ \A i \in 1 .. block_size : Padded(l)[i] = IF i <= Len(l) THEN l[i] ELSE 0
  <2> HIDE DEF l
  <2>1. Len(l) <= block_size
    BY <1>2, Sizes
  <2> QED BY <1>2, <2>1, PaddedType
<1> HIDE DEF n, l
<1>4. j - 1 = n /\ (j - 1) * block_size = s
  BY <1>1 DEF Total
<1>5. x = [i \in 1 .. block_size |-> IF s + i <= Len(d) THEN d[s + i] ELSE 0]
  BY <1>4, Zenon
<1> HIDE DEF s, x, j
<1>6. x = Padded(l)
  <2> DEFINE y == Padded(l)
  <2>1. y \in [1 .. block_size -> Nat]
    BY <1>3 DEF Block
  <2>2. ASSUME NEW i \in 1 .. block_size
        PROVE  y[i] = IF s + i <= Len(d) THEN d[s + i] ELSE 0
    <3>1. CASE i <= Len(l)
      <4>1. i \in 1 .. Len(l) /\ s + i <= Len(d)
        BY <1>1, <1>2, <3>1
      <4> QED BY <1>2, <1>3, <3>1, <4>1
    <3>2. CASE ~(i <= Len(l))
      <4>1. ~(s + i <= Len(d))
        BY <1>1, <1>2, <3>2
      <4> QED BY <1>3, <3>2, <4>1
    <3> QED BY <3>1, <3>2
  <2> HIDE DEF y
  <2>3. y = [i \in 1 .. block_size |-> IF s + i <= Len(d) THEN d[s + i] ELSE 0]
    BY <2>1, <2>2
  <2> QED BY <1>5, <2>3 DEF y
<1>7. Prescribed(d, j) =
        LET v == IF j - 1 = n THEN Len(d) ELSE u
        IN  Compressed(x, <<v % Word, (v \div Word) % Word>>, j = n + 1)
  BY Zenon DEF Prescribed, n, x
<1>8. (j = n + 1) = TRUE
  BY DEF j
<1> HIDE DEF u
<1>9. Prescribed(d, j) = Compressed(x, <<Len(d) % Word, (Len(d) \div Word) % Word>>, TRUE)
  BY <1>4, <1>7, <1>8, Zenon
<1> QED BY <1>6, <1>9, Zenon DEF Pair, j, n, l

LEMMA FedFromNothing ==
  ASSUME NEW o, NEW d
  PROVE  /\ Fed(o, 0, d).keylen = o.keylen
         /\ Fed(o, 0, d).chain = o.chain \o Run(0, Front(d))
         /\ Fed(o, 0, d).m = Len(Last(d))
         /\ Fed(o, 0, d).t = Pair(0 + Total(block_size, Before(Len(d))))
  BY FedIs

LEMMA FirstResult ==
  ASSUME NEW o \in Object, Clean(o), o.m \in {0, block_size}, o.chain = << >>, o.t = Pair(0),
         NEW q \in Seq(Nat)
  PROVE  /\ result(update(o, q)).keylen = o.keylen
         /\ result(update(o, q)).chain = RFC7693(o, q)
<1> DEFINE d == Held(o) \o q
           f == Fed(o, 0, d)
           n == Before(Len(d))
           s == Total(block_size, n)
           l == Last(d)
           r == Run(0, Front(d))
           t == Pair((0 + s) + Len(l))
           x == Compressed(Padded(l), t, TRUE)
           c == Append(r, x)
           z == Zeroes(block_size)
<1>0. 0 \in Nat
  OBVIOUS
<1>1. update(o, q) = f
  BY <1>0, UpdateIs
<1>2. d \in Seq(Nat)
  BY HeldType, ConcatProperties
<1>3. RFC7693(o, q) = [j \in 1 .. n + 1 |-> Prescribed(d, j)]
  BY RFCIs
<1> HIDE DEF d
<1>4. f \in Object /\ Clean(f) /\ Held(f) = l /\ 0 + s \in Nat
  BY <1>0, <1>2, FedType
<1>5. f.keylen = o.keylen /\ f.chain = o.chain \o r /\ f.m = Len(l) /\ f.t = Pair(0 + s)
  BY FedFromNothing, Zenon
<1>6. n \in Nat /\ Len(l) = Len(d) - s /\ Len(d) \in Nat /\ s \in Nat /\ s <= Len(d)
  <2>1. Len(d) \in Nat
    BY <1>2
  <2> QED BY <1>2, <2>1, BeforeType, LastType
<1>7. Front(d) \in BlocksOf /\ Len(Front(d)) = n /\ \A j \in 1 .. n : Front(d)[j] = Cut(d, j)
  BY <1>2, FrontType
<1>8. /\ r \in Seq(Compression) /\ Len(r) = n
      /\ \A j \in 1 .. n : r[j] = Compressed(Cut(d, j), Pair(0 + Total(block_size, j)), FALSE)
  <2>1. /\ r \in Seq(Compression) /\ Len(r) = Len(Front(d))
        /\ \A j \in 1 .. Len(Front(d)) :
              r[j] = Compressed(Front(d)[j], Pair(0 + Total(block_size, j)), FALSE)
    BY <1>0, <1>7, RunType
  <2> HIDE DEF n, r
  <2> QED BY <1>7, <2>1
<1> HIDE DEF f, r, l
<1>9. o.chain \o r = r
  BY <1>8, ConcatEmptySeq
<1>10. result(f) = Members(o.keylen, c, z, 0, t) /\ x \in Compression
  <2>1. /\ result(f) = Members(f.keylen,
                          Append(f.chain, Compressed(Padded(Held(f)), Pair((0 + s) + f.m), TRUE)),
                          z, 0, Pair((0 + s) + f.m))
        /\ Compressed(Padded(Held(f)), Pair((0 + s) + f.m), TRUE) \in Compression
    BY <1>4, <1>5, ResultIs
  <2> QED BY <1>4, <1>5, <1>9, <2>1, Zenon
<1>11. x = Prescribed(d, n + 1)
  <2>1. (0 + s) + Len(l) = Len(d)
    BY <1>6
  <2> QED BY <1>2, <2>1, PrescribedLast DEF l
<1> HIDE DEF x, n, z, t
<1>12. /\ c \in Seq(Compression) /\ Len(c) = n + 1
       /\ \A j \in 1 .. n : c[j] = r[j]
       /\ c[n + 1] = x
  <2>1. /\ Append(r, x) \in Seq(Compression) /\ Len(Append(r, x)) = Len(r) + 1
        /\ \A j \in 1 .. Len(r) : Append(r, x)[j] = r[j]
        /\ Append(r, x)[Len(r) + 1] = x
    BY <1>8, <1>10, AppendProperties
  <2> QED BY <1>8, <2>1
<1> HIDE DEF c
<1>13. c = [j \in 1 .. n + 1 |-> Prescribed(d, j)]
  <2>1. ASSUME NEW j \in 1 .. n + 1 PROVE c[j] = Prescribed(d, j)
    <3>1. CASE j \in 1 .. n
      <4>1. Prescribed(d, j) = Compressed(Cut(d, j), Pair(0 + Total(block_size, j)), FALSE)
        BY <1>2, <3>1, PrescribedBlock DEF n
      <4> QED BY <1>8, <1>12, <3>1, <4>1, Zenon
    <3>2. CASE j = n + 1
      BY <1>11, <1>12, <3>2
    <3> QED BY <1>6, <3>1, <3>2
  <2>2. c \in [1 .. n + 1 -> Compression]
    BY <1>12, LenProperties
  <2> QED BY <2>1, <2>2
<1>14. result(f).keylen = o.keylen /\ result(f).chain = c
  BY <1>10, MembersAre
<1> QED BY <1>1, <1>3, <1>13, <1>14

(* The first result of an object with no key, or with one of at most half a *)
(* block, is the BLAKE2 of the key and the message as RFC 7693 has it: its  *)
(* blocks, the count with each, and the last, padded, marked final.         *)
THEOREM FirstIsRFC == Spec => FirstIsRFC7693
<1>1. Inv /\ [Next]_vars =>
        [(Result /\ results = 0 /\ start.chain = << >>)
           => digest' = [keylen |-> start.keylen, chain |-> RFC7693(start, text)]]_vars
  <2> SUFFICES ASSUME Inv, Result, start.chain = << >>
               PROVE  digest' = [keylen |-> start.keylen, chain |-> RFC7693(start, text)]
    BY Zenon
  <2>1. /\ start \in Object /\ Clean(start) /\ text \in Seq(Nat)
        /\ start.m \in {0, block_size} /\ start.t = Pair(0)
    BY DEF Inv, TypeOK, StartsFresh
  <2>2. blake' = result(update(start, text))
    BY DEF Inv, SplitsDoNotMatter, Result
  <2>3. digest' = [keylen |-> blake'.keylen, chain |-> blake'.chain]
    BY DEF Result
  <2>4. /\ result(update(start, text)).keylen = start.keylen
        /\ result(update(start, text)).chain = RFC7693(start, text)
    BY <2>1, FirstResult
  <2> QED BY <2>2, <2>3, <2>4
<1> QED BY <1>1, Invariance, PTL DEF Spec, FirstIsRFC7693

------------------------------------------------------------------------------
(* Keys *)

LEMMA PaddedInjective ==
  ASSUME NEW p \in Seq(Nat), NEW q \in Seq(Nat), Len(p) = Len(q), Len(p) <= block_size,
         Padded(p) = Padded(q)
  PROVE  p = q
<1>1. SubSeq(Padded(p), 1, Len(p)) = p /\ SubSeq(Padded(q), 1, Len(q)) = q
  BY PaddedType
<1> QED BY <1>1, Zenon

(* Two counts that differ by at most a block differ in the low word. *)
LEMMA LowWord ==
  ASSUME NEW s \in Nat, NEW i \in 0 .. block_size, NEW j \in 0 .. block_size,
         (s + i) % Word = (s + j) % Word
  PROVE  i = j
<1> DEFINE W == Word
           x == s + i
           y == s + j
<1>1. W \in Nat \ {0} /\ block_size \in Nat /\ block_size < W
  BY Sizes
<1>2. x \in Nat /\ y \in Nat /\ i \in Nat /\ j \in Nat
  BY <1>1
<1> HIDE DEF W
<1>3. PICK a \in Nat, b \in Nat, r \in 0 .. W - 1 : x = W * a + r /\ y = W * b + r
  <2> HIDE DEF x, y
  <2>1. /\ x \div W \in Nat /\ x % W \in 0 .. W - 1 /\ x = W * (x \div W) + (x % W)
        /\ y \div W \in Nat /\ y % W \in 0 .. W - 1 /\ y = W * (y \div W) + (y % W)
    BY <1>1, <1>2, DivMod
  <2>2. x % W = y % W
    BY DEF x, y, W
  <2> QED BY <2>1, <2>2, Zenon
<1>4. CASE i <= j
  <2>1. PICK d \in 0 .. W - 1 : j = i + d
    <3>1. j - i \in 0 .. W - 1
      BY <1>1, <1>2, <1>4
    <3> QED BY <1>2, <3>1
  <2>2. W * a \in Int /\ W * b \in Int
    BY <1>1
  <2>3. W * b + 0 = W * a + d
    BY <1>1, <1>2, <1>3, <2>1, <2>2
  <2>4. 0 \in 0 .. W - 1 /\ a \in Int /\ b \in Int
    BY <1>1
  <2>5. d = 0
    BY <1>1, <2>3, <2>4, DivModUnique
  <2> QED BY <1>2, <2>1, <2>5
<1>5. CASE j <= i
  <2>1. PICK d \in 0 .. W - 1 : i = j + d
    <3>1. i - j \in 0 .. W - 1
      BY <1>1, <1>2, <1>5
    <3> QED BY <1>2, <3>1
  <2>2. W * a \in Int /\ W * b \in Int
    BY <1>1
  <2>3. W * a + 0 = W * b + d
    BY <1>1, <1>2, <1>3, <2>1, <2>2
  <2>4. 0 \in 0 .. W - 1 /\ a \in Int /\ b \in Int
    BY <1>1
  <2>5. d = 0
    BY <1>1, <2>3, <2>4, DivModUnique
  <2> QED BY <1>2, <2>1, <2>5
<1> QED BY <1>2, <1>4, <1>5

(* A message is what its blocks and its last part say. *)
LEMMA SameParts ==
  ASSUME NEW d \in Seq(Nat), NEW e \in Seq(Nat), Before(Len(d)) = Before(Len(e)),
         Last(d) = Last(e), \A j \in 1 .. Before(Len(d)) : Cut(d, j) = Cut(e, j)
  PROVE  d = e
<1> DEFINE n == Before(Len(d))
           s == Total(block_size, n)
           l == Last(d)
<1>1. n \in Nat /\ s \in Nat /\ Len(d) \in Nat /\ Len(e) \in Nat /\ s <= Len(d) /\ s <= Len(e)
  <2>1. Len(d) \in Nat /\ Len(e) \in Nat
    OBVIOUS
  <2>2. n \in Nat /\ s \in Nat /\ s <= Len(d)
    BY <2>1, BeforeType
  <2>3. Total(block_size, Before(Len(e))) <= Len(e)
    BY <2>1, BeforeType
  <2> QED BY <2>1, <2>2, <2>3
<1>2. Len(l) = Len(d) - s /\ \A i \in 1 .. Len(l) : l[i] = d[s + i]
  BY LastType
<1>3. Len(l) = Len(e) - s /\ \A i \in 1 .. Len(l) : l[i] = e[s + i]
  <2>1. LET t == Total(block_size, Before(Len(e))) IN
        Len(Last(e)) = Len(e) - t /\ \A i \in 1 .. Len(Last(e)) : Last(e)[i] = e[t + i]
    BY LastType
  <2> QED BY <2>1, Zenon
<1>4. ASSUME NEW j \in 1 .. n, NEW i \in 1 .. block_size
      PROVE  d[Pos(block_size, j, i)] = e[Pos(block_size, j, i)]
  <2>1. Cut(d, j)[i] = Cut(e, j)[i]
    BY Zenon
  <2> QED BY <2>1 DEF Cut
<1> HIDE DEF l, s, n
<1>5. Len(d) = Len(e)
  BY <1>1, <1>2, <1>3
<1>6. ASSUME NEW x \in 1 .. Len(d) PROVE d[x] = e[x]
  <2>1. CASE x <= s
    <3>1. x \in 1 .. s
      BY <1>1, <2>1
    <3>2. PICK j \in 1 .. n, i \in 1 .. block_size : x = Pos(block_size, j, i)
      <4>1. x \in 1 .. Total(block_size, n)
        BY <3>1 DEF s
      <4> QED BY <1>1, <4>1, Sizes, PosCover
    <3> QED BY <1>4, <3>2
  <2>2. CASE ~(x <= s)
    <3>1. PICK i \in 1 .. Len(l) : x = s + i
      <4>1. x - s \in 1 .. Len(l) /\ x = s + (x - s)
        BY <1>1, <1>2, <2>2
      <4> QED BY <4>1
    <3> QED BY <1>2, <1>3, <3>1
  <2> QED BY <2>1, <2>2
<1> QED BY <1>5, <1>6, SeqEqual

(* What is prescribed tells the message. *)
LEMMA PrescribedInjective ==
  ASSUME NEW d \in Seq(Nat), NEW e \in Seq(Nat),
         [j \in 1 .. Before(Len(d)) + 1 |-> Prescribed(d, j)]
           = [j \in 1 .. Before(Len(e)) + 1 |-> Prescribed(e, j)]
  PROVE  d = e
<1> DEFINE n == Before(Len(d))
           k == Before(Len(e))
           s == Total(block_size, n)
           F(x) == [j \in 1 .. Before(Len(x)) + 1 |-> Prescribed(x, j)]
<1>1. n \in Nat /\ k \in Nat /\ Len(d) \in Nat /\ Len(e) \in Nat
  <2>1. Len(d) \in Nat /\ Len(e) \in Nat
    OBVIOUS
  <2> QED BY <2>1, BeforeType
<1>2. n = k
  <2>1. 1 .. n + 1 = 1 .. k + 1
    <3>1. DOMAIN F(d) = 1 .. n + 1 /\ DOMAIN F(e) = 1 .. k + 1 /\ F(d) = F(e)
      BY Zenon
    <3> QED BY <3>1, Zenon
  <2> HIDE DEF n, k
  <2>2. n + 1 \in 1 .. k + 1 /\ k + 1 \in 1 .. n + 1
    BY <1>1, <2>1
  <2> QED BY <1>1, <2>2
<1>3. \A j \in 1 .. n + 1 : Prescribed(d, j) = Prescribed(e, j)
  <2>1. SUFFICES ASSUME NEW j \in 1 .. n + 1 PROVE Prescribed(d, j) = Prescribed(e, j)
    BY Zenon
  <2>2. F(d)[j] = Prescribed(d, j)
    BY Zenon
  <2>3. j \in 1 .. k + 1
    BY <1>2, Zenon
  <2>4. F(e)[j] = Prescribed(e, j)
    BY <2>3, Zenon
  <2>5. F(d) = F(e)
    OBVIOUS
  <2> QED BY <2>2, <2>4, <2>5, Zenon
<1>4. ASSUME NEW j \in 1 .. n PROVE Cut(d, j) = Cut(e, j)
  <2>1. j \in 1 .. n + 1
    <3> HIDE DEF n
    <3> QED BY <1>1
  <2>2. Prescribed(d, j) = Compressed(Cut(d, j), Pair(0 + Total(block_size, j)), FALSE)
    BY PrescribedBlock
  <2>3. j \in 1 .. Before(Len(e))
    BY <1>2, Zenon
  <2>4. Prescribed(e, j) = Compressed(Cut(e, j), Pair(0 + Total(block_size, j)), FALSE)
    BY <2>3, PrescribedBlock
  <2>5. Prescribed(d, j) = Prescribed(e, j)
    BY <1>3, <2>1, Zenon
  <2> DEFINE t == Pair(0 + Total(block_size, j))
             x == Cut(d, j)
             y == Cut(e, j)
  <2>6. Compressed(x, t, FALSE) = Compressed(y, t, FALSE)
    BY <2>2, <2>4, <2>5
  <2> HIDE DEF x, y, t
  <2>7. Compressed(x, t, FALSE).block = x /\ Compressed(y, t, FALSE).block = y
    BY DEF Compressed
  <2>8. x = y
    BY <2>6, <2>7, Zenon
  <2> QED BY <2>8 DEF x, y
<1>5. Padded(Last(d)) = Padded(Last(e)) /\ Pair(Len(d)) = Pair(Len(e))
  <2>1. Prescribed(d, n + 1) = Compressed(Padded(Last(d)), Pair(Len(d)), TRUE)
    BY PrescribedLast
  <2>2. Prescribed(e, k + 1) = Compressed(Padded(Last(e)), Pair(Len(e)), TRUE)
    BY PrescribedLast
  <2>3. n + 1 \in 1 .. n + 1
    <3> HIDE DEF n
    <3> QED BY <1>1
  <2>4. Prescribed(d, n + 1) = Prescribed(e, n + 1)
    BY <1>3, <2>3, Zenon
  <2> DEFINE t == Pair(Len(d))
             u == Pair(Len(e))
             x == Padded(Last(d))
             y == Padded(Last(e))
  <2>5. Compressed(x, t, TRUE) = Compressed(y, u, TRUE)
    BY <1>2, <2>1, <2>2, <2>4, Zenon
  <2> HIDE DEF x, y, t, u
  <2>6. /\ Compressed(x, t, TRUE).block = x /\ Compressed(y, u, TRUE).block = y
        /\ Compressed(x, t, TRUE).t = t /\ Compressed(y, u, TRUE).t = u
    BY DEF Compressed
  <2>7. x = y /\ t = u
    BY <2>5, <2>6, Zenon
  <2> QED BY <2>7 DEF x, y, t, u
<1>6. /\ Last(d) \in Seq(Nat) /\ Last(e) \in Seq(Nat)
      /\ Len(Last(d)) \in 0 .. block_size /\ Len(Last(e)) \in 0 .. block_size
      /\ Len(Last(d)) = Len(d) - s /\ Len(Last(e)) = Len(e) - s
  <2>1. Total(block_size, k) = s
    BY <1>2
  <2> QED BY <2>1, LastType
<1>7. s \in Nat
  BY <1>1, BeforeType
<1>8. Len(Last(d)) = Len(Last(e))
  <2>1. Len(d) % Word = Len(e) % Word
    <3>1. Pair(Len(d))[1] = Len(d) % Word /\ Pair(Len(e))[1] = Len(e) % Word
      BY <1>1, PairType
    <3> QED BY <1>5, <3>1
  <2> HIDE DEF s
  <2>2. PICK a \in 0 .. block_size, b \in 0 .. block_size : a = Len(Last(d)) /\ b = Len(Last(e))
    BY <1>6
  <2>3. Len(d) = s + a /\ Len(e) = s + b
    BY <1>1, <1>6, <1>7, <2>2, Sizes
  <2>4. (s + a) % Word = (s + b) % Word
    BY <2>1, <2>3
  <2>5. a = b
    BY <1>7, <2>4, LowWord
  <2> QED BY <2>2, <2>5
<1>9. Last(d) = Last(e)
  <2>1. Len(Last(d)) <= block_size
    BY <1>6, Sizes
  <2> QED BY <1>5, <1>6, <1>8, <2>1, PaddedInjective
<1> QED BY <1>2, <1>4, <1>9, SameParts

LEMMA ConstructInjective ==
  ASSUME NEW p \in Seq(Nat), NEW q \in Seq(Nat), construct(p) = construct(q)
  PROVE  p = q
<1> DEFINE Empty(x) == x = << >>
           Short(x) == x # << >> /\ Len(x) = KeyLen(x)
           Long(x)  == x # << >> /\ Len(x) # KeyLen(x)
<1>1. ASSUME NEW x \in Seq(Nat), Empty(x)
      PROVE  construct(x).chain = << >> /\ construct(x).m = 0
  <2>1. construct(x) = init(0)
    BY <1>1, ConstructIs
  <2>2. 0 \in 0 .. block_size \div 2
    BY Sizes
  <2> QED BY <2>1, <2>2, InitType
<1>2. ASSUME NEW x \in Seq(Nat), Short(x)
      PROVE  /\ construct(x).chain = << >> /\ construct(x).m = block_size
             /\ construct(x).keylen = KeyLen(x) /\ construct(x).b = Padded(KeyPart(x))
  <2>1. construct(x) = Keyed(x)
    BY <1>2, ConstructIs
  <2> QED BY <2>1, KeyedType
<1> DEFINE Data(x) == Padded(KeyPart(x)) \o KeyRest(x)
<1>3. ASSUME NEW x \in Seq(Nat), Long(x)
      PROVE  /\ construct(x).chain # << >>
             /\ construct(x).chain
                  = [j \in 1 .. Before(Len(Data(x))) + 1 |-> Prescribed(Data(x), j)]
  <2> DEFINE o == Keyed(x)
             u == update(o, KeyRest(x))
  <2>1. construct(x) = result(u)
    BY <1>3, ConstructIs
  <2>2. /\ o \in Object /\ Clean(o) /\ o.m = block_size /\ o.chain = << >> /\ o.t = Pair(0)
        /\ Held(o) = Padded(KeyPart(x)) /\ KeyRest(x) \in Seq(Nat)
    BY KeyedType, KeyCut
  <2> HIDE DEF o
  <2>3. u \in Object /\ Clean(u)
    BY <2>2, UpdateType
  <2>4. o.m \in {0, block_size}
    BY <2>2
  <2>5. result(u).chain = RFC7693(o, KeyRest(x))
    BY <2>2, <2>4, FirstResult
  <2>6. RFC7693(o, KeyRest(x))
          = [j \in 1 .. Before(Len(Held(o) \o KeyRest(x))) + 1 |-> Prescribed(Held(o) \o KeyRest(x), j)]
    BY <2>2, <2>4, RFCIs
  <2>7. result(u).chain # << >>
    BY <2>3, ResultType
  <2> QED BY <2>1, <2>2, <2>5, <2>6, <2>7, Zenon
<1>4. block_size # 0
  BY Sizes
<1>5. \/ Empty(p) /\ Empty(q)
      \/ Short(p) /\ Short(q)
      \/ Long(p) /\ Long(q)
  <2>1. \A x \in Seq(Nat) : Empty(x) \/ Short(x) \/ Long(x)
    OBVIOUS
  <2>2. \A x \in Seq(Nat) : Long(x) <=> construct(x).chain # << >>
    BY <1>1, <1>2, <1>3, <2>1, Zenon
  <2>3. \A x \in Seq(Nat) : ~Long(x) => (Empty(x) <=> construct(x).m = 0)
    BY <1>1, <1>2, <1>4, <2>1, Zenon
  <2> HIDE DEF Empty, Short, Long
  <2> QED BY <2>1, <2>2, <2>3, Zenon
<1>6. CASE Empty(p) /\ Empty(q)
  BY <1>6
<1>7. CASE Short(p) /\ Short(q)
  <2>1. Len(p) = KeyLen(p) /\ Len(q) = KeyLen(q) /\ KeyLen(p) = KeyLen(q)
        /\ Padded(KeyPart(p)) = Padded(KeyPart(q))
    BY <1>2, <1>7, Zenon
  <2>2. KeyPart(p) = KeyPart(q)
    <3>1. /\ KeyPart(p) \in Seq(Nat) /\ KeyPart(q) \in Seq(Nat)
          /\ Len(KeyPart(p)) = KeyLen(p) /\ Len(KeyPart(q)) = KeyLen(q) /\ KeyLen(p) <= block_size
      BY KeyCut
    <3>2. Len(KeyPart(p)) = Len(KeyPart(q)) /\ Len(KeyPart(p)) <= block_size
      BY <2>1, <3>1
    <3> QED BY <2>1, <3>1, <3>2, PaddedInjective
  <2>3. KeyRest(p) = << >> /\ KeyRest(q) = << >>
    <3>1. /\ KeyRest(p) \in Seq(Nat) /\ Len(KeyRest(p)) = Len(p) - KeyLen(p)
          /\ KeyRest(q) \in Seq(Nat) /\ Len(KeyRest(q)) = Len(q) - KeyLen(q)
          /\ Len(p) \in Nat /\ Len(q) \in Nat
      BY KeyCut, LenProperties
    <3>2. Len(KeyRest(p)) = 0 /\ Len(KeyRest(q)) = 0
      BY <2>1, <3>1
    <3> QED BY <3>1, <3>2, EmptySeq
  <2>4. KeyPart(p) \o KeyRest(p) = p /\ KeyPart(q) \o KeyRest(q) = q
    BY KeyCut
  <2> QED BY <2>2, <2>3, <2>4, Zenon
<1>8. CASE Long(p) /\ Long(q)
  <2> DEFINE a == Padded(KeyPart(p))
             b == Padded(KeyPart(q))
             x == KeyRest(p)
             y == KeyRest(q)
  <2>1. /\ KeyPart(p) \in Seq(Nat) /\ Len(KeyPart(p)) = block_size \div 2
        /\ KeyPart(q) \in Seq(Nat) /\ Len(KeyPart(q)) = block_size \div 2
        /\ Len(KeyPart(p)) <= block_size /\ Len(KeyPart(q)) <= block_size
        /\ x \in Seq(Nat) /\ y \in Seq(Nat)
        /\ KeyPart(p) \o x = p /\ KeyPart(q) \o y = q
    <3>1. Len(p) # KeyLen(p) /\ Len(q) # KeyLen(q)
      BY <1>8
    <3> QED BY <3>1, KeyCut
  <2>2. a \in Seq(Nat) /\ Len(a) = block_size /\ b \in Seq(Nat) /\ Len(b) = block_size
    BY <2>1, PaddedType, BlockIs
  <2>3. a \o x = b \o y
    <3>1. [j \in 1 .. Before(Len(Data(p))) + 1 |-> Prescribed(Data(p), j)]
            = [j \in 1 .. Before(Len(Data(q))) + 1 |-> Prescribed(Data(q), j)]
      BY <1>3, <1>8, Zenon
    <3>2. Data(p) \in Seq(Nat) /\ Data(q) \in Seq(Nat)
      <4> HIDE DEF a, b, x, y
      <4>1. a \o x \in Seq(Nat) /\ b \o y \in Seq(Nat)
        BY <2>1, <2>2, ConcatProperties
      <4> QED BY <4>1 DEF a, b, x, y
    <3> HIDE DEF Data
    <3>3. Data(p) = Data(q)
      BY <3>1, <3>2, PrescribedInjective
    <3> QED BY <3>3 DEF Data
  <2> HIDE DEF a, b, x, y
  <2>4. a = b
    BY <2>1, <2>2, <2>3, SameWhole
  <2>5. x = y
    <3>1. a \o x = a \o y
      BY <2>3, <2>4
    <3> QED BY <2>1, <2>2, <3>1, ConcatSimplifications
  <2>6. KeyPart(p) = KeyPart(q)
    <3>1. Padded(KeyPart(p)) = Padded(KeyPart(q))
      BY <2>4 DEF a, b
    <3> QED BY <2>1, <3>1, PaddedInjective
  <2> QED BY <2>1, <2>5, <2>6, Zenon
<1> QED BY <1>5, <1>6, <1>7, <1>8

(* Different keys, also those that differ by zeroes at the end or beyond    *)
(* the half block that is hashed as a key, give different objects.          *)
THEOREM DistinctKeys == Spec => []KeysDiffer
<1>1. KeysDiffer
  BY ConstructInjective, InputAssumption DEF KeysDiffer
<1> QED BY <1>1, PTL
=============================================================================
