---------------------------- MODULE MdHashProofs -----------------------------
(***************************************************************************)
(* Proofs about MdHash, for every block size, counter width and input.     *)
(***************************************************************************)
EXTENDS MdHash, DataLemmas

LEMMA ConstantFacts ==
  /\ N \in Nat \ {0} /\ 2 * N \in Nat \ {0}
  /\ L \in Nat \ {0} /\ L < N
  /\ Radix \in Nat \ {0} /\ CounterMod \in Nat \ {0}
  /\ 0 \in Byte /\ Radix \div 2 \in Byte
<1>1. Radix \in Nat \ {0} /\ CounterMod \in Nat \ {0}
  BY SizeAssumption, RadixAssumption DEF CounterMod
<1>2. 0 \in Byte /\ Radix \div 2 \in Byte
  BY <1>1 DEF Byte
<1> QED BY <1>1, <1>2, SizeAssumption

(* What the lemmas need of a block size: it divides the counter's range. *)
IsSize(b) == b \in Nat \ {0} /\ CounterMod % b = 0

LEMMA SizesDivide == IsSize(N) /\ IsSize(2 * N)
<1>1. CounterMod \in Nat /\ N \in Nat \ {0} /\ 2 * N \in Nat \ {0}
  BY ConstantFacts
<1> DEFINE d == 2 * N
           c == CounterMod \div d
<1>2. c \in Nat /\ CounterMod = d * c
  <2>1. d \in Nat \ {0} /\ CounterMod % d = 0
    BY <1>1, CounterAssumption
  <2> HIDE DEF d
  <2>2. CounterMod = d * c + (CounterMod % d) /\ c \in Nat
    BY <1>1, <2>1, DivMod
  <2>3. d * c \in Nat
    BY <2>1, <2>2
  <2> HIDE DEF c
  <2> QED BY <2>1, <2>2, <2>3
<1> HIDE DEF c
<1>3. CounterMod % N = 0
  <2>1. CounterMod = N * (2 * c) + 0
    BY <1>1, <1>2
  <2>2. 2 * c \in Nat /\ 0 \in 0 .. N - 1
    BY <1>1, <1>2
  <2>3. (N * (2 * c) + 0) % N = 0
    BY <1>1, <2>2, DivModOf
  <2> QED BY <2>1, <2>3, Zenon
<1> QED BY <1>1, <1>3, CounterAssumption DEF IsSize

LEMMA BlockSizes ==
  ASSUME NEW a \in Algorithm
  PROVE  IsSize(block_size[a])
  BY SizesDivide DEF block_size, Algorithm

------------------------------------------------------------------------------
(* Types *)

LEMMA DefaultType ==
  ASSUME NEW b \in Nat \ {0}
  PROVE  Default(b) \in Object(b)
<1>1. Zeroes(b) \in Block(b, Byte)
  BY ConstantFacts, ZeroesType DEF Block
<1>2. << >> \in BlockSeq(b, Byte)
  BY DEF BlockSeq
<1>3. 0 \in 0 .. b - 1 /\ 0 \in 0 .. CounterMod - 1
  BY ConstantFacts
<1> QED BY <1>1, <1>2, <1>3 DEF Default, Object

LEMMA CountType ==
  ASSUME NEW b, NEW o \in Object(b), NEW len \in Nat
  PROVE  /\ Count(o, len) \in Object(b)
         /\ Count(o, len) = [o EXCEPT !.n = (o.n + len) % CounterMod]
<1>1. o.n \in Nat /\ o.n + len \in Nat
  BY ConstantFacts DEF Object
<1>2. (o.n + len) % CounterMod \in 0 .. CounterMod - 1
  BY <1>1, ConstantFacts, DivMod
<1> QED BY <1>2 DEF Object, Count

LEMMA AbsorbType ==
  ASSUME NEW b \in Nat \ {0}, NEW o \in Object(b), NEW q \in Seq(Byte)
  PROVE  Absorb(b, o, q) \in Object(b)
<1> DEFINE r == Rest(b, Len(q))
           t == SubSeq(q, Len(q) - r + 1, Len(q))
<1>1. Len(q) \in Nat
  OBVIOUS
<1>2. r \in 0 .. b - 1 /\ r <= Len(q)
  <2>1. /\ Whole(b, Len(q)) \in Nat /\ r \in 0 .. b - 1
        /\ Len(q) = Total(b, Whole(b, Len(q))) + r
    BY <1>1, WholeRest
  <2>2. Total(b, Whole(b, Len(q))) \in Nat
    BY <2>1, TotalType
  <2> QED BY <2>1, <2>2
<1> HIDE DEF r
<1>3. t \in Seq(Byte)
  <2>1. \A i \in Len(q) - r + 1 .. Len(q) : q[i] \in Byte
    BY <1>1, <1>2, ElementOfSeq
  <2> QED BY <1>1, <1>2, <2>1, SubSeqProperties
<1> HIDE DEF t
<1>4. o.state \o Blocks(b, q) \in BlockSeq(b, Byte)
  <2>1. Blocks(b, q) \in BlockSeq(b, Byte) /\ o.state \in BlockSeq(b, Byte)
    BY BlocksType DEF Object
  <2> QED BY <2>1, ConcatProperties DEF BlockSeq
<1>5. CopyTo(o.buffer, 0, t) \in Block(b, Byte)
  BY <1>3, CopyToType DEF Object
<1>6. Absorb(b, o, q) = [o EXCEPT !.state = o.state \o Blocks(b, q),
                                  !.buffer = CopyTo(o.buffer, 0, t),
                                  !.m = r]
  BY DEF Absorb, Object, Rest, r, t
<1> QED BY <1>2, <1>4, <1>5, <1>6 DEF Object
(* update with an empty buffer. *)
LEMMA UpdateEmpty ==
  ASSUME NEW b \in Nat \ {0}, NEW o \in Object(b), NEW p \in Seq(Byte), o.m = 0
  PROVE  update(b, o, p) = Absorb(b, Count(o, Len(p)), p)
  BY DEF update

(* update that does not fill the buffer. *)
LEMMA UpdatePartial ==
  ASSUME NEW b \in Nat \ {0}, NEW o \in Object(b), NEW p \in Seq(Byte),
         o.m > 0, o.m + Len(p) < b
  PROVE  update(b, o, p) =
           [Count(o, Len(p)) EXCEPT !.buffer = CopyTo(o.buffer, o.m, p),
                                    !.m = o.m + Len(p)]
<1> DEFINE c == Count(o, Len(p))
           k == IF Len(p) < b - o.m THEN Len(p) ELSE b - o.m
           filled == [c EXCEPT !.buffer = CopyTo(@, o.m, SubSeq(p, 1, k)), !.m = @ + k]
<1>1. Len(p) \in Nat /\ o.m \in 0 .. b - 1
  BY DEF Object
<1>2. c \in Object(b) /\ c.buffer = o.buffer /\ c.m = o.m
  BY <1>1, CountType DEF Object
<1>3. update(b, o, p) =
        IF o.m = 0 THEN Absorb(b, c, p)
        ELSE IF filled.m < b THEN filled
        ELSE Absorb(b, Flush(b, filled), SubSeq(p, k + 1, Len(p)))
  BY DEF update
<1>4. k = Len(p)
  BY <1>1
<1>5. SubSeq(p, 1, k) = p
  BY <1>4, SubSeqFull
<1> HIDE DEF c, k
<1>6. filled = [c EXCEPT !.buffer = CopyTo(o.buffer, o.m, p), !.m = o.m + Len(p)]
      /\ filled.m = o.m + Len(p)
  BY <1>2, <1>4, <1>5 DEF Object
<1> HIDE DEF filled
<1>7. update(b, o, p) = filled
  BY <1>1, <1>3, <1>6
<1> QED BY <1>6, <1>7 DEF c

(* update that fills the buffer. *)
Refilled(b, o, p) ==
  [Count(o, Len(p)) EXCEPT
     !.state = Append(o.state, CopyTo(o.buffer, o.m, SubSeq(p, 1, b - o.m))),
     !.buffer = Zeroes(b), !.m = 0]

LEMMA UpdateFull ==
  ASSUME NEW b \in Nat \ {0}, NEW o \in Object(b), NEW p \in Seq(Byte),
         o.m > 0, o.m + Len(p) >= b
  PROVE  update(b, o, p) = Absorb(b, Refilled(b, o, p), SubSeq(p, b - o.m + 1, Len(p)))
<1> DEFINE c == Count(o, Len(p))
           k == IF Len(p) < b - o.m THEN Len(p) ELSE b - o.m
           filled == [c EXCEPT !.buffer = CopyTo(@, o.m, SubSeq(p, 1, k)), !.m = @ + k]
           x == CopyTo(o.buffer, o.m, SubSeq(p, 1, b - o.m))
<1>1. Len(p) \in Nat /\ o.m \in 0 .. b - 1
  BY DEF Object
<1>2. c \in Object(b) /\ c.state = o.state /\ c.buffer = o.buffer /\ c.m = o.m
  BY <1>1, CountType DEF Object
<1>3. update(b, o, p) =
        IF o.m = 0 THEN Absorb(b, c, p)
        ELSE IF filled.m < b THEN filled
        ELSE Absorb(b, Flush(b, filled), SubSeq(p, k + 1, Len(p)))
  BY DEF update
<1>4. k = b - o.m
  BY <1>1
<1>5. c.m + k = b
  BY <1>1, <1>2, <1>4
<1>6. CopyTo(c.buffer, o.m, SubSeq(p, 1, k)) = x
  BY <1>2, <1>4
<1> HIDE DEF c, k, x
<1>7. filled.m = b /\ Flush(b, filled) = [c EXCEPT !.state = Append(o.state, x),
                                                  !.buffer = Zeroes(b), !.m = 0]
  BY <1>2, <1>5, <1>6 DEF Object, Flush, transform
<1> HIDE DEF filled
<1>8. update(b, o, p) = Absorb(b, Flush(b, filled), SubSeq(p, k + 1, Len(p)))
  BY <1>1, <1>3, <1>7
<1>9. Flush(b, filled) = Refilled(b, o, p)
  BY <1>7 DEF c, x, Refilled
<1> QED BY <1>4, <1>8, <1>9

LEMMA RefilledType ==
  ASSUME NEW b \in Nat \ {0}, NEW o \in Object(b), NEW p \in Seq(Byte),
         o.m > 0, o.m + Len(p) >= b
  PROVE  /\ SubSeq(p, 1, b - o.m) \in Seq(Byte)
         /\ Len(SubSeq(p, 1, b - o.m)) = b - o.m
         /\ SubSeq(p, b - o.m + 1, Len(p)) \in Seq(Byte)
         /\ CopyTo(o.buffer, o.m, SubSeq(p, 1, b - o.m)) \in Block(b, Byte)
         /\ Refilled(b, o, p) \in Object(b)
         /\ Refilled(b, o, p).state
              = Append(o.state, CopyTo(o.buffer, o.m, SubSeq(p, 1, b - o.m)))
         /\ Refilled(b, o, p).m = 0 /\ Refilled(b, o, p).buffer = Zeroes(b)
<1> DEFINE c == Count(o, Len(p))
           k == b - o.m
           y == SubSeq(p, 1, k)
           x == CopyTo(o.buffer, o.m, y)
<1>1. Len(p) \in Nat /\ o.m \in 0 .. b - 1 /\ o.buffer \in Block(b, Byte)
      /\ o.state \in BlockSeq(b, Byte) /\ o.m \in Nat /\ b \in Nat
  BY DEF Object
<1>2. c \in Object(b)
  BY <1>1, CountType
<1>3. k \in 1 .. Len(p)
  BY <1>1
<1>4. /\ \A i \in 1 .. k : p[i] \in Byte
      /\ \A i \in k + 1 .. Len(p) : p[i] \in Byte
  <2>1. \A i \in 1 .. Len(p) : p[i] \in Byte
    BY ElementOfSeq
  <2> QED BY <1>1, <1>3, <2>1
<1>5. /\ y \in Seq(Byte) /\ Len(y) = k
      /\ SubSeq(p, k + 1, Len(p)) \in Seq(Byte)
  BY <1>1, <1>3, <1>4, SubSeqProperties
<1> HIDE DEF y
<1>6. x \in Block(b, Byte)
  BY <1>1, <1>5, CopyToType
<1> HIDE DEF x
<1>7. Append(o.state, x) \in BlockSeq(b, Byte)
  BY <1>1, <1>6, AppendProperties DEF BlockSeq
<1>8. Zeroes(b) \in Block(b, Byte)
  BY ConstantFacts, ZeroesType DEF Block
<1>9. Refilled(b, o, p)
        = [state |-> Append(o.state, x), buffer |-> Zeroes(b), m |-> 0, n |-> c.n]
  <2>1. Refilled(b, o, p) = [c EXCEPT !.state = Append(o.state, x),
                                      !.buffer = Zeroes(b), !.m = 0]
    BY DEF Refilled, x, y
  <2> HIDE DEF c
  <2> QED BY <1>2, <2>1 DEF Object
<1>10. c.n \in 0 .. CounterMod - 1 /\ 0 \in 0 .. b - 1
  BY <1>1, <1>2 DEF Object
<1>11. Refilled(b, o, p) \in Object(b)
  BY <1>7, <1>8, <1>9, <1>10 DEF Object
<1> QED BY <1>5, <1>6, <1>9, <1>11 DEF x, y, k

LEMMA UpdateType ==
  ASSUME NEW b \in Nat \ {0}, NEW o \in Object(b), NEW p \in Seq(Byte)
  PROVE  update(b, o, p) \in Object(b)
<1> DEFINE c == Count(o, Len(p))
<1>1. Len(p) \in Nat /\ o.m \in 0 .. b - 1 /\ o.buffer \in Block(b, Byte)
      /\ o.m \in Nat /\ b \in Nat
  BY DEF Object
<1>2. c \in Object(b)
  BY <1>1, CountType
<1>3. CASE o.m = 0
  <2>1. update(b, o, p) = Absorb(b, c, p)
    BY <1>3, UpdateEmpty
  <2> HIDE DEF c
  <2> QED BY <1>2, <2>1, AbsorbType
<1>4. CASE o.m > 0 /\ o.m + Len(p) < b
  <2>1. CopyTo(o.buffer, o.m, p) \in Block(b, Byte)
    BY <1>1, CopyToType
  <2>2. o.m + Len(p) \in 0 .. b - 1
    BY <1>1, <1>4
  <2>3. update(b, o, p) = [c EXCEPT !.buffer = CopyTo(o.buffer, o.m, p), !.m = o.m + Len(p)]
    BY <1>4, UpdatePartial
  <2> HIDE DEF c
  <2> QED BY <1>2, <2>1, <2>2, <2>3 DEF Object
<1>5. CASE o.m > 0 /\ o.m + Len(p) >= b
  <2>1. update(b, o, p) = Absorb(b, Refilled(b, o, p), SubSeq(p, b - o.m + 1, Len(p)))
    BY <1>5, UpdateFull
  <2>2. SubSeq(p, b - o.m + 1, Len(p)) \in Seq(Byte) /\ Refilled(b, o, p) \in Object(b)
    BY <1>5, RefilledType
  <2> QED BY <2>1, <2>2, AbsorbType
<1> QED BY <1>1, <1>3, <1>4, <1>5
------------------------------------------------------------------------------
(* update appends to what the object has absorbed. *)

LEMMA AbsorbedType ==
  ASSUME NEW b \in Nat \ {0}, NEW o \in Object(b)
  PROVE  /\ BytesOf(b, o.state) \in Seq(Byte)
         /\ SubSeq(o.buffer, 1, o.m) \in Seq(Byte)
         /\ Absorbed(b, o) \in Seq(Byte)
         /\ Len(Absorbed(b, o)) = Total(b, Len(o.state)) + o.m
         /\ Len(o.state) \in Nat
<1>1. o.state \in BlockSeq(b, Byte) /\ o.m \in 0 .. b - 1 /\ o.buffer \in Block(b, Byte)
  BY DEF Object
<1>2. BytesOf(b, o.state) \in Seq(Byte) /\ Len(BytesOf(b, o.state)) = Total(b, Len(o.state))
  BY <1>1, BytesOfType
<1>3. SubSeq(o.buffer, 1, o.m) \in Seq(Byte) /\ Len(SubSeq(o.buffer, 1, o.m)) = o.m
  <2>1. o.buffer \in Seq(Byte) /\ Len(o.buffer) = b
    BY <1>1 DEF Block
  <2>2. o.m \in Nat /\ o.m <= Len(o.buffer)
    BY <1>1, <2>1
  <2> QED BY <2>1, <2>2, Prefix
<1>4. Len(o.state) \in Nat
  BY <1>1 DEF BlockSeq
<1> QED BY <1>2, <1>3, <1>4, ConcatProperties DEF Absorbed

LEMMA AbsorbAbsorbs ==
  ASSUME NEW b \in Nat \ {0}, NEW o \in Object(b), NEW q \in Seq(Byte), o.m = 0
  PROVE  Absorbed(b, Absorb(b, o, q)) = BytesOf(b, o.state) \o q
<1> DEFINE r == Rest(b, Len(q))
           t == SubSeq(q, Len(q) - r + 1, Len(q))
           s == Blocks(b, q)
           x == BytesOf(b, o.state)
           y == BytesOf(b, s)
<1>1. Len(q) \in Nat /\ o.state \in BlockSeq(b, Byte) /\ o.buffer \in Block(b, Byte)
      /\ b \in Nat
  BY DEF Object
<1>2. r \in 0 .. b - 1 /\ r <= Len(q)
  <2>1. /\ Whole(b, Len(q)) \in Nat /\ r \in 0 .. b - 1
        /\ Len(q) = Total(b, Whole(b, Len(q))) + r
    BY <1>1, WholeRest
  <2>2. Total(b, Whole(b, Len(q))) \in Nat
    BY <2>1, TotalType
  <2> QED BY <2>1, <2>2
<1>3. y \o t = q
  BY BytesOfBlocks
<1>4. Absorb(b, o, q) = [o EXCEPT !.state = o.state \o s,
                                  !.buffer = CopyTo(o.buffer, 0, t), !.m = r]
  BY DEF Absorb, Object, Rest
<1>5. s \in BlockSeq(b, Byte)
  BY BlocksType
<1> HIDE DEF r, s
<1>6. t \in Seq(Byte) /\ Len(t) = r
  <2>1. \A i \in Len(q) - r + 1 .. Len(q) : q[i] \in Byte
    BY <1>1, <1>2, ElementOfSeq
  <2> QED BY <1>1, <1>2, <2>1, SubSeqProperties
<1> HIDE DEF t
<1>7. SubSeq(CopyTo(o.buffer, 0, t), 1, r) = t
  <2>1. SubSeq(CopyTo(o.buffer, 0, t), 1, 0 + Len(t)) = SubSeq(o.buffer, 1, 0) \o t
    <3>1. 0 \in Nat /\ 0 + Len(t) <= b
      BY <1>2, <1>6
    <3> QED BY <1>1, <1>6, <3>1, CopyPrefix
  <2>2. SubSeq(o.buffer, 1, 0) = << >>
    BY SubSeqEmpty
  <2>3. << >> \o t = t
    BY <1>6, ConcatEmptySeq
  <2>4. 0 + Len(t) = r
    BY <1>2, <1>6
  <2> QED BY <2>1, <2>2, <2>3, <2>4
<1>8. BytesOf(b, o.state \o s) = x \o y
  BY <1>1, <1>5, BytesOfConcat
<1>9. x \in Seq(Byte) /\ y \in Seq(Byte)
  BY <1>1, <1>5, BytesOfType
<1>10. Absorbed(b, Absorb(b, o, q)) = BytesOf(b, o.state \o s) \o SubSeq(CopyTo(o.buffer, 0, t), 1, r)
  BY <1>4 DEF Absorbed, Object
<1> HIDE DEF x, y
<1>11. (x \o y) \o t = x \o (y \o t)
  BY <1>6, <1>9, ConcatAssociative, SMTT(30)
<1> QED BY <1>3, <1>7, <1>8, <1>10, <1>11 DEF x

LEMMA UpdateAbsorbs ==
  ASSUME NEW b \in Nat \ {0}, NEW o \in Object(b), NEW p \in Seq(Byte)
  PROVE  Absorbed(b, update(b, o, p)) = Absorbed(b, o) \o p
<1> DEFINE c == Count(o, Len(p))
           f == BytesOf(b, o.state)
           g == SubSeq(o.buffer, 1, o.m)
<1>1. Len(p) \in Nat /\ o.m \in 0 .. b - 1 /\ o.buffer \in Block(b, Byte)
      /\ o.m \in Nat /\ b \in Nat /\ o.state \in BlockSeq(b, Byte)
  BY DEF Object
<1>2. c \in Object(b) /\ c.state = o.state /\ c.buffer = o.buffer /\ c.m = o.m
  BY <1>1, CountType DEF Object
<1>3. f \in Seq(Byte) /\ g \in Seq(Byte) /\ Absorbed(b, o) = f \o g
  BY AbsorbedType DEF Absorbed
<1>4. CASE o.m = 0
  <2>1. update(b, o, p) = Absorb(b, c, p)
    BY <1>4, UpdateEmpty
  <2> HIDE DEF c
  <2>2. Absorbed(b, Absorb(b, c, p)) = BytesOf(b, c.state) \o p
    BY <1>2, <1>4, AbsorbAbsorbs
  <2>3. g = << >>
    BY <1>4, SubSeqEmpty
  <2>4. f \o g = f
    BY <1>3, <2>3, ConcatEmptySeq
  <2> QED BY <1>2, <1>3, <2>1, <2>2, <2>4
<1>5. CASE o.m > 0 /\ o.m + Len(p) < b
  <2>1. update(b, o, p) = [c EXCEPT !.buffer = CopyTo(o.buffer, o.m, p), !.m = o.m + Len(p)]
    BY <1>5, UpdatePartial
  <2> HIDE DEF c
  <2>2. Absorbed(b, update(b, o, p)) = f \o SubSeq(CopyTo(o.buffer, o.m, p), 1, o.m + Len(p))
    BY <1>2, <2>1 DEF Absorbed, Object
  <2>3. SubSeq(CopyTo(o.buffer, o.m, p), 1, o.m + Len(p)) = g \o p
    <3>1. o.m + Len(p) <= b
      BY <1>1, <1>5
    <3> QED BY <1>1, <3>1, CopyPrefix, ZenonT(60)
  <2>4. (f \o g) \o p = f \o (g \o p)
    <3> HIDE DEF f, g
    <3>1. f \in Seq(Byte) /\ g \in Seq(Byte)
      BY <1>3
    <3> QED BY <3>1, ConcatAssociative, SMTT(30)
  <2> QED BY <1>3, <2>2, <2>3, <2>4
<1>6. CASE o.m > 0 /\ o.m + Len(p) >= b
  <2> DEFINE k == b - o.m
             y == SubSeq(p, 1, k)
             z == SubSeq(p, k + 1, Len(p))
             x == CopyTo(o.buffer, o.m, y)
             e == Refilled(b, o, p)
  <2>1. update(b, o, p) = Absorb(b, e, z)
    BY <1>6, UpdateFull
  <2>2. /\ y \in Seq(Byte) /\ Len(y) = k /\ z \in Seq(Byte)
        /\ x \in Block(b, Byte) /\ e \in Object(b)
        /\ e.state = Append(o.state, x) /\ e.m = 0
    BY <1>6, RefilledType
  <2>3. k \in 0 .. Len(p) /\ o.m + k = b
    BY <1>1, <1>6
  <2>4. y \o z = p
    <3>1. SubSeq(p, 1, k) \o SubSeq(p, k + 1, Len(p)) = SubSeq(p, 1, Len(p))
      <4>1. 1 \in 1 .. Len(p) + 1 /\ k \in 1 - 1 .. Len(p) /\ Len(p) \in k .. Len(p)
        BY <1>1, <2>3
      <4> HIDE DEF k
      <4> QED BY <4>1, ConcatAdjacentSubSeq
    <3> QED BY <3>1, SubSeqFull
  <2> HIDE DEF y, z, e
  <2>5. x = g \o y
    <3>1. SubSeq(x, 1, o.m + Len(y)) = g \o y
      <4>1. o.m + Len(y) <= b
        BY <1>1, <2>2, <2>3
      <4>2. y \in Seq(Byte)
        BY <2>2
      <4>3. b \in Nat /\ o.buffer \in Block(b, Byte) /\ o.m \in Nat
        BY <1>1
      <4> QED BY <4>1, <4>2, <4>3, CopyPrefix, ZenonT(60)
    <3>2. x \in Seq(Byte) /\ Len(x) = b
      <4> HIDE DEF x
      <4> QED BY <2>2 DEF Block
    <3>3. SubSeq(x, 1, o.m + Len(y)) = x
      <4>1. o.m + Len(y) = Len(x)
        BY <2>2, <2>3, <3>2
      <4> HIDE DEF x
      <4> QED BY <3>2, <4>1, SubSeqFull
    <3> QED BY <3>1, <3>3
  <2> HIDE DEF x, k
  <2>6. Absorbed(b, Absorb(b, e, z)) = BytesOf(b, e.state) \o z
    BY <2>2, AbsorbAbsorbs
  <2>7. BytesOf(b, e.state) = f \o x
    BY <1>1, <2>2, BytesOfAppend, SMTT(30)
  <2>8. (f \o (g \o y)) \o z = (f \o g) \o (y \o z)
    <3> HIDE DEF f, g
    <3>1. f \in Seq(Byte)
      BY <1>3
    <3>2. g \in Seq(Byte)
      BY <1>3
    <3>3. y \in Seq(Byte)
      BY <2>2
    <3>4. z \in Seq(Byte)
      BY <2>2
    <3>5. Regroups(f, g, y, z)
      BY <3>1, <3>2, <3>3, <3>4, ConcatRegroup
    <3> QED BY <3>5, Zenon DEF Regroups
  <2> QED BY <1>3, <2>1, <2>4, <2>5, <2>6, <2>7, <2>8
<1> QED BY <1>1, <1>4, <1>5, <1>6
------------------------------------------------------------------------------
(* The padding and the length field *)

(* The length field of each algorithm, for the count n. *)
Field(a, n) ==
  IF a \in Little THEN write64le(BitCount(n))
  ELSE IF a \in Wide THEN Zeroes(L) \o write64be(BitCount(n))
  ELSE write64be(BitCount(n))

LEMMA BytesOfCounter ==
  ASSUME NEW v \in Nat
  PROVE  /\ write64le(v) \in Seq(Byte) /\ Len(write64le(v)) = L
         /\ write64be(v) \in Seq(Byte) /\ Len(write64be(v)) = L
<1>1. ASSUME NEW i \in 0 .. L
      PROVE  (v \div Radix ^ i) % Radix \in Byte
  <2>1. Radix ^ i \in Nat \ {0} /\ Radix \in Nat \ {0}
    BY RadixAssumption
  <2>2. v \div Radix ^ i \in Nat
    BY <2>1, DivMod
  <2> DEFINE w == v \div Radix ^ i
  <2>3. w \in Nat
    BY <2>2
  <2> HIDE DEF w
  <2>4. w % Radix \in 0 .. Radix - 1
    BY <2>1, <2>3, DivMod
  <2> QED BY <2>4 DEF w, Byte
<1>2. L \in Nat
  BY ConstantFacts
<1>3. ASSUME NEW i \in 1 .. L
      PROVE  /\ (v \div Radix ^ (i - 1)) % Radix \in Byte
             /\ (v \div Radix ^ (L - i)) % Radix \in Byte
  <2>1. i - 1 \in 0 .. L /\ L - i \in 0 .. L
    BY <1>2
  <2> QED BY <1>1, <2>1
<1>4. /\ write64le(v) \in [1 .. L -> Byte]
      /\ write64be(v) \in [1 .. L -> Byte]
  BY <1>3 DEF write64le, write64be
<1> QED BY <1>2, <1>4

LEMMA BitCountType ==
  ASSUME NEW n \in Nat
  PROVE  BitCount(n) \in Nat
<1>1. n * ByteBits \in Nat
  BY SizeAssumption
<1> DEFINE c == n * ByteBits
<1> HIDE DEF c
<1>2. c % CounterMod \in 0 .. CounterMod - 1
  BY <1>1, ConstantFacts, DivMod DEF c
<1> QED BY <1>2, ConstantFacts DEF BitCount, c

LEMMA FieldType ==
  ASSUME NEW a \in Algorithm, NEW n \in Nat
  PROVE  /\ Field(a, n) \in Seq(Byte)
         /\ Len(Field(a, n)) = length_size[a]
         /\ length_size[a] \in 1 .. block_size[a] - 1
<1> DEFINE le == write64le(BitCount(n))
           be == write64be(BitCount(n))
           z  == Zeroes(L)
<1>1. le \in Seq(Byte) /\ Len(le) = L /\ be \in Seq(Byte) /\ Len(be) = L
  BY BitCountType, BytesOfCounter
<1>2. z \in Seq(Byte) /\ Len(z) = L
  BY ConstantFacts, ZeroesType
<1>3. z \o be \in Seq(Byte) /\ Len(z \o be) = Len(z) + Len(be)
  BY <1>1, <1>2, ConcatProperties
<1>4. /\ length_size[a] = IF a \in Wide THEN 2 * L ELSE L
      /\ block_size[a] = IF a \in Wide THEN 2 * N ELSE N
      /\ ~ (a \in Little /\ a \in Wide)
  BY DEF length_size, block_size, Little, Wide
<1>5. length_size[a] \in 1 .. block_size[a] - 1
  BY <1>4, ConstantFacts
<1>6. Field(a, n) = IF a \in Little THEN le ELSE IF a \in Wide THEN z \o be ELSE be
  BY DEF Field
<1> HIDE DEF le, be, z
<1>7. L + L = 2 * L
  BY ConstantFacts
<1> QED BY <1>1, <1>2, <1>3, <1>4, <1>5, <1>6, <1>7

LEMMA PaddingType ==
  ASSUME NEW b \in Nat \ {0}, NEW f \in 1 .. b - 1, NEW m \in 0 .. b - 1
  PROVE  /\ padding(b, f, m) \in Seq(Byte)
         /\ Len(padding(b, f, m)) = IF m < b - f THEN b - f - m ELSE 2 * b - f - m
         /\ Len(padding(b, f, m)) \in Nat \ {0}
<1> DEFINE k == IF m < b - f THEN b - f - m ELSE 2 * b - f - m
<1>1. k \in Nat \ {0}
  OBVIOUS
<1> HIDE DEF k
<1>2. OneBit(k) \in Seq(Byte) /\ Len(OneBit(k)) = k
  BY <1>1, ConstantFacts DEF OneBit
<1> QED BY <1>1, <1>2 DEF padding, k

LEMMA ResultIs ==
  ASSUME NEW a \in Algorithm, NEW o
  PROVE  result(a, o) = finalize(block_size[a], o, Field(a, o.n))
  BY DEF result, Field, block_size, Algorithm, Little, Big, Wide,
         md5_128_result, ripemd_128_result, ripemd_160_result, sha1_160_result,
         sha2_224_result, sha2_256_result, sha2_384_result, sha2_512_result,
         sha2_512_224_result, sha2_512_256_result

LEMMA ResultType ==
  ASSUME NEW a \in Algorithm, NEW o \in Object(block_size[a])
  PROVE  result(a, o) \in Object(block_size[a])
<1> DEFINE b == block_size[a]
           f == Field(a, o.n)
           pad == padding(b, Len(f), o.m)
           x == update(b, o, pad)
<1>1. b \in Nat \ {0}
  BY BlockSizes DEF IsSize
<1> HIDE DEF b
<1>2. o.n \in Nat /\ o.m \in 0 .. b - 1 /\ o \in Object(b)
  BY ConstantFacts DEF Object, b
<1>3. f \in Seq(Byte) /\ Len(f) \in 1 .. b - 1
  BY <1>2, FieldType DEF b
<1> HIDE DEF f
<1>4. pad \in Seq(Byte)
  BY <1>1, <1>2, <1>3, PaddingType
<1> HIDE DEF pad
<1>5. x \in Object(b)
  BY <1>1, <1>2, <1>4, UpdateType
<1> HIDE DEF x
<1>6. update(b, x, f) \in Object(b)
  BY <1>1, <1>3, <1>5, UpdateType
<1>7. result(a, o) = update(b, x, f)
  BY ResultIs DEF finalize, b, f, pad, x
<1> QED BY <1>6, <1>7 DEF b

LEMMA ConstructType ==
  ASSUME NEW a \in Algorithm, NEW p \in Seq(Byte)
  PROVE  construct(a, p) \in Object(block_size[a])
<1> DEFINE b == block_size[a]
           x == update(b, Default(b), p)
<1>1. b \in Nat \ {0}
  BY BlockSizes DEF IsSize
<1>2. Default(b) \in Object(b)
  BY <1>1, DefaultType
<1> HIDE DEF b
<1>3. x \in Object(b)
  BY <1>1, <1>2, UpdateType
<1> HIDE DEF x
<1>4. result(a, x) \in Object(b)
  BY <1>3, ResultType DEF b
<1> QED BY <1>2, <1>4 DEF construct, b, x

------------------------------------------------------------------------------
(* The type invariant *)

LEMMA InitType == Init => TypeOK
<1> SUFFICES ASSUME Init PROVE TypeOK
  OBVIOUS
<1>1. alg \in Algorithm /\ digest = NoDigest
  BY DEF Init
<1>2. PICK p \in Seed : h = construct(alg, p)
  BY DEF Init
<1>3. p \in Seq(Byte)
  BY InputAssumption
<1>4. h \in Object(block_size[alg])
  BY <1>1, <1>2, <1>3, ConstructType
<1> QED BY <1>1, <1>4 DEF TypeOK

LEMMA NextType == TypeOK /\ [Next]_vars => TypeOK'
<1> SUFFICES ASSUME TypeOK, [Next]_vars PROVE TypeOK'
  OBVIOUS
<1>1. alg \in Algorithm /\ h \in Object(block_size[alg])
  BY DEF TypeOK
<1>2. ASSUME NEW p \in Input, Update(p) PROVE TypeOK'
  <2>1. p \in Seq(Byte)
    BY InputAssumption
  <2>2. block_size[alg] \in Nat \ {0}
    BY <1>1, BlockSizes DEF IsSize
  <2>3. update(block_size[alg], h, p) \in Object(block_size[alg])
    BY <1>1, <2>1, <2>2, UpdateType
  <2> QED BY <1>2, <2>3 DEF TypeOK, Update
<1>3. ASSUME Result PROVE TypeOK'
  <2>1. result(alg, h) \in Object(block_size[alg])
    BY <1>1, ResultType
  <2>2. result(alg, h).state \in BlockSeq(block_size[alg], Byte)
    BY <2>1 DEF Object
  <2> QED BY <1>3, <2>1, <2>2 DEF TypeOK, Result
<1>4. CASE UNCHANGED vars
  BY <1>4 DEF TypeOK, vars
<1> QED BY <1>2, <1>3, <1>4 DEF Next

(* Whatever a caller does, the members of an object keep their types and   *)
(* the buffer is never full between calls.                                 *)
THEOREM TypeCorrect == Spec => []TypeOK
  BY InitType, NextType, PTL DEF Spec
------------------------------------------------------------------------------
(* The counters *)

LEMMA ModMod ==
  ASSUME NEW b, IsSize(b), NEW x \in Nat
  PROVE  (x % CounterMod) % b = x % b
<1>1. b \in Nat \ {0} /\ CounterMod % b = 0 /\ CounterMod \in Nat \ {0}
  BY ConstantFacts DEF IsSize
<1> QED BY <1>1, ModOfMod

LEMMA UpdateCounts ==
  ASSUME NEW b \in Nat \ {0}, NEW o \in Object(b), NEW p \in Seq(Byte)
  PROVE  update(b, o, p).n = (o.n + Len(p)) % CounterMod
<1> DEFINE c == Count(o, Len(p))
<1>1. Len(p) \in Nat /\ o.m \in 0 .. b - 1
  BY DEF Object
<1>2. c \in Object(b) /\ c = [o EXCEPT !.n = (o.n + Len(p)) % CounterMod]
  BY <1>1, CountType
<1>3. c.n = (o.n + Len(p)) % CounterMod
  BY <1>2 DEF Object
<1> HIDE DEF c
<1>4. ASSUME NEW x \in Object(b), NEW q PROVE Absorb(b, x, q).n = x.n
  BY DEF Absorb, Object
<1>5. CASE o.m = 0
  <2>1. update(b, o, p) = Absorb(b, c, p)
    BY <1>5, UpdateEmpty DEF c
  <2> QED BY <1>2, <1>3, <1>4, <2>1
<1>6. CASE o.m > 0 /\ o.m + Len(p) < b
  <2>1. update(b, o, p) = [c EXCEPT !.buffer = CopyTo(o.buffer, o.m, p), !.m = o.m + Len(p)]
    BY <1>6, UpdatePartial DEF c
  <2> QED BY <1>2, <1>3, <2>1 DEF Object
<1>7. CASE o.m > 0 /\ o.m + Len(p) >= b
  <2>1. update(b, o, p) = Absorb(b, Refilled(b, o, p), SubSeq(p, b - o.m + 1, Len(p)))
    BY <1>7, UpdateFull
  <2>2. Refilled(b, o, p) \in Object(b)
    BY <1>7, RefilledType
  <2>3. Refilled(b, o, p).n = c.n
    <3>1. Refilled(b, o, p) =
            [c EXCEPT
               !.state = Append(o.state, CopyTo(o.buffer, o.m, SubSeq(p, 1, b - o.m))),
               !.buffer = Zeroes(b), !.m = 0]
      BY DEF Refilled, c
    <3> QED BY <1>2, <3>1 DEF Object
  <2> QED BY <1>3, <1>4, <2>1, <2>2, <2>3
<1> QED BY <1>1, <1>5, <1>6, <1>7

(* n_ is the number of bytes absorbed, modulo its width. *)
Counted(b, o) == o.n = Len(Absorbed(b, o)) % CounterMod

LEMMA UpdateCounted ==
  ASSUME NEW b \in Nat \ {0}, NEW o \in Object(b), NEW p \in Seq(Byte), Counted(b, o)
  PROVE  Counted(b, update(b, o, p))
<1> DEFINE x == Len(Absorbed(b, o))
<1>1. Absorbed(b, o) \in Seq(Byte) /\ x \in Nat /\ Len(p) \in Nat
  BY AbsorbedType
<1>2. Absorbed(b, update(b, o, p)) = Absorbed(b, o) \o p
  BY UpdateAbsorbs
<1>3. Len(Absorbed(b, update(b, o, p))) = x + Len(p)
  BY <1>1, <1>2, ConcatProperties
<1>4. update(b, o, p).n = (o.n + Len(p)) % CounterMod
  BY UpdateCounts
<1>5. o.n = x % CounterMod
  BY DEF Counted
<1> HIDE DEF x
<1>6. ((x % CounterMod) + Len(p)) % CounterMod = (x + Len(p)) % CounterMod
  BY <1>1, ConstantFacts, ModPlus
<1> QED BY <1>3, <1>4, <1>5, <1>6, Zenon DEF Counted

LEMMA ResultCounted ==
  ASSUME NEW a \in Algorithm, NEW o \in Object(block_size[a]), Counted(block_size[a], o)
  PROVE  Counted(block_size[a], result(a, o))
<1> DEFINE b == block_size[a]
           f == Field(a, o.n)
           pad == padding(b, Len(f), o.m)
           x == update(b, o, pad)
<1>1. b \in Nat \ {0}
  BY BlockSizes DEF IsSize
<1> HIDE DEF b
<1>2. o.n \in Nat /\ o.m \in 0 .. b - 1 /\ o \in Object(b) /\ Counted(b, o)
  BY ConstantFacts DEF Object, b
<1>3. f \in Seq(Byte) /\ Len(f) \in 1 .. b - 1
  BY <1>2, FieldType DEF b
<1> HIDE DEF f
<1>4. pad \in Seq(Byte)
  BY <1>1, <1>2, <1>3, PaddingType
<1> HIDE DEF pad
<1>5. x \in Object(b) /\ Counted(b, x)
  BY <1>1, <1>2, <1>4, UpdateType, UpdateCounted
<1> HIDE DEF x
<1>6. Counted(b, update(b, x, f))
  BY <1>1, <1>3, <1>5, UpdateCounted
<1>7. result(a, o) = update(b, x, f)
  BY ResultIs DEF finalize, b, f, pad, x
<1> QED BY <1>6, <1>7 DEF b

LEMMA DefaultAbsorbed ==
  ASSUME NEW b \in Nat \ {0}
  PROVE  Absorbed(b, Default(b)) = << >> /\ Counted(b, Default(b))
<1>1. BytesOf(b, << >>) \in Seq(Byte) /\ Len(BytesOf(b, << >>)) = Total(b, 0)
  <2>1. << >> \in BlockSeq(b, Byte)
    BY DEF BlockSeq
  <2>2. BytesOf(b, << >>) \in Seq(Byte) /\ Len(BytesOf(b, << >>)) = Total(b, Len(<< >>))
    BY <2>1, BytesOfType
  <2> QED BY <2>2
<1>2. BytesOf(b, << >>) = << >>
  BY <1>1, TotalOne, EmptySeq
<1>3. SubSeq(Zeroes(b), 1, 0) = << >>
  BY SubSeqEmpty
<1>4. Absorbed(b, Default(b)) = << >> \o << >>
  BY <1>2, <1>3 DEF Absorbed, Default
<1>5. Absorbed(b, Default(b)) = << >>
  BY <1>4
<1>6. 0 % CounterMod = 0
  BY ConstantFacts
<1> QED BY <1>5, <1>6 DEF Counted, Default

LEMMA ConstructCounted ==
  ASSUME NEW a \in Algorithm, NEW p \in Seq(Byte)
  PROVE  Counted(block_size[a], construct(a, p))
<1> DEFINE b == block_size[a]
           x == update(b, Default(b), p)
<1>1. b \in Nat \ {0}
  BY BlockSizes DEF IsSize
<1> HIDE DEF b
<1>2. Default(b) \in Object(b) /\ Counted(b, Default(b))
  BY <1>1, DefaultType, DefaultAbsorbed
<1>3. x \in Object(b) /\ Counted(b, x)
  BY <1>1, <1>2, UpdateType, UpdateCounted
<1> HIDE DEF x
<1>4. Counted(b, result(a, x))
  BY <1>3, ResultCounted DEF b
<1> QED BY <1>2, <1>4 DEF construct, b, x

(* The inductive invariant: CountersAgree follows from it, because the      *)
(* counter's range is a multiple of the block.                              *)
IInv == TypeOK /\ Counted(block_size[alg], h)

LEMMA InitInv == Init => IInv
<1> SUFFICES ASSUME Init PROVE IInv
  OBVIOUS
<1>1. alg \in Algorithm /\ TypeOK
  BY InitType DEF Init
<1>2. PICK p \in Seed : h = construct(alg, p)
  BY DEF Init
<1>3. p \in Seq(Byte)
  BY InputAssumption
<1> QED BY <1>1, <1>2, <1>3, ConstructCounted DEF IInv

LEMMA NextInv == IInv /\ [Next]_vars => IInv'
<1> SUFFICES ASSUME IInv, [Next]_vars PROVE IInv'
  OBVIOUS
<1>1. TypeOK'
  BY NextType DEF IInv
<1>2. alg \in Algorithm /\ h \in Object(block_size[alg]) /\ Counted(block_size[alg], h)
  BY DEF IInv, TypeOK
<1>3. ASSUME NEW p \in Input, Update(p) PROVE Counted(block_size[alg], h)'
  <2>1. p \in Seq(Byte) /\ block_size[alg] \in Nat \ {0}
    BY <1>2, InputAssumption, BlockSizes DEF IsSize
  <2>2. Counted(block_size[alg], update(block_size[alg], h, p))
    BY <1>2, <2>1, UpdateCounted
  <2> QED BY <1>3, <2>2 DEF Update
<1>4. ASSUME Result PROVE Counted(block_size[alg], h)'
  BY <1>2, <1>4, ResultCounted DEF Result
<1>5. ASSUME UNCHANGED vars PROVE Counted(block_size[alg], h)'
  BY <1>2, <1>5 DEF vars
<1>6. Counted(block_size[alg], h)'
  BY <1>3, <1>4, <1>5 DEF Next
<1> QED BY <1>1, <1>6 DEF IInv

LEMMA InvAgree == IInv => CountersAgree
<1> SUFFICES ASSUME IInv PROVE CountersAgree
  OBVIOUS
<1> DEFINE b == block_size[alg]
           x == Len(Absorbed(b, h))
<1>1. alg \in Algorithm /\ h \in Object(b) /\ h.n = x % CounterMod
  BY DEF IInv, TypeOK, Counted
<1>2. b \in Nat \ {0} /\ IsSize(b)
  BY <1>1, BlockSizes DEF IsSize
<1> HIDE DEF b
<1>3. x = Total(b, Len(h.state)) + h.m /\ Len(h.state) \in Nat
  BY <1>1, <1>2, AbsorbedType
<1>4. h.m \in 0 .. b - 1
  BY <1>1 DEF Object
<1> HIDE DEF x
<1>5. Rest(b, x) = h.m /\ x \in Nat
  <2> DEFINE k == Len(h.state)
  <2>1. k \in Nat
    BY <1>3
  <2> HIDE DEF k
  <2>2. Total(b, k) \in Nat
    BY <1>2, <2>1, TotalType
  <2>3. Rest(b, Total(b, k) + h.m) = h.m
    BY <1>2, <1>4, <2>1, WholeRestUnique
  <2> QED BY <1>3, <1>4, <2>2, <2>3 DEF k
<1>6. (x % CounterMod) % b = x % b
  BY <1>2, <1>5, ModMod
<1>7. h.m = h.n % b
  BY <1>1, <1>5, <1>6 DEF Rest
<1> QED BY <1>1, <1>7 DEF CountersAgree, b, x

(* However the message arrives and however often result is called, m_ is    *)
(* n_ modulo the block, as update asserts, and n_ is the number of bytes    *)
(* the object has absorbed, modulo its width.                               *)
THEOREM CountersCorrect == Spec => []CountersAgree
  BY InitInv, NextInv, InvAgree, PTL DEF Spec
------------------------------------------------------------------------------
(* What result leaves *)

LEMMA BufferedIsRest ==
  ASSUME NEW b \in Nat \ {0}, NEW o \in Object(b)
  PROVE  o.m = Rest(b, Len(Absorbed(b, o)))
<1> DEFINE k == Len(o.state)
<1>1. Len(Absorbed(b, o)) = Total(b, k) + o.m /\ k \in Nat
  BY AbsorbedType
<1>2. o.m \in 0 .. b - 1
  BY DEF Object
<1> HIDE DEF k
<1>3. Rest(b, Total(b, k) + o.m) = o.m
  BY <1>1, <1>2, WholeRestUnique
<1> QED BY <1>1, <1>3, Zenon

(* update with exactly what the buffer lacks. *)
LEMMA UpdateCompletes ==
  ASSUME NEW b \in Nat \ {0}, NEW o \in Object(b), NEW p \in Seq(Byte),
         o.m > 0, o.m + Len(p) = b
  PROVE  update(b, o, p).buffer = Zeroes(b) /\ update(b, o, p).m = 0
<1> DEFINE e == Refilled(b, o, p)
           q == SubSeq(p, b - o.m + 1, Len(p))
<1>1. Len(p) \in Nat /\ o.m \in 0 .. b - 1 /\ o.m + Len(p) >= b
  BY DEF Object
<1>2. update(b, o, p) = Absorb(b, e, q)
  BY <1>1, UpdateFull
<1>3. e \in Object(b) /\ e.buffer = Zeroes(b)
  BY <1>1, RefilledType
<1>4. q = << >>
  BY <1>1, SubSeqEmpty
<1> HIDE DEF e, q
<1>5. Len(q) = 0 /\ 0 % b = 0
  BY <1>4
<1>6. SubSeq(q, Len(q) - 0 + 1, Len(q)) = << >>
  BY <1>5, SubSeqEmpty
<1>7. CopyTo(Zeroes(b), 0, << >>) = Zeroes(b)
  <2>1. Zeroes(b) \in [1 .. b -> Byte] /\ Len(Zeroes(b)) = b
    BY ConstantFacts, ZeroesType
  <2>2. CopyTo(Zeroes(b), 0, << >>) = [i \in 1 .. b |-> Zeroes(b)[i]]
    BY <2>1 DEF CopyTo
  <2> QED BY <2>1, <2>2
<1>8. Absorb(b, e, q) = [e EXCEPT !.state = e.state \o Blocks(b, q),
                                  !.buffer = Zeroes(b), !.m = 0]
  BY <1>3, <1>5, <1>6, <1>7 DEF Absorb, Object
<1> QED BY <1>2, <1>3, <1>8 DEF Object

(* The padding brings the buffer to where the length field completes it. *)
LEMMA PaddingFits ==
  ASSUME NEW b \in Nat \ {0}, NEW f \in 1 .. b - 1, NEW o \in Object(b)
  PROVE  update(b, o, padding(b, f, o.m)).m = b - f
<1> DEFINE pad == padding(b, f, o.m)
           k == Len(o.state)
           x == update(b, o, pad)
<1>1. o.m \in 0 .. b - 1
  BY DEF Object
<1>2. pad \in Seq(Byte) /\ Len(pad) = IF o.m < b - f THEN b - f - o.m ELSE 2 * b - f - o.m
  BY <1>1, PaddingType
<1> HIDE DEF pad
<1>3. /\ Absorbed(b, o) \in Seq(Byte)
      /\ Len(Absorbed(b, o)) = Total(b, k) + o.m /\ k \in Nat
  BY AbsorbedType
<1> HIDE DEF k
<1>4. Absorbed(b, x) = Absorbed(b, o) \o pad /\ x \in Object(b)
  BY <1>2, UpdateAbsorbs, UpdateType
<1>5. Len(Absorbed(b, x)) = Total(b, k) + o.m + Len(pad)
  BY <1>2, <1>3, <1>4, ConcatProperties, ZenonT(60)
<1>6. x.m = Rest(b, Len(Absorbed(b, x)))
  BY <1>4, BufferedIsRest
<1> HIDE DEF x
<1>7. b - f \in 0 .. b - 1 /\ k + 1 \in Nat
  BY <1>3
<1>8. Rest(b, Total(b, k) + (b - f)) = b - f
  BY <1>3, <1>7, WholeRestUnique
<1>9. Rest(b, Total(b, k + 1) + (b - f)) = b - f
  BY <1>7, WholeRestUnique
<1>10. Total(b, k + 1) = Total(b, k) + b /\ Total(b, k) \in Nat
  <2>1. Total(b, k + 1) = Total(b, k) + Total(b, 1)
    BY <1>3, TotalPlus
  <2> QED BY <1>3, <2>1, TotalOne, TotalType
<1>11. \/ Len(Absorbed(b, x)) = Total(b, k) + (b - f)
       \/ Len(Absorbed(b, x)) = Total(b, k + 1) + (b - f)
  BY <1>1, <1>2, <1>5, <1>10, SMTT(30)
<1> QED BY <1>6, <1>8, <1>9, <1>11 DEF x, pad

LEMMA ResultEmpties ==
  ASSUME NEW a \in Algorithm, NEW o \in Object(block_size[a])
  PROVE  /\ result(a, o).buffer = Zeroes(block_size[a])
         /\ result(a, o).m = 0
<1> DEFINE b == block_size[a]
           f == Field(a, o.n)
           pad == padding(b, Len(f), o.m)
           x == update(b, o, pad)
<1>1. b \in Nat \ {0}
  BY BlockSizes DEF IsSize
<1> HIDE DEF b
<1>2. o.n \in Nat /\ o.m \in 0 .. b - 1 /\ o \in Object(b)
  BY ConstantFacts DEF Object, b
<1>3. f \in Seq(Byte) /\ Len(f) \in 1 .. b - 1
  BY <1>2, FieldType DEF b
<1> HIDE DEF f
<1>4. pad \in Seq(Byte)
  BY <1>1, <1>2, <1>3, PaddingType
<1>5. x.m = b - Len(f)
  BY <1>1, <1>2, <1>3, PaddingFits
<1> HIDE DEF pad
<1>6. x \in Object(b)
  BY <1>1, <1>2, <1>4, UpdateType
<1> HIDE DEF x
<1>7. x.m > 0 /\ x.m + Len(f) = b
  BY <1>1, <1>3, <1>5
<1>8. update(b, x, f).buffer = Zeroes(b) /\ update(b, x, f).m = 0
  BY <1>1, <1>3, <1>6, <1>7, UpdateCompletes
<1>9. result(a, o) = update(b, x, f)
  BY ResultIs DEF finalize, b, f, pad, x
<1> QED BY <1>8, <1>9 DEF b

(* After every result the buffer holds zeroes and nothing is pending. *)
THEOREM NothingLeft == Spec => ResultLeavesNothing
<1>1. TypeOK /\ [Next]_vars
        => [Result => h'.buffer = Zeroes(block_size[alg]) /\ h'.m = 0]_vars
  <2> SUFFICES ASSUME TypeOK, Result
               PROVE  h'.buffer = Zeroes(block_size[alg]) /\ h'.m = 0
    OBVIOUS
  <2> QED BY ResultEmpties DEF TypeOK, Result
<1> QED BY <1>1, TypeCorrect, PTL DEF Spec, ResultLeavesNothing
------------------------------------------------------------------------------
(* The refinement of HashAlgorithm *)

(* The number of zero bytes is determined by the length. *)
LEMMA ZeroesUnique ==
  ASSUME NEW b \in Nat \ {0}, NEW x \in Nat, NEW y \in 0 .. b - 1, NEW z \in 0 .. b - 1,
         (x + y) % b = 0, (x + z) % b = 0
  PROVE  y = z
<1> DEFINE d == (x + y) \div b
           e == (x + z) \div b
<1>1. d \in Nat /\ x + y = b * d + ((x + y) % b)
  BY DivMod
<1>2. e \in Nat /\ x + z = b * e + ((x + z) % b)
  BY DivMod
<1> HIDE DEF d, e
<1>3. x + y = b * d + 0 /\ x + z = b * e + 0
  BY <1>1, <1>2
<1>4. ASSUME NEW u \in 0 .. b - 1, NEW v \in 0 .. b - 1, u <= v,
             NEW s \in Nat, NEW t \in Nat, x + u = b * s + 0, x + v = b * t + 0
      PROVE  v = u
  <2>1. b * t \in Nat /\ b * s \in Nat
    OBVIOUS
  <2>2. v - u \in 0 .. b - 1 /\ b * s + (v - u) = b * t + 0
    BY <1>4, <2>1
  <2>3. 0 \in 0 .. b - 1 /\ s \in Int /\ t \in Int
    OBVIOUS
  <2>4. v - u = 0
    BY <2>2, <2>3, DivModUnique
  <2> QED BY <2>4
<1>5. y <= z => z = y
  BY <1>1, <1>2, <1>3, <1>4
<1>6. z <= y => y = z
  BY <1>1, <1>2, <1>3, <1>4
<1> QED BY <1>5, <1>6

(* padding and the length field are the standard's padding. *)
LEMMA PaddingIsStandard ==
  ASSUME NEW a \in Algorithm, NEW o \in Object(block_size[a]), Counted(block_size[a], o)
  PROVE  padding(block_size[a], length_size[a], o.m) \o Field(a, o.n)
           = StandardPadding(a, Absorbed(block_size[a], o))
<1> DEFINE b    == block_size[a]
           f    == length_size[a]
           A    == Absorbed(b, o)
           k    == IF o.m < b - f THEN b - f - o.m ELSE 2 * b - f - o.m
           bits == (Len(A) * ByteBits) % CounterMod
           fits(z) == (Len(A) + 1 + z + f) % b = 0
           field == IF a \in Little THEN write64le(bits)
                    ELSE IF a \in Wide THEN Zeroes(L) \o write64be(bits)
                    ELSE write64be(bits)
           zero == CHOOSE z \in 0 .. b - 1 : fits(z)
<1>1. b \in Nat \ {0} /\ f \in 1 .. b - 1
  BY BlockSizes, FieldType DEF IsSize
<1>2. A \in Seq(Byte) /\ Len(A) = Total(b, Len(o.state)) + o.m /\ Len(o.state) \in Nat
  BY <1>1, AbsorbedType
<1>3. o.m \in 0 .. b - 1 /\ o.n = Len(A) % CounterMod
  BY DEF Object, Counted
<1>4. StandardPadding(a, A) = <<Radix \div 2>> \o Zeroes(zero) \o field
  BY DEF StandardPadding
<1>5. field = Field(a, o.n)
  <2>1. ((Len(A) % CounterMod) * ByteBits) % CounterMod = (Len(A) * ByteBits) % CounterMod
    BY <1>2, ConstantFacts, SizeAssumption, ModTimes, SMTT(30)
  <2>2. bits = BitCount(o.n)
    BY <1>3, <2>1 DEF BitCount
  <2> QED BY <2>2, Zenon DEF Field
<1> HIDE DEF field, bits, A, b, f
<1>6. k \in Nat \ {0} /\ k - 1 \in 0 .. b - 1
  BY <1>1, <1>3, SMTT(30)
<1>7. fits(k - 1)
  <2> DEFINE c == Len(o.state)
  <2>1. c \in Nat
    BY <1>2
  <2> HIDE DEF c
  <2>2. Total(b, c + 1) = Total(b, c) + b /\ Total(b, c + 2) = Total(b, c) + 2 * b
        /\ Total(b, c) \in Nat
    <3>1. c * b \in Nat /\ (c + 1) * b = c * b + b /\ (c + 2) * b = c * b + 2 * b
      BY <1>1, <2>1
    <3> QED BY <3>1 DEF Total
  <2>3. 0 \in 0 .. b - 1 /\ c + 1 \in Nat /\ c + 2 \in Nat
    BY <1>1, <2>1
  <2>4. Rest(b, Total(b, c + 1) + 0) = 0
    BY <1>1, <2>3, WholeRestUnique
  <2>5. Rest(b, Total(b, c + 2) + 0) = 0
    BY <1>1, <2>3, WholeRestUnique
  <2>6. Len(A) = Total(b, c) + o.m
    BY <1>2 DEF c
  <2>7. \/ Len(A) + 1 + (k - 1) + f = Total(b, c + 1) + 0
        \/ Len(A) + 1 + (k - 1) + f = Total(b, c + 2) + 0
    <3> DEFINE s == Total(b, c)
               l == Len(A)
    <3>1. s \in Nat /\ l = s + o.m /\ Total(b, c + 1) = s + b /\ Total(b, c + 2) = s + 2 * b
      BY <2>2, <2>6
    <3> HIDE DEF s, l
    <3>2. l + 1 + (k - 1) + f = s + b + 0 \/ l + 1 + (k - 1) + f = s + 2 * b + 0
      <4>1. o.m \in Nat
        BY <1>3
      <4>2. o.m + k + f = b \/ o.m + k + f = 2 * b
        BY <1>1, <4>1
      <4> HIDE DEF k
      <4> QED BY <1>1, <1>6, <3>1, <4>1, <4>2
    <3> HIDE DEF k
    <3> QED BY <3>1, <3>2 DEF l
  <2>8. Rest(b, Len(A) + 1 + (k - 1) + f) = 0
    BY <2>4, <2>5, <2>7
  <2> QED BY <2>8 DEF Rest
<1> HIDE DEF k
<1>8. zero = k - 1
  <2>1. zero \in 0 .. b - 1 /\ fits(zero)
    BY <1>6, <1>7
  <2> HIDE DEF zero
  <2> DEFINE x == Len(A) + 1 + f
  <2>2. x \in Nat /\ Len(A) \in Nat
    BY <1>1, <1>2
  <2>3. Len(A) + 1 + zero + f = x + zero /\ Len(A) + 1 + (k - 1) + f = x + (k - 1)
    BY <1>1, <1>6, <2>1, <2>2
  <2>4. (x + zero) % b = 0 /\ (x + (k - 1)) % b = 0
    BY <1>7, <2>1, <2>3
  <2> HIDE DEF x
  <2> DEFINE y == k - 1
  <2>5. y \in 0 .. b - 1 /\ (x + y) % b = 0
    BY <1>6, <2>4
  <2> HIDE DEF y
  <2>6. zero = y
    BY <1>1, <2>1, <2>2, <2>4, <2>5, ZeroesUnique
  <2> QED BY <2>6 DEF y
<1> HIDE DEF zero, fits
<1>9. padding(b, f, o.m) = <<Radix \div 2>> \o Zeroes(k - 1)
  <2>1. padding(b, f, o.m) = OneBit(k)
    BY DEF padding, k
  <2>2. <<Radix \div 2>> \in Seq(Byte) /\ Zeroes(k - 1) \in Seq(Byte)
        /\ Len(Zeroes(k - 1)) = k - 1
    BY <1>6, ConstantFacts, ZeroesType
  <2> DEFINE l == <<Radix \div 2>> \o Zeroes(k - 1)
  <2>3. /\ l \in Seq(Byte) /\ Len(l) = k
        /\ \A i \in 1 .. k : l[i] = IF i <= 1 THEN Radix \div 2 ELSE Zeroes(k - 1)[i - 1]
    <3>1. Len(<<Radix \div 2>>) = 1 /\ <<Radix \div 2>>[1] = Radix \div 2
      OBVIOUS
    <3>2. 1 + (k - 1) = k
      BY <1>6
    <3>3. /\ l \in Seq(Byte)
          /\ Len(l) = Len(<<Radix \div 2>>) + Len(Zeroes(k - 1))
          /\ \A i \in 1 .. Len(<<Radix \div 2>>) + Len(Zeroes(k - 1)) : l[i] =
               IF i <= Len(<<Radix \div 2>>) THEN <<Radix \div 2>>[i]
               ELSE Zeroes(k - 1)[i - Len(<<Radix \div 2>>)]
      BY <2>2, ConcatProperties
    <3> HIDE DEF l
    <3> QED BY <1>6, <2>2, <3>1, <3>2, <3>3
  <2> HIDE DEF l
  <2>4. ASSUME NEW i \in 1 .. k PROVE l[i] = OneBit(k)[i]
    <3>1. i > 1 => i - 1 \in 1 .. k - 1
      BY <1>6
    <3>2. i > 1 => Zeroes(k - 1)[i - 1] = 0
      BY <3>1 DEF Zeroes
    <3> QED BY <1>6, <2>3, <3>2 DEF OneBit
  <2>5. OneBit(k) \in Seq(Byte) /\ Len(OneBit(k)) = k
    BY <1>6, ConstantFacts DEF OneBit
  <2>6. l = OneBit(k)
    BY <1>6, <2>3, <2>4, <2>5, SeqEqual
  <2> QED BY <2>1, <2>6 DEF l
<1> QED BY <1>4, <1>5, <1>8, <1>9 DEF A, b, f
LEMMA ResultAbsorbs ==
  ASSUME NEW a \in Algorithm, NEW o \in Object(block_size[a]), Counted(block_size[a], o)
  PROVE  Absorbed(block_size[a], result(a, o))
           = Absorbed(block_size[a], o) \o StandardPadding(a, Absorbed(block_size[a], o))
<1> DEFINE b == block_size[a]
           f == Field(a, o.n)
           pad == padding(b, Len(f), o.m)
           x == update(b, o, pad)
           s == Absorbed(b, o)
<1>0. o.n \in Nat /\ o.m \in 0 .. b - 1
  BY ConstantFacts DEF Object
<1>1. b \in Nat \ {0}
  BY BlockSizes DEF IsSize
<1>2. f \in Seq(Byte) /\ Len(f) = length_size[a] /\ Len(f) \in 1 .. b - 1
  BY <1>0, FieldType
<1>3. pad \o f = StandardPadding(a, s)
  BY <1>2, PaddingIsStandard
<1>4. result(a, o) = update(b, x, f)
  BY ResultIs DEF finalize
<1> HIDE DEF b, f
<1>5. pad \in Seq(Byte)
  BY <1>0, <1>1, <1>2, PaddingType
<1> HIDE DEF pad
<1>6. o \in Object(b)
  BY DEF b
<1>7. x \in Object(b) /\ Absorbed(b, x) = s \o pad
  BY <1>1, <1>5, <1>6, UpdateType, UpdateAbsorbs
<1>8. s \in Seq(Byte)
  BY <1>1, <1>6, AbsorbedType
<1> HIDE DEF x, s
<1>9. Absorbed(b, update(b, x, f)) = Absorbed(b, x) \o f
  BY <1>1, <1>2, <1>7, UpdateAbsorbs
<1>10. (s \o pad) \o f = s \o (pad \o f)
  <2>1. f \in Seq(Byte)
    BY <1>2
  <2> QED BY <1>5, <1>8, <2>1, ConcatAssociative, SMTT(30)
<1> QED BY <1>3, <1>4, <1>7, <1>9, <1>10, Zenon DEF b, s

(* After result the message is exactly what the compressed blocks hold. *)
LEMMA ResultState ==
  ASSUME NEW a \in Algorithm, NEW o \in Object(block_size[a])
  PROVE  /\ Absorbed(block_size[a], result(a, o)) = BytesOf(block_size[a], result(a, o).state)
         /\ result(a, o).state # NoDigest
<1> DEFINE b == block_size[a]
           r == result(a, o)
<1>1. b \in Nat \ {0} /\ b \in {N, 2 * N}
  BY BlockSizes DEF IsSize, block_size
<1>2. r \in Object(b) /\ r.m = 0
  BY ResultType, ResultEmpties
<1> HIDE DEF b, r
<1>3. BytesOf(b, r.state) \in Seq(Byte) /\ Absorbed(b, r) \in Seq(Byte)
  BY <1>1, <1>2, AbsorbedType
<1>4. SubSeq(r.buffer, 1, r.m) = << >>
  BY <1>2, SubSeqEmpty
<1>5. BytesOf(b, r.state) \o << >> = BytesOf(b, r.state)
  BY <1>3, ConcatEmptySeq
<1>6. Absorbed(b, r) = BytesOf(b, r.state)
  BY <1>4, <1>5 DEF Absorbed
<1>7. r.state \in BlockSeq(b, Byte)
  BY <1>2 DEF Object
<1>8. r.state # NoDigest
  BY <1>1, <1>7, DigestAssumption
<1> QED BY <1>6, <1>8 DEF b, r

LEMMA ConstructAbsorbed ==
  ASSUME NEW a \in Algorithm, NEW p \in Seed
  PROVE  Absorbed(block_size[a], construct(a, p))
           = IF p = << >> THEN << >> ELSE p \o StandardPadding(a, p)
<1> DEFINE b == block_size[a]
           x == update(b, Default(b), p)
<1>1. b \in Nat \ {0} /\ p \in Seq(Byte)
  BY BlockSizes, InputAssumption DEF IsSize
<1>2. CASE p = << >>
  <2>1. Absorbed(b, construct(a, p)) = << >>
    BY <1>1, <1>2, DefaultAbsorbed DEF construct
  <2> QED BY <1>2, <2>1
<1>3. CASE p # << >>
  <2>1. construct(a, p) = result(a, x)
    BY <1>3 DEF construct
  <2> HIDE DEF b
  <2>2. Default(b) \in Object(b) /\ Absorbed(b, Default(b)) = << >> /\ Counted(b, Default(b))
    BY <1>1, DefaultType, DefaultAbsorbed
  <2>3. x \in Object(b) /\ Counted(b, x) /\ Absorbed(b, x) = << >> \o p
    BY <1>1, <2>2, UpdateType, UpdateCounted, UpdateAbsorbs
  <2>4. << >> \o p = p
    BY <1>1, ConcatEmptySeq
  <2> HIDE DEF x
  <2>5. Absorbed(b, result(a, x)) = Absorbed(b, x) \o StandardPadding(a, Absorbed(b, x))
    BY <2>3, ResultAbsorbs DEF b
  <2>6. Absorbed(b, result(a, x)) = p \o StandardPadding(a, p)
    BY <2>3, <2>4, <2>5
  <2>7. Absorbed(b, construct(a, p)) = p \o StandardPadding(a, p)
    BY <2>1, <2>6
  <2> QED BY <1>3, <2>7 DEF b
<1> QED BY <1>2, <1>3

LEMMA ConstructAbsorbs ==
  ASSUME NEW a \in Algorithm, NEW p \in Seed
  PROVE  Absorbed(block_size[a], construct(a, p)) \in Constructed(a)
  BY ConstructAbsorbed DEF Constructed

(* The buffered objects implement the promise: their abstract message is    *)
(* what they absorbed, and a digest stands for the message it was taken of. *)
THEOREM Refinement == Spec => ImplementsHashAlgorithm
<1>1. Init => Promise!AInit
  <2> SUFFICES ASSUME Init PROVE Promise!AInit
    OBVIOUS
  <2>1. alg \in Algorithm /\ digest = NoDigest
    BY DEF Init
  <2>2. PICK p \in Seed : h = construct(alg, p)
    BY DEF Init
  <2>3. Absorbed(block_size[alg], h) \in Constructed(alg)
    BY <2>1, <2>2, ConstructAbsorbs
  <2> QED BY <2>1, <2>3 DEF Promise!AInit
<1>2. IInv /\ [Next]_vars => [Promise!ANext]_(Promise!aVars)
  <2> SUFFICES ASSUME IInv, [Next]_vars PROVE [Promise!ANext]_(Promise!aVars)
    OBVIOUS
  <2> DEFINE b == block_size[alg]
  <2>1. /\ alg \in Algorithm /\ h \in Object(b) /\ Counted(b, h)
        /\ b \in Nat \ {0}
    BY BlockSizes DEF IInv, TypeOK, IsSize
  <2>2. ASSUME NEW p \in Input, Update(p) PROVE Promise!AUpdate
    <3>1. p \in Seq(Byte)
      BY InputAssumption
    <3>2. h' = update(b, h, p) /\ alg' = alg /\ digest' = digest
      BY <2>2 DEF Update
    <3>3. Absorbed(b, update(b, h, p)) = Absorbed(b, h) \o p
      BY <2>1, <3>1, UpdateAbsorbs
    <3> QED BY <3>2, <3>3 DEF Promise!AUpdate
  <2>3. ASSUME Result PROVE Promise!AResult
    <3>1. h' = result(alg, h) /\ digest' = h'.state /\ alg' = alg
      BY <2>3 DEF Result
    <3>2. Absorbed(b, result(alg, h)) = Absorbed(b, h) \o StandardPadding(alg, Absorbed(b, h))
      BY <2>1, ResultAbsorbs
    <3>3. /\ Absorbed(b, result(alg, h)) = BytesOf(b, result(alg, h).state)
          /\ result(alg, h).state # NoDigest
      BY <2>1, ResultState
    <3> QED BY <3>1, <3>2, <3>3 DEF Promise!AResult
  <2>4. CASE UNCHANGED vars
    BY <2>4 DEF vars, Promise!aVars
  <2> QED BY <2>2, <2>3, <2>4 DEF Next, Promise!ANext
<1>3. Spec => []IInv
  BY InitInv, NextInv, PTL DEF Spec
<1> QED BY <1>1, <1>2, <1>3, PTL DEF Spec, ImplementsHashAlgorithm, Promise!ASpec
------------------------------------------------------------------------------
(* Seeds *)

LEMMA OneBitIs ==
  ASSUME NEW k \in Nat \ {0}
  PROVE  /\ OneBit(k) \in Seq(Byte) /\ Len(OneBit(k)) = k
         /\ OneBit(k)[1] # 0
         /\ \A i \in 2 .. k : OneBit(k)[i] = 0
<1>1. OneBit(k) \in Seq(Byte) /\ Len(OneBit(k)) = k
  BY ConstantFacts DEF OneBit
<1>2. Radix \div 2 # 0
  BY RadixAssumption
<1> QED BY <1>1, <1>2 DEF OneBit

LEMMA StandardPaddingIs ==
  ASSUME NEW a \in Algorithm, NEW p \in Seq(Byte)
  PROVE  \E k \in Nat \ {0}, f \in Seq(Byte) :
           /\ Len(f) = length_size[a]
           /\ StandardPadding(a, p) = OneBit(k) \o f
<1> DEFINE b == block_size[a]
           e == Default(b)
           o == update(b, e, p)
           f == Field(a, o.n)
           l == length_size[a]
           k == IF o.m < b - l THEN b - l - o.m ELSE 2 * b - l - o.m
<1>1. b \in Nat \ {0}
  BY BlockSizes DEF IsSize
<1>2. e \in Object(b) /\ Absorbed(b, e) = << >> /\ Counted(b, e)
  BY <1>1, DefaultType, DefaultAbsorbed
<1> HIDE DEF e
<1>3. o \in Object(b) /\ Counted(b, o) /\ Absorbed(b, o) = p
  <2>1. << >> \o p = p
    BY ConcatEmptySeq
  <2> QED BY <1>1, <1>2, <2>1, UpdateType, UpdateCounted, UpdateAbsorbs
<1> HIDE DEF o
<1>4. padding(b, l, o.m) \o f = StandardPadding(a, p)
  BY <1>3, PaddingIsStandard
<1>5. o.n \in Nat /\ o.m \in 0 .. b - 1
  BY <1>3, ConstantFacts DEF Object
<1>6. f \in Seq(Byte) /\ Len(f) = l /\ l \in 1 .. b - 1
  BY <1>5, FieldType
<1> HIDE DEF b, f, l
<1>7. k \in Nat \ {0} /\ padding(b, l, o.m) = OneBit(k)
  BY <1>1, <1>5, <1>6 DEF padding
<1> HIDE DEF k
<1> QED BY <1>4, <1>6, <1>7 DEF l

(* The padding tells where the message ends, whatever the length field. *)
LEMMA PaddedShorter ==
  ASSUME NEW a \in Algorithm, NEW p \in Seq(Byte), NEW q \in Seq(Byte),
         p \o StandardPadding(a, p) = q \o StandardPadding(a, q)
  PROVE  ~(Len(p) < Len(q)) /\ (Len(p) = Len(q) => p = q)
<1> DEFINE s == StandardPadding(a, p)
           t == StandardPadding(a, q)
           d == Len(q) - Len(p)
<1>1. PICK k \in Nat \ {0}, f \in Seq(Byte) : Len(f) = length_size[a] /\ s = OneBit(k) \o f
  BY StandardPaddingIs
<1>2. PICK n \in Nat \ {0}, g \in Seq(Byte) : Len(g) = length_size[a] /\ t = OneBit(n) \o g
  BY StandardPaddingIs
<1>3. p \o s = q \o t
  OBVIOUS
<1> HIDE DEF s, t
<1>4. /\ s \in Seq(Byte) /\ Len(s) = k + Len(f)
      /\ \A i \in 1 .. k : s[i] = OneBit(k)[i]
  <2> DEFINE y == OneBit(k)
  <2>1. y \in Seq(Byte) /\ Len(y) = k
    BY OneBitIs
  <2> HIDE DEF y
  <2>2. /\ y \o f \in Seq(Byte) /\ Len(y \o f) = k + Len(f)
        /\ \A i \in 1 .. k + Len(f) : (y \o f)[i] = IF i <= k THEN y[i] ELSE f[i - k]
    BY <2>1, ConcatProperties, ZenonT(60)
  <2>3. \A i \in 1 .. k : i \in 1 .. k + Len(f) /\ i <= k
    OBVIOUS
  <2>4. \A i \in 1 .. k : (y \o f)[i] = y[i]
    BY <2>2, <2>3
  <2>5. s = y \o f
    BY <1>1 DEF y
  <2> QED BY <2>2, <2>4, <2>5 DEF y
<1>5. /\ t \in Seq(Byte) /\ Len(t) = n + Len(g)
      /\ t[1] = OneBit(n)[1]
  <2>1. 1 \in 1 .. n + Len(g) /\ 1 <= n
    OBVIOUS
  <2> QED BY <1>2, <2>1, OneBitIs, ConcatProperties, SMTT(30)
<1>6. Len(p) + Len(s) = Len(q) + Len(t) /\ (Len(p) = Len(q) => p = q)
  <2>1. s \in Seq(Byte) /\ t \in Seq(Byte)
    BY <1>4, <1>5
  <2>2. p \in Seq(Byte) /\ q \in Seq(Byte)
    OBVIOUS
  <2>3. Len(p) + Len(s) = Len(q) + Len(t)
    BY <1>3, <2>1, <2>2, SameWhole
  <2>4. Len(p) = Len(q) => p = q
    BY <1>3, <2>1, <2>2, SameWhole, Zenon
  <2> QED BY <2>3, <2>4
<1>7. ASSUME Len(p) < Len(q) PROVE FALSE
  <2>1. p \in Seq(Byte) /\ q \in Seq(Byte) /\ s \in Seq(Byte) /\ t \in Seq(Byte)
    BY <1>4, <1>5
  <2>2. EndsLike(p, q, s, t)
    BY <1>3, <1>7, <2>1, SameWhole, Zenon
  <2>3. d \in Nat \ {0} /\ d + 1 \in 2 .. k /\ 1 \in 1 .. Len(t)
    <3>1. d \in Nat \ {0} /\ d + Len(t) = Len(s)
      BY <1>6, <1>7, <2>1
    <3>2. Len(g) = Len(f) /\ Len(f) \in Nat /\ Len(s) = k + Len(f) /\ Len(t) = n + Len(g)
      BY <1>1, <1>2, <1>4, <1>5
    <3> HIDE DEF d
    <3> QED BY <3>1, <3>2
  <2>4. t[1] = s[d + 1]
    BY <2>2, <2>3 DEF EndsLike
  <2> HIDE DEF d
  <2>5. s[d + 1] = 0
    <3> DEFINE i == d + 1
    <3>1. i \in 1 .. k /\ i \in 2 .. k
      BY <2>3
    <3> HIDE DEF i
    <3>2. s[i] = OneBit(k)[i] /\ OneBit(k)[i] = 0
      BY <1>4, <3>1, OneBitIs
    <3> QED BY <3>2 DEF i
  <2> QED BY <1>5, <2>4, <2>5, OneBitIs
<1> QED BY <1>6, <1>7

(* Different seeds construct different objects: what a constructor absorbs  *)
(* determines the seed it came from.                                        *)
THEOREM DistinctSeeds == Spec => []SeedsDiffer
<1>1. ASSUME NEW a \in Algorithm, NEW p \in Seed, NEW q \in Seed,
             construct(a, p) = construct(a, q)
      PROVE  p = q
  <2> DEFINE s == StandardPadding(a, p)
             t == StandardPadding(a, q)
  <2>1. p \in Seq(Byte) /\ q \in Seq(Byte)
    BY InputAssumption
  <2>2. (IF p = << >> THEN << >> ELSE p \o s) = (IF q = << >> THEN << >> ELSE q \o t)
    BY <1>1, ConstructAbsorbed
  <2>3. ASSUME NEW v \in Seq(Byte) PROVE v \o StandardPadding(a, v) # << >>
    <3>1. PICK k \in Nat \ {0}, f \in Seq(Byte) : StandardPadding(a, v) = OneBit(k) \o f
      BY StandardPaddingIs
    <3>2. OneBit(k) \in Seq(Byte) /\ OneBit(k) # << >>
      <4>1. OneBit(k) \in Seq(Byte) /\ Len(OneBit(k)) = k
        BY OneBitIs
      <4> QED BY <4>1, EmptySeq
    <3>3. OneBit(k) \o f \in Seq(Byte) /\ OneBit(k) \o f # << >>
      BY <3>2, ConcatProperties, ConcatEqualIffEmpty
    <3> QED BY <3>1, <3>3, ConcatEqualIffEmpty
  <2>4. CASE p = << >> \/ q = << >>
    BY <2>1, <2>2, <2>3, <2>4
  <2>5. CASE p # << >> /\ q # << >>
    <3>1. p \o s = q \o t
      BY <2>2, <2>5
    <3>2. ~(Len(p) < Len(q)) /\ ~(Len(q) < Len(p)) /\ (Len(p) = Len(q) => p = q)
      BY <2>1, <3>1, PaddedShorter
    <3> QED BY <2>1, <3>2
  <2> QED BY <2>4, <2>5
<1>2. TypeOK => SeedsDiffer
  BY <1>1 DEF TypeOK, SeedsDiffer
<1> QED BY <1>2, TypeCorrect, PTL
==============================================================================
