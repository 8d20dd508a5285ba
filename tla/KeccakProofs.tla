---------------------------- MODULE KeccakProofs -----------------------------
(***************************************************************************)
(* Proofs about Keccak, for every rate, padding and input.                 *)
(***************************************************************************)
EXTENDS Keccak, DataLemmas

LEMMA RateType ==
  ASSUME NEW a \in Algorithm
  PROVE  Rate[a] \in Nat \ {0}
  BY RateAssumption

LEMMA PaddingType ==
  ASSUME NEW a \in Algorithm
  PROVE  /\ Delim[a] \in Byte /\ LastBit \in Byte
         /\ Delim[a] # {} /\ LastBit # {} /\ Delim[a] \cap LastBit = {}
  BY PaddingAssumption

(* Exclusive or with nothing writes; with other bits it joins. *)
LEMMA XorType ==
  ASSUME NEW x \in Byte, NEW y \in Byte
  PROVE  /\ Xor(x, y) \in Byte
         /\ Xor({}, x) = x
         /\ x \cap y = {} => Xor(x, y) = x \cup y
  BY DEF Xor, Byte

LEMMA BlankType ==
  ASSUME NEW r \in Nat \ {0}
  PROVE  /\ Blank(r) \in Block(r, Byte)
         /\ BlankFrom(r, Blank(r), 0)
  BY DEF Blank, Block, Byte, BlankFrom

LEMMA BlockIs ==
  ASSUME NEW r \in Nat \ {0}, NEW x \in Block(r, Byte)
  PROVE  /\ x \in Seq(Byte) /\ Len(x) = r
         /\ \A i \in 1 .. r : x[i] \in Byte
  BY DEF Block

LEMMA AddType ==
  ASSUME NEW r \in Nat \ {0}, NEW x \in Block(r, Byte), NEW m \in Nat, NEW p \in Seq(Byte)
  PROVE  /\ Add(x, m, p) \in Block(r, Byte)
         /\ \A i \in 1 .. r : Add(x, m, p)[i] =
              IF m < i /\ i <= m + Len(p) THEN Xor(x[i], p[i - m]) ELSE x[i]
<1>1. Len(x) = r /\ \A i \in 1 .. r : x[i] \in Byte
  BY BlockIs
<1>2. ASSUME NEW i \in 1 .. r, m < i /\ i <= m + Len(p)
      PROVE  Xor(x[i], p[i - m]) \in Byte
  <2>1. p[i - m] \in Byte
    BY <1>2
  <2> QED BY <1>1, <2>1, XorType
<1> QED BY <1>1, <1>2 DEF Add, Block

(* Adding to the part of a block that is blank is copying to it. *)
LEMMA AddIsCopy ==
  ASSUME NEW r \in Nat \ {0}, NEW x \in Block(r, Byte), NEW m \in Nat, NEW p \in Seq(Byte),
         m + Len(p) <= r, BlankFrom(r, x, m)
  PROVE  /\ Add(x, m, p) = CopyTo(x, m, p)
         /\ SubSeq(Add(x, m, p), 1, m + Len(p)) = SubSeq(x, 1, m) \o p
         /\ BlankFrom(r, Add(x, m, p), m + Len(p))
<1>1. Len(x) = r /\ Len(p) \in Nat
  BY BlockIs
<1>2. ASSUME NEW i \in 1 .. r, m < i /\ i <= m + Len(p)
      PROVE  Xor(x[i], p[i - m]) = p[i - m]
  <2>1. p[i - m] \in Byte
    BY <1>2
  <2>2. x[i] = {}
    BY <1>2 DEF BlankFrom
  <2> QED BY <2>1, <2>2, XorType
<1>3. Add(x, m, p) = CopyTo(x, m, p)
  BY <1>1, <1>2 DEF Add, CopyTo
<1>4. SubSeq(CopyTo(x, m, p), 1, m + Len(p)) = SubSeq(x, 1, m) \o p
  <2>1. r \in Nat
    OBVIOUS
  <2> QED BY <2>1, CopyPrefix
<1>5. ASSUME NEW i \in m + Len(p) + 1 .. r PROVE Add(x, m, p)[i] = {}
  <2>1. i \in 1 .. r /\ i \in m + 1 .. r /\ ~(i <= m + Len(p))
    BY <1>1
  <2>2. Add(x, m, p)[i] =
          IF m < i /\ i <= m + Len(p) THEN Xor(x[i], p[i - m]) ELSE x[i]
    BY <2>1, AddType
  <2>3. x[i] = {}
    BY <2>1 DEF BlankFrom
  <2> QED BY <2>1, <2>2, <2>3
<1> QED BY <1>3, <1>4, <1>5 DEF BlankFrom

------------------------------------------------------------------------------
(* Types *)

LEMMA DefaultType ==
  ASSUME NEW r \in Nat \ {0}
  PROVE  Default(r) \in Object(r) /\ Clean(r, Default(r))
<1>1. << >> \in BlockSeq(r, Byte)
  BY DEF BlockSeq
<1>2. 0 \in 0 .. r - 1
  OBVIOUS
<1> QED BY <1>1, <1>2, BlankType DEF Default, Object, Clean

LEMMA ObjectFacts ==
  ASSUME NEW r \in Nat \ {0}, NEW o \in Object(r)
  PROVE  /\ o.blocks \in BlockSeq(r, Byte) /\ Len(o.blocks) \in Nat
         /\ o.added \in Block(r, Byte) /\ Len(o.added) = r
         /\ o.m \in 0 .. r - 1 /\ o.m \in Nat
         /\ o.finalized \in BOOLEAN
  BY BlockIs DEF Object, BlockSeq

(* An object, by its members. *)
Members(blocks, added, m, finalized) ==
  [blocks |-> blocks, added |-> added, m |-> m, finalized |-> finalized]

LEMMA MembersType ==
  ASSUME NEW r \in Nat \ {0}, NEW s \in BlockSeq(r, Byte), NEW x \in Block(r, Byte),
         NEW m \in 0 .. r - 1, NEW f \in BOOLEAN
  PROVE  Members(s, x, m, f) \in Object(r)
  BY DEF Members, Object

LEMMA MembersOf ==
  ASSUME NEW r \in Nat \ {0}, NEW o \in Object(r)
  PROVE  o = Members(o.blocks, o.added, o.m, o.finalized)
  BY DEF Members, Object

LEMMA MembersAre ==
  ASSUME NEW s, NEW x, NEW m, NEW f
  PROVE  /\ Members(s, x, m, f).blocks = s
         /\ Members(s, x, m, f).added = x
         /\ Members(s, x, m, f).m = m
         /\ Members(s, x, m, f).finalized = f
  BY DEF Members

(* keccak_permute starts another block. *)
LEMMA PermuteType ==
  ASSUME NEW r \in Nat \ {0}, NEW o \in Object(r)
  PROVE  /\ keccak_permute(o) \in Object(r)
         /\ keccak_permute(o) =
              [o EXCEPT !.blocks = Append(o.blocks, o.added), !.added = Blank(r)]
<1>1. Append(o.blocks, o.added) \in BlockSeq(r, Byte)
  BY ObjectFacts, AppendProperties DEF BlockSeq
<1>2. Blank(r) \in Block(r, Byte) /\ Len(o.added) = r
  BY BlankType, ObjectFacts
<1>3. keccak_permute(o) = [o EXCEPT !.blocks = Append(o.blocks, o.added), !.added = Blank(r)]
  BY <1>2 DEF keccak_permute, Object
<1> QED BY <1>1, <1>2, <1>3 DEF Object

(* With m_ = 0, an object that is not finalized takes q in. *)
LEMMA AbsorbType ==
  ASSUME NEW r \in Nat \ {0}, NEW o \in Object(r), NEW q \in Seq(Byte),
         Clean(r, o), o.m = 0, ~o.finalized
  PROVE  /\ Absorb(r, o, q) \in Object(r)
         /\ Clean(r, Absorb(r, o, q))
         /\ ~Absorb(r, o, q).finalized
         /\ Absorbed(r, Absorb(r, o, q)) = BytesOf(r, o.blocks) \o q
<1> DEFINE k == Rest(r, Len(q))
           t == SubSeq(q, Len(q) - k + 1, Len(q))
           s == Blocks(r, q)
           c == Add(o.added, 0, t)
           x == BytesOf(r, o.blocks)
           y == BytesOf(r, s)
           z == Absorb(r, o, q)
<1>1. k \in 0 .. r - 1 /\ t \in Seq(Byte) /\ Len(t) = k
  BY LastPart
<1>2. y \o t = q
  BY BytesOfBlocks
<1>3. s \in BlockSeq(r, Byte)
  BY BlocksType
<1>4. z = [o EXCEPT !.blocks = o.blocks \o s, !.added = c, !.m = k]
  BY DEF Absorb, Object, Rest
<1> HIDE DEF k, t, s, z
<1>5. o.blocks \o s \in BlockSeq(r, Byte)
  BY <1>3, ObjectFacts, ConcatProperties DEF BlockSeq
<1>6. /\ c \in Block(r, Byte)
      /\ SubSeq(c, 1, k) = t
      /\ BlankFrom(r, c, k)
  <2>1. 0 \in Nat /\ 0 + Len(t) <= r /\ 0 + Len(t) = k
    BY <1>1
  <2>2. o.added \in Block(r, Byte) /\ BlankFrom(r, o.added, 0)
    BY ObjectFacts DEF Clean
  <2>3. /\ SubSeq(c, 1, 0 + Len(t)) = SubSeq(o.added, 1, 0) \o t
        /\ BlankFrom(r, c, 0 + Len(t))
    BY <1>1, <2>1, <2>2, AddIsCopy DEF c
  <2>4. SubSeq(o.added, 1, 0) = << >> /\ << >> \o t = t
    BY <1>1, SubSeqEmpty, ConcatEmptySeq
  <2>5. c \in Block(r, Byte)
    BY <1>1, <2>1, <2>2, AddType
  <2> QED BY <2>1, <2>3, <2>4, <2>5
<1> HIDE DEF c
<1>7. /\ z \in Object(r) /\ z.blocks = o.blocks \o s
      /\ z.added = c /\ z.m = k /\ z.finalized = o.finalized
  BY <1>1, <1>4, <1>5, <1>6 DEF Object
<1>8. Clean(r, z)
  BY <1>6, <1>7 DEF Clean
<1>9. Absorbed(r, z) = BytesOf(r, o.blocks \o s) \o t
  BY <1>6, <1>7 DEF Absorbed
<1>10. BytesOf(r, o.blocks \o s) = x \o y
  BY <1>3, ObjectFacts, BytesOfConcat
<1>11. x \in Seq(Byte) /\ y \in Seq(Byte)
  BY <1>3, ObjectFacts, BytesOfType
<1> HIDE DEF x, y
<1>12. (x \o y) \o t = x \o (y \o t)
  BY <1>1, <1>11, ConcatAssociative, SMTT(30)
<1>13. Absorbed(r, z) = x \o q
  BY <1>2, <1>9, <1>10, <1>12
<1> QED BY <1>7, <1>8, <1>13 DEF x, z
------------------------------------------------------------------------------
(* update appends to what the object has absorbed. *)

LEMMA AbsorbedType ==
  ASSUME NEW r \in Nat \ {0}, NEW o \in Object(r)
  PROVE  /\ BytesOf(r, o.blocks) \in Seq(Byte)
         /\ SubSeq(o.added, 1, o.m) \in Seq(Byte)
         /\ Absorbed(r, o) \in Seq(Byte)
         /\ Len(Absorbed(r, o)) = Total(r, Len(o.blocks)) + o.m
<1>1. BytesOf(r, o.blocks) \in Seq(Byte) /\ Len(BytesOf(r, o.blocks)) = Total(r, Len(o.blocks))
  BY ObjectFacts, BytesOfType
<1>2. SubSeq(o.added, 1, o.m) \in Seq(Byte) /\ Len(SubSeq(o.added, 1, o.m)) = o.m
  <2>1. o.added \in Seq(Byte) /\ o.m \in Nat /\ o.m <= Len(o.added)
    BY ObjectFacts, BlockIs
  <2> QED BY <2>1, Prefix
<1> QED BY <1>1, <1>2, ConcatProperties DEF Absorbed

LEMMA UpdateAbsorbs ==
  ASSUME NEW r \in Nat \ {0}, NEW o \in Object(r), NEW p \in Seq(Byte), Clean(r, o)
  PROVE  /\ update(r, o, p) \in Object(r)
         /\ Clean(r, update(r, o, p))
         /\ ~update(r, o, p).finalized
         /\ Absorbed(r, update(r, o, p)) = Absorbed(r, o) \o p
<1> DEFINE k == IF Len(p) < r - o.m THEN Len(p) ELSE r - o.m
           n == o.m + k
           y == SubSeq(p, 1, k)
           z == SubSeq(p, k + 1, Len(p))
           d == Add(o.added, o.m, y)
           b == Append(o.blocks, d)
           no == FALSE
           e == Members(o.blocks, o.added, o.m, no)
           w == Members(o.blocks, d, n, no)
           c == Members(b, Blank(r), 0, no)
           f == BytesOf(r, o.blocks)
           g == SubSeq(o.added, 1, o.m)
           u == update(r, o, p)
<1>1. /\ Len(p) \in Nat /\ o.m \in 0 .. r - 1 /\ o.m \in Nat
      /\ o.added \in Block(r, Byte) /\ o.blocks \in BlockSeq(r, Byte)
      /\ o = Members(o.blocks, o.added, o.m, o.finalized)
      /\ BlankFrom(r, o.added, o.m)
  BY ObjectFacts, MembersOf DEF Clean
<1>2. /\ k \in 0 .. Len(p) /\ n \in 0 .. r
      /\ n < r => k = Len(p)
  BY <1>1
<1>3. /\ no \in BOOLEAN /\ ~no
      /\ ~e.finalized /\ ~w.finalized /\ ~c.finalized
  <2>1. no \in BOOLEAN /\ ~no
    OBVIOUS
  <2> HIDE DEF no
  <2>2. e.finalized = no /\ w.finalized = no /\ c.finalized = no
    BY MembersAre
  <2> QED BY <2>1, <2>2, Zenon
<1> HIDE DEF no
<1>4. [o EXCEPT !.finalized = no] = e
  <2> HIDE DEF e
  <2>1. o = [blocks |-> o.blocks, added |-> o.added, m |-> o.m, finalized |-> o.finalized]
    BY <1>1 DEF Members
  <2>2. [o EXCEPT !.finalized = no]
          = [blocks |-> o.blocks, added |-> o.added, m |-> o.m, finalized |-> no]
    BY <2>1
  <2> QED BY <2>2, Zenon DEF e, Members
<1>5. [e EXCEPT !.added = d, !.m = n] = w
  <2> HIDE DEF n, d
  <2> DEFINE a == [e EXCEPT !.added = d]
  <2>1. a = Members(o.blocks, d, o.m, no)
    BY DEF Members
  <2>2. [e EXCEPT !.added = d, !.m = n] = [a EXCEPT !.m = n]
    BY DEF Members
  <2> HIDE DEF a
  <2>3. [a EXCEPT !.m = n] = w
    BY <2>1 DEF Members
  <2> QED BY <2>2, <2>3
<1>6. u = IF o.m = 0 THEN Absorb(r, e, p)
          ELSE IF w.m < r THEN w
          ELSE Absorb(r, [keccak_permute(w) EXCEPT !.m = 0], z)
  <2>1. e.added = o.added /\ e.m = o.m
    BY MembersAre
  <2> DEFINE fresh == [o EXCEPT !.finalized = no]
             added == [fresh EXCEPT !.added = Add(fresh.added, o.m, y), !.m = fresh.m + k]
  <2>2. u = IF o.m = 0 THEN Absorb(r, fresh, p)
            ELSE IF added.m < r THEN added
            ELSE Absorb(r, [keccak_permute(added) EXCEPT !.m = 0], z)
    BY DEF update, no
  <2> HIDE DEF u, e, w, k, y, z, n, fresh
  <2>3. fresh = e
    BY <1>4 DEF fresh
  <2>4. added = w
    BY <1>5, <2>1, <2>3 DEF n
  <2> HIDE DEF added
  <2> QED BY <2>2, <2>3, <2>4
<1> HIDE DEF k, u
<1>7. y \in Seq(Byte) /\ Len(y) = k /\ z \in Seq(Byte) /\ y \o z = p
  BY <1>2, CutInTwo, ZenonT(60)
<1> HIDE DEF y, z
<1>8. /\ d \in Block(r, Byte)
      /\ SubSeq(d, 1, n) = g \o y
      /\ BlankFrom(r, d, n)
  <2>1. o.m + Len(y) <= r /\ o.m + Len(y) = n
    BY <1>2, <1>7
  <2>2. d \in Block(r, Byte)
    BY <1>1, <1>7, AddType
  <2> HIDE DEF n
  <2>3. SubSeq(d, 1, o.m + Len(y)) = g \o y /\ BlankFrom(r, d, o.m + Len(y))
    BY <1>1, <1>7, <2>1, AddIsCopy, ZenonT(60)
  <2> QED BY <2>1, <2>2, <2>3
<1> HIDE DEF d
<1>9. f \in Seq(Byte) /\ g \in Seq(Byte) /\ Absorbed(r, o) = f \o g
  BY AbsorbedType DEF Absorbed
<1>10. CASE o.m = 0
  <2>1. e \in Object(r) /\ e.blocks = o.blocks /\ e.added = o.added /\ e.m = o.m
    BY <1>1, <1>3, MembersType, MembersAre
  <2> HIDE DEF e
  <2>2. Clean(r, e)
    BY <1>1, <1>3, <2>1 DEF Clean
  <2>3. /\ Absorb(r, e, p) \in Object(r) /\ Clean(r, Absorb(r, e, p))
        /\ ~Absorb(r, e, p).finalized
        /\ Absorbed(r, Absorb(r, e, p)) = BytesOf(r, e.blocks) \o p
    BY <1>3, <1>10, <2>1, <2>2, AbsorbType
  <2>4. f \o g = f
    BY <1>9, <1>10, SubSeqEmpty, ConcatEmptySeq
  <2>5. u = Absorb(r, e, p)
    BY <1>6, <1>10
  <2> QED BY <1>9, <2>1, <2>3, <2>4, <2>5 DEF u
<1>11. CASE o.m > 0 /\ n < r
  <2>1. n \in 0 .. r - 1 /\ y = p
    BY <1>2, <1>11, SubSeqFull DEF y
  <2> HIDE DEF n
  <2>2. /\ w.blocks = o.blocks /\ w.added = d /\ w.m = n
        /\ w \in Object(r)
    BY <1>1, <1>3, <1>8, <2>1, MembersType, MembersAre
  <2> HIDE DEF w
  <2>3. u = w
    BY <1>6, <1>11, <2>2
  <2>4. Clean(r, w)
    BY <1>3, <1>8, <2>2 DEF Clean
  <2>5. Absorbed(r, w) = f \o (g \o p)
    BY <1>8, <2>1, <2>2 DEF Absorbed
  <2>6. (f \o g) \o p = f \o (g \o p)
    <3> HIDE DEF f, g
    <3> QED BY <1>9, ConcatAssociative, SMTT(30)
  <2> QED BY <1>3, <1>9, <2>2, <2>3, <2>4, <2>5, <2>6 DEF u
<1>12. CASE o.m > 0 /\ n = r
  <2> HIDE DEF n
  <2>1. Len(d) = r /\ d \in Seq(Byte) /\ Blank(r) \in Block(r, Byte)
        /\ BlankFrom(r, Blank(r), 0)
    BY <1>8, BlockIs, BlankType
  <2>2. b \in BlockSeq(r, Byte)
    BY <1>1, <1>8, AppendProperties DEF BlockSeq
  <2>3. BytesOf(r, b) = f \o d
    BY <1>1, <1>8, BytesOfAppend
  <2>4. w.blocks = o.blocks /\ w.added = d /\ w.m = n
    BY MembersAre
  <2>5. [keccak_permute(w) EXCEPT !.m = 0] = c
    <3>1. keccak_permute(w) = [w EXCEPT !.blocks = b, !.added = Blank(r)]
      <4> HIDE DEF w
      <4> QED BY <2>1, <2>4 DEF keccak_permute
    <3>2. [w EXCEPT !.blocks = b, !.added = Blank(r)] = Members(b, Blank(r), n, no)
      <4> HIDE DEF b
      <4> DEFINE a == [w EXCEPT !.blocks = b]
      <4>1. a = Members(b, d, n, no)
        BY DEF Members
      <4>2. [w EXCEPT !.blocks = b, !.added = Blank(r)] = [a EXCEPT !.added = Blank(r)]
        BY DEF Members
      <4> HIDE DEF a
      <4>3. [a EXCEPT !.added = Blank(r)] = Members(b, Blank(r), n, no)
        BY <4>1 DEF Members
      <4> QED BY <4>2, <4>3
    <3> HIDE DEF b
    <3> DEFINE v == keccak_permute(w)
    <3>3. v = Members(b, Blank(r), n, no)
      BY <3>1, <3>2
    <3> HIDE DEF v
    <3>4. [v EXCEPT !.m = 0] = c
      BY <3>3 DEF Members
    <3> QED BY <3>4 DEF v
  <2>6. u = Absorb(r, c, z)
    <3> HIDE DEF w, c
    <3> QED BY <1>6, <1>12, <2>4, <2>5
  <2> HIDE DEF b
  <2>7. c \in Object(r) /\ c.m = 0 /\ c.blocks = b /\ c.added = Blank(r)
    <3>1. 0 \in 0 .. r - 1
      OBVIOUS
    <3> QED BY <1>3, <2>1, <2>2, <3>1, MembersType, MembersAre
  <2> HIDE DEF c
  <2>8. Clean(r, c)
    BY <2>1, <2>7 DEF Clean
  <2>9. /\ Absorb(r, c, z) \in Object(r) /\ Clean(r, Absorb(r, c, z))
        /\ ~Absorb(r, c, z).finalized
        /\ Absorbed(r, Absorb(r, c, z)) = BytesOf(r, b) \o z
    BY <1>3, <1>7, <2>7, <2>8, AbsorbType
  <2>10. d = g \o y
    BY <1>8, <1>12, <2>1, SubSeqFull
  <2>11. (f \o (g \o y)) \o z = (f \o g) \o (y \o z)
    <3> HIDE DEF f, g
    <3>1. f \in Seq(Byte) /\ g \in Seq(Byte) /\ y \in Seq(Byte) /\ z \in Seq(Byte)
      BY <1>7, <1>9
    <3>2. Regroups(f, g, y, z)
      BY <3>1, ConcatRegroup
    <3> QED BY <3>2, Zenon DEF Regroups
  <2> QED BY <1>7, <1>9, <2>3, <2>6, <2>9, <2>10, <2>11 DEF u
<1> QED BY <1>1, <1>2, <1>10, <1>11, <1>12
------------------------------------------------------------------------------
(* result pads, or squeezes again *)

LEMMA BufferedIsRest ==
  ASSUME NEW r \in Nat \ {0}, NEW o \in Object(r)
  PROVE  o.m = Len(Absorbed(r, o)) % r
<1> DEFINE k == Len(o.blocks)
           m == o.m
<1>1. Len(Absorbed(r, o)) = Total(r, k) + m /\ k \in Nat /\ m \in 0 .. r - 1
  BY AbsorbedType, ObjectFacts
<1> HIDE DEF k, m
<1>2. Rest(r, Total(r, k) + m) = m
  BY <1>1, WholeRestUnique
<1> QED BY <1>1, <1>2 DEF Rest, m

(* The two ends of the padding go into the block as the standard has it. *)
LEMMA PadIs ==
  ASSUME NEW a \in Algorithm, NEW o \in Object(Rate[a]), Clean(Rate[a], o)
  PROVE  LET A == Absorbed(Rate[a], o)
             d == pad(Rate[a], o, Delim[a])
         IN  /\ d \in Block(Rate[a], Byte)
             /\ StandardPadding(a, A) \in Seq(Byte)
             /\ Len(StandardPadding(a, A)) = Rate[a] - o.m
             /\ d = SubSeq(o.added, 1, o.m) \o StandardPadding(a, A)
<1> DEFINE r == Rate[a]
           A == Absorbed(r, o)
           x == o.added
           m == o.m
           first == Delim[a]
           y == <<first>>
           e == Add(x, m, y)
           l == <<LastBit>>
           d == pad(r, o, first)
           k == r - m
           s == StandardPadding(a, A)
           g == SubSeq(x, 1, m)
<1>1. /\ r \in Nat \ {0} /\ r - 1 \in Nat
      /\ x \in Block(r, Byte) /\ m \in 0 .. r - 1 /\ m \in Nat
      /\ BlankFrom(r, x, m)
  BY RateType, ObjectFacts DEF Clean
<1>2. first \in Byte /\ LastBit \in Byte /\ first \cap LastBit = {} /\ {} \in Byte
  BY PaddingType DEF Byte
<1>3. k \in Nat \ {0}
  BY <1>1
<1>4. s = [i \in 1 .. k |-> (IF i = 1 THEN first ELSE {}) \cup (IF i = k THEN LastBit ELSE {})]
  <2>1. Len(A) % r = m
    BY <1>1, BufferedIsRest
  <2> QED BY <2>1 DEF StandardPadding
<1>5. d = Add(e, r - 1, <<LastBit>>)
  BY DEF pad
<1> HIDE DEF s, d, A, k, m, first, x, r
<1>6. /\ s \in Seq(Byte) /\ Len(s) = k
      /\ \A i \in 1 .. k :
           s[i] = (IF i = 1 THEN first ELSE {}) \cup (IF i = k THEN LastBit ELSE {})
  <2>1. \A i \in 1 .. k :
          (IF i = 1 THEN first ELSE {}) \cup (IF i = k THEN LastBit ELSE {}) \in Byte
    BY <1>2 DEF Byte
  <2>2. s \in [1 .. k -> Byte]
    BY <1>4, <2>1
  <2> QED BY <1>3, <1>4, <2>2
<1>7. /\ y \in Seq(Byte) /\ Len(y) = 1 /\ y[1] = first
      /\ l \in Seq(Byte) /\ Len(l) = 1 /\ l[1] = LastBit
  BY <1>2
<1> HIDE DEF y, l
<1>8. /\ e \in Block(r, Byte)
      /\ \A i \in 1 .. r : e[i] = IF m < i /\ i <= m + Len(y) THEN Xor(x[i], y[i - m]) ELSE x[i]
  BY <1>1, <1>7, AddType, ZenonT(60)
<1>9. \A i \in 1 .. r : e[i] = IF i = m + 1 THEN first ELSE x[i]
  <2>1. PICK j \in 1 .. r : j = m + 1
    BY <1>1
  <2>2. x[j] = {} /\ j - m = 1 /\ m < j /\ j <= m + Len(y)
    BY <1>1, <1>7, <2>1 DEF BlankFrom
  <2>3. e[j] = Xor(x[j], y[j - m])
    BY <1>8, <2>2
  <2>4. e[j] = Xor({}, first)
    BY <1>7, <2>2, <2>3
  <2>5. e[j] = first
    BY <1>2, <2>4, XorType
  <2>6. \A i \in 1 .. r : i # j => ~(m < i /\ i <= m + Len(y))
    BY <1>1, <1>7, <2>1
  <2> QED BY <1>8, <2>1, <2>5, <2>6
<1> HIDE DEF e
<1>10. /\ d \in Block(r, Byte)
       /\ \A i \in 1 .. r : d[i] = IF i = r THEN Xor(e[r], LastBit) ELSE e[i]
  <2>1. PICK n \in Nat : n = r - 1
    BY <1>1
  <2>2. /\ d \in Block(r, Byte)
        /\ \A i \in 1 .. r :
             d[i] = IF n < i /\ i <= n + Len(l) THEN Xor(e[i], l[i - n]) ELSE e[i]
    <3>1. d = Add(e, n, l)
      BY <1>5, <2>1 DEF l
    <3>2. e \in Block(r, Byte) /\ r \in Nat \ {0} /\ l \in Seq(Byte)
      BY <1>1, <1>7, <1>8
    <3>3. /\ Add(e, n, l) \in Block(r, Byte)
          /\ \A i \in 1 .. r : Add(e, n, l)[i] =
               IF n < i /\ i <= n + Len(l) THEN Xor(e[i], l[i - n]) ELSE e[i]
      BY <3>2, AddType
    <3> QED BY <3>1, <3>3
  <2>3. r \in 1 .. r /\ r - n = 1 /\ n < r /\ r <= n + Len(l)
    BY <1>1, <1>7, <2>1
  <2>4. d[r] = Xor(e[r], l[r - n])
    BY <2>2, <2>3
  <2>5. d[r] = Xor(e[r], LastBit)
    BY <1>7, <2>3, <2>4
  <2>6. \A i \in 1 .. r : i # r => ~(n < i)
    BY <1>1, <2>1
  <2> QED BY <2>2, <2>5, <2>6
<1>12. Xor(e[r], LastBit) = (IF k = 1 THEN first ELSE {}) \cup LastBit
  <2>1. k = r - m /\ r \in 1 .. r
    BY <1>1 DEF k, m, r
  <2>2. e[r] = IF k = 1 THEN first ELSE {}
    BY <1>1, <1>9, <2>1 DEF BlankFrom
  <2>3. {} \cup LastBit = LastBit /\ {} \cap LastBit = {}
    OBVIOUS
  <2> QED BY <1>2, <2>2, <2>3, XorType
<1>13. g \in Seq(Byte) /\ Len(g) = m /\ \A i \in 1 .. m : g[i] = x[i]
  <2>1. x \in Seq(Byte) /\ Len(x) = r /\ m <= Len(x)
    BY <1>1, BlockIs
  <2> QED BY <1>1, <2>1, Prefix
<1>14. /\ g \o s \in Seq(Byte)
       /\ Len(g \o s) = m + k
       /\ \A i \in 1 .. m + k : (g \o s)[i] = IF i <= m THEN g[i] ELSE s[i - m]
  BY <1>6, <1>13, ConcatProperties
<1>15. m + k = r
  BY <1>1 DEF k, m, r
<1>16. ASSUME NEW i \in 1 .. r PROVE d[i] = (g \o s)[i]
  <2>1. CASE i <= m
    <3>1. i # r /\ i # m + 1 /\ i \in 1 .. m
      BY <1>1, <2>1
    <3>2. d[i] = x[i]
      BY <1>9, <1>10, <3>1
    <3>3. (g \o s)[i] = x[i]
      BY <1>13, <1>14, <1>15, <2>1, <3>1
    <3> QED BY <3>2, <3>3
  <2>2. CASE ~(i <= m)
    <3>0. i - m \in 1 .. k
      BY <1>1, <1>3, <1>15, <2>2
    <3>1. PICK j \in 1 .. k : j = i - m
      BY <3>0
    <3>2. (i = r) = (j = k) /\ (i = m + 1) = (j = 1) /\ i \in m + 1 .. r
      BY <1>1, <1>3, <1>15, <2>2, <3>1
    <3>3. (g \o s)[i] = (IF j = 1 THEN first ELSE {}) \cup (IF j = k THEN LastBit ELSE {})
      BY <1>6, <1>14, <1>15, <2>2, <3>1
    <3>4. e[i] = IF j = 1 THEN first ELSE {}
      <4>1. x[i] = {}
        BY <1>1, <3>2 DEF BlankFrom
      <4> QED BY <1>9, <3>2, <4>1
    <3>5. CASE j = k
      <4>1. d[i] = (IF k = 1 THEN first ELSE {}) \cup LastBit
        BY <1>10, <1>12, <3>2, <3>5
      <4> QED BY <3>3, <3>5, <4>1
    <3>6. CASE j # k
      <4>1. d[i] = e[i]
        BY <1>10, <3>2, <3>6
      <4>2. \A z : z \cup {} = z
        OBVIOUS
      <4> QED BY <3>3, <3>4, <3>6, <4>1, <4>2
    <3> QED BY <3>5, <3>6
  <2> QED BY <2>1, <2>2
<1>17. d = g \o s
  <2>1. d \in Seq(Byte) /\ Len(d) = r
    BY <1>1, <1>10, BlockIs
  <2> QED BY <1>14, <1>15, <1>16, <2>1, SeqEqual
<1> QED BY <1>6, <1>10, <1>17 DEF d, s, A, k, m, first, x, r

LEMMA PermuteAbsorbs ==
  ASSUME NEW r \in Nat \ {0}, NEW o \in Object(r), o.m = 0
  PROVE  LET v == keccak_permute(o) IN
         /\ v \in Object(r) /\ Clean(r, v) /\ v.finalized = o.finalized
         /\ Absorbed(r, v) = BytesOf(r, v.blocks)
         /\ Absorbed(r, v) = BytesOf(r, o.blocks) \o o.added
<1> DEFINE v == keccak_permute(o)
           t == Append(o.blocks, o.added)
<1>1. v \in Object(r) /\ v = [o EXCEPT !.blocks = t, !.added = Blank(r)]
  BY PermuteType
<1> HIDE DEF v
<1>2. /\ v.blocks = t /\ v.added = Blank(r) /\ v.m = 0 /\ v.finalized = o.finalized
  BY <1>1 DEF Object
<1>3. Clean(r, v)
  BY <1>2, BlankType DEF Clean
<1>4. t \in BlockSeq(r, Byte) /\ BytesOf(r, t) = BytesOf(r, o.blocks) \o o.added
  <2>1. t \in BlockSeq(r, Byte)
    BY ObjectFacts, AppendProperties DEF BlockSeq
  <2>2. o.blocks \in BlockSeq(r, Byte) /\ o.added \in Block(r, Byte)
    BY ObjectFacts
  <2> DEFINE s == o.blocks
             x == o.added
  <2>3. BytesOf(r, Append(s, x)) = BytesOf(r, s) \o x
    <3>1. s \in BlockSeq(r, Byte) /\ x \in Block(r, Byte)
      BY <2>2
    <3> HIDE DEF s, x
    <3> QED BY <3>1, BytesOfAppend
  <2> QED BY <2>1, <2>3
<1>5. BytesOf(r, t) \in Seq(Byte)
  BY <1>4, BytesOfType
<1>6. Absorbed(r, v) = BytesOf(r, t) \o << >>
  <2>1. SubSeq(Blank(r), 1, 0) = << >>
    BY SubSeqEmpty
  <2> HIDE DEF t
  <2> QED BY <1>2, <2>1 DEF Absorbed
<1>7. Absorbed(r, v) = BytesOf(r, t)
  BY <1>5, <1>6, ConcatEmptySeq
<1> QED BY <1>1, <1>2, <1>3, <1>4, <1>7 DEF v

Ending(a, o) ==
  IF o.finalized THEN Blank(Rate[a]) ELSE StandardPadding(a, Absorbed(Rate[a], o))

LEMMA ResultAbsorbs ==
  ASSUME NEW a \in Algorithm, NEW o \in Object(Rate[a]), Clean(Rate[a], o)
  PROVE  LET v == result(Rate[a], o, Delim[a]) IN
         /\ v \in Object(Rate[a]) /\ Clean(Rate[a], v) /\ v.finalized
         /\ Absorbed(Rate[a], v) = BytesOf(Rate[a], v.blocks)
         /\ Absorbed(Rate[a], v) = Absorbed(Rate[a], o) \o Ending(a, o)
<1> DEFINE r == Rate[a]
           d == pad(r, o, Delim[a])
           v == result(r, o, Delim[a])
           f == BytesOf(r, o.blocks)
           g == SubSeq(o.added, 1, o.m)
           s == StandardPadding(a, Absorbed(r, o))
           yes == TRUE
           w == [o EXCEPT !.added = d, !.m = 0, !.finalized = yes]
<1>1. r \in Nat \ {0} /\ o \in Object(r) /\ Clean(r, o)
  BY RateType
<1>2. d \in Block(r, Byte) /\ d = g \o s /\ s \in Seq(Byte)
  BY PadIs
<1>3. v = keccak_permute(IF o.finalized THEN o ELSE w)
  BY DEF result
<1>4. yes \in BOOLEAN /\ yes
  OBVIOUS
<1> HIDE DEF r, d, v, s, yes
<1>5. f \in Seq(Byte) /\ g \in Seq(Byte) /\ Absorbed(r, o) = f \o g
  BY <1>1, AbsorbedType DEF Absorbed
<1>6. CASE o.finalized
  <2>1. o.m = 0 /\ BlankFrom(r, o.added, 0)
    BY <1>1, <1>6 DEF Clean
  <2>2. o.added = Blank(r)
    <3>1. o.added \in [1 .. r -> Byte] /\ \A i \in 1 .. r : o.added[i] = {}
      BY <1>1, <2>1, ObjectFacts DEF Block, BlankFrom
    <3> QED BY <3>1 DEF Blank
  <2>3. f \o g = f
    BY <1>5, <2>1, SubSeqEmpty, ConcatEmptySeq
  <2>4. v = keccak_permute(o)
    BY <1>3, <1>6
  <2>5. /\ v \in Object(r) /\ Clean(r, v) /\ v.finalized = o.finalized
        /\ Absorbed(r, v) = BytesOf(r, v.blocks) /\ Absorbed(r, v) = f \o o.added
    BY <1>1, <2>1, <2>4, PermuteAbsorbs
  <2>6. Ending(a, o) = Blank(r)
    BY <1>6 DEF Ending, r
  <2>7. v.finalized
    BY <1>6, <2>5, ZenonT(60)
  <2> QED BY <1>5, <2>2, <2>3, <2>5, <2>6, <2>7 DEF r, v
<1>7. CASE ~o.finalized
  <2>1. /\ w \in Object(r) /\ w.m = 0 /\ w.added = d /\ w.blocks = o.blocks
        /\ w.finalized = yes
    <3>1. 0 \in 0 .. r - 1
      BY <1>1
    <3> QED BY <1>1, <1>2, <1>4, <3>1 DEF Object
  <2> HIDE DEF w
  <2>2. v = keccak_permute(w)
    BY <1>3, <1>7
  <2>3. /\ v \in Object(r) /\ Clean(r, v) /\ v.finalized = w.finalized
        /\ Absorbed(r, v) = BytesOf(r, v.blocks) /\ Absorbed(r, v) = f \o d
    BY <1>1, <2>1, <2>2, PermuteAbsorbs
  <2>4. f \o (g \o s) = (f \o g) \o s
    <3> HIDE DEF f, g
    <3> QED BY <1>2, <1>5, ConcatAssociative, SMTT(30)
  <2>5. Ending(a, o) = s
    BY <1>7 DEF Ending, r, s
  <2>6. v.finalized
    BY <1>4, <2>1, <2>3, Zenon
  <2> QED BY <1>2, <1>5, <2>3, <2>4, <2>5, <2>6 DEF r, v
<1> QED BY <1>6, <1>7

LEMMA DefaultAbsorbed ==
  ASSUME NEW r \in Nat \ {0}
  PROVE  /\ Default(r) \in Object(r) /\ Clean(r, Default(r)) /\ ~Default(r).finalized
         /\ Absorbed(r, Default(r)) = << >>
<1>1. Default(r).blocks = << >> /\ Default(r).m = 0 /\ ~Default(r).finalized
  BY DEF Default
<1>2. << >> \in BlockSeq(r, Byte)
  BY DEF BlockSeq
<1>3. BytesOf(r, << >>) \in Seq(Byte) /\ Len(BytesOf(r, << >>)) = 0
  <2>1. BytesOf(r, << >>) \in Seq(Byte) /\ Len(BytesOf(r, << >>)) = Total(r, Len(<< >>))
    BY <1>2, BytesOfType
  <2> QED BY <2>1, TotalOne
<1>4. BytesOf(r, << >>) = << >>
  BY <1>3, EmptySeq
<1>5. Absorbed(r, Default(r)) = << >> \o << >>
  BY <1>1, <1>4, SubSeqEmpty DEF Absorbed
<1> QED BY <1>1, <1>5, DefaultType
------------------------------------------------------------------------------
(* Construction *)

(* What a constructor leaves: an object that has absorbed the padded seed. *)
LEMMA ConstructAbsorbs ==
  ASSUME NEW a \in Algorithm, NEW p \in Seq(Byte)
  PROVE  LET v == construct(a, p) IN
         /\ v \in Object(Rate[a]) /\ Clean(Rate[a], v) /\ ~v.finalized
         /\ Absorbed(Rate[a], v) = IF p = << >> THEN << >> ELSE p \o StandardPadding(a, p)
<1> DEFINE r == Rate[a]
           e == Default(r)
           x == update(r, e, p)
           y == result(r, x, Delim[a])
           v == update(r, y, << >>)
<1>1. r \in Nat \ {0}
  BY RateType
<1>2. e \in Object(r) /\ Clean(r, e) /\ ~e.finalized /\ Absorbed(r, e) = << >>
  BY <1>1, DefaultAbsorbed
<1>3. CASE p = << >>
  <2>1. construct(a, p) = e
    BY <1>3 DEF construct
  <2> HIDE DEF e
  <2> QED BY <1>2, <1>3, <2>1
<1>4. CASE p # << >>
  <2>1. construct(a, p) = v
    BY <1>4 DEF construct
  <2> HIDE DEF e
  <2>2. x \in Object(r) /\ Clean(r, x) /\ ~x.finalized /\ Absorbed(r, x) = p
    <3>1. << >> \o p = p
      BY ConcatEmptySeq
    <3> QED BY <1>1, <1>2, <3>1, UpdateAbsorbs
  <2> HIDE DEF x
  <2>3. Ending(a, x) = StandardPadding(a, p)
    BY <2>2 DEF Ending
  <2>4. /\ y \in Object(r) /\ Clean(r, y)
        /\ Absorbed(r, y) = Absorbed(r, x) \o Ending(a, x)
    BY <2>2, ResultAbsorbs
  <2> HIDE DEF y
  <2>5. << >> \in Seq(Byte)
    OBVIOUS
  <2>6. /\ v \in Object(r) /\ Clean(r, v) /\ ~v.finalized
        /\ Absorbed(r, v) = Absorbed(r, y) \o << >>
    BY <1>1, <2>4, <2>5, UpdateAbsorbs
  <2>7. Absorbed(r, y) \in Seq(Byte)
    BY <1>1, <2>4, AbsorbedType
  <2>8. Absorbed(r, v) = p \o StandardPadding(a, p)
    BY <2>2, <2>3, <2>4, <2>6, <2>7, ConcatEmptySeq
  <2> HIDE DEF v
  <2> QED BY <1>4, <2>1, <2>6, <2>8
<1> QED BY <1>3, <1>4

------------------------------------------------------------------------------
(* The specification *)

LEMMA InitType == Init => TypeOK
<1> SUFFICES ASSUME Init PROVE TypeOK
  OBVIOUS
<1>1. alg \in Algorithm /\ digest = NoDigest
  BY DEF Init
<1>2. PICK p \in Key : h = construct(alg, p)
  BY DEF Init
<1>3. p \in Seq(Byte)
  BY InputAssumption
<1>4. h \in Object(Rate[alg]) /\ Clean(Rate[alg], h)
  BY <1>1, <1>2, <1>3, ConstructAbsorbs
<1> QED BY <1>1, <1>4 DEF TypeOK

LEMMA NextType == TypeOK /\ [Next]_vars => TypeOK'
<1> SUFFICES ASSUME TypeOK, [Next]_vars PROVE TypeOK'
  OBVIOUS
<1>1. alg \in Algorithm /\ h \in Object(Rate[alg]) /\ Clean(Rate[alg], h)
      /\ digest \in {NoDigest} \cup BlockSeq(Rate[alg], Byte)
  BY DEF TypeOK
<1>2. Rate[alg] \in Nat \ {0}
  BY <1>1, RateType
<1>3. ASSUME NEW p \in Input, Update(p) PROVE TypeOK'
  <2>1. p \in Seq(Byte)
    BY InputAssumption
  <2>2. h' = update(Rate[alg], h, p) /\ alg' = alg /\ digest' = digest
    BY <1>3 DEF Update
  <2>3. h' \in Object(Rate[alg]) /\ Clean(Rate[alg], h')
    BY <1>1, <1>2, <2>1, <2>2, UpdateAbsorbs
  <2> QED BY <1>1, <2>2, <2>3 DEF TypeOK
<1>4. ASSUME Result PROVE TypeOK'
  <2>1. h' = result(Rate[alg], h, Delim[alg]) /\ alg' = alg /\ digest' = h'.blocks
    BY <1>4 DEF Result
  <2>2. h' \in Object(Rate[alg]) /\ Clean(Rate[alg], h')
    BY <1>1, <2>1, ResultAbsorbs
  <2>3. h'.blocks \in BlockSeq(Rate[alg], Byte)
    BY <1>2, <2>2, ObjectFacts
  <2> QED BY <1>1, <2>1, <2>2, <2>3 DEF TypeOK
<1>5. CASE UNCHANGED vars
  BY <1>1, <1>5 DEF vars, TypeOK
<1> QED BY <1>3, <1>4, <1>5 DEF Next

(* The members have their types between calls, the state is blank from m_  *)
(* on, and a finalized object has nothing to absorb: so that an update that *)
(* adds to the state by exclusive or writes to it.                         *)
THEOREM TypeCorrect == Spec => []TypeOK
  BY InitType, NextType, PTL DEF Spec

(* Every object is a sponge: it has absorbed what it was given, each result *)
(* pads once and squeezes on when it is repeated, in both constructions of  *)
(* the padding (two bytes, or one byte with both ends of it).               *)
THEOREM Refinement == Spec => ImplementsSponge
<1>1. Init => Promise!SInit
  <2> SUFFICES ASSUME Init PROVE Promise!SInit
    OBVIOUS
  <2>1. alg \in Algorithm /\ digest = NoDigest
    BY DEF Init
  <2>2. PICK p \in Key : h = construct(alg, p)
    BY DEF Init
  <2>3. p \in Seq(Byte)
    BY InputAssumption
  <2>4. /\ h.finalized \in BOOLEAN /\ ~h.finalized
        /\ Absorbed(Rate[alg], h) = IF p = << >> THEN << >> ELSE p \o StandardPadding(alg, p)
    BY <2>1, <2>2, <2>3, ConstructAbsorbs, ObjectFacts, RateType
  <2>5. h.finalized = FALSE
    BY <2>4
  <2> QED BY <2>1, <2>4, <2>5 DEF Promise!SInit
<1>2. TypeOK /\ [Next]_vars => [Promise!SUpdate \/ Promise!SResult]_(Promise!sVars)
  <2> SUFFICES ASSUME TypeOK, [Next]_vars
               PROVE  [Promise!SUpdate \/ Promise!SResult]_(Promise!sVars)
    OBVIOUS
  <2> DEFINE r == Rate[alg]
  <2>1. /\ alg \in Algorithm /\ h \in Object(r) /\ Clean(r, h) /\ r \in Nat \ {0}
    BY RateType DEF TypeOK
  <2>2. ASSUME NEW p \in Input, Update(p) PROVE Promise!SUpdate
    <3>1. p \in Seq(Byte)
      BY InputAssumption
    <3>2. h' = update(r, h, p) /\ alg' = alg /\ digest' = digest
      BY <2>2 DEF Update
    <3>3. /\ h' \in Object(r) /\ ~h'.finalized
          /\ Absorbed(r, h') = Absorbed(r, h) \o p
      BY <2>1, <3>1, <3>2, UpdateAbsorbs
    <3>4. h'.finalized = FALSE
      BY <2>1, <3>3, ObjectFacts
    <3> QED BY <3>2, <3>3, <3>4 DEF Promise!SUpdate
  <2>3. ASSUME Result PROVE Promise!SResult
    <3>1. h' = result(r, h, Delim[alg]) /\ digest' = h'.blocks /\ alg' = alg
      BY <2>3 DEF Result
    <3>2. /\ h' \in Object(r) /\ h'.finalized
          /\ Absorbed(r, h') = BytesOf(r, h'.blocks)
          /\ Absorbed(r, h') = Absorbed(r, h) \o Ending(alg, h)
      BY <2>1, <3>1, ResultAbsorbs
    <3>3. h'.finalized = TRUE
      BY <2>1, <3>2, ObjectFacts
    <3>4. h'.blocks # NoDigest
      BY <2>1, <3>2, ObjectFacts, DigestAssumption
    <3> QED BY <3>1, <3>2, <3>3, <3>4 DEF Promise!SResult, Ending
  <2>4. CASE UNCHANGED vars
    BY <2>4 DEF vars, Promise!sVars
  <2> QED BY <2>2, <2>3, <2>4 DEF Next
<1> QED BY <1>1, <1>2, TypeCorrect, PTL DEF Spec, ImplementsSponge, Promise!SSpec
------------------------------------------------------------------------------
(* Seeds *)

LEMMA StandardPaddingIs ==
  ASSUME NEW a \in Algorithm, NEW p \in Seq(Byte)
  PROVE  LET s == StandardPadding(a, p) IN
         /\ s \in Seq(Byte) /\ Len(s) \in Nat \ {0}
         /\ \A i \in 1 .. Len(s) :
              s[i] = (IF i = 1 THEN Delim[a] ELSE {}) \cup (IF i = Len(s) THEN LastBit ELSE {})
<1> DEFINE k == Rate[a] - (Len(p) % Rate[a])
           s == StandardPadding(a, p)
<1>1. k \in Nat \ {0}
  <2>1. Rate[a] \in Nat \ {0} /\ Len(p) \in Nat
    BY RateType
  <2>2. Len(p) % Rate[a] \in 0 .. Rate[a] - 1
    BY <2>1, DivMod
  <2> QED BY <2>1, <2>2
<1>2. s = [i \in 1 .. k |-> (IF i = 1 THEN Delim[a] ELSE {}) \cup (IF i = k THEN LastBit ELSE {})]
  BY DEF StandardPadding
<1> HIDE DEF k, s
<1>3. \A i \in 1 .. k :
        (IF i = 1 THEN Delim[a] ELSE {}) \cup (IF i = k THEN LastBit ELSE {}) \in Byte
  BY PaddingType DEF Byte
<1>4. s \in [1 .. k -> Byte]
  BY <1>2, <1>3
<1>5. s \in Seq(Byte) /\ Len(s) = k
  BY <1>1, <1>4
<1> QED BY <1>1, <1>2, <1>5 DEF s

(* The padding tells where the message ends. *)
LEMMA PaddedShorter ==
  ASSUME NEW a \in Algorithm, NEW p \in Seq(Byte), NEW q \in Seq(Byte),
         p \o StandardPadding(a, p) = q \o StandardPadding(a, q)
  PROVE  ~(Len(p) < Len(q))
<1> DEFINE s == StandardPadding(a, p)
           t == StandardPadding(a, q)
           d == Len(q) - Len(p)
<1> SUFFICES ASSUME Len(p) < Len(q) PROVE FALSE
  OBVIOUS
<1>1. /\ s \in Seq(Byte) /\ Len(s) \in Nat \ {0}
      /\ \A i \in 1 .. Len(s) :
           s[i] = (IF i = 1 THEN Delim[a] ELSE {}) \cup (IF i = Len(s) THEN LastBit ELSE {})
  BY StandardPaddingIs
<1>2. /\ t \in Seq(Byte) /\ Len(t) \in Nat \ {0}
      /\ \A i \in 1 .. Len(t) :
           t[i] = (IF i = 1 THEN Delim[a] ELSE {}) \cup (IF i = Len(t) THEN LastBit ELSE {})
  BY StandardPaddingIs
<1>3. p \o s = q \o t
  OBVIOUS
<1> HIDE DEF s, t
<1>4. Len(p) + Len(s) = Len(q) + Len(t) /\ \A i \in 1 .. Len(t) : t[i] = s[d + i]
  <2>1. s \in Seq(Byte) /\ t \in Seq(Byte)
    BY <1>1, <1>2
  <2> HIDE DEF d
  <2>2. p \in Seq(Byte) /\ q \in Seq(Byte)
    OBVIOUS
  <2>3. Len(p) + Len(s) = Len(q) + Len(t)
    BY <1>3, <2>1, <2>2, SameWhole
  <2>4. Len(p) < Len(q) => EndsLike(p, q, s, t)
    BY <1>3, <2>1, <2>2, SameWhole, Zenon
  <2> QED BY <2>3, <2>4 DEF EndsLike, d
<1>5. d \in Nat \ {0} /\ d + Len(t) = Len(s)
  BY <1>1, <1>2, <1>4
<1> HIDE DEF d
<1>6. 1 \in 1 .. Len(t) /\ d + 1 \in 1 .. Len(s)
      /\ (d + 1 = Len(s) <=> 1 = Len(t))
  <2> DEFINE n == Len(t)
             k == Len(s)
  <2>1. n \in Nat \ {0} /\ k \in Nat \ {0} /\ d \in Nat \ {0} /\ d + n = k
    BY <1>1, <1>2, <1>5
  <2> HIDE DEF n, k
  <2>2. 1 \in 1 .. n /\ d + 1 \in 1 .. k
    BY <2>1
  <2>3. d + 1 = k <=> 1 = n
    BY <2>1
  <2> QED BY <2>2, <2>3 DEF n, k
<1> DEFINE j == d + 1
<1>7. t[1] = s[j]
  BY <1>4, <1>6
<1>8. t[1] = Delim[a] \cup (IF 1 = Len(t) THEN LastBit ELSE {})
  BY <1>2, <1>6
<1>9. s[j] = IF 1 = Len(t) THEN LastBit ELSE {}
  <2>1. j # 1 /\ j \in 1 .. Len(s) /\ (j = Len(s) <=> 1 = Len(t))
    BY <1>5, <1>6
  <2> HIDE DEF j
  <2>2. s[j] = {} \cup (IF j = Len(s) THEN LastBit ELSE {})
    BY <1>1, <2>1
  <2>3. \A x : {} \cup x = x
    OBVIOUS
  <2> QED BY <2>1, <2>2, <2>3
<1> QED BY <1>7, <1>8, <1>9, PaddingType, ZenonT(60)

(* Different seeds construct different objects. *)
THEOREM DistinctKeys == Spec => []KeysDiffer
<1>1. ASSUME NEW a \in Algorithm, NEW p \in Key, NEW q \in Key,
             construct(a, p) = construct(a, q)
      PROVE  p = q
  <2> DEFINE s == StandardPadding(a, p)
             t == StandardPadding(a, q)
  <2>1. p \in Seq(Byte) /\ q \in Seq(Byte)
    BY InputAssumption
  <2>2. (IF p = << >> THEN << >> ELSE p \o s) = (IF q = << >> THEN << >> ELSE q \o t)
    BY <1>1, <2>1, ConstructAbsorbs
  <2>3. s \in Seq(Byte) /\ s # << >> /\ t \in Seq(Byte) /\ t # << >>
    <3>1. Len(s) # 0 /\ Len(t) # 0 /\ s \in Seq(Byte) /\ t \in Seq(Byte)
      BY <2>1, StandardPaddingIs
    <3> QED BY <3>1, EmptySeq
  <2>4. p \o s # << >> /\ q \o t # << >>
    <3> HIDE DEF s, t
    <3> QED BY <2>1, <2>3, ConcatEqualIffEmpty
  <2>5. CASE p = << >> \/ q = << >>
    BY <2>2, <2>4, <2>5
  <2>6. CASE p # << >> /\ q # << >>
    <3>1. p \o s = q \o t
      BY <2>2, <2>6
    <3>2. ~(Len(p) < Len(q)) /\ ~(Len(q) < Len(p))
      BY <2>1, <3>1, PaddedShorter
    <3>3. Len(p) = Len(q)
      BY <2>1, <3>2
    <3> HIDE DEF s, t
    <3> QED BY <2>1, <2>3, <3>1, <3>3, SameWhole
  <2> QED BY <2>5, <2>6
<1>2. TypeOK => KeysDiffer
  BY <1>1 DEF TypeOK, KeysDiffer
<1> QED BY <1>2, TypeCorrect, PTL
==============================================================================
