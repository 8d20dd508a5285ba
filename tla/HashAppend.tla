------------------------------ MODULE HashAppend ------------------------------
(***************************************************************************)
(* How an object becomes a message: hash_append.hpp, with the flavors and  *)
(* is_contiguously_hashable.  Two programs, which may run on platforms of  *)
(* different byte order and may be evaluated by the compiler, each append  *)
(* objects of the same types to a hasher of the same algorithm.            *)
(*                                                                         *)
(* A hasher is the sequence of tokens its update was given: bytes, and for *)
(* an unordered range the bag of the messages whose digests are summed:    *)
(* each is what a copy of the hasher, as it is at that place, was given.   *)
(*                                                                         *)
(* A type is a record [kind, size, parts], where parts are the types of    *)
(* its elements, members or alternatives:                                  *)
(*   int       integers                                                    *)
(*   enum, pointer  what is converted to them; pointers never at compile   *)
(*             time                                                        *)
(*   nullptr   the null pointer                                            *)
(*   float     the most significant digit is the sign                      *)
(*   carray    an array of C: as many parts as elements, all the same      *)
(*   array     the same, std::array                                        *)
(*   vector, list, set  elements of the one type in parts, any number of   *)
(*             them; contiguous, not contiguous, and unordered             *)
(*   tuple     one element of each type in parts                           *)
(*   class     a described class, with bases and members in parts          *)
(*   plain     one that also is_trivially_equality_comparable              *)
(*   optional  none or one element of the one type in parts                *)
(*   variant   one of the types in parts; size 1: it may be valueless      *)
(*   monostate                                                             *)
(*   custom    a class whose tag_invoke, in the user's code, appends its   *)
(*             elements as a range and size, as the string class of        *)
(*             hashing_objects.adoc:430                                    *)
(* The size is that of the object in memory, where it matters.  An object  *)
(* is a number, or the sequence of its parts; a variant's is its index and *)
(* its alternative, and a set's is in the order of iteration.              *)
(*                                                                         *)
(* What calls itself for the parts of a type is a function of types; p[i]  *)
(* is the value of that function for part i.                               *)
(*                                                                         *)
(* The definitions named SizeUnwritten, HashInPlace and MembersOnly are    *)
(* slips of the definition after each, which the properties must tell from *)
(* it.                                                                     *)
(***************************************************************************)
EXTENDS ByteBlocks, FiniteSets

CONSTANTS
  Radix,       (* the values of a byte: 256                                *)
  SizeWidth,   (* the bytes of Flavor::size_type: 4                        *)
  Flavor,      (* of "default", "little" and "big"                         *)
  Hosts,       (* the pairs of platforms the two programs may run on       *)
  Types,       (* the types of objects and of their parts                  *)
  Program,     (* the sequences of types a program may append objects of   *)
  MaxLength    (* bound: the elements of a container                       *)

VARIABLES
  flavor,      (* the flavor, part of the program                          *)
  host,        (* the platform of each program                             *)
  program,     (* the types of the objects, in both                        *)
  h,           (* the hashers                                              *)
  appended,    (* how many objects were appended to each                   *)
  equal        (* history: whether they were equal, one by one             *)

appendVars == <<flavor, host, program, h, appended, equal>>

------------------------------------------------------------------------------
(* Types *)

Scalars    == {"int", "enum", "pointer"}
Units      == {"nullptr", "monostate"}
Products   == {"carray", "array", "tuple", "class", "plain"}
Containers == {"vector", "list", "set", "custom", "optional"}
Kinds == Scalars \cup {"float", "variant"} \cup Units \cup Products \cup Containers

Scalar(n) == [kind |-> "int", size |-> n, parts |-> << >>]

(* All elements of a container are of its one part. *)
Nth(parts, i) == IF Len(parts) = 1 THEN parts[1] ELSE parts[i]

(* The types a type is made of, itself among them. *)
Within[t \in Types] ==
  LET p == [i \in DOMAIN t.parts |-> Within[t.parts[i]]] IN {t} \cup UNION {p[i] : i \in DOMAIN p}

(* A contiguous container and another with the same elements are appended  *)
(* alike.                                                                  *)
Alike(t) == IF t.kind = "vector" THEN {t, [t EXCEPT !.kind = "list"]} ELSE {t}

ASSUME RadixAssumption == Radix \in Nat \ {0, 1} /\ SizeWidth \in Nat \ {0}
ASSUME HostsAssumption ==
  /\ Flavor \subseteq {"default", "little", "big"}
  /\ Hosts \subseteq [{"a", "b"} -> [native : {"little", "big"}, constant : BOOLEAN]]
ASSUME LengthAssumption == MaxLength \in Nat /\ MaxLength < Radix ^ SizeWidth

(* No type is made of itself, so that recursion ends.  A container has one *)
(* part, numbers have a size, and an array of C has elements; a trivially  *)
(* comparable class has members, no padding and nothing but numbers in it. *)
(* No part is larger than the object, and a size_type can be the index of  *)
(* a variant.                                                              *)
ASSUME TypesAssumption ==
  \A t \in Types :
    /\ t \in [kind : Kinds, size : Nat, parts : Seq(Types)]
    /\ IsFiniteSet(Within[t])
    /\ \A i \in DOMAIN t.parts : Cardinality(Within[t.parts[i]]) < Cardinality(Within[t])
    /\ t.kind \in Containers => Len(t.parts) = 1
    /\ t.kind \in Scalars \cup {"float", "nullptr", "plain"} => t.size > 0
    /\ t.kind \in {"carray", "plain"} =>
         t.parts # << >> /\ \A i \in DOMAIN t.parts : t.parts[i].size <= t.size
    /\ t.kind \in {"carray", "array"} =>
         \A i \in DOMAIN t.parts : t.parts[i] = t.parts[1]
    /\ t.kind = "plain" => \A s \in Within[t] : s.kind \in Scalars \cup {"plain", "carray"}
    /\ t.kind = "variant" => Len(t.parts) \in 1 .. Radix ^ SizeWidth

ASSUME ProgramAssumption ==
  \A types \in Program : types \in Seq(Types) /\ \A i \in DOMAIN types : Alike(types[i]) \subseteq Types

Widths == {1, SizeWidth} \cup {t.size : t \in Types}
ASSUME PowerAssumption ==   (* of the powers of Radix, what ^ means *)
  Radix ^ 0 = 1 /\ \A n \in Widths : \A i \in 0 .. n - 1 : Radix ^ (i + 1) = Radix * Radix ^ i

------------------------------------------------------------------------------
(* The objects of a type, and which of them are equal *)

(* The sequences with an element of each set of s. *)
Longer(X, Y) == {Append(x, y) : x \in X, y \in Y}
Product(s) ==
  LET upTo[i \in 0 .. Len(s)] == IF i = 0 THEN {<< >>} ELSE Longer(upTo[i - 1], s[i])
  IN  upTo[Len(s)]

NegativeZero(t) == Radix ^ t.size \div 2

SizesOf(t) == IF t.kind = "optional" THEN 0 .. 1 ELSE 0 .. MaxLength

Objects[t \in Types] ==
  LET p == [i \in DOMAIN t.parts |-> Objects[t.parts[i]]] IN
  CASE t.kind \in Scalars \cup {"float"} -> 0 .. (Radix ^ t.size) - 1
    [] t.kind \in Units -> {0}
    [] t.kind \in Products -> Product(p)
    [] t.kind \in Containers -> UNION {[1 .. n -> p[1]] : n \in SizesOf(t)}
    [] t.kind = "variant" ->
         (UNION {{<<i - 1, x>> : x \in p[i]} : i \in DOMAIN p})
           \cup (IF t.size = 1 THEN {<< >>} ELSE {})

(* operator== *)
Equal[t \in Types] ==
  LET p == [i \in DOMAIN t.parts |-> Equal[t.parts[i]]] IN
  [v \in Objects[t] |-> [w \in Objects[t] |->
     CASE t.kind \in Scalars \cup Units -> v = w
       [] t.kind = "float" -> v = w \/ {v, w} = {0, NegativeZero(t)}
       [] t.kind = "variant" ->
            IF << >> \in {v, w} THEN v = w ELSE v[1] = w[1] /\ p[v[1] + 1][v[2]][w[2]]
       [] t.kind = "set" ->
            /\ Len(v) = Len(w)
            /\ \E q \in [1 .. Len(v) -> 1 .. Len(v)] :
                 /\ \A i, j \in 1 .. Len(v) : q[i] = q[j] => i = j
                 /\ \A i \in 1 .. Len(v) : p[1][v[i]][w[q[i]]]
       [] OTHER -> Len(v) = Len(w) /\ \A i \in 1 .. Len(v) : Nth(p, i)[v[i]][w[i]]]]

------------------------------------------------------------------------------
(* The context of a call: the byte order of the flavor and the platform *)

ByteOrders == {"little", "big"}
Contexts == [order : ByteOrders, native : ByteOrders, constant : BOOLEAN]

Context(f, p) ==
  [order |-> IF f = "default" THEN p.native ELSE f,
   native |-> p.native, constant |-> p.constant]

(* The sequences in s, one after the other. *)
Concat(s) ==
  LET upTo[i \in 0 .. Len(s)] == IF i = 0 THEN << >> ELSE upTo[i - 1] \o s[i]
  IN  upTo[Len(s)]

Digit(v, i) == (v \div (Radix ^ i)) % Radix
write(n, v, order) ==
  [i \in 1 .. n |-> Digit(v, IF order = "little" THEN i - 1 ELSE n - i)]

(* The bytes of an object in memory, of the types that may be hashed so. *)
memory[t \in Types] ==
  LET p == [i \in DOMAIN t.parts |-> memory[t.parts[i]]] IN
  [v \in Objects[t] |-> [native \in ByteOrders |->
     CASE t.kind \in Scalars -> write(t.size, v, native)
       [] t.kind \in {"carray", "plain"} -> Concat([i \in 1 .. Len(v) |-> p[i][v[i]][native]])
       [] OTHER -> << >>]]

(* Whether the order of n bytes in memory is the one asked for. *)
InOrder(n, c) == c.order = c.native \/ n = 1

is_contiguously_hashable[t \in Types] ==
  LET p == [i \in DOMAIN t.parts |-> is_contiguously_hashable[t.parts[i]]] IN
  [c \in Contexts |->
     \/ t.kind \in Scalars \cup {"plain"} /\ InOrder(t.size, c)
     \/ t.kind = "carray" /\ p[1][c]]

------------------------------------------------------------------------------
(* What the functions hash_append is made of pass to update *)

Bytes(b) == [i \in 1 .. Len(b) |-> [byte |-> b[i]]]

do_integral(n, v, c) == Bytes(write(n, v, c.order))

(* hash_append of an integer of n bytes, and of what is cast to one: an    *)
(* enumerator, a pointer, and nullptr, which is cast to a pointer.         *)
hash_append_integral(n, v, c) ==
  IF ~c.constant /\ InOrder(n, c) THEN Bytes(write(n, v, c.native)) ELSE do_integral(n, v, c)

zero_byte(c) == hash_append_integral(1, 0, c)

(* v + 0 makes a positive zero of a negative one. *)
do_floating_point(t, v, c) ==
  hash_append_integral(t.size, IF v = NegativeZero(t) THEN 0 ELSE v, c)

each(p, v, c) == Concat([i \in 1 .. Len(v) |-> Nth(p, i)[v[i]][c]])

(* A range of pointers to elements of a contiguously hashable type is      *)
(* passed to update as it is in memory, and so are bytes.                  *)
hash_append_range(t, p, v, c) ==
  IF /\ t.kind \in {"carray", "array", "vector", "custom"}
     /\ is_contiguously_hashable[t.parts[1]][c]
     /\ ~c.constant \/ t.parts[1] = Scalar(1)
  THEN Bytes(Concat([i \in 1 .. Len(v) |-> memory[t.parts[1]][v[i]][c.native]]))
  ELSE each(p, v, c)

SizeUnwritten(n, c) == << >>
hash_append_size(n, c) == hash_append_integral(SizeWidth, n % (Radix ^ SizeWidth), c)

do_range_and_size(t, p, v, c) == hash_append_range(t, p, v, c) \o hash_append_size(Len(v), c)

(* The sum of the digests of a copy of the hasher for each element. *)
BagOf(s) ==
  [x \in {s[i] : i \in 1 .. Len(s)} |-> Cardinality({i \in 1 .. Len(s) : s[i] = x})]
HashInPlace(p, v, c) ==
  LET after == [i \in 1 .. Len(v) |-> each(p, SubSeq(v, 1, i), c)]
  IN  (each(p, v, c) \o <<[sum |-> BagOf(after)]>>) \o hash_append_size(Len(v), c)
hash_append_unordered_range(p, v, c) ==
  LET copies == [i \in 1 .. Len(v) |-> p[1][v[i]][c]]
  IN  <<[sum |-> BagOf(copies)]>> \o hash_append_size(Len(v), c)

(* Constant size ranges, tuples and described classes. *)
do_constant_size(t, p, v, c) ==
  IF v = << >> THEN zero_byte(c) ELSE hash_append_range(t, p, v, c)
MembersOnly(p, v, c) == each(p, v, c)
do_members(p, v, c) == IF v = << >> THEN zero_byte(c) ELSE each(p, v, c)

do_optional(p, v, c) == hash_append_integral(1, Len(v), c) \o each(p, v, c)

do_variant(p, v, c) ==
  IF v = << >> THEN zero_byte(c) ELSE hash_append_size(v[1], c) \o p[v[1] + 1][v[2]][c]

(* The user's tag_invoke, given a provider of these functions. *)
do_tag_invoke(t, p, v, c) == do_range_and_size(t, p, v, c)

do_hash_append(t, p, v, c) ==
  CASE t.kind = "int"       -> do_integral(t.size, v, c)
    [] t.kind \in {"enum", "pointer", "nullptr"} -> hash_append_integral(t.size, v, c)
    [] t.kind = "float"     -> do_floating_point(t, v, c)
    [] t.kind = "carray"    -> hash_append_range(t, p, v, c)
    [] t.kind = "array"     -> do_constant_size(t, p, v, c)
    [] t.kind = "set"       -> hash_append_unordered_range(p, v, c)
    [] t.kind = "optional"  -> do_optional(p, v, c)
    [] t.kind = "variant"   -> do_variant(p, v, c)
    [] t.kind = "monostate" -> zero_byte(c)
    [] t.kind = "custom"    -> do_tag_invoke(t, p, v, c)
    [] t.kind \in {"vector", "list"}          -> do_range_and_size(t, p, v, c)
    [] t.kind \in {"tuple", "class", "plain"} -> do_members(p, v, c)

hash_append[t \in Types] ==
  LET p == [i \in DOMAIN t.parts |-> hash_append[t.parts[i]]] IN
  [v \in Objects[t] |-> [c \in Contexts |->
     IF ~c.constant /\ is_contiguously_hashable[t][c]
     THEN Bytes(memory[t][v][c.native])
     ELSE do_hash_append(t, p, v, c)]]

------------------------------------------------------------------------------
(* The specification *)

(* What the compiler cannot evaluate. *)
HoldsPointer(t) == \E s \in Within[t] : s.kind \in {"pointer", "nullptr"}

AppendInit ==
  /\ flavor \in Flavor
  /\ host \in Hosts
  /\ program \in Program
  /\ (\E i \in DOMAIN program : HoldsPointer(program[i]))
       => \A p \in {"a", "b"} : ~host[p].constant
  /\ h = [p \in {"a", "b"} |-> << >>]
  /\ appended = 0
  /\ equal = TRUE

AppendObject(t, u, v, w) ==
  /\ h' = [a |-> h["a"] \o hash_append[t][v][Context(flavor, host["a"])],
           b |-> h["b"] \o hash_append[u][w][Context(flavor, host["b"])]]
  /\ appended' = appended + 1
  /\ equal' = (equal /\ Equal[t][v][w])
  /\ UNCHANGED <<flavor, host, program>>

AppendNext ==
  /\ appended < Len(program)
  /\ LET t == program[appended + 1] IN
     \E u \in Alike(t) : \E v, w \in Objects[t] : AppendObject(t, u, v, w)

AppendSpec == AppendInit /\ [][AppendNext]_appendVars

------------------------------------------------------------------------------
(* Properties *)

(* Type invariant: a message is bytes and sums, and every digest that is   *)
(* summed is of a copy that was given something.                           *)
AppendTypeOK ==
  /\ flavor \in Flavor /\ host \in Hosts /\ program \in Program
  /\ appended \in 0 .. Len(program) /\ equal \in BOOLEAN
  /\ \A p \in {"a", "b"} : \A i \in 1 .. Len(h[p]) :
       \/ h[p][i] \in [byte : 0 .. Radix - 1]
       \/ DOMAIN h[p][i] = {"sum"} /\ << >> \notin DOMAIN h[p][i].sum

(* With a flavor that fixes the byte order, or on platforms of the same.   *)
Agreeing == flavor # "default" \/ host["a"].native = host["b"].native

(* Equal objects produce the same message (hashing_objects.adoc:27): on    *)
(* any platform, at compile time and at run time, whether or not the       *)
(* memory of an object is passed to update, in whatever order an unordered *)
(* range is iterated, for both zeroes, and whether or not a container is   *)
(* contiguous.                                                             *)
EqualObjectsAgree == (Agreeing /\ equal) => h["a"] = h["b"]

(* Different objects produce different messages (hashing_objects.adoc:28). *)
DifferentObjectsDiffer == (Agreeing /\ ~equal) => h["a"] # h["b"]

(* Of the types whose length varies, t is made of these kinds only. *)
Writes(kinds, t) ==
  \A s \in Within[t] :
    /\ s.kind \in Scalars \cup {"float"} \cup Units \cup Products \cup kinds
    /\ s.kind = "variant" => s.size = 0
SizesLast == \A i \in DOMAIN program : Writes({"vector", "list", "set", "custom"}, program[i])
TagsFirst == \A i \in DOMAIN program : Writes({"optional", "variant"}, program[i])

(* ... which holds when messages can be read from the end, as no optional  *)
(* and no variant is among the types, and when they can be read from the   *)
(* beginning, as no container is and no variant may be valueless.          *)
ReadableObjectsDiffer == (SizesLast \/ TagsFirst) => DifferentObjectsDiffer

(* An object produces a non-empty message (hashing_objects.adoc:29,        *)
(* hash_append.hpp:284, 303, 337, 434): what is appended is longer, and    *)
(* what was appended before is left as it was.                             *)
AppendExtends ==
  [][\A p \in {"a", "b"} :
       Len(h[p]) < Len(h'[p]) /\ SubSeq(h'[p], 1, Len(h[p])) = h[p]]_appendVars
==============================================================================
