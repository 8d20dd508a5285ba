-------------------------------- MODULE Fnv1a ---------------------------------
(***************************************************************************)
(* fnv1a_32 and fnv1a_64 (fnv1a.hpp), on words narrow enough to compute    *)
(* with, and integers made of their results (get_integral_result.hpp).     *)
(* The objects are of one type and are given the same calls, so that what  *)
(* sets them apart is only how they were constructed.                      *)
(*                                                                         *)
(* ByteShifted (the product as a sum of shifts, without the word itself),  *)
(* AdvanceNot and draw_once are slips of the definition after each, which  *)
(* the properties must tell from it.                                       *)
(***************************************************************************)
EXTENDS IntegralResult

CONSTANTS
  Algorithm,   (* the classes looked at                                    *)
  Size,        (* of each, the bytes of its word: 4 and 8                  *)
  basis,       (* of each, the word an object starts from                  *)
  prime,       (* of each, what words are multiplied by                    *)
  XorByte(_, _), (* exclusive or of a word and a byte                        *)
  Object,      (* the objects                                              *)
  Seed,        (* the integers a caller may construct with                 *)
  Key,         (* the byte sequences a caller may construct with           *)
  Input,       (* the byte sequences a caller may pass to update           *)
  MaxBytes     (* bound: bytes passed to update, and results               *)

Radix   == Values(1)
Byte    == 0 .. Radix - 1
Word(a) == 0 .. Values(Size[a]) - 1

(* The primes of both classes are 3 modulo 4, and no odd number is a zero  *)
(* divisor of a power of two.                                              *)
ASSUME WordAssumption ==
  /\ Algorithm \subseteq {"fnv1a_32", "fnv1a_64"} /\ Size \in [Algorithm -> {4, 8}]
  /\ Radix \in Nat /\ Radix % 4 = 0
  /\ \A a \in Algorithm :
       /\ Values(Size[a]) \in Nat /\ Values(Size[a]) % Radix = 0 /\ Values(Size[a]) > 0
       /\ basis[a] \in Word(a)
       /\ prime[a] \in Nat /\ prime[a] % 4 = 3
       /\ \E i \in Word(a) : (prime[a] * i) % Values(Size[a]) = 1
ASSUME XorAssumption ==
  \A a \in Algorithm : \A x \in Word(a), b \in Byte :
    /\ XorByte(x, b) \in Word(a) /\ XorByte(XorByte(x, b), b) = x
    /\ XorByte(x, Radix - 1) = x - 2 * (x % Radix) + (Radix - 1)
ASSUME CallAssumption ==
  Key \subseteq Seq(Byte) /\ Input \subseteq Seq(Byte) /\ Seed \subseteq Nat

VARIABLES
  alg,      (* the class of the objects                                    *)
  st,       (* st_ of each object                                          *)
  start,    (* history: st_ of each as construction left it                *)
  fed,      (* history: the bytes passed to update, and one for a result   *)
  drawn,    (* history: of each object, the results since the last byte    *)
  made      (* the last integer made of results, its size and of how many  *)

vars == <<alg, st, start, fed, drawn, made>>

------------------------------------------------------------------------------
(* An object of class a, by its word s *)

ByteShifted(a, s, b) == (XorByte(s, b) * (prime[a] - 1)) % Values(Size[a])
TakeByte(a, s, b) == (XorByte(s, b) * prime[a]) % Values(Size[a])

update(a, s, p) ==
  LET w[i \in 0 .. Len(p)] == IF i = 0 THEN s ELSE TakeByte(a, w[i - 1], p[i])
  IN  w[Len(p)]

AdvanceNot(a, s) == (s * prime[a]) % Values(Size[a])
advance(a, s) == (XorByte(s, Radix - 1) * prime[a]) % Values(Size[a])

(* write32le, write64le *)
write_le(k, v) == [i \in 1 .. k |-> (v \div Values(i - 1)) % Radix]

seeded(a, seed) == IF seed = 0 THEN basis[a] ELSE update(a, basis[a], write_le(8, seed))

keyed(a, p) ==
  IF p = << >> THEN basis[a] ELSE update(a, update(a, basis[a], p), write_le(4, Len(p)))

(* The words k calls of result go through; the last is the one they leave. *)
draw_once(a, s, k) == [i \in 0 .. k |-> IF i < k THEN s ELSE advance(a, s)]
draw(a, s, k) ==
  LET w[i \in 0 .. k] == IF i = 0 THEN s ELSE advance(a, w[i - 1]) IN w

------------------------------------------------------------------------------
(* The specification *)

NotMade == [size |-> 0, calls |-> 0, value |-> [o \in Object |-> 0]]

Init ==
  /\ alg \in Algorithm
  /\ st \in [Object -> {seeded(alg, n) : n \in Seed} \cup {keyed(alg, p) : p \in Key}]
  /\ start = st
  /\ fed = << >>
  /\ drawn = [o \in Object |-> << >>]
  /\ made = NotMade

Update(p) ==
  /\ Len(fed) + Len(p) <= MaxBytes
  /\ st' = [o \in Object |-> update(alg, st[o], p)]
  /\ fed' = fed \o p
  /\ drawn' = IF p = << >> THEN drawn ELSE [o \in Object |-> << >>]
  /\ UNCHANGED <<alg, start, made>>

(* k calls of result *)
Draw(k) ==
  /\ Len(fed) + k <= MaxBytes
  /\ st' = [o \in Object |-> draw(alg, st[o], k)[k]]
  /\ fed' = fed \o [i \in 1 .. k |-> Radix - 1]
  /\ drawn' = [o \in Object |-> drawn[o] \o [i \in 1 .. k |-> draw(alg, st[o], k)[i - 1]]]
  /\ UNCHANGED <<alg, start>>

Result == Draw(1) /\ UNCHANGED made

get_integral_result(T) ==
  LET k == Calls(Size[alg], T) IN
  /\ Draw(k)
  /\ made' = [size |-> T, calls |-> k,
              value |-> [o \in Object |->
                           integral(Size[alg], T,
                                    [i \in 1 .. k |-> draw(alg, st[o], k)[i - 1]])]]

Next ==
  \/ \E p \in Input : Update(p)
  \/ Result
  \/ \E T \in IntegralSizes : get_integral_result(T)

Spec == Init /\ [][Next]_vars

------------------------------------------------------------------------------
(* Properties *)

(* Type invariant; in particular every word stays one of its class.        *)
TypeOK ==
  /\ alg \in Algorithm
  /\ st \in [Object -> Word(alg)] /\ start \in [Object -> Word(alg)]
  /\ fed \in Seq(Byte)
  /\ drawn \in [Object -> Seq(Word(alg))]
  /\ \A o \in Object : made.size = 0 \/ made.value[o] \in 0 .. Values(made.size) - 1

(* A result advances the state "as if by update( "\xFF", 1 )"              *)
(* (fnv1a.hpp:101), and the way the bytes are split does not matter        *)
(* (hashing_bytes.adoc:122): an object is what one update with all of them *)
(* makes of it.                                                            *)
AsOneUpdate == \A o \in Object : st[o] = update(alg, start[o], fed)

(* Objects that differ differ for ever when they are given the same calls: *)
(* neither a byte nor a result loses anything of the state, so a seed is   *)
(* never forgotten.                                                        *)
StatesStayApart ==
  [][\A o, p \in Object : st[o] # st[p] => st'[o] # st'[p]]_vars

(* result gives "a sequence of distinct values" (fnv1a.hpp:102): from any  *)
(* state whatever, four results in a row differ, for the two low bits of   *)
(* the state count them.                                                   *)
ResultsDiffer ==
  \A o \in Object : \A i, j \in 1 .. Len(drawn[o]) :
    i < j /\ j < i + 4 => drawn[o][i] # drawn[o][j]

(* An integer wider than a result does not repeat itself: its parts are    *)
(* different results (get_integral_result.hpp:95).                         *)
PartsDiffer ==
  LET part(v, i) == (v \div Values(Size[alg] * i)) % Values(Size[alg]) IN
  made.calls > 1 =>
    \A o \in Object : \A i, j \in 0 .. made.calls - 1 :
      i # j => part(made.value[o], i) # part(made.value[o], j)

(* As many results r of class a lead to one integer t of T bytes as to     *)
(* another; UniformSizes are, of each class, the sizes of which it is so.  *)
Uniform(a, T) ==
  LET one == [r \in Word(a) |-> integral(Size[a], T, <<r>>)] IN
  \A t \in 0 .. Values(T) - 1 :
    Cardinality({r \in Word(a) : one[r] = t}) = Values(Size[a] - T)
UniformSizes == [a \in Algorithm |-> {T \in IntegralSizes : T < Size[a] /\ Uniform(a, T)}]

(* A narrower integer made of a result takes each of its values for        *)
(* equally many results, as "approximately uniformly distributed over the  *)
(* possible values of T" asks (doc/hash2/reference/                        *)
(* get_integral_result.adoc:35).                                           *)
ContractionsAreUniform ==
  \A T \in IntegralSizes : T < Size[alg] => T \in UniformSizes[alg]
==============================================================================
