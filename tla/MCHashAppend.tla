---------------------------- MODULE MCHashAppend ----------------------------
(* Bytes of two values; sizes, the wider integers and floats of two bytes.  *)
EXTENDS HashAppend

Type(kind, size, parts) == [kind |-> kind, size |-> size, parts |-> parts]
Of(kind, t) == Type(kind, 0, <<t>>)

U8 == Scalar(1)
U16 == Scalar(2)
Float == Type("float", 2, << >>)
Enum == Type("enum", 2, << >>)
Monostate == Type("monostate", 0, << >>)
Tuple(types) == Type("tuple", 0, types)
Class(types) == Type("class", 0, types)
Bytes8 == Of("vector", U8)

(* What is next to each other is likely to be confused. *)
MCProgram ==
  {<<U8, U16, U8>>, <<Tuple(<< >>), U8, Class(<< >>)>>, <<Bytes8, U8>>, <<Of("vector", U16), U8>>,
   <<Bytes8, Tuple(<<U8, Bytes8>>)>>, <<Of("vector", Of("list", U8))>>,
   <<Type("carray", 2, <<Type("carray", 1, <<U8>>), Type("carray", 1, <<U8>>)>>),
     Of("list", Tuple(<< >>)), Of("vector", Type("array", 0, << >>))>>,
   <<Of("list", Class(<< >>)), Type("array", 0, <<U8>>), Monostate, Of("vector", Monostate)>>,
   <<Of("set", U16), U8>>, <<U8, Of("set", Bytes8)>>, <<Of("set", U8), Bytes8>>,
   <<Of("set", Of("set", U8))>>, <<Of("set", Class(<< >>)), U8>>,
   <<Float, Float>>, <<Type("array", 4, <<Float, Float>>)>>, <<Class(<<U8, Float>>)>>, <<Of("set", Float)>>,
   <<Type("carray", 4, <<U16, U16>>), U8>>, <<Type("array", 4, <<U16, U16>>)>>,
   <<Type("plain", 3, <<U8, U16>>)>>, <<Of("vector", Type("plain", 2, <<U16>>))>>,
   <<Type("plain", 1, <<U8>>), Enum, Type("enum", 1, << >>)>>,
   <<Type("pointer", 2, << >>), Type("nullptr", 2, << >>), U8>>,
   <<Of("vector", Enum)>>, <<Bytes8, Of("custom", U8)>>, <<Of("custom", U16), U8>>,
   <<Class(<<U8, Of("custom", U8)>>), Of("set", Type("enum", 1, << >>))>>,
   <<Of("optional", U8), Of("optional", U16), U8>>, <<Of("optional", Of("optional", U8)), U16>>,
   <<Type("variant", 0, <<Monostate, U16>>), Type("variant", 0, <<U8, U8>>)>>,
   <<Type("variant", 1, <<U8, U16>>), U8>>, <<Of("vector", Of("optional", U8))>>}

(* Sizes are read from the end, optionals from the beginning. *)
MCMixed == {<<Bytes8, Of("optional", U8)>>}

(* What the types of the programs are made of, and the containers that are *)
(* appended like them.                                                     *)
RECURSIVE Parts(_)
Parts(types) ==
  LET more == types \cup UNION {{t.parts[i] : i \in DOMAIN t.parts} : t \in types} IN
  IF more = types THEN types ELSE Parts(more)
MCTypes ==
  Parts(UNION {UNION {Alike(types[i]) : i \in DOMAIN types} : types \in MCProgram \cup MCMixed})

Host(native, constant) == [native |-> native, constant |-> constant]
MCHosts ==
  {[a |-> Host("little", FALSE), b |-> x] :
     x \in {Host("little", FALSE), Host("little", TRUE), Host("big", FALSE), Host("big", TRUE)}}
==============================================================================
