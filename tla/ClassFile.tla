----------------------------- MODULE ClassFile ------------------------------
(***************************************************************************)
(* What a class file says: constants that are known by an index, of which  *)
(* longs and doubles take two, interfaces, fields and methods with their   *)
(* attributes.  A member is its name, its type and its attributes; flags   *)
(* and version numbers are left out of the class, and zero in the file.    *)
(***************************************************************************)
EXTENDS Integers, Sequences, SequencesExt

CONSTANT Null    \* no value: a null pointer

ASSUME NullAssumption == Null \notin Seq(Nat)

Byte == 256

CONSTANT_UTF8    == 1
CONSTANT_INTEGER == 3
CONSTANT_FLOAT   == 4
CONSTANT_LONG    == 5
CONSTANT_DOUBLE  == 6
CONSTANT_CLASS   == 7
CONSTANT_STRING_REF    == 8
CONSTANT_FIELD_REF     == 9
CONSTANT_METHOD_REF    == 10
CONSTANT_INTERFACE_REF == 11
CONSTANT_NAME_AND_TYPE == 12

Tags == (1 .. 12) \ {2}
Wide == {CONSTANT_LONG, CONSTANT_DOUBLE}
Pair == CONSTANT_FIELD_REF .. CONSTANT_NAME_AND_TYPE

-----------------------------------------------------------------------------
(***************************************************************************)
(* What a class is made of.  The tag of a constant that is no string says  *)
(* how many bytes it has.                                                  *)
(***************************************************************************)
BytesOf(tag) ==
  CASE tag \in Wide -> 8
    [] tag \in {CONSTANT_CLASS, CONSTANT_STRING_REF} -> 2
    [] OTHER -> 4

AConstant ==
  {c \in [tag : Nat, bytes : Seq(Nat)] :
     c.tag \in Tags \ {CONSTANT_UTF8} => Len(c.bytes) = BytesOf(c.tag)}
AnAttribute == [name : Nat, info : Seq(Nat)]
AMember     == [name : Nat, type : Nat, attributes : Seq(AnAttribute)]

IsClass(c) ==
  /\ c.constants \in Seq(AConstant) /\ c.interfaces \in Seq(Nat)
  /\ c.fields \in Seq(AMember) /\ c.methods \in Seq(AMember)

-----------------------------------------------------------------------------
(***************************************************************************)
(* The bytes of the file.                                                  *)
(***************************************************************************)
U2(n) == <<n \div Byte, n % Byte>>
U4(n) == U2(n \div (Byte * Byte)) \o U2(n % (Byte * Byte))

FileOfConstant(c) ==
  <<c.tag>> \o (IF c.tag = CONSTANT_UTF8 THEN U2(Len(c.bytes)) ELSE <<>>) \o c.bytes

FileOfAttribute(a) == U2(a.name) \o U4(Len(a.info)) \o a.info
FileOfAttributes(as) == FlattenSeq([k \in DOMAIN as |-> FileOfAttribute(as[k])])
FileOfMember(m) ==
  U2(0) \o U2(m.name) \o U2(m.type) \o U2(Len(m.attributes)) \o FileOfAttributes(m.attributes)

IndicesOf(c)   == IF c.tag \in Wide THEN 2 ELSE 1
IndexIn(cs, k) ==
  LET index[n \in 1 .. Len(cs) + 1] ==
        IF n = 1 THEN 1 ELSE index[n - 1] + IndicesOf(cs[n - 1])
  IN  index[k]

FileOfConstants(cs) == FlattenSeq([k \in DOMAIN cs |-> FileOfConstant(cs[k])])
FileOfMembers(ms)   == FlattenSeq([k \in DOMAIN ms |-> FileOfMember(ms[k])])

Header(class) == U4(0) \o U2(0) \o U2(0) \o U2(IndexIn(class.constants, Len(class.constants) + 1))
FromMethods(class)    == U2(Len(class.methods)) \o FileOfMembers(class.methods)
FromFields(class)     == U2(Len(class.fields)) \o FileOfMembers(class.fields) \o FromMethods(class)
FromInterfaces(class) ==
  U2(Len(class.interfaces)) \o FlattenSeq([k \in DOMAIN class.interfaces |-> U2(class.interfaces[k])])
  \o FromFields(class)
FromAccess(class) == U2(0) \o U2(0) \o U2(0) \o FromInterfaces(class)

FileOf(class) == Header(class) \o FileOfConstants(class.constants) \o FromAccess(class)

-----------------------------------------------------------------------------
(***************************************************************************)
(* What the class has under an index.                                      *)
(***************************************************************************)
Unused == [tag |-> 0]

ConstantAt(class, index) ==
  LET at == {k \in DOMAIN class.constants : IndexIn(class.constants, k) = index}
  IN  IF at = {} THEN Unused ELSE class.constants[CHOOSE k \in at : TRUE]

Utf8At(class, index) ==
  LET c == ConstantAt(class, index) IN IF c.tag = CONSTANT_UTF8 THEN c.bytes ELSE Null

\* The first method of a name, or 0.
MethodNamed(class, name) ==
  SelectInSeq(class.methods, LAMBDA m : Utf8At(class, m.name) = name)
=============================================================================
