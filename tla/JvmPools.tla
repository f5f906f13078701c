------------------------------ MODULE JvmPools ------------------------------
(***************************************************************************)
(* simple_jvm from the class file to the code of <init>: the parsers, one  *)
(* step per entry that they read, the pools that they fill, the look-ups,  *)
(* what executeMethod takes out of the attributes, free_pools.             *)
(*                                                                         *)
(* A value in a pool is its bytes, the most significant one first.  The    *)
(* parser never looks at what fread returns; of a read past the end of the *)
(* file, of an access past a pool or an attribute and of a null pointer    *)
(* nothing more is said than that the program is lost.                     *)
(***************************************************************************)
EXTENDS ClassFile, FiniteSets

CONSTANTS
  Classes,             \* the classes whose files are parsed
  Cap,                 \* entries of the pool of each tag (200, 100)
  MemberCap,           \* entries of each other pool (100)
  InitName, CodeName   \* the bytes of "<init>" and "Code"

ASSUME ClassAssumption == \A c \in Classes : IsClass(c)
ASSUME CapAssumption == Cap \in [Tags -> Nat] /\ MemberCap \in Nat
ASSUME NameAssumption == InitName \in Seq(Nat) /\ CodeName \in Seq(Nat)

VARIABLES
  class, file,   \* the class, and the bytes of its file
  pos,           \* bytes read
  stage,         \* what is parsed, "main", "execute", "end" or "lost"
  i, count,      \* of the loop in the present parser
  todo,          \* attributes of the present member still to be parsed
  cp,            \* simpleConstantPool: a sequence for each tag
  interfaces, fields, methods,   \* the other pools
  init,          \* the method that main found, or 0
  ran            \* the code that executeMethod ran

pools == <<cp, interfaces, fields, methods>>
input == <<class, file>>
vars  == <<input, pos, stage, i, count, todo, pools, init, ran>>

-----------------------------------------------------------------------------
(***************************************************************************)
(* Reading.                                                                *)
(***************************************************************************)
Has(n)      == pos + n <= Len(file)
Bytes(k, n) == SubSeq(file, pos + k, pos + k + n - 1)
Number2(bs) == bs[1] * Byte + bs[2]
Number4(bs) == ((bs[1] * Byte + bs[2]) * Byte + bs[3]) * Byte + bs[4]
Short(k)    == Number2(Bytes(k, 2))

\* Mutant: a double of four bytes.
tag_additional_byte_size_Double4 == <<2, 0, 4, 4, 8, 4, 2, 2, 4, 4, 4, 4>>
tag_additional_byte_size == <<2, 0, 4, 4, 8, 8, 2, 2, 4, 4, 4, 4>>

\* The length of an attribute: a field's repeats its first byte as its last.
FieldAttrLength  == Number4(<<file[pos + 3], file[pos + 4], file[pos + 5], file[pos + 3]>>)
\* Mutant: so does a method's.
MethodAttrLength_LikeAField == FieldAttrLength
MethodAttrLength == Number4(Bytes(3, 4))

Parsing == {"header", "constants", "interfaces", "fields", "methods"}
Looping == i < count \/ todo > 0

\* How many bytes the next step reads, as far as they can be known.
Needs ==
  CASE stage = "header" -> 10
    [] stage = "constants" /\ i >= count -> 8
    [] stage = "constants" /\ i < count ->
         IF ~Has(1) THEN 1
         ELSE IF file[pos + 1] \notin Tags THEN 1
         ELSE IF file[pos + 1] = CONSTANT_UTF8 /\ Has(3) THEN 3 + Short(2)
         ELSE 1 + tag_additional_byte_size[file[pos + 1]]
    [] stage = "interfaces" -> 2
    [] stage = "fields" /\ todo > 0 -> IF Has(6) THEN 6 + FieldAttrLength ELSE 6
    [] stage = "methods" /\ todo > 0 -> IF Has(6) THEN 6 + MethodAttrLength ELSE 6
    [] stage \in {"fields", "methods"} /\ todo = 0 /\ i < count -> 8
    [] stage = "fields" /\ ~Looping -> 2
    [] OTHER -> 0

\* Whether the entry that it writes is within its pool.
Room ==
  CASE stage = "constants" /\ i < count /\ file[pos + 1] \in Tags ->
         Len(cp[file[pos + 1]]) < Cap[file[pos + 1]]
    [] stage = "interfaces" /\ i < count -> Len(interfaces) < MemberCap
    [] stage = "fields" /\ todo = 0 /\ i < count -> Len(fields) < MemberCap
    [] stage = "methods" /\ todo = 0 /\ i < count -> Len(methods) < MemberCap
    [] OTHER -> TRUE

Reads == stage \in Parsing /\ Has(Needs) /\ Room /\ pos' = pos + Needs

Lost == stage' = "lost" /\ UNCHANGED <<input, pos, i, count, todo, pools, init, ran>>

ReadsAstray == stage \in Parsing /\ ~(Has(Needs) /\ Room) /\ Lost

Init ==
  /\ class \in Classes /\ file = FileOf(class)
  /\ pos = 0 /\ stage = "header" /\ i = 0 /\ count = 0 /\ todo = 0
  /\ cp = [tag \in Tags |-> <<>>] /\ interfaces = <<>> /\ fields = <<>> /\ methods = <<>>
  /\ init = 0 /\ ran = <<>>

-----------------------------------------------------------------------------
(***************************************************************************)
(* parseJavaClassFile between the pools: each step reads a count and       *)
(* starts a loop.                                                          *)
(***************************************************************************)
Section(from, to, n, first) ==
  /\ stage = from /\ ~Looping /\ Reads
  /\ stage' = to /\ count' = n /\ i' = first
  /\ UNCHANGED <<input, todo, pools, init, ran>>

ParseHeader    == Section("header", "constants", Short(9), 1)
ParseClassInfo == Section("constants", "interfaces", Short(7), 1)
ParseFieldsCount  == Section("interfaces", "fields", Short(1), 0)
ParseMethodsCount == Section("fields", "methods", Short(1), 0)
EndOfFile      == Section("methods", "main", 0, 0)

-----------------------------------------------------------------------------
(***************************************************************************)
(* parseConstantPool.                                                      *)
(***************************************************************************)
ParseCP(tag, value, indices) ==
  /\ stage = "constants" /\ i < count /\ Reads /\ file[pos + 1] = tag
  /\ cp' = [cp EXCEPT ![tag] = Append(@, [index |-> i, value |-> value])]
  /\ i' = i + indices
  /\ UNCHANGED <<input, stage, count, todo, interfaces, fields, methods, init, ran>>

parseCPString  == ParseCP(CONSTANT_UTF8, Bytes(4, Short(2)), 1)
parseCPInteger == ParseCP(CONSTANT_INTEGER, Bytes(2, 4), 1)

\* The bits of the float, taken for an int, are converted.
parseCPFloat   == ParseCP(CONSTANT_FLOAT, [float_of |-> Bytes(2, 4)], 1)

\* memcpy: the first byte of the file is the least significant one.
parseCPLong    == ParseCP(CONSTANT_LONG, Reverse(Bytes(2, 8)), 2)

\* Mutant: a double that is not turned round.
parseCPDouble_Unturned == ParseCP(CONSTANT_DOUBLE, Reverse(Bytes(2, 8)), 2)

\* tmp2 is turned round first.
parseCPDouble  == LET tmp2 == Reverse(Bytes(2, 8))
                  IN  ParseCP(CONSTANT_DOUBLE, Reverse(tmp2), 2)

parseCPRef == \E tag \in {CONSTANT_CLASS, CONSTANT_STRING_REF} : ParseCP(tag, <<Short(2)>>, 1)
parseCPPair == \E tag \in Pair : ParseCP(tag, <<Short(2), Short(4)>>, 1)

\* Mutant: the loop waits for a tag that it knows.
UnknownTag_SameIndex ==
  /\ stage = "constants" /\ i < count /\ Has(1) /\ file[pos + 1] \notin Tags
  /\ UNCHANGED vars

\* fseek back to the tag: the loop finds it again with the next index.
UnknownTag ==
  /\ stage = "constants" /\ i < count /\ Has(1) /\ file[pos + 1] \notin Tags
  /\ i' = i + 1
  /\ UNCHANGED <<input, pos, stage, count, todo, pools, init, ran>>

-----------------------------------------------------------------------------
(***************************************************************************)
(* The interfaces, whose loop starts at 1; fields and methods.             *)
(***************************************************************************)
parseIPClass ==
  /\ stage = "interfaces" /\ i < count /\ Reads
  /\ interfaces' = Append(interfaces, [index |-> 1, value |-> <<Short(1)>>])
  /\ i' = i + 1
  /\ UNCHANGED <<input, stage, count, todo, cp, fields, methods, init, ran>>

Member == [name |-> Short(3), type |-> Short(5), attributes |-> <<>>]

WithAttribute(pool, length) ==
  [pool EXCEPT ![Len(pool)].attributes =
     Append(@, [name |-> Short(1), info |-> Bytes(7, length)])]

parseFP ==
  /\ stage = "fields" /\ todo = 0 /\ i < count /\ Reads
  /\ fields' = Append(fields, Member)
  /\ todo' = Short(7) /\ i' = i + 1
  /\ UNCHANGED <<input, stage, count, cp, interfaces, methods, init, ran>>

parseAttr ==
  /\ stage = "fields" /\ todo > 0 /\ Reads
  /\ fields' = WithAttribute(fields, FieldAttrLength)
  /\ todo' = todo - 1
  /\ UNCHANGED <<input, stage, i, count, cp, interfaces, methods, init, ran>>

parseMP ==
  /\ stage = "methods" /\ todo = 0 /\ i < count /\ Reads
  /\ methods' = Append(methods, Member)
  /\ todo' = Short(7) /\ i' = i + 1
  /\ UNCHANGED <<input, stage, count, cp, interfaces, fields, init, ran>>

parseMethodAttr ==
  /\ stage = "methods" /\ todo > 0 /\ Reads
  /\ methods' = WithAttribute(methods, MethodAttrLength)
  /\ todo' = todo - 1
  /\ UNCHANGED <<input, stage, i, count, cp, interfaces, fields, init, ran>>

-----------------------------------------------------------------------------
(***************************************************************************)
(* The look-ups, main and executeMethod.                                   *)
(***************************************************************************)
\* The first entry of an index.  An index without one gives the number zero,
\* or null for what is no number.
NotFound(tag) ==
  LET zero == [k \in 1 .. tag_additional_byte_size[tag] |-> 0]
  IN  CASE tag = CONSTANT_FLOAT -> [float_of |-> zero]
        [] tag \in {CONSTANT_INTEGER, CONSTANT_LONG, CONSTANT_DOUBLE} -> zero
        [] OTHER -> Null

Find(tag, index) ==
  LET n == SelectInSeq(cp[tag], LAMBDA c : c.index = index)
  IN  IF n = 0 THEN NotFound(tag) ELSE cp[tag][n].value

findUTF8(index) == Find(CONSTANT_UTF8, index)

\* main looks for <init>; a method whose name is not found is a null pointer.
Unnamed == SelectInSeq(methods, LAMBDA m : findUTF8(m.name) = Null)
FoundAt == SelectInSeq(methods, LAMBDA m : findUTF8(m.name) = InitName)
Crashes == Unnamed # 0 /\ (FoundAt = 0 \/ Unnamed < FoundAt)

findMethodInPool ==
  /\ stage = "main"
  /\ \/ /\ ~Crashes
        /\ init' = FoundAt /\ i' = 1
        /\ stage' = "execute"
        /\ UNCHANGED <<input, pos, count, todo, pools, ran>>
     \/ Crashes /\ Lost

Attributes == IF init = 0 THEN <<>> ELSE methods[init].attributes

\* Every attribute is taken for a code attribute before its name is looked at:
\* what code_length says must be within it.
CodeLength(info)    == Number4(SubSeq(info, 5, 8))
IsCodeLike(info)    == Len(info) >= 8 /\ 8 + CodeLength(info) <= Len(info)
convertToCodeAttribute(info) == SubSeq(info, 9, 8 + CodeLength(info))

\* Mutant: the name of the attribute is not looked at.
executeMethod_AnyAttribute ==
  /\ stage = "execute" /\ i <= Len(Attributes) /\ IsCodeLike(Attributes[i].info)
  /\ ran' = Append(ran, convertToCodeAttribute(Attributes[i].info)) /\ i' = i + 1
  /\ UNCHANGED <<input, pos, stage, count, todo, pools, init>>

\* One turn of the loop over the attributes: code runs, and the loop goes on.
executeMethod ==
  /\ stage = "execute" /\ i <= Len(Attributes)
  /\ LET attr == Attributes[i]
         name == findUTF8(attr.name)
     IN  \/ /\ IsCodeLike(attr.info)
            /\ ran' = IF name # Null /\ IsPrefix(CodeName, name)
                      THEN Append(ran, convertToCodeAttribute(attr.info)) ELSE ran
            /\ i' = i + 1
            /\ UNCHANGED <<input, pos, stage, count, todo, pools, init>>
         \/ ~IsCodeLike(attr.info) /\ Lost

\* Mutant: the pool is emptied, although init still points into it.
free_pools_Empties ==
  /\ stage = "execute" /\ i > Len(Attributes)
  /\ methods' = <<>> /\ stage' = "end"
  /\ UNCHANGED <<input, pos, i, count, todo, cp, interfaces, fields, init, ran>>

\* The pool forgets its methods, not how many there are.
free_pools ==
  /\ stage = "execute" /\ i > Len(Attributes)
  /\ methods' = [k \in DOMAIN methods |-> [name |-> 0, type |-> 0, attributes |-> <<>>]]
  /\ stage' = "end"
  /\ UNCHANGED <<input, pos, i, count, todo, cp, interfaces, fields, init, ran>>

-----------------------------------------------------------------------------
Next ==
  \/ ParseHeader \/ ParseClassInfo \/ ParseFieldsCount \/ ParseMethodsCount \/ EndOfFile
  \/ parseCPString \/ parseCPInteger \/ parseCPFloat \/ parseCPLong \/ parseCPDouble
  \/ parseCPRef \/ parseCPPair \/ UnknownTag
  \/ parseIPClass \/ parseFP \/ parseAttr \/ parseMP \/ parseMethodAttr
  \/ findMethodInPool \/ executeMethod \/ free_pools
  \/ ReadsAstray

Stopped == stage \in {"end", "lost"} /\ UNCHANGED vars

\* A single thread: the program takes its next step.
Spec == Init /\ [][Next \/ Stopped]_vars /\ WF_vars(Next)

-----------------------------------------------------------------------------
(***************************************************************************)
(* Properties.                                                             *)
(***************************************************************************)
Values(tag) == IF tag = CONSTANT_FLOAT THEN [float_of : Seq(Nat)] ELSE Seq(Nat)

\* The pools stay within their arrays and the parser within the file
\* (simple_jvm.h:149-193).
TypeOK ==
  /\ stage \in Parsing \cup {"main", "execute", "end", "lost"}
  /\ pos \in 0 .. Len(file) /\ i \in Nat /\ count \in Nat /\ todo \in Nat
  /\ DOMAIN cp = Tags
  /\ \A tag \in Tags :
       cp[tag] \in Seq([index : Nat, value : Values(tag)]) /\ Len(cp[tag]) <= Cap[tag]
  /\ interfaces \in Seq([index : Nat, value : Seq(Nat)])
  /\ fields \in Seq(AMember) /\ methods \in Seq(AMember)
  /\ ran \in Seq(Seq(Nat))
  /\ Len(interfaces) <= MemberCap /\ Len(fields) <= MemberCap /\ Len(methods) <= MemberCap
  /\ init \in 0 .. Len(methods)

\* What the program can read: known tags, no more entries than the pools have,
\* no interfaces, and lengths of field attributes that end as they begin.
TagCount(tag) == Cardinality({k \in DOMAIN class.constants : class.constants[k].tag = tag})
Readable ==
  /\ \A k \in DOMAIN class.constants : class.constants[k].tag \in Tags
  /\ \A tag \in Tags : TagCount(tag) <= Cap[tag]
  /\ class.interfaces = <<>>
  /\ Len(class.fields) <= MemberCap /\ Len(class.methods) <= MemberCap
  /\ \A k \in DOMAIN class.fields : \A j \in DOMAIN class.fields[k].attributes :
       LET length == U4(Len(class.fields[k].attributes[j].info)) IN length[4] = length[1]

\* The parser is where it believes to be: what is left of the file is what is
\* left of the class, after each entry of the constant pool and after each
\* field and method (class_parser.c:55-118, constant_pool_parser.c:207-268).
Left ==
  LET parsed == Cardinality(UNION {{tag} \X DOMAIN cp[tag] : tag \in Tags})
      After(ms, k) == FileOfMembers(SubSeq(ms, k + 1, Len(ms)))
  IN  CASE stage = "header" -> file
        [] stage = "constants" ->
             FileOfConstants(SubSeq(class.constants, parsed + 1, Len(class.constants)))
             \o FromAccess(class)
        [] stage = "interfaces" -> FromFields(class)
        [] stage = "fields"  -> After(class.fields, Len(fields)) \o FromMethods(class)
        [] stage = "methods" -> After(class.methods, Len(methods))
        [] OTHER -> <<>>

InStep == Readable /\ stage # "lost" /\ todo = 0 => SubSeq(file, pos + 1, Len(file)) = Left

\* Every index finds the constant that the class has there, and no other
\* kind of look-up finds it: longs and doubles take two indices.  A long is
\* found with its bytes in reverse, a float as the float of its bits
\* (constant_pool_parser.c:270-372).
Value(c) ==
  CASE c.tag \in {CONSTANT_UTF8, CONSTANT_INTEGER, CONSTANT_DOUBLE} -> c.bytes
    [] c.tag = CONSTANT_FLOAT -> [float_of |-> c.bytes]
    [] c.tag = CONSTANT_LONG  -> Reverse(c.bytes)
    [] c.tag \in Pair -> <<Number2(SubSeq(c.bytes, 1, 2)), Number2(SubSeq(c.bytes, 3, 4))>>
    [] OTHER -> <<Number2(c.bytes)>>

FoundAsWritten ==
  Readable /\ stage \notin {"header", "constants", "lost"} =>
    \A index \in 0 .. IndexIn(class.constants, Len(class.constants) + 1), tag \in Tags :
      LET c == ConstantAt(class, index)
      IN  Find(tag, index) = IF c.tag = tag THEN Value(c) ELSE NotFound(tag)

\* What runs is the code that the class gives to its first method <init>, in a
\* class where no other name begins with "Code": only the first four bytes are
\* compared (main.c:48-61, bytecodes.c:843-913).
OneCodeName ==
  \A k \in DOMAIN class.constants :
    LET c == class.constants[k]
    IN  c.tag = CONSTANT_UTF8 /\ IsPrefix(CodeName, c.bytes) => c.bytes = CodeName

Startup == MethodNamed(class, InitName)
CodeOf(attr) ==
  IF Utf8At(class, attr.name) = CodeName THEN <<convertToCodeAttribute(attr.info)>> ELSE <<>>
CodesOf(attrs) == FlattenSeq([k \in DOMAIN attrs |-> CodeOf(attrs[k])])

RunsWrittenCode ==
  Readable /\ OneCodeName /\ stage = "end" =>
    ran = IF Startup = 0 THEN <<>> ELSE CodesOf(class.methods[Startup].attributes)

\* A readable class is lost only when a method has no name, or <init> an
\* attribute that no code attribute can be read from (bytecodes.c:859-879).
LostByLimitsOnly ==
  Readable /\ stage = "lost" =>
    \/ \E k \in DOMAIN class.methods : Utf8At(class, class.methods[k].name) = Null
    \/ /\ Startup # 0
       /\ \E k \in DOMAIN class.methods[Startup].attributes :
            ~IsCodeLike(class.methods[Startup].attributes[k].info)

\* No file keeps the parser for ever, not even one with a tag it does not know,
\* which it reads over and over (constant_pool_parser.c:261-264).
ParsingEnds == <>(stage \in {"end", "lost"})
=============================================================================
