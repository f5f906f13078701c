------------------------------ MODULE DexFile -------------------------------
(***************************************************************************)
(* What a dex file says, and its bytes.                                    *)
(*                                                                         *)
(* A string is the number of its characters and its bytes; a prototype has *)
(* the types of its parameters; a class has four lists of members, or Null *)
(* when it has none: static fields, instance fields, direct and virtual    *)
(* methods, each with its id, ascending in its list.  The code of an       *)
(* abstract or native method is Null.                                      *)
(***************************************************************************)
EXTENDS Integers, Sequences, SequencesExt

CONSTANT Null

HeaderSize == 112
TYPE_TYPE_LIST == 4097
TYPE_STRING_DATA_ITEM == 8194

-----------------------------------------------------------------------------
(***************************************************************************)
(* What a file is made of.                                                 *)
(***************************************************************************)
MaxShort == 65535
MaxCount == 2147483647
Short == 0 .. MaxShort
Count == 0 .. MaxCount

AString == {s \in [chars : Count, bytes : Seq(1 .. 255)] : s.chars <= Len(s.bytes)}
AProto  == [shorty : Count, return : Count, types : Seq(Short)]
AnId    == [class : Short, type : Short, name : Count]
ACode   == [registers : Short, ins : Short, insns : Seq(Short)]
AField  == [id : Count, flags : Count]
AMethod == [id : Count, flags : Count, code : {Null} \cup ACode]

Ascending(ms) == \A k \in 2 .. Len(ms) : ms[k - 1].id < ms[k].id

IsClass(c) ==
  /\ c.class \in Count /\ c.super \in Count
  /\ c.lists # Null =>
       /\ c.lists[1] \in Seq(AField) /\ c.lists[2] \in Seq(AField)
       /\ c.lists[3] \in Seq(AMethod) /\ c.lists[4] \in Seq(AMethod)
       /\ \A l \in 1 .. 4 : Len(c.lists[l]) \in Count /\ Ascending(c.lists[l])

\* No two strings, types or classes are the same.
Distinct(dex) ==
  /\ \A j, k \in DOMAIN dex.strings : dex.strings[j].bytes = dex.strings[k].bytes => j = k
  /\ \A j, k \in DOMAIN dex.types : dex.types[j] = dex.types[k] => j = k
  /\ \A j, k \in DOMAIN dex.classes : dex.classes[j].class = dex.classes[k].class => j = k

-----------------------------------------------------------------------------
(***************************************************************************)
(* Numbers, the least significant byte first, and items.                   *)
(***************************************************************************)
U2(n) == <<n % 256, n \div 256>>
U4(n) == U2(n % 65536) \o U2(n \div 65536)

\* Seven bits to a byte.
Low(n) == 128 + (n % 128)
Uleb(n) ==
  IF n < 128 THEN <<n>>
  ELSE IF n < 16384 THEN <<Low(n), n \div 128>>
  ELSE IF n < 2097152 THEN <<Low(n), Low(n \div 128), n \div 16384>>
  ELSE IF n < 268435456 THEN <<Low(n), Low(n \div 128), Low(n \div 16384), n \div 2097152>>
  ELSE <<Low(n), Low(n \div 128), Low(n \div 16384), Low(n \div 2097152), n \div 268435456>>

U2s(s) == FlattenSeq([k \in DOMAIN s |-> U2(s[k])])

StringItem(s) == Uleb(s.chars) \o s.bytes \o <<0>>
TypeList(ts)  == IF ts = <<>> THEN <<>> ELSE U4(Len(ts)) \o U2s(ts)
CodeItem(m)   ==
  IF m.code = Null THEN <<>>
  ELSE U2(m.code.registers) \o U2(m.code.ins) \o U2(0) \o U2(0) \o U4(0)
       \o U4(Len(m.code.insns)) \o U2s(m.code.insns)

\* Where the item k of a sequence is that starts at an offset; 0 if it is empty.
OffsetOf(start, items, k) ==
  IF items[k] = <<>> THEN 0 ELSE start + Len(FlattenSeq(SubSeq(items, 1, k - 1)))

-----------------------------------------------------------------------------
(***************************************************************************)
(* The code of a class that starts at an offset, then its data.            *)
(***************************************************************************)
\* An id is written as its difference to the one before it in the list.
Diff(ms, k) == IF k = 1 THEN ms[1].id ELSE ms[k].id - ms[k - 1].id

MethodsOf(c) == c.lists[3] \o c.lists[4]
CodesOf(c)   == [k \in DOMAIN MethodsOf(c) |-> CodeItem(MethodsOf(c)[k])]

\* Which method of the class the method k of list l is.
NumberOf(c, l, k) == IF l = 4 THEN Len(c.lists[3]) + k ELSE k

MemberItem(start, c, l, k) ==
  LET m == c.lists[l][k]
  IN  Uleb(Diff(c.lists[l], k)) \o Uleb(m.flags)
      \o IF l <= 2 THEN <<>> ELSE Uleb(OffsetOf(start, CodesOf(c), NumberOf(c, l, k)))
MemberItems(start, c, l) == [k \in DOMAIN c.lists[l] |-> MemberItem(start, c, l, k)]

SizesOf(c) == Uleb(Len(c.lists[1])) \o Uleb(Len(c.lists[2]))
              \o Uleb(Len(c.lists[3])) \o Uleb(Len(c.lists[4]))

ClassItem(start, c) ==
  IF c.lists = Null THEN <<>>
  ELSE FlattenSeq(CodesOf(c)) \o SizesOf(c)
       \o FlattenSeq(MemberItems(start, c, 1)) \o FlattenSeq(MemberItems(start, c, 2))
       \o FlattenSeq(MemberItems(start, c, 3)) \o FlattenSeq(MemberItems(start, c, 4))

ClassDataOff(start, c) == IF c.lists = Null THEN 0 ELSE start + Len(FlattenSeq(CodesOf(c)))

-----------------------------------------------------------------------------
(***************************************************************************)
(* The file: header, tables of ids, data, the map at the end.              *)
(***************************************************************************)
StringItems(dex) == [k \in DOMAIN dex.strings |-> StringItem(dex.strings[k])]
TypeLists(dex)   == [k \in DOMAIN dex.protos |-> TypeList(dex.protos[k].types)]

TypesOff(dex)   == HeaderSize + 4 * Len(dex.strings)
ProtosOff(dex)  == TypesOff(dex) + 4 * Len(dex.types)
FieldsOff(dex)  == ProtosOff(dex) + 12 * Len(dex.protos)
MethodsOff(dex) == FieldsOff(dex) + 8 * Len(dex.fields)
ClassesOff(dex) == MethodsOff(dex) + 8 * Len(dex.methods)
DataOff(dex)    == ClassesOff(dex) + 32 * Len(dex.classes)
ListsOff(dex)   == DataOff(dex) + Len(FlattenSeq(StringItems(dex)))
ItemsOff(dex)   == ListsOff(dex) + Len(FlattenSeq(TypeLists(dex)))

\* Where the items of each class start, one behind the other.
Starts(dex) ==
  LET start[c \in 1 .. Len(dex.classes) + 1] ==
        IF c = 1 THEN ItemsOff(dex)
        ELSE LET before == start[c - 1]
             IN  before + Len(ClassItem(before, dex.classes[c - 1]))
  IN  start
ClassItems(dex) == [c \in DOMAIN dex.classes |-> ClassItem(Starts(dex)[c], dex.classes[c])]
MapOff(dex)     == Starts(dex)[Len(dex.classes) + 1]

ProtoEntry(dex, k) ==
  U4(dex.protos[k].shorty) \o U4(dex.protos[k].return)
  \o U4(OffsetOf(ListsOff(dex), TypeLists(dex), k))
IdEntry(m) == U2(m.class) \o U2(m.type) \o U4(m.name)
ClassEntry(dex, c) ==
  U4(dex.classes[c].class) \o U4(1) \o U4(dex.classes[c].super) \o U4(0) \o U4(0) \o U4(0)
  \o U4(ClassDataOff(Starts(dex)[c], dex.classes[c])) \o U4(0)

\* The tables, entry by entry.
StringIds(dex) == [k \in DOMAIN dex.strings |-> U4(OffsetOf(DataOff(dex), StringItems(dex), k))]
TypeIds(dex)   == [k \in DOMAIN dex.types |-> U4(dex.types[k])]
ProtoIds(dex)  == [k \in DOMAIN dex.protos |-> ProtoEntry(dex, k)]
FieldIds(dex)  == [k \in DOMAIN dex.fields |-> IdEntry(dex.fields[k])]
MethodIds(dex) == [k \in DOMAIN dex.methods |-> IdEntry(dex.methods[k])]
ClassDefs(dex) == [c \in DOMAIN dex.classes |-> ClassEntry(dex, c)]

MapItem(type, size, offset) == U2(type) \o U2(0) \o U4(size) \o U4(offset)
MapList(dex) ==
  LET strings == MapItem(TYPE_STRING_DATA_ITEM, Len(dex.strings), DataOff(dex))
  IN  IF FlattenSeq(TypeLists(dex)) = <<>> THEN U4(1) \o strings
      ELSE U4(2) \o MapItem(TYPE_TYPE_LIST, Len(dex.protos), ListsOff(dex)) \o strings

FileOf(dex) ==
  [header |->
     [mapOff |-> MapOff(dex),
      stringIdsSize |-> Len(dex.strings), stringIdsOff |-> HeaderSize,
      typeIdsSize   |-> Len(dex.types),   typeIdsOff   |-> TypesOff(dex),
      protoIdsSize  |-> Len(dex.protos),  protoIdsOff  |-> ProtosOff(dex),
      fieldIdsSize  |-> Len(dex.fields),  fieldIdsOff  |-> FieldsOff(dex),
      methodIdsSize |-> Len(dex.methods), methodIdsOff |-> MethodsOff(dex),
      classDefsSize |-> Len(dex.classes), classDefsOff |-> ClassesOff(dex),
      dataSize |-> MapOff(dex) + Len(MapList(dex)) - DataOff(dex), dataOff |-> DataOff(dex)],
   buf |->
     FlattenSeq(StringIds(dex)) \o FlattenSeq(TypeIds(dex)) \o FlattenSeq(ProtoIds(dex))
     \o FlattenSeq(FieldIds(dex)) \o FlattenSeq(MethodIds(dex)) \o FlattenSeq(ClassDefs(dex))
     \o FlattenSeq(StringItems(dex)) \o FlattenSeq(TypeLists(dex)) \o FlattenSeq(ClassItems(dex))
     \o MapList(dex)]

-----------------------------------------------------------------------------
\* A file that the Dalvik tools write: ids and types are of its tables, and
\* every offset is a number of four bytes.
IsDex(dex) ==
  /\ dex.strings \in Seq(AString) /\ dex.types \in Seq(Count) /\ dex.protos \in Seq(AProto)
  /\ dex.fields \in Seq(AnId) /\ dex.methods \in Seq(AnId)
  /\ DOMAIN dex.classes = 1 .. Len(dex.classes) /\ Len(dex.classes) \in Nat
  /\ \A c \in DOMAIN dex.classes : IsClass(dex.classes[c])
  /\ Distinct(dex)
  /\ \A k \in DOMAIN dex.types : dex.types[k] < Len(dex.strings)
  /\ \A k \in DOMAIN dex.methods : dex.methods[k].type < Len(dex.protos)
  /\ HeaderSize + Len(FileOf(dex).buf) \in Count
=============================================================================
