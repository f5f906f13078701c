----------------------------- MODULE DexParser ------------------------------
(***************************************************************************)
(* simple_dvm from the dex file to simple_dvm_startup: the parsers, one    *)
(* step per table of ids, then one per class, field and method of the      *)
(* class data; the look-ups in what they filled; main.                     *)
(*                                                                         *)
(* buf is the file without its header, so every offset of the file is      *)
(* lowered by the header's size.  Of a read outside buf, of a string past  *)
(* its array and of a null table nothing more is said than that the        *)
(* program is lost.                                                        *)
(***************************************************************************)
EXTENDS DexFile, FiniteSets, FiniteSetsExt

CONSTANTS
  Dexes,      \* the dex files that are parsed
  Damages,    \* "none", "absent", "header" or "body" if that much is missing
  DataMax     \* bytes of data in a string_data_item (255)

ASSUME DexAssumption == \A d \in Dexes : IsDex(d)
ASSUME DamageAssumption == Damages \subseteq {"none", "absent", "header", "body"}
ASSUME NullAssumption ==
  /\ Null \notin Seq(Seq(Nat)) /\ Null \notin Seq(Nat) /\ Null \notin Seq(AProto)
  /\ Null \notin Seq(AnId)
  /\ Null \notin [1 .. 4 -> Seq([diff : Count, flags : Count]
                                  \cup [diff : Count, flags : Count, code : ACode])]

VARIABLES
  dex, damage, buf,     \* the file, its state, its bytes behind the header
  stage,                \* what is parsed, "startup", "run" or "lost"
  header,               \* dex->header, as much of it as was read
  string_data, type_ids, proto_ids, field_ids, method_ids,   \* Null until
  class_defs, class_data, type_list, data,                   \* they are filled
  at, left              \* i in parse_class_data_item; members left in its lists

input   == <<dex, damage, buf>>
ids     == <<string_data, type_ids, proto_ids, field_ids, method_ids>>
classes == <<class_defs, class_data, at, left>>
vars    == <<input, stage, header, ids, classes, type_list, data>>

-----------------------------------------------------------------------------
(***************************************************************************)
(* Reading buf: little endian numbers, and uleb128 of at most five bytes.  *)
(***************************************************************************)
In(o, n)     == o >= 0 /\ o + n <= Len(buf)
Bytes(o, n)  == SubSeq(buf, o + 1, o + n)
u2(o) == buf[o + 1] + 256 * buf[o + 2]
u4(o) == u2(o) + 65536 * u2(o + 2)

\* Mutant: only the first byte counts.
get_uleb128_len_First(o) == buf[o + 1] % 128

\* get_uleb128_len: the size that it stores, and its result.
UlebEnds(o) == {n \in 1 .. 5 : In(o, n) /\ buf[o + n] < 128}
UlebSize(o) == Min(UlebEnds(o))
get_uleb128_len(o) ==
  LET bits(n) == IF n <= UlebSize(o) THEN buf[o + n] % 128 ELSE 0
  IN  bits(1) + 128 * (bits(2) + 128 * (bits(3) + 128 * (bits(4) + 128 * bits(5))))

\* n of them in a row: where each starts and the last one ends, which is past
\* buf if one does not end in it.
PastUleb(o)  == IF UlebEnds(o) = {} THEN Len(buf) + 1 ELSE o + UlebSize(o)
UlebAt(o, n) == LET start[k \in 0 .. n] == IF k = 0 THEN o ELSE PastUleb(start[k - 1]) IN start
UlebsIn(o, n) == UlebAt(o, n)[n] <= Len(buf)
Ulebs(o, n)  == [k \in 1 .. n |-> get_uleb128_len(UlebAt(o, n)[k - 1])]

Lost == stage' = "lost" /\ UNCHANGED <<input, header, ids, classes, type_list, data>>

\* Where the sizes lie in the header, in four bytes each.
SizeAt == [stringIdsSize |-> 56, typeIdsSize |-> 64, protoIdsSize |-> 72, fieldIdsSize |-> 80,
           methodIdsSize |-> 88, classDefsSize |-> 96, dataSize |-> 104]
Sizes  == DOMAIN SizeAt

\* main clears the whole structure.
Init ==
  /\ dex \in Dexes /\ damage \in Damages /\ buf = FileOf(dex).buf
  /\ stage = "file" /\ header = [size \in Sizes |-> 0]
  /\ string_data = Null /\ type_ids = Null /\ proto_ids = Null /\ field_ids = Null
  /\ method_ids = Null /\ class_defs = Null /\ class_data = Null
  /\ type_list = Null /\ data = Null
  /\ at = 0 /\ left = <<0, 0, 0, 0>>

-----------------------------------------------------------------------------
(***************************************************************************)
(* parseDexFile: a file that cannot be read leaves the tables as they are, *)
(* and main does not look at the result.  Of a header of which the file    *)
(* has n bytes fread stores these n.                                       *)
(***************************************************************************)
\* v, of which so many bytes were stored over a 0.
FirstBytes(v, n) ==
  IF n <= 0 THEN 0 ELSE IF n < 4 THEN v % <<256, 65536, 16777216>>[n] ELSE v
UpTo(whole, n)   == [size \in Sizes |-> FirstBytes(whole[size], n - SizeAt[size])]

ReadFile ==
  /\ stage = "file"
  /\ LET whole == FileOf(dex).header
     IN  \/ damage \in {"none", "body"} /\ header' = whole
         \/ damage = "header" /\ \E n \in 0 .. HeaderSize - 1 : header' = UpTo(whole, n)
         \/ damage = "absent" /\ header' = header
  /\ stage' = IF damage = "none" THEN "map" ELSE "startup"
  /\ UNCHANGED <<input, ids, classes, type_list, data>>

\* Mutant: the size of a list takes two bytes.
TypeListAt_ShortSize(o) == [k \in 1 .. u4(o) |-> u2(o + 2 + 2 * (k - 1))]

TypeListAt(o) == [k \in 1 .. u4(o) |-> u2(o + 4 + 2 * (k - 1))]

\* Of several type lists in the map the last one stays.
parse_map_list ==
  /\ stage = "map" /\ stage' = "strings"
  /\ LET o       == header.mapOff - HeaderSize
         item(k) == o + 4 + 12 * (k - 1)
         typeLists == {k \in 1 .. u4(o) : u2(item(k)) = TYPE_TYPE_LIST}
     IN  type_list' = IF typeLists = {} THEN Null
                      ELSE TypeListAt(u4(item(Max(typeLists)) + 8) - HeaderSize)
  /\ UNCHANGED <<input, header, ids, classes, data>>

\* The length counts characters, strncpy bytes.
StringAt(k) == u4(header.stringIdsOff - HeaderSize + 4 * (k - 1)) - HeaderSize
StringLength(k) == get_uleb128_len(StringAt(k))

parse_string_ids ==
  /\ stage = "strings"
  /\ \/ /\ \A k \in 1 .. header.stringIdsSize : StringLength(k) <= DataMax
        /\ string_data' = [k \in 1 .. header.stringIdsSize |->
                             Bytes(StringAt(k) + UlebSize(StringAt(k)), StringLength(k))]
        /\ stage' = "types"
        /\ UNCHANGED <<input, header, type_ids, proto_ids, field_ids, method_ids,
                       classes, type_list, data>>
     \/ (\E k \in 1 .. header.stringIdsSize : StringLength(k) > DataMax) /\ Lost

\* A table of entries of some size.
Table(size, off, bytes, Entry(_)) ==
  [k \in 1 .. size |-> Entry(off - HeaderSize + bytes * (k - 1))]

parse_type_ids ==
  /\ stage = "types" /\ stage' = "protos"
  /\ type_ids' = Table(header.typeIdsSize, header.typeIdsOff, 4, u4)
  /\ UNCHANGED <<input, header, string_data, proto_ids, field_ids, method_ids,
                 classes, type_list, data>>

parse_proto_ids ==
  /\ stage = "protos" /\ stage' = "fields"
  /\ LET Entry(o) == [shorty |-> u4(o), return |-> u4(o + 4),
                      types |-> IF u4(o + 8) = 0 THEN <<>> ELSE TypeListAt(u4(o + 8) - HeaderSize)]
     IN  proto_ids' = Table(header.protoIdsSize, header.protoIdsOff, 12, Entry)
  /\ UNCHANGED <<input, header, string_data, type_ids, field_ids, method_ids,
                 classes, type_list, data>>

MemberId(o) == [class |-> u2(o), type |-> u2(o + 2), name |-> u4(o + 4)]

parse_field_ids ==
  /\ stage = "fields" /\ stage' = "methods"
  /\ field_ids' = Table(header.fieldIdsSize, header.fieldIdsOff, 8, MemberId)
  /\ UNCHANGED <<input, header, string_data, type_ids, proto_ids, method_ids,
                 classes, type_list, data>>

parse_method_ids ==
  /\ stage = "methods" /\ stage' = "defs"
  /\ method_ids' = Table(header.methodIdsSize, header.methodIdsOff, 8, MemberId)
  /\ UNCHANGED <<input, header, string_data, type_ids, proto_ids, field_ids,
                 classes, type_list, data>>

-----------------------------------------------------------------------------
(***************************************************************************)
(* parse_class_defs: a class, then its members, list by list.              *)
(***************************************************************************)
parse_class_defs ==
  /\ stage = "defs" /\ stage' = "classes"
  /\ class_defs' = <<>> /\ class_data' = <<>>
  /\ UNCHANGED <<input, header, ids, at, left, type_list, data>>

None == <<0, 0, 0, 0>>
DefAt  == header.classDefsOff - HeaderSize + 32 * Len(class_defs)
\* Mutant: the header is not subtracted.
DataAt_InFile == u4(DefAt + 24)
DataAt == u4(DefAt + 24) - HeaderSize

ParseClass ==
  /\ stage = "classes" /\ left = None /\ Len(class_defs) < header.classDefsSize
  /\ \/ /\ UlebsIn(DataAt, 4)
        /\ class_defs' = Append(class_defs, [class |-> u4(DefAt), super |-> u4(DefAt + 8)])
        /\ class_data' = Append(class_data, << <<>>, <<>>, <<>>, <<>> >>)
        /\ left' = Ulebs(DataAt, 4) /\ at' = UlebAt(DataAt, 4)[4]
        /\ UNCHANGED <<input, stage, header, ids, type_list, data>>
     \/ ~UlebsIn(DataAt, 4) /\ Lost

\* The next member, with so many numbers, is of list l.
Member(l, n, member) ==
  /\ class_data' = [class_data EXCEPT ![Len(class_data)][l] = Append(@, member)]
  /\ left' = [left EXCEPT ![l] = @ - 1]
  /\ at' = UlebAt(at, n)[n]
  /\ UNCHANGED <<input, stage, header, ids, class_defs, type_list, data>>

Turn(l) == stage = "classes" /\ left[l] > 0 /\ \A k \in 1 .. l - 1 : left[k] = 0

ParseField(l) ==
  /\ Turn(l)
  /\ LET n == Ulebs(at, 2) IN Member(l, 2, [diff |-> n[1], flags |-> n[2]])

\* parse_encoded_method is called for a method without code, too.
CodeIn(o) == In(o, 16) /\ In(o + 16, 2 * u4(o + 12))
CodeAt(o) == [registers |-> u2(o), ins |-> u2(o + 2),
              insns |-> [k \in 1 .. u4(o + 12) |-> u2(o + 16 + 2 * (k - 1))]]

ParseMethod(l) ==
  /\ Turn(l)
  /\ LET n == Ulebs(at, 3)
         o == n[3] - HeaderSize
     IN  \/ CodeIn(o) /\ Member(l, 3, [diff |-> n[1], flags |-> n[2], code |-> CodeAt(o)])
         \/ ~CodeIn(o) /\ Lost

\* The tables of ids, not the data, are copied to data, which has the size of the data.
CopyData ==
  /\ stage = "classes" /\ left = None /\ Len(class_defs) = header.classDefsSize
  /\ LET n == header.dataOff - HeaderSize
     IN  \/ /\ header.dataSize = 0 \/ n <= header.dataSize
            /\ data' = IF header.dataSize > 0 THEN Bytes(0, n) ELSE data
            /\ stage' = "startup"
            /\ UNCHANGED <<input, header, ids, classes, type_list>>
         \/ header.dataSize > 0 /\ n > header.dataSize /\ Lost

\* simple_dvm_startup looks for a name among the strings, then among the
\* methods, as many as the header says.
NullTable == \/ header.stringIdsSize > 0 /\ string_data = Null
             \/ header.methodIdsSize > 0 /\ method_ids = Null

StartUp ==
  /\ stage = "startup"
  /\ \/ /\ ~NullTable /\ stage' = "run"
        /\ UNCHANGED <<input, header, ids, classes, type_list, data>>
     \/ NullTable /\ Lost

Next ==
  \/ ReadFile \/ parse_map_list \/ parse_string_ids \/ parse_type_ids \/ parse_proto_ids
  \/ parse_field_ids \/ parse_method_ids \/ parse_class_defs
  \/ ParseClass \/ (\E l \in 1 .. 2 : ParseField(l)) \/ (\E l \in 3 .. 4 : ParseMethod(l))
  \/ CopyData \/ StartUp

Stopped == stage \in {"run", "lost"} /\ UNCHANGED vars

Spec == Init /\ [][Next \/ Stopped]_vars

-----------------------------------------------------------------------------
(***************************************************************************)
(* The look-ups; ids and indices count from 0.                             *)
(***************************************************************************)
get_string_data(id) ==
  IF id \in 0 .. header.stringIdsSize - 1 THEN string_data[id + 1] ELSE Null
get_type_item_name(id) ==
  IF id \in 0 .. header.typeIdsSize - 1 THEN get_string_data(type_ids[id + 1]) ELSE Null
get_type_item_by_name(name) ==
  SelectInSeq(type_ids, LAMBDA d : string_data[d + 1] = name) - 1
get_field_type(id) ==
  IF id \in 0 .. header.fieldIdsSize - 1 THEN field_ids[id + 1].type ELSE 0
get_proto_type_list(id) ==
  IF id \in 0 .. header.protoIdsSize - 1 THEN proto_ids[id + 1].types ELSE Null
\* Mutant: classes are in the order of their types.
get_class_data_item_InOrder(class_idx) ==
  IF class_idx < Len(class_data) THEN class_data[class_idx + 1] ELSE Null

get_class_data_item(class_idx) ==
  LET n == SelectInSeq(class_defs, LAMBDA d : d.class = class_idx)
  IN  IF n = 0 THEN Null ELSE class_data[n]

-----------------------------------------------------------------------------
(***************************************************************************)
(* Properties.                                                             *)
(***************************************************************************)
\* The parser of class data stays within buf, and no list has more members
\* left than bytes (class_def_parser.c:45-195).
TypeOK ==
  /\ stage \in {"file", "map", "strings", "types", "protos", "fields", "methods", "defs", "classes",
                "startup", "run", "lost"}
  /\ at \in 0 .. Len(buf)
  /\ \A l \in 1 .. 4 : left[l] \in 0 .. Len(buf) - at
  /\ class_defs # Null => Len(class_defs) = Len(class_data)

\* A string keeps as many bytes as it has characters.
Kept(s) == SubSeq(s.bytes, 1, s.chars)

\* Each table, once it is filled, is what the file says, whatever tables and
\* items lie before it (dex_parser.c:57-91).
TablesAsWritten ==
  /\ string_data # Null => string_data = [k \in DOMAIN dex.strings |-> Kept(dex.strings[k])]
  /\ type_ids # Null => type_ids = dex.types
  /\ proto_ids # Null => proto_ids = dex.protos
  /\ field_ids # Null => field_ids = dex.fields
  /\ method_ids # Null => method_ids = dex.methods
  /\ type_list # Null => \E k \in DOMAIN dex.protos : type_list = dex.protos[k].types
  /\ stage = "run" /\ damage = "none" =>
       /\ string_data # Null /\ type_ids # Null /\ proto_ids # Null
       /\ field_ids # Null /\ method_ids # Null /\ Len(class_data) = Len(dex.classes)

\* The differences of a list add up to the ids of its members, each with its
\* code; a class that is parsed has all of them (class_def_parser.c:9-195).
IdOf(list, k) ==
  LET id[j \in 0 .. Len(list)] == IF j = 0 THEN 0 ELSE id[j - 1] + list[j].diff IN id[k]

ClassesAsWritten ==
  class_data # Null => \A c \in DOMAIN class_data :
    /\ class_defs[c].class = dex.classes[c].class /\ class_defs[c].super = dex.classes[c].super
    /\ \A l \in 1 .. 4 :
         LET list == class_data[c][l]
             members == dex.classes[c].lists[l]
         IN  /\ Len(list) + (IF c = Len(class_data) THEN left[l] ELSE 0) = Len(members)
             /\ \A k \in DOMAIN list :
                  /\ IdOf(list, k) = members[k].id /\ list[k].flags = members[k].flags
                  /\ l > 2 => list[k].code = members[k].code

\* In a file that was read, a type is found by its name and a class by its
\* type, an id that the file does not have by neither; but the type of a
\* field that does not exist is type 0 (type_ids_parser.c:122-275,
\* class_def_parser.c:229-236).
Plain == \A k \in DOMAIN dex.strings : dex.strings[k].chars = Len(dex.strings[k].bytes)
LookUps ==
  stage = "run" /\ damage = "none" =>
    /\ \A id \in 0 .. Len(dex.types) :
         LET name == get_type_item_name(id)
         IN  IF id = Len(dex.types) THEN name = Null
             ELSE /\ Plain => name = dex.strings[dex.types[id + 1] + 1].bytes
                  /\ Plain => get_type_item_by_name(name) = id
    /\ \A c \in DOMAIN dex.classes : get_class_data_item(dex.classes[c].class) = class_data[c]
    /\ \A id \in 0 .. Len(dex.types) :
         get_class_data_item(id) = Null <=> \A c \in DOMAIN dex.classes : dex.classes[c].class # id
    /\ \A id \in 0 .. Len(dex.fields) :
         get_field_type(id) = IF id = Len(dex.fields) THEN 0 ELSE dex.fields[id + 1].type
    /\ \A m \in DOMAIN dex.methods :
         get_proto_type_list(dex.methods[m].type) = dex.protos[dex.methods[m].type + 1].types

\* The program is lost only with a file that ends after a count of strings or
\* of methods that it has, a string longer than its array, a class without
\* data, a method without code, or more bytes of ids than of data (dvm.c:10-11,
\* 131, string_ids_parser.c:30, class_def_parser.c:18-35, dex_parser.c:86).
LostByLimitsOnly ==
  stage = "lost" =>
    \/ /\ damage \in {"header", "body"}
       /\ \/ header.stringIdsSize > 0 /\ dex.strings # <<>>
          \/ header.methodIdsSize > 0 /\ dex.methods # <<>>
    \/ \E k \in DOMAIN dex.strings : dex.strings[k].chars > DataMax
    \/ \E c \in DOMAIN dex.classes : dex.classes[c].lists = Null
    \/ \E c \in DOMAIN dex.classes, l \in 3 .. 4 :
         \E k \in DOMAIN dex.classes[c].lists[l] : dex.classes[c].lists[l][k].code = Null
    \/ LET h == FileOf(dex).header IN h.dataOff - HeaderSize > h.dataSize
=============================================================================
