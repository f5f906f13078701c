---------------------------- MODULE MCDexParser -----------------------------
(***************************************************************************)
(* Small dex files: strings of one and of two bytes a character and one    *)
(* that is too long, prototypes with and without parameters, one or two    *)
(* classes with up to two members in each list, ids and flags of one, two  *)
(* and three bytes, methods without code and a class without data.         *)
(***************************************************************************)
EXTENDS DexParser

Ascii(bs) == [chars |-> Len(bs), bytes |-> bs]
Names  == <<Ascii(<<65>>), Ascii(<<66, 66>>), Ascii(<<>>)>>
Umlaut == [chars |-> 1, bytes |-> <<195, 164>>]
Long   == Ascii(<<67, 67, 67, 67>>)

NoParameters == [shorty |-> 0, return |-> 0, types |-> <<>>]
Parameters(ts) == [shorty |-> 1, return |-> 1, types |-> ts]

Field(id, f)   == [id |-> id, flags |-> f]
Code(n)        == [registers |-> 2 + n, ins |-> 1, insns |-> [k \in 1 .. n |-> 300 + k]]
Method(id, f, c) == [id |-> id, flags |-> f, code |-> c]

FieldLists  == {<<>>, <<Field(0, 9)>>, <<Field(1, 200), Field(300, 1)>>}
DirectLists == {<<>>, <<Method(0, 65537, Code(1))>>, <<Method(1, 9, Code(0)), Method(2, 10, Code(2))>>}
VirtualLists == {<<>>, <<Method(3, 1, Code(1))>>, <<Method(3, 1, Code(1)), Method(500, 1, Null)>>}

Lists == {<<s, i, d, v>> : s \in FieldLists, i \in FieldLists, d \in DirectLists, v \in VirtualLists}
Class(c, lists) == [class |-> c, super |-> 0, lists |-> lists]
Small == <<<<>>, <<>>, <<Method(0, 1, Code(1))>>, <<>>>>

Dex(strings, protos, cs) ==
  [strings |-> strings, types |-> <<1, 0>>, protos |-> protos,
   fields  |-> <<[class |-> 1, type |-> 0, name |-> 1], [class |-> 1, type |-> 1, name |-> 0]>>,
   methods |-> <<[class |-> 1, type |-> 0, name |-> 0]>>, classes |-> cs]

MCDexes ==
  {Dex(Names, <<NoParameters, Parameters(<<1, 0>>)>>, <<Class(1, ls), Class(0, Small)>>) : ls \in Lists}
  \cup {Dex(ss, ps, <<Class(1, Small)>>) :
          ss \in {Names, Append(Names, Umlaut), Append(Names, Long)},
          ps \in {<<NoParameters>>, <<Parameters(<<1>>), Parameters(<<0, 1, 1>>)>>}}
  \cup {Dex(Names, <<NoParameters>>, cs) :
          cs \in {<<>>, <<Class(1, Null), Class(0, Small)>>, <<Class(0, Small), Class(1, Null)>>}}
  \cup {[strings |-> <<>>, types |-> <<>>, protos |-> <<>>, fields |-> <<>>, methods |-> <<>>,
         classes |-> <<>>]}

MCDamages == {"none", "absent", "header", "body"}
=============================================================================
