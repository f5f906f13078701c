----------------------------- MODULE MCJvmPools -----------------------------
(***************************************************************************)
(* Small classes: up to three constants of any kind before the two names,  *)
(* none or one interface, fields with and without attributes, one or two   *)
(* methods, <init> among them or not, with attributes of several lengths.  *)
(***************************************************************************)
EXTENDS JvmPools

MCInitName == <<3>>
MCCodeName == <<4>>

Of(tag, bytes) == [tag |-> tag, bytes |-> bytes]
InitUtf8 == Of(CONSTANT_UTF8, MCInitName)
CodeUtf8 == Of(CONSTANT_UTF8, MCCodeName)
Int4     == Of(CONSTANT_INTEGER, <<0, 1, 5, 2>>)
Float4   == Of(CONSTANT_FLOAT, <<0, 1, 6, 2>>)
Long8    == Of(CONSTANT_LONG, <<1, 1, 1, 7, 1, 1, 1, 2>>)
Double8  == Of(CONSTANT_DOUBLE, <<2, 1, 1, 8, 1, 1, 1, 3>>)
Class2   == Of(CONSTANT_CLASS, <<0, 1>>)
Field4   == Of(CONSTANT_FIELD_REF, <<0, 1, 0, 2>>)
Handle   == Of(15, <<1, 0, 1>>)   \* a method handle, which the parser has no tag for
Others   == {Int4, Float4, Long8, Double8, Class2, Field4, Handle}

OtherConstants ==
  {<<>>} \cup {<<x, y>> : x \in Others, y \in Others}
  \cup {<<x, x, x>> : x \in {Int4, Long8}} \cup {<<Of(CONSTANT_UTF8, <<>>)>>}

Code(n)     == <<0, 1, 0, 1, 0, 0, 0, Len(n)>> \o n
Attr(k, bs) == [name |-> k, info |-> bs]
Method(k, attrs) == [name |-> k, type |-> k, attributes |-> attrs]

Class(consts, interfaces_, fields_, Methods(_, _)) ==
  LET cs == consts \o <<InitUtf8, CodeUtf8>>
      initAt == IndexIn(cs, Len(cs) - 1)
      codeAt == IndexIn(cs, Len(cs))
  IN  [constants |-> cs, interfaces |-> interfaces_, fields |-> fields_,
       methods |-> Methods(initAt, codeAt)]

OneInit(n, c)    == <<Method(n, <<Attr(c, Code(<<1, 2>>))>>)>>
TwoMethods(n, c) == <<Method(c, <<Attr(c, Code(<<5>>))>>),
                      Method(n, <<Attr(c, Code(<<1>>)), Attr(n, Code(<<>>))>>),
                      Method(n, <<Attr(c, Code(<<9>>))>>)>>
NoInit(n, c)     == <<Method(c, <<>>)>>
Deprecated(n, c) == <<Method(n, <<Attr(c, Code(<<1>>)), Attr(n, <<>>)>>)>>
LikeCode(n, c)   == <<Method(n, <<Attr(1, Code(<<7>>)), Attr(c, Code(<<1>>))>>)>>
NoName(n, c)     == <<Method(0, <<>>), Method(n, <<>>)>>
Many(n, c)       == [k \in 1 .. 4 |-> Method(n, <<>>)]

PlainField == Method(1, <<>>)
Marked     == Method(1, <<Attr(1, <<>>)>>)    \* an attribute without a body
Constant   == Method(1, <<Attr(1, <<0, 1>>)>>) \* ConstantValue has two bytes

MCClasses ==
  {Class(cs, <<>>, <<PlainField, Marked>>, TwoMethods) : cs \in OtherConstants}
  \cup {Class(<<>>, is, fs, OneInit) : is \in {<<>>, <<1>>, <<1, 2>>, <<1, 2, 3>>},
                                       fs \in {<<>>, <<PlainField>>, <<Constant>>, <<Constant, Marked>>,
                                               [k \in 1 .. 4 |-> PlainField]}}
  \cup {Class(<<Long8>>, <<>>, <<>>, NoInit), Class(<<Double8>>, <<>>, <<>>, Deprecated),
        Class(<<Of(CONSTANT_UTF8, <<4, 4>>)>>, <<>>, <<>>, LikeCode),
        Class(<<>>, <<>>, <<>>, NoName), Class(<<>>, <<>>, <<>>, Many)}

MCCap == [tag \in Tags |-> IF tag = CONSTANT_UTF8 THEN 3 ELSE 2]
=============================================================================
