---------------------------- MODULE MCJvmInterp ----------------------------
(***************************************************************************)
(* Java programs for JvmInterp, as statements of JavaStatements, and the   *)
(* class files that javac makes of them.  A statement "other" brings code  *)
(* of its own: what javac never writes, and what simple_jvm is not made    *)
(* for.                                                                    *)
(***************************************************************************)
EXTENDS JvmInterp

Ins(op, index, lit) == [op |-> op, index |-> index, lit |-> lit]
Op(op)              == Ins(op, 0, 0)
Ref2(op, n)         == Ins(op, 0, n)
Local(op, v)        == Ins(op, v, 0)
Apply(op)           == "i" \o op

\* The constant pool of every class.
Object == 1
Out == 2
Builder == 3
NewBuilder == 4
AppendRef == 5
ToStringRef == 6
PrintlnRef == 7
RandomRef == 8
Scale == 9
TimeRef == 11
BrokenRef == 14
OwnRef == 15
LongText == 16

Method(c, n) == [tag |-> "method", class |-> c, name |-> n, resolved |-> TRUE]
String(n, s) == [tag |-> "string", n |-> n, size |-> s]
Nothing      == [tag |-> "none"]

MCPool ==
  << Method("java/lang/Object", "<init>"), [tag |-> "field"], [tag |-> "class"],
     Method("java/lang/StringBuilder", "<init>"),
     Method("java/lang/StringBuilder", "append"),
     Method("java/lang/StringBuilder", "toString"),
     Method("java/io/PrintStream", "println"),
     Method("java/lang/Math", "random"),
     [tag |-> "double", v |-> 8], Nothing,
     Method("java/lang/System", "currentTimeMillis"),
     String(12, 3), String(13, 5),
     [Method("java/io/PrintStream", "println") EXCEPT !.resolved = FALSE],
     Method("Foo1", "other"), String(16, 12) >>

\* Doubles are in quarters.
MCAdd(p, q) == (p + q) % DWord
MCMul(p, q) == ((p * q) \div 4) % DWord
MCToInt(p)  == p \div 4

-----------------------------------------------------------------------------
(***************************************************************************)
(* Statements.                                                             *)
(***************************************************************************)
Var(n)   == [kind |-> "var", n |-> n]
Const(n) == [kind |-> "const", n |-> n]
Text12   == [kind |-> "text", n |-> 12]
Text13   == [kind |-> "text", n |-> 13]

Set(v, a)           == [op |-> "assign", v |-> v, f |-> "id", a |-> a, b |-> a]
Assign(v, f, a, b)  == [op |-> "assign", v |-> v, f |-> f, a |-> a, b |-> b]
Inc(v, n)           == [op |-> "inc", v |-> v, n |-> n]
Line(line)         == [op |-> "print", line |-> line]
Unless(a, b, to)    == [op |-> "unless", a |-> a, b |-> b, to |-> to]
Jump(to)            == [op |-> "goto", to |-> to]
Now(l)              == [op |-> "now", v |-> l]
Elapsed(v, l, m)    == [op |-> "elapsed", v |-> v, l |-> l, m |-> m]
Random(v)           == [op |-> "random", v |-> v]
Other(code)         == [op |-> "other", code |-> code]

(***************************************************************************)
(* javac.  Its constants here are those that simple_jvm can load: none     *)
(* below zero that a byte would hold.                                      *)
(***************************************************************************)
ByteMax == 63

Push(o) ==
  CASE o.kind = "var" -> Local(IF o.n \in 1 .. 3 THEN "iload_n" ELSE "iload", o.n)
    [] o.kind = "text" -> Ref2("ldc", o.n)
    [] o.kind = "const" /\ o.n \in 0 .. 5 -> Ref2("iconst", o.n)
    [] o.kind = "const" /\ o.n \in 6 .. ByteMax -> Ref2("bipush", o.n)
    [] OTHER -> Ref2("sipush", o.n % Short)

Pop(v) == Local(IF v \in 1 .. 3 THEN "istore_n" ELSE "istore", v)

PrintCode(line) ==
  IF Len(line) = 1
  THEN <<Ref2("getstatic", Out), Push(line[1]), Ref2("invokevirtual", PrintlnRef)>>
  ELSE <<Ref2("getstatic", Out), Ref2("new", Builder), Op("dup"),
         Ref2("invokespecial", NewBuilder)>>
       \o FlattenSeq([k \in DOMAIN line |->
                        <<Push(line[k]), Ref2("invokevirtual", AppendRef)>>])
       \o <<Ref2("invokevirtual", ToStringRef), Ref2("invokevirtual", PrintlnRef)>>

\* The code of a statement; its last instruction may jump.
CodeFor(s) ==
  CASE s.op = "assign" ->
         (IF s.f = "id" THEN <<Push(s.a)>> ELSE <<Push(s.a), Push(s.b), Op(Apply(s.f))>>)
         \o <<Pop(s.v)>>
    [] s.op = "inc" -> <<Ins("iinc", s.v, s.n)>>
    [] s.op = "print" -> PrintCode(s.line)
    [] s.op = "unless" -> <<Push(s.a), Push(s.b), Op("if_icmpge")>>
    [] s.op = "goto" -> <<Op("goto")>>
    [] s.op = "now" -> <<Ref2("invokestatic", TimeRef), Local("lstore", s.v)>>
    [] s.op = "elapsed" -> <<Local("lload", s.l), Local("lload", s.m), Op("lsub"),
                             Op("l2i"), Pop(s.v)>>
    [] s.op = "random" -> <<Ref2("invokestatic", RandomRef), Ref2("ldc2_w", Scale),
                            Op("dmul"), Op("dconst_1"), Op("dadd"), Op("d2i"), Pop(s.v)>>
    [] s.op = "other" -> s.code

\* The offsets of the instructions of a code, and its end.
Offsets(code) ==
  LET offset[k \in 1 .. Len(code) + 1] ==
        IF k = 1 THEN 0 ELSE offset[k - 1] + Length(code[k - 1].op)
  IN  offset
Extent(code) == Offsets(code)[Len(code) + 1]

\* Where each statement begins, and where the return is.
Starts(source) ==
  LET start[k \in 1 .. Len(source) + 1] ==
        IF k = 1 THEN 0 ELSE start[k - 1] + Extent(CodeFor(source[k - 1]))
  IN  start

Linked(source) ==
  LET start == Starts(source)
      Link(k) ==
        LET s == source[k]
            code == CodeFor(s)
        IN  IF s.op \in {"unless", "goto"}
            THEN [code EXCEPT ![Len(code)].lit =
                    (start[s.to] - (start[k + 1] - 3)) % Short]
            ELSE code
  IN  FlattenSeq([k \in DOMAIN source |-> Link(k)]) \o <<Op("return")>>

Laid(code) ==
  LET offset == Offsets(code)
  IN  [o \in {offset[k] : k \in DOMAIN code} |->
         code[CHOOSE k \in DOMAIN code : offset[k] = o]]

Attribute(code) == [name |-> "Code", code |-> Laid(code)]

ClassFile(p) ==
  LET first == [name |-> IF p.form = "interface" THEN "f" ELSE "<init>",
                attributes |-> <<Attribute(<<Op("aload_0"), Ref2("invokespecial", Object),
                                             Op("return")>>)>>]
      main  == [name |-> "main",
                attributes |-> (IF p.form = "annotated" THEN <<[name |-> "Deprecated"]>> ELSE <<>>)
                                 \o <<Attribute(Linked(p.source))>>]
      third == [name |-> "other", attributes |-> <<Attribute(<<Op("return")>>)>>]
  IN  [source |-> p.source, starts |-> Starts(p.source), pool |-> MCPool,
       methods |-> <<first, main>> \o (IF p.form = "three" THEN <<third>> ELSE <<>>)]

-----------------------------------------------------------------------------
(***************************************************************************)
(* The programs.                                                           *)
(***************************************************************************)
Values == {0, 3, -128, 100}

Arithmetic ==
  { << Set(1, Const(a)), Set(2, Const(b)), Assign(4, f, Var(1), Var(2)),
       Line(<<Text12, Var(4)>>), Assign(1, "sub", Const(a), Var(4)), Line(<<Var(1)>>) >> :
      a, b \in Values, f \in {"add", "sub", "mul", "div", "rem"} }

\* Counts to n, and prints one thing on each line.
Counting(n) ==
  << Set(1, Const(0)), Set(2, Const(7)), Unless(Var(1), Const(n), 7), Line(<<Var(1)>>),
     Inc(1, 1), Jump(3), Line(<<Text12, Var(1), Text12, Var(2)>>) >>

\* A loop in a loop; its lines are built.
Nested(m, n) ==
  << Set(1, Const(0)), Set(3, Const(0)), Unless(Var(1), Const(m), 11), Set(2, Const(0)),
     Unless(Var(2), Const(n), 9), Assign(3, "add", Var(3), Var(1)), Inc(2, 1), Jump(5),
     Inc(1, 1), Jump(3), Line(<<Text13, Var(3)>>) >>

\* As tests/Foo1.java does.
Foo1 ==
  << Random(1), Set(2, Const(63)), Line(<<Text12>>), Line(<<Text12, Var(1)>>),
     Assign(3, "add", Var(1), Var(2)), Assign(5, "div", Var(3), Const(2)),
     Line(<<Var(1), Text12, Var(2), Text12, Var(3)>>), Line(<<Text13, Var(5)>>) >>

Timed ==
  << Now(1), Set(0, Const(1)), Now(3), Elapsed(5, 3, 1), Line(<<Text12, Var(5)>>) >>

Sources ==
  Arithmetic \cup {Counting(n) : n \in {0, 2, 10}} \cup {Nested(2, 3), Foo1, Timed, <<>>}

Push1(n) == Ref2("iconst", n)
Stream   == Ref2("getstatic", Out)
Show     == Ref2("invokevirtual", PrintlnRef)
Add      == Ref2("invokevirtual", AppendRef)
\* -2048, the least int of the instance.
Least    == <<Ref2("sipush", 128), Ref2("bipush", 16), Op("imul")>>
MinusOne == <<Push1(0), Push1(1), Op("isub")>>

Wild ==
  { <<Stream, Op("aconst_null"), Show>>,
    <<Op("unknown")>>,
    <<Local("istore_n", 1), Op("dup")>>,
    <<Push1(3), Op("dup"), Op("iadd"), Local("istore", 4)>>,
    <<Push1(0), Ref2("goto", 255)>>,
    <<Ref2("goto", 100)>>,
    <<Ref2("ldc", LongText), Show>>,
    <<Ref2("ldc", LongText), Add>>,
    <<Ref2("ldc", 13), Add, Ref2("ldc", 13), Add, Ref2("ldc", 13), Add, Push1(1), Add,
      Op("aconst_null"), Show>>,
    <<Ref2("ldc", 13), Add, Ref2("ldc", 13), Add, Ref2("ldc", 13), Add, Push1(1), Show>>,
    <<Ref2("ldc", 13), Add, Ref2("ldc", 13), Add, Ref2("ldc", 13), Add, Ref2("ldc", 12), Add>>,
    <<Local("iload", 50)>>, <<Push1(1), Local("istore", 50)>>, <<Ins("iinc", 50, 1)>>,
    <<Local("lload", 9)>>, <<Push1(1), Local("lstore", 9)>>,
    <<Push1(5), Local("istore", 6), Local("lload", 0), Op("l2i"), Local("istore_n", 1)>>,
    Least \o MinusOne \o <<Op("idiv")>>,
    Least \o MinusOne \o <<Op("irem")>>,
    <<Push1(1), Push1(0), Op("irem")>>,
    <<Ref2("bipush", 253), Local("istore_n", 1), Ins("iinc", 1, 255), Stream,
      Local("iload_n", 1), Show>>,
    <<Ref2("invokevirtual", BrokenRef)>>, <<Ref2("invokestatic", BrokenRef)>>,
    <<Ref2("invokestatic", OwnRef), Ref2("invokevirtual", OwnRef)>>,
    <<Ref2("invokestatic", 1), Ref2("invokestatic", Builder), Ref2("invokevirtual", Out)>>,
    <<Ref2("invokespecial", 2), Ref2("invokespecial", 3)>>,
    <<Ref2("invokestatic", TimeRef), Show>>,
    <<Push1(1), Op("dconst_1"), Op("dadd"), Op("aconst_null"), Op("dmul"), Op("d2i")>>,
    <<Op("dadd")>> }

ProgramSet ==
  [source : Sources, form : {"plain"}]
    \cup {[source |-> <<Set(1, Const(1)), Other(code)>>, form |-> "three"] : code \in Wild}
    \cup {[source |-> <<Other(PrintCode(<<Text12>>))>>, form |-> "annotated"],
          [source |-> <<>>, form |-> "interface"]}

MCClasses == {ClassFile(p) : p \in ProgramSet}

-----------------------------------------------------------------------------
(***************************************************************************)
(* What the state of the interpreter means for the program.                *)
(***************************************************************************)
Source == class.source
Start  == class.starts
End    == Len(Source) + 1

\* main is what <init> starts: the second activation.
InMain == Len(frames) > 1
Main == frames[2]

Statement ==
  CASE mode = "trap" -> 0
    [] mode = "undefined" -> -1
    [] mode = "done" -> End
    [] mode = "run" /\ ~ InMain -> IF Top.pc > 1 \/ Top.attribute > 1 THEN End ELSE 1
    [] mode = "run" /\ InMain /\ Main.pc = Outside ->
         IF Main.attribute > Len(Methods[2].attributes) THEN End ELSE 1
    [] mode = "run" /\ InMain /\ Main.pc > Start[End] -> -1
    [] OTHER -> CHOOSE k \in 1 .. End :
                  Start[k] <= Main.pc /\ (k = End \/ Main.pc < Start[k + 1])

J == INSTANCE JavaStatements WITH
       IntSize <- Word, LongSize <- DWord,
       RandomInts <- {MCToInt(MCMul(r, 8) + OneDouble) : r \in Randoms},
       Clock <- Times,
       PrintLimit <- StackMax - 3,
       source <- Source,
       at <- Statement,
       ints <- [v \in 0 .. NLocals - 1 |-> Signed(local[v], Word)],
       longs <- [l \in 0 .. NLocals - 1 |-> Signed(long_int(l), DWord)],
       printed <- printed

\* A main of assignments, loops, prints, Math.random and times does what Java
\* says, statement by statement, unless it has printed more one-piece lines
\* than the stack has room for.
RunsLikeJava == J!Spec

\* Between two statements nothing is left in the string builder, and on the
\* stack, besides the entry of aload_0, one entry for every line that was
\* printed without a string builder: the stream, which println leaves.
BetweenStatements ==
  /\ mode = "run" /\ Len(frames) = 2 /\ Main.pc # Outside
  /\ \E k \in 1 .. End : Main.pc = Start[k]
  /\ \A k \in DOMAIN Source : Source[k].op # "other"
  => /\ builder = <<>>
     /\ Len(stack) = 1 + Len(SelectSeq(printed, LAMBDA line : Len(line) = 1))
=============================================================================
