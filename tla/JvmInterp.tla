----------------------------- MODULE JvmInterp -----------------------------
(***************************************************************************)
(* The interpreter of simple_jvm: main, executeMethod and its handlers, on *)
(* the tables of a parsed class file.  All activations share one operand   *)
(* stack, one set of local variables and one string builder; what each     *)
(* nested C call of executeMethod keeps is an element of frames.           *)
(*                                                                         *)
(* "undefined" is where the C code has no defined outcome (an access past  *)
(* an array): the model says no more after it.                             *)
(***************************************************************************)
EXTENDS Integers, SequencesExt

CONSTANTS
  Classes,      \* the class files, as the parsers leave them: [pool, methods]
  NLocals,      \* ints, and longs, in LocalVariables (10)
  StackMax,     \* entries of the operand stack (500)
  BufferSize,   \* bytes of stringBuilderBuffer (1024)
  NameSize,     \* bytes of the buffer that a string is fetched to (255)
  Short, Word,  \* values of a short and of an int (2^16, 2^32)
  AddDouble(_, _), MulDouble(_, _), DoubleToInt(_),  \* on bit patterns
  OneDouble,    \* the pattern of 1.0
  Randoms,      \* patterns that random of java_lib.c pushes
  Times         \* what currentTimeMillis of java_lib.c pushes

DWord == Word * Word

ASSUME SizeAssumption ==
  /\ {NLocals, StackMax, BufferSize, NameSize, Short, Word} \subseteq Nat \ {0}
  /\ Short % 2 = 0 /\ Word % 2 = 0
  /\ OneDouble \in 0 .. DWord - 1
  /\ Randoms \subseteq 0 .. DWord - 1 /\ Randoms # {}
  /\ Times \subseteq 0 .. DWord - 1 /\ Times # {}

VARIABLES
  class,    \* the class file: simpleConstantPool and simpleMethodPool
  mode,     \* "run", or how the program ended: see Ended
  frames,   \* activations of executeMethod [method, attribute, pc]
  stack,    \* stackFrame, up to its size
  local,    \* the words of localVariables: its ints, then its longs
  builder,  \* the pieces in stringBuilderBuffer
  printed   \* the lines printed, each a sequence of pieces

vars == <<class, mode, frames, stack, local, builder, printed>>

Ended == {"done", "trap", "undefined"}

-----------------------------------------------------------------------------
(***************************************************************************)
(* Entries of the stack: eight bytes, a number 0 .. DWord - 1, and a type. *)
(***************************************************************************)
Types == {"int", "ref", "long", "double"}

Signed(u, size) == IF 2 * u < size THEN u ELSE u - size

\* The numbers of a class file; no jump goes back past the first instruction.
IsCode(code) ==
  \A o \in DOMAIN code :
    /\ o \in Nat /\ code[o].index \in Nat /\ code[o].lit \in Nat
    /\ code[o].op \in {"goto", "if_icmpge"} => o + Signed(code[o].lit, Short) >= 0

IsClass(c) ==
  /\ \A x \in DOMAIN c.pool :
       /\ c.pool[x].tag = "double" => c.pool[x].v \in 0 .. DWord - 1
       /\ c.pool[x].tag = "string" => c.pool[x].n \in Int
  /\ Len(c.methods) \in Nat
  /\ \A m \in 1 .. Len(c.methods) :
       /\ Len(c.methods[m].attributes) \in Nat
       /\ \A a \in 1 .. Len(c.methods[m].attributes) :
            c.methods[m].attributes[a].name = "Code" => IsCode(c.methods[m].attributes[a].code)

ASSUME ClassAssumption == \A c \in Classes : IsClass(c)

\* What pushInt, pushRef, pushLong and pushDouble push; the first two leave
\* the upper bytes zero.
Int32(v)  == [type |-> "int", v |-> v % Word]
Ref(v)    == [type |-> "ref", v |-> v % Word]
Long(v)   == [type |-> "long", v |-> v % DWord]
Double(v) == [type |-> "double", v |-> v]

\* What popInt (and EntryToInt) and popLong make of an entry.
popInt(e)  == Signed(e.v % Word, Word)
popLong(e) == Signed(e.v, DWord)

-----------------------------------------------------------------------------
(***************************************************************************)
(* The constant pool: a function from indices to entries.  Strings have an *)
(* n (which text) and a size, doubles a pattern v, method references the   *)
(* names of a class and a method, and resolved, FALSE when the class or    *)
(* the name and type are missing.                                          *)
(***************************************************************************)
Pool    == class.pool
Methods == class.methods

Finds(tag, index) == index \in DOMAIN Pool /\ Pool[index].tag = tag

get_double_parameter(e) ==
  IF e.type # "ref" THEN e.v
  ELSE IF Finds("double", popInt(e)) THEN Pool[popInt(e)].v ELSE 0

\* The method that main of main.c starts, 0 when there is none.
init == SelectInSeq(Methods, LAMBDA m : m.name = "<init>")

-----------------------------------------------------------------------------
(***************************************************************************)
(* executeMethod.  A method is a name and attributes; the code of one is a *)
(* function from the offsets of its instructions to [op, index, lit], the  *)
(* operands unsigned as the handlers read them.  No method of a class file *)
(* has two Code attributes.  The C stack is not bounded.                   *)
(***************************************************************************)
\* The pc of an activation between two attributes of its method.
Outside == -1

Top        == Last(frames)
Attributes == Methods[Top.method].attributes
Code       == Attributes[Top.attribute].code
I          == Code[Top.pc]

Running == mode = "run" /\ frames # <<>>

At(op) ==
  /\ Running /\ Top.pc # Outside
  /\ Top.pc \in DOMAIN Code
  /\ I.op = op

Length(op) ==
  CASE op \in {"bipush", "iload", "lload", "istore", "lstore", "ldc"} -> 2
    [] op \in {"getstatic", "if_icmpge", "goto", "iinc", "invokespecial",
               "invokevirtual", "invokestatic", "ldc2_w", "new", "sipush"} -> 3
    [] OTHER -> 1

InTop(frame) == frames' = Append(Front(frames), frame)
GoTo(offset) == InTop([Top EXCEPT !.pc = @ + offset])
Go == GoTo(Length(I.op))

\* A handler returns -1: on to the next attribute.
Leave == InTop([Top EXCEPT !.pc = Outside, !.attribute = @ + 1])

Activation(m) == [method |-> m, attribute |-> 1, pc |-> Outside]

Stop(m) == mode' = m /\ UNCHANGED <<class, frames, stack, local, builder, printed>>

\* Attributes are decoded as code before their name is looked at: what the
\* lengths in another attribute lead to is undefined, or nothing.
NextAttribute ==
  /\ Running /\ Top.pc = Outside /\ Top.attribute <= Len(Attributes)
  /\ \/ /\ Attributes[Top.attribute].name = "Code"
        /\ InTop([Top EXCEPT !.pc = 0])
        /\ UNCHANGED <<class, mode, stack, local, builder, printed>>
     \/ /\ Attributes[Top.attribute].name # "Code"
        /\ Leave
        /\ UNCHANGED <<class, mode, stack, local, builder, printed>>
     \/ /\ Attributes[Top.attribute].name # "Code"
        /\ Stop("undefined")

EndMethod ==
  /\ Running /\ Top.pc = Outside /\ Top.attribute > Len(Attributes)
  /\ frames' = Front(frames)
  /\ mode' = IF Len(frames) = 1 THEN "done" ELSE "run"
  /\ UNCHANGED <<class, stack, local, builder, printed>>

Init ==
  /\ class \in Classes
  /\ frames = IF init = 0 THEN <<>> ELSE <<Activation(init)>>
  /\ mode = IF init = 0 THEN "done" ELSE "run"
  /\ stack = <<>>
  /\ local = [w \in 0 .. 3 * NLocals - 1 |-> 0]
  /\ builder = <<>> /\ printed = <<>>

-----------------------------------------------------------------------------
(***************************************************************************)
(* The operand stack.                                                      *)
(***************************************************************************)
\* Takes n entries off and puts these on.
Replace(n, entries) ==
  /\ Len(stack) >= n /\ Len(stack) - n + Len(entries) <= StackMax
  /\ stack' = SubSeq(stack, 1, Len(stack) - n) \o entries

\* The last entry, and the one below it.
E1 == stack[Len(stack)]
E2 == stack[Len(stack) - 1]

OnStack == Go /\ UNCHANGED <<class, mode, local, builder, printed>>

op_aload_0 == At("aload_0") /\ Replace(0, <<Int32(0)>>) /\ OnStack
op_aconst_null == At("aconst_null") /\ Replace(0, <<Ref(0)>>) /\ OnStack
op_getstatic == At("getstatic") /\ Replace(0, <<Ref(I.lit)>>) /\ OnStack
op_ldc == At("ldc") /\ Replace(0, <<Ref(I.lit)>>) /\ OnStack
op_ldc2_w == At("ldc2_w") /\ Replace(0, <<Ref(I.lit)>>) /\ OnStack
op_iconst == At("iconst") /\ Replace(0, <<Int32(I.lit)>>) /\ OnStack
op_dconst_1 == At("dconst_1") /\ Replace(0, <<Double(OneDouble)>>) /\ OnStack

\* The byte is unsigned, the short is not.
op_bipush == At("bipush") /\ Replace(0, <<Int32(I.lit)>>) /\ OnStack
op_sipush == At("sipush") /\ Replace(0, <<Int32(Signed(I.lit, Short))>>) /\ OnStack

\* An entry that is no int comes back as a reference, of its lower bytes.
op_dup ==
  /\ At("dup")
  /\ Len(stack) >= 1
  /\ LET e == IF E1.type = "int" THEN Int32(popInt(E1)) ELSE Ref(popInt(E1))
     IN  Replace(1, <<e, e>>)
  /\ OnStack

op_new_Pushes == At("new") /\ Replace(0, <<Ref(I.lit)>>) /\ OnStack
op_new == At("new") /\ OnStack /\ UNCHANGED stack

IntOp(op, v) == At(op) /\ Len(stack) >= 2 /\ Replace(2, <<Int32(v)>>) /\ OnStack

op_iadd == IntOp("iadd", popInt(E1) + popInt(E2))
op_isub_Swapped == IntOp("isub", popInt(E1) - popInt(E2))
op_isub == IntOp("isub", popInt(E2) - popInt(E1))
op_imul == IntOp("imul", popInt(E1) * popInt(E2))

\* The arithmetic wraps, as in the compiled handlers.  The division of C
\* rounds towards zero, and the processor traps when the quotient does not
\* exist or does not fit.
Quot(a, b) ==
  LET q == (IF a < 0 THEN -a ELSE a) \div (IF b < 0 THEN -b ELSE b)
  IN  IF (a < 0) = (b < 0) THEN q ELSE -q
Traps == popInt(E1) = 0 \/ (popInt(E1) = -1 /\ 2 * popInt(E2) = -Word)

op_idiv == At("idiv") /\ Len(stack) >= 2 /\ ~ Traps /\ IntOp("idiv", Quot(popInt(E2), popInt(E1)))
op_irem ==
  /\ At("irem") /\ Len(stack) >= 2 /\ ~ Traps
  /\ IntOp("irem", popInt(E2) - popInt(E1) * Quot(popInt(E2), popInt(E1)))
trap ==
  /\ At("idiv") \/ At("irem")
  /\ Len(stack) >= 2 /\ Traps
  /\ Stop("trap")

op_lsub ==
  /\ At("lsub") /\ Len(stack) >= 2
  /\ Replace(2, <<Long(popLong(E2) - popLong(E1))>>) /\ OnStack

D1 == get_double_parameter(E1)
D2 == get_double_parameter(E2)
DoubleOp(op, v) == At(op) /\ Len(stack) >= 2 /\ Replace(2, <<Double(v)>>) /\ OnStack

op_dadd == DoubleOp("dadd", AddDouble(D1, D2))
op_dmul == DoubleOp("dmul", MulDouble(D1, D2))

op_d2i == At("d2i") /\ Len(stack) >= 1 /\ Replace(1, <<Int32(DoubleToInt(E1.v))>>) /\ OnStack
op_l2i == At("l2i") /\ Len(stack) >= 1 /\ Replace(1, <<Int32(popLong(E1))>>) /\ OnStack

op_goto ==
  /\ At("goto") /\ GoTo(Signed(I.lit, Short))
  /\ UNCHANGED <<class, mode, stack, local, builder, printed>>

op_if_icmpge ==
  /\ At("if_icmpge") /\ Len(stack) >= 2
  /\ Replace(2, <<>>)
  /\ GoTo(IF popInt(E2) >= popInt(E1) THEN Signed(I.lit, Short) ELSE 3)
  /\ UNCHANGED <<class, mode, local, builder, printed>>

-----------------------------------------------------------------------------
(***************************************************************************)
(* Local variables.  long_int follows integer in LocalVariables, so an int *)
(* whose index is not below NLocals shares its word with half a long.      *)
(***************************************************************************)
low(l)  == NLocals + 2 * l
high(l) == NLocals + 2 * l + 1
long_int(l) == local[high(l)] * Word + local[low(l)]

IsInt  == I.index \in DOMAIN local
IsLong == high(I.index) \in DOMAIN local

Stored == Go /\ UNCHANGED <<class, mode, builder, printed>>

op_iload ==
  /\ At("iload") \/ At("iload_n")
  /\ IsInt /\ Replace(0, <<Int32(local[I.index])>>) /\ OnStack

\* The long passes through an int.
op_lload ==
  /\ At("lload")
  /\ IsLong /\ Replace(0, <<Long(Signed(long_int(I.index) % Word, Word))>>) /\ OnStack

op_istore ==
  /\ At("istore") \/ At("istore_n")
  /\ Len(stack) >= 1 /\ IsInt
  /\ local' = [local EXCEPT ![I.index] = E1.v % Word]
  /\ Replace(1, <<>>) /\ Stored

op_lstore ==
  /\ At("lstore")
  /\ Len(stack) >= 1 /\ IsLong
  /\ local' = [local EXCEPT ![low(I.index)] = E1.v % Word, ![high(I.index)] = E1.v \div Word]
  /\ Replace(1, <<>>) /\ Stored

op_iinc_Sets ==
  /\ At("iinc")
  /\ IsInt
  /\ local' = [local EXCEPT ![I.index] = I.lit]
  /\ Stored /\ UNCHANGED stack

\* The constant is an unsigned byte.
op_iinc ==
  /\ At("iinc")
  /\ IsInt
  /\ local' = [local EXCEPT ![I.index] = (@ + I.lit) % Word]
  /\ Stored /\ UNCHANGED stack

-----------------------------------------------------------------------------
(***************************************************************************)
(* Invokes.                                                                *)
(***************************************************************************)
op_invokespecial_OffByOne ==
  /\ At("invokespecial")
  /\ LET caller == [Top EXCEPT !.pc = @ + 3]
     IN  frames' = Front(frames) \o
           IF I.lit <= Len(Methods) THEN <<caller, Activation(I.lit + 1)>> ELSE <<caller>>
  /\ UNCHANGED <<class, mode, stack, local, builder, printed>>

\* The index into the constant pool is used as one into the method pool.
op_invokespecial ==
  /\ At("invokespecial")
  /\ LET caller == [Top EXCEPT !.pc = @ + 3]
     IN  frames' = Front(frames) \o
           IF I.lit < Len(Methods) THEN <<caller, Activation(I.lit + 1)>> ELSE <<caller>>
  /\ UNCHANGED <<class, mode, stack, local, builder, printed>>

\* A method reference that the pool holds in full.
Refers(index) == Finds("method", index) /\ Pool[index].resolved
Broken(index) == Finds("method", index) /\ ~ Pool[index].resolved

Library == {<<"java/lang/Math", "random">>, <<"java/lang/System", "currentTimeMillis">>}
Named   == <<Pool[I.lit].class, Pool[I.lit].name>>

\* A static method of the class itself is not run.
op_invokestatic ==
  /\ At("invokestatic")
  /\ \/ /\ \/ I.lit < Len(Methods)
           \/ ~ Finds("method", I.lit)
           \/ Refers(I.lit) /\ Named \notin Library
        /\ OnStack /\ UNCHANGED stack
     \/ /\ I.lit >= Len(Methods) /\ Broken(I.lit)
        /\ Leave /\ UNCHANGED <<class, mode, stack, local, builder, printed>>
     \/ /\ I.lit >= Len(Methods) /\ Refers(I.lit)
        /\ \/ /\ Named = <<"java/lang/Math", "random">>
              /\ \E r \in Randoms : Replace(0, <<Double(r)>>)
           \/ /\ Named = <<"java/lang/System", "currentTimeMillis">>
              /\ \E t \in Times : Replace(0, <<Long(t)>>)
        /\ OnStack

\* The pieces that an entry adds to the string builder: the string that a
\* reference names, or an int.
Pieces(e) ==
  CASE e.type = "ref" /\ Finds("string", popInt(e)) ->
         <<[kind |-> "text", n |-> Pool[popInt(e)].n]>>
    [] e.type = "int" -> <<[kind |-> "int", n |-> popInt(e)]>>
    [] OTHER -> <<>>

\* The bytes of a piece, as %d prints it or as the pool has it.
Digits(v) ==
  LET a == IF v < 0 THEN -v ELSE v
  IN  (IF v < 0 THEN 1 ELSE 0) + (CHOOSE d \in 1 .. Word : a < 10 ^ d /\ (d = 1 \/ a >= 10 ^ (d - 1)))
Size(piece) ==
  IF piece.kind = "int" THEN Digits(piece.n)
  ELSE (CHOOSE s \in {Pool[x] : x \in DOMAIN Pool} : s.tag = "string" /\ s.n = piece.n).size
Bytes(pieces) == FoldLeft(LAMBDA sum, piece : sum + Size(piece), 0, pieces)

\* A string that fills the buffer it is fetched to has no end there.
Fetches(e) == \A k \in DOMAIN Pieces(e) : Pieces(e)[k].kind = "text" => Size(Pieces(e)[k]) < NameSize

Text == builder \o Pieces(E1)

ClassOf(op) == IF At(op) /\ Refers(I.lit) THEN Pool[I.lit].class ELSE "none"

\* println and print: the stream below the argument stays where it is.
println ==
  /\ At("invokevirtual") /\ ClassOf("invokevirtual") = "java/io/PrintStream"
  /\ Len(stack) >= 1 /\ Fetches(E1) /\ Bytes(Text) < BufferSize
  /\ printed' = Append(printed, Text)
  /\ builder' = <<>>
  /\ Replace(1, <<>>) /\ Go /\ UNCHANGED <<class, mode, local>>

\* Every method of a string builder adds an entry: append its argument, and
\* toString whatever is there.
append ==
  /\ At("invokevirtual") /\ ClassOf("invokevirtual") = "java/lang/StringBuilder"
  /\ Len(stack) >= 1 /\ Fetches(E1) /\ Bytes(Text) <= BufferSize
  /\ builder' = Text
  /\ Replace(1, <<>>) /\ Go /\ UNCHANGED <<class, mode, local, printed>>

Strings == {"java/io/PrintStream", "java/lang/StringBuilder"}

op_invokevirtual ==
  \/ println \/ append
  \/ /\ At("invokevirtual") /\ ~ Broken(I.lit) /\ ClassOf("invokevirtual") \notin Strings
     /\ OnStack /\ UNCHANGED stack
  \/ /\ At("invokevirtual") /\ Broken(I.lit)
     /\ Leave /\ UNCHANGED <<class, mode, stack, local, builder, printed>>

op_return == At("return") /\ Leave /\ UNCHANGED <<class, mode, stack, local, builder, printed>>

-----------------------------------------------------------------------------
Pops(op) ==
  CASE op \in {"iadd", "isub", "imul", "idiv", "irem", "lsub", "dadd", "dmul", "if_icmpge"} -> 2
    [] op \in {"dup", "d2i", "l2i", "istore", "istore_n", "lstore"} -> 1
    [] op = "invokevirtual" -> IF ClassOf(op) \in Strings THEN 1 ELSE 0
    [] OTHER -> 0

Grows(op) ==
  \/ op \in {"aload_0", "aconst_null", "getstatic", "ldc", "ldc2_w", "iconst", "dconst_1",
             "bipush", "sipush", "dup", "iload", "iload_n", "lload"}
  \/ op = "invokestatic" /\ I.lit >= Len(Methods) /\ Refers(I.lit) /\ Named \in Library

\* An access below or above the stack, past the local variables, or past one
\* of the two buffers.
Strays ==
  \/ Len(stack) < Pops(I.op)
  \/ Len(stack) = StackMax /\ Grows(I.op)
  \/ I.op \in {"iload", "iload_n", "istore", "istore_n", "iinc"} /\ ~ IsInt
  \/ I.op \in {"lload", "lstore"} /\ ~ IsLong
  \/ /\ ClassOf("invokevirtual") \in Strings
     /\ \/ ~ Fetches(E1)
        \/ Bytes(Text) > BufferSize
        \/ Bytes(Text) = BufferSize /\ ClassOf("invokevirtual") = "java/io/PrintStream"

\* Or the pc is at no instruction.
stray ==
  /\ Running /\ Top.pc # Outside
  /\ Top.pc \in DOMAIN Code => Strays
  /\ Stop("undefined")

\* An opcode that byteCodes does not list: the loop turns for ever.
unknown == At("unknown") /\ UNCHANGED vars

Halted == mode \in Ended /\ UNCHANGED vars

Step ==
  \/ NextAttribute \/ EndMethod
  \/ op_aload_0 \/ op_aconst_null \/ op_getstatic \/ op_ldc \/ op_ldc2_w
  \/ op_iconst \/ op_dconst_1 \/ op_bipush \/ op_sipush \/ op_dup \/ op_new
  \/ op_iadd \/ op_isub \/ op_imul \/ op_idiv \/ op_irem \/ trap \/ op_lsub
  \/ op_dadd \/ op_dmul \/ op_d2i \/ op_l2i
  \/ op_goto \/ op_if_icmpge
  \/ op_iload \/ op_lload \/ op_istore \/ op_lstore \/ op_iinc
  \/ op_invokespecial \/ op_invokestatic \/ op_invokevirtual \/ op_return
  \/ stray \/ unknown

Next == Step \/ Halted

\* One thread, which blocks nowhere.
Spec == Init /\ [][Next]_vars /\ WF_vars(Step)

-----------------------------------------------------------------------------
Piece == [kind : {"text", "int"}, n : Int]

\* Every variable keeps its type, and the stack and the locals their bounds.
TypeOK ==
  /\ mode \in {"run"} \cup Ended
  /\ frames \in Seq([method : 1 .. Len(Methods), attribute : Nat \ {0}, pc : Nat \cup {Outside}])
  /\ stack \in Seq([type : Types, v : 0 .. DWord - 1]) /\ Len(stack) <= StackMax
  /\ local \in [0 .. 3 * NLocals - 1 -> 0 .. Word - 1]
  /\ builder \in Seq(Piece)
  /\ printed \in Seq(Seq(Piece))

\* A program ends, unless it meets an opcode that the interpreter does not
\* have.
EveryProgramEnds == <>(mode \in Ended \/ At("unknown"))
=============================================================================
