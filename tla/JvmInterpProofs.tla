---------------------------- MODULE JvmInterpProofs ----------------------------
(***************************************************************************)
(* The type invariant of JvmInterp, for all class files, sizes of the      *)
(* stack, the locals and the buffers, and widths of the ints.              *)
(*                                                                         *)
(* A handler has typed operands because its activation is at an attribute  *)
(* that holds code: Inv says so of every activation.                       *)
(***************************************************************************)
EXTENDS JvmInterp, SequenceFacts

Entry == [type : Types, v : 0 .. DWord - 1]
Frame == [method : 1 .. Len(Methods), attribute : Nat \ {0}, pc : Nat \cup {Outside}]

\* An activation that runs is in the code of an attribute of its method.
Located ==
  {f \in Frame : f.pc # Outside =>
     /\ f.attribute =< Len(Methods[f.method].attributes)
     /\ Methods[f.method].attributes[f.attribute].name = "Code"}

Inv == TypeOK /\ class \in Classes /\ frames \in Seq(Located)

\* The arithmetic of doubles yields bit patterns of a double, or an int.
DoublesAreTyped ==
  \A p, q \in 0 .. DWord - 1 :
    /\ AddDouble(p, q) \in 0 .. DWord - 1 /\ MulDouble(p, q) \in 0 .. DWord - 1
    /\ DoubleToInt(p) \in Int

-----------------------------------------------------------------------------
(***************************************************************************)
(* Sequences.                                                              *)
(***************************************************************************)
\* What Replace leaves of a sequence and puts behind it.
LEMMA Replaced ==
  ASSUME NEW S, NEW s \in Seq(S), NEW n \in Nat, n =< Len(s), NEW es \in Seq(S)
  PROVE  LET r == SubSeq(s, 1, Len(s) - n) \o es
         IN  r \in Seq(S) /\ Len(r) = Len(s) - n + Len(es)
  <1>1. Len(s) \in Nat /\ \A x \in 1 .. Len(s) : s[x] \in S
    BY LenProperties, ElementOfSeq
  <1> DEFINE m == Len(s) - n
  <1>2. m \in Nat /\ m =< Len(s)
    BY <1>1
  <1> HIDE DEF m
  <1>3. SubSeq(s, 1, m) \in Seq(S) /\ Len(SubSeq(s, 1, m)) = m
    <2>1. /\ SubSeq(s, 1, m) \in Seq(S)
          /\ Len(SubSeq(s, 1, m)) = IF 1 <= m THEN m - 1 + 1 ELSE 0
      BY <1>1, <1>2, SubSeqProperties
    <2> QED BY <1>2, <2>1
  <1>4. /\ SubSeq(s, 1, m) \o es \in Seq(S)
        /\ Len(SubSeq(s, 1, m) \o es) = m + Len(es)
    BY <1>3, ConcatProperties
  <1> QED BY <1>4 DEF m

LEMMA Singleton ==
  ASSUME NEW S, NEW e \in S
  PROVE  <<e>> \in Seq(S) /\ Len(<<e>>) = 1 /\ <<e, e>> \in Seq(S) /\ Len(<<e, e>>) = 2
  OBVIOUS

-----------------------------------------------------------------------------
(***************************************************************************)
(* Numbers and entries.                                                    *)
(***************************************************************************)
LEMMA Sizes ==
  /\ NLocals \in Nat \ {0} /\ Short \in Nat \ {0} /\ Word \in Nat \ {0}
  /\ DWord \in Nat \ {0} /\ DWord = Word * Word /\ Word =< DWord
  <1>1. /\ NLocals \in Nat \ {0} /\ Short \in Nat \ {0} /\ Word \in Nat \ {0}
    BY SizeAssumption
  <1> QED BY <1>1 DEF DWord

LEMMA Entries ==
  ASSUME NEW v \in Int
  PROVE  Int32(v) \in Entry /\ Ref(v) \in Entry /\ Long(v) \in Entry
  <1>1. v % Word \in 0 .. Word - 1 /\ v % DWord \in 0 .. DWord - 1
    BY Sizes
  <1>2. v % Word \in 0 .. DWord - 1
    BY <1>1, Sizes
  <1> QED BY <1>1, <1>2 DEF Int32, Ref, Long, Entry, Types

LEMMA Doubles ==
  ASSUME NEW v \in 0 .. DWord - 1
  PROVE  Double(v) \in Entry
  BY DEF Double, Entry, Types

\* What is popped is a number.
LEMMA Popped ==
  ASSUME NEW e \in Entry
  PROVE  /\ e.v \in 0 .. DWord - 1 /\ popInt(e) \in Int /\ popLong(e) \in Int
         /\ e.v % Word \in 0 .. Word - 1 /\ e.v \div Word \in 0 .. Word - 1
  <1>1. e.v \in 0 .. DWord - 1
    BY DEF Entry
  <1> DEFINE u == e.v
  <1> HIDE DEF u
  <1>2. u % Word \in 0 .. Word - 1 /\ u \div Word \in Int
        /\ u = (u \div Word) * Word + (u % Word)
    BY <1>1, Sizes DEF u
  <1> DEFINE q == u \div Word
  <1> HIDE DEF q
  <1>3. q \in 0 .. Word - 1
    <2>1. q * Word < Word * Word /\ q * Word > -Word /\ q \in Int
      BY <1>1, <1>2, Sizes DEF u, q
    <2>2. q < Word
      BY <2>1, Sizes
    <2>3. q >= 0
      BY <2>1, Sizes
    <2> QED BY <2>1, <2>2, <2>3, Sizes
  <1>4. Signed(u % Word, Word) \in Int /\ Signed(u, DWord) \in Int
    BY <1>1, <1>2, Sizes DEF Signed, u
  <1> QED BY <1>1, <1>2, <1>3, <1>4 DEF popInt, popLong, u, q

-----------------------------------------------------------------------------
(***************************************************************************)
(* The running activation and its instruction.                             *)
(***************************************************************************)
LEMMA TopOfFrames ==
  ASSUME Inv, Running
  PROVE  Top \in Located /\ Front(frames) \in Seq(Located)
  BY FrontAndLast DEF Inv, Running, Top

LEMMA MethodsOfClass ==
  ASSUME Inv
  PROVE  /\ Len(Methods) \in Nat
         /\ \A m \in 1 .. Len(Methods) :
              /\ Len(Methods[m].attributes) \in Nat
              /\ \A a \in 1 .. Len(Methods[m].attributes) :
                   Methods[m].attributes[a].name = "Code" => IsCode(Methods[m].attributes[a].code)
  BY ClassAssumption DEF Inv, IsClass, Methods

LEMMA Instruction ==
  ASSUME Inv, Running, Top.pc # Outside, Top.pc \in DOMAIN Code
  PROVE  /\ Top.pc \in Nat /\ I.index \in Nat /\ I.lit \in Nat
         /\ I.op \in {"goto", "if_icmpge"} => Top.pc + Signed(I.lit, Short) \in Nat
  <1>1. Top \in Located
    BY TopOfFrames
  <1>2. /\ Top.method \in 1 .. Len(Methods) /\ Top.attribute \in 1 .. Len(Attributes)
        /\ Attributes[Top.attribute].name = "Code"
    BY <1>1, MethodsOfClass DEF Located, Frame, Attributes
  <1>3. IsCode(Code)
    BY <1>2, MethodsOfClass DEF Code, Attributes
  <1>4. /\ Top.pc \in Nat /\ I.index \in Nat /\ I.lit \in Nat
        /\ I.op \in {"goto", "if_icmpge"} => Top.pc + Signed(I.lit, Short) >= 0
    BY <1>3 DEF IsCode, I
  <1>5. Signed(I.lit, Short) \in Int
    BY <1>4, Sizes DEF Signed
  <1> QED BY <1>4, <1>5

\* The top two entries of the stack.
LEMMA StackEntries ==
  ASSUME Inv
  PROVE  /\ stack \in Seq(Entry) /\ Len(stack) \in Nat
         /\ Len(stack) >= 1 => E1 \in Entry
         /\ Len(stack) >= 2 => E2 \in Entry
  <1>1. stack \in Seq(Entry)
    BY DEF Inv, TypeOK, Entry
  <1>2. Len(stack) \in Nat /\ \A x \in 1 .. Len(stack) : stack[x] \in Entry
    BY <1>1, LenProperties, ElementOfSeq
  <1> QED BY <1>1, <1>2 DEF E1, E2

-----------------------------------------------------------------------------
(***************************************************************************)
(* What the ends of a handler keep.                                        *)
(***************************************************************************)
Placed == class' = class /\ frames' \in Seq(Located)

LEMMA LocatedLater == ASSUME class' = class PROVE Located' = Located
  BY DEF Located, Frame, Methods, Outside

LEMMA InTopPlaces ==
  ASSUME Inv, Running, class' = class, NEW f \in Located, frames' = Append(Front(frames), f)
  PROVE  Placed
  BY TopOfFrames, AppendProperties DEF Placed

LEMMA PcPlaces ==
  ASSUME Inv, Running, class' = class, Top.pc # Outside, NEW n \in Nat,
         frames' = Append(Front(frames), [Top EXCEPT !.pc = n])
  PROVE  Placed
  <1>1. Top \in Located
    BY TopOfFrames
  <1>2. [Top EXCEPT !.pc = n] \in Located
    BY <1>1 DEF Located, Frame
  <1> QED BY <1>2, InTopPlaces

LEMMA GoPlaces ==
  ASSUME Inv, NEW op, At(op), class' = class, Go
  PROVE  Placed
  <1>1. Running /\ Top.pc # Outside /\ Top.pc \in Nat
    BY Instruction DEF At
  <1>2. Length(I.op) \in Nat
    BY DEF Length
  <1> DEFINE n == Top.pc + Length(I.op)
  <1>3. n \in Nat
    BY <1>1, <1>2
  <1>4. frames' = Append(Front(frames), [Top EXCEPT !.pc = n])
    BY DEF Go, GoTo, InTop
  <1> HIDE DEF n
  <1> QED BY <1>1, <1>3, <1>4, PcPlaces

LEMMA LeavePlaces ==
  ASSUME Inv, Running, class' = class, Leave
  PROVE  Placed
  <1>1. Top \in Located
    BY TopOfFrames
  <1> DEFINE f == [Top EXCEPT !.pc = Outside, !.attribute = @ + 1]
  <1>2. f \in Located
    <2>1. Top \in Frame /\ Top.attribute + 1 \in Nat \ {0} /\ Outside \in Nat \cup {Outside}
      BY <1>1 DEF Located, Frame
    <2>2. f \in Frame
      BY <2>1 DEF Frame
    <2>3. f.pc = Outside
      BY <2>1 DEF Frame
    <2> QED BY <2>2, <2>3 DEF Located
  <1>3. frames' = Append(Front(frames), f)
    BY DEF Leave, InTop
  <1> HIDE DEF f
  <1> QED BY <1>2, <1>3, InTopPlaces

\* A step that leaves typed variables and placed activations keeps Inv.
LEMMA PlacedKeeps ==
  ASSUME Inv, Placed, mode' \in {"run"} \cup Ended,
         stack' \in Seq(Entry), Len(stack') =< StackMax,
         local' \in [0 .. 3 * NLocals - 1 -> 0 .. Word - 1],
         builder' \in Seq(Piece), printed' \in Seq(Seq(Piece))
  PROVE  Inv'
  <1>1. class' = class /\ frames' \in Seq(Located) /\ Located' = Located
    BY LocatedLater DEF Placed
  <1>2. Located \subseteq Frame
    BY DEF Located
  <1>3. frames' \in Seq(Frame)
    BY <1>1, <1>2, SeqMonotonic
  <1>4. Frame' = Frame
    BY <1>1 DEF Frame, Methods, Outside
  <1>5. frames' \in Seq([method : 1 .. Len(Methods), attribute : Nat \ {0},
                          pc : Nat \cup {Outside}])'
    BY <1>3, <1>4 DEF Frame
  <1> QED BY <1>1, <1>5 DEF Inv, TypeOK, Entry, Ended

\* One that leaves the stack and all else alone.
LEMMA QuietKeeps ==
  ASSUME Inv, Placed, UNCHANGED <<mode, stack, local, builder, printed>>
  PROVE  Inv'
  BY PlacedKeeps DEF Inv, TypeOK, Entry

LEMMA StopKeeps ==
  ASSUME Inv, NEW m \in Ended, Stop(m)
  PROVE  Inv'
  <1>1. Placed
    BY DEF Stop, Inv, Placed
  <1> QED BY <1>1, PlacedKeeps DEF Stop, Inv, TypeOK, Entry

\* What a handler leaves on the stack.
StackTyped == stack' \in Seq(Entry) /\ Len(stack') =< StackMax

LEMMA ReplaceTypes ==
  ASSUME Inv, NEW n \in Nat, n =< Len(stack), NEW es \in Seq(Entry),
         Len(stack) - n + Len(es) =< StackMax,
         stack' = SubSeq(stack, 1, Len(stack) - n) \o es
  PROVE  StackTyped
  BY StackEntries, Replaced DEF StackTyped

LEMMA OnStackKeeps ==
  ASSUME Inv, NEW op, At(op), OnStack, StackTyped
  PROVE  Inv'
  <1>1. Placed
    BY GoPlaces DEF OnStack
  <1> QED BY <1>1, PlacedKeeps DEF OnStack, StackTyped, Inv, TypeOK

-----------------------------------------------------------------------------
(***************************************************************************)
(* Handlers that only push, pop and compute.                               *)
(***************************************************************************)
\* A replacement of the top n entries by one entry.
LEMMA ReplacedByOne ==
  ASSUME Inv, NEW n \in Nat, NEW e \in Entry, Replace(n, <<e>>)
  PROVE  StackTyped
  BY ReplaceTypes, Singleton DEF Replace

Constants ==
  \/ op_aload_0 \/ op_aconst_null \/ op_getstatic \/ op_ldc \/ op_ldc2_w
  \/ op_iconst \/ op_dconst_1 \/ op_bipush \/ op_sipush

LEMMA ConstantsKeep ==
  ASSUME Inv, Constants
  PROVE  Inv'
  <1>1. PICK op : At(op)
    BY DEF Constants, op_aload_0, op_aconst_null, op_getstatic, op_ldc, op_ldc2_w, op_iconst,
      op_dconst_1, op_bipush, op_sipush
  <1>2. I.lit \in Nat /\ Signed(I.lit, Short) \in Int
    BY <1>1, Instruction, Sizes DEF At, Signed
  <1>3. PICK e \in Entry : /\ Len(stack) - 0 + Len(<<e>>) =< StackMax
                          /\ stack' = SubSeq(stack, 1, Len(stack) - 0) \o <<e>>
    <2>1. /\ Int32(0) \in Entry /\ Ref(0) \in Entry /\ Ref(I.lit) \in Entry
          /\ Int32(I.lit) \in Entry /\ Int32(Signed(I.lit, Short)) \in Entry
      BY <1>2, Entries
    <2>2. Double(OneDouble) \in Entry
      BY Doubles, SizeAssumption
    <2> QED BY <2>1, <2>2 DEF Constants, op_aload_0, op_aconst_null, op_getstatic, op_ldc,
              op_ldc2_w, op_iconst, op_dconst_1, op_bipush, op_sipush, Replace
  <1>4. <<e>> \in Seq(Entry) /\ 0 \in Nat /\ 0 =< Len(stack)
    BY StackEntries
  <1>5. StackTyped
    BY <1>3, <1>4, ReplaceTypes
  <1> QED BY <1>1, <1>5, OnStackKeeps DEF Constants, op_aload_0, op_aconst_null, op_getstatic,
            op_ldc, op_ldc2_w, op_iconst, op_dconst_1, op_bipush, op_sipush

LEMMA QuotIsInt ==
  ASSUME NEW a \in Int, NEW b \in Int, b # 0
  PROVE  Quot(a, b) \in Int
  <1> DEFINE A == IF a < 0 THEN -a ELSE a
             B == IF b < 0 THEN -b ELSE b
  <1>1. A \in Nat /\ B \in Nat \ {0}
    OBVIOUS
  <1> HIDE DEF A, B
  <1>2. A \div B \in Int
    BY <1>1
  <1> QED BY <1>2 DEF Quot, A, B

IntOps == op_iadd \/ op_isub \/ op_imul \/ op_idiv \/ op_irem

LEMMA IntOpsKeep ==
  ASSUME Inv, IntOps
  PROVE  Inv'
  <1>1. Len(stack) >= 2
    BY DEF IntOps, op_iadd, op_isub, op_imul, op_idiv, op_irem, IntOp
  <1>2. popInt(E1) \in Int /\ popInt(E2) \in Int
    BY <1>1, StackEntries, Popped
  <1>3. ~ Traps => Quot(popInt(E2), popInt(E1)) \in Int
    BY <1>2, QuotIsInt DEF Traps
  <1>4. PICK e \in Entry :
          /\ \E op : At(op)
          /\ OnStack
          /\ Len(stack) - 2 + Len(<<e>>) =< StackMax
          /\ stack' = SubSeq(stack, 1, Len(stack) - 2) \o <<e>>
    <2>1. \A v \in Int : Int32(v) \in Entry
      BY Entries
    <2>2. \A op : \A v \in Int : IntOp(op, v) =>
            \E e \in Entry : /\ At(op) /\ OnStack
                             /\ Len(stack) - 2 + Len(<<e>>) =< StackMax
                             /\ stack' = SubSeq(stack, 1, Len(stack) - 2) \o <<e>>
      BY <2>1 DEF IntOp, Replace
    <2>3. \E op : \E v \in Int : IntOp(op, v)
      <3>1. CASE op_iadd
        BY <1>2, <3>1 DEF op_iadd
      <3>2. CASE op_isub
        BY <1>2, <3>2 DEF op_isub
      <3>3. CASE op_imul
        BY <1>2, <3>3 DEF op_imul
      <3>4. CASE op_idiv
        BY <1>3, <3>4 DEF op_idiv
      <3>5. CASE op_irem
        <4>1. popInt(E2) - popInt(E1) * Quot(popInt(E2), popInt(E1)) \in Int
          BY <1>2, <1>3, <3>5 DEF op_irem
        <4> QED BY <4>1, <3>5 DEF op_irem
      <3> QED BY <3>1, <3>2, <3>3, <3>4, <3>5 DEF IntOps
    <2> QED BY <2>2, <2>3
  <1>5. <<e>> \in Seq(Entry) /\ 2 \in Nat /\ 2 =< Len(stack)
    BY <1>1, StackEntries
  <1>6. StackTyped
    BY <1>4, <1>5, ReplaceTypes
  <1> QED BY <1>4, <1>6, OnStackKeeps

\* A string, a double or an int of the pool is what its tag says.
LEMMA PoolEntries ==
  ASSUME Inv, NEW x
  PROVE  /\ Finds("double", x) => Pool[x].v \in 0 .. DWord - 1
         /\ Finds("string", x) => Pool[x].n \in Int
  BY ClassAssumption DEF Inv, IsClass, Finds, Pool

LEMMA DoubleParameter ==
  ASSUME Inv, NEW e \in Entry
  PROVE  get_double_parameter(e) \in 0 .. DWord - 1
  BY Popped, PoolEntries, Sizes DEF get_double_parameter

Conversions == op_dup \/ op_d2i \/ op_l2i

LEMMA ConversionsKeep ==
  ASSUME DoublesAreTyped, Inv, Conversions
  PROVE  Inv'
  <1>1. Len(stack) >= 1 /\ \E op : At(op) /\ OnStack
    BY DEF Conversions, op_dup, op_d2i, op_l2i
  <1>2. E1.v \in 0 .. DWord - 1 /\ popInt(E1) \in Int /\ popLong(E1) \in Int
    BY <1>1, StackEntries, Popped
  <1>3. DoubleToInt(E1.v) \in Int
    BY <1>2 DEF DoublesAreTyped
  <1>4. PICK es \in Seq(Entry) : /\ Len(stack) - 1 + Len(es) =< StackMax
                                 /\ stack' = SubSeq(stack, 1, Len(stack) - 1) \o es
    <2>1. /\ Int32(popInt(E1)) \in Entry /\ Ref(popInt(E1)) \in Entry
          /\ Int32(DoubleToInt(E1.v)) \in Entry /\ Int32(popLong(E1)) \in Entry
      BY <1>2, <1>3, Entries
    <2>2. \A e \in Entry : <<e>> \in Seq(Entry) /\ <<e, e>> \in Seq(Entry)
      BY Singleton
    <2>3. CASE op_dup
      <3> DEFINE e == IF E1.type = "int" THEN Int32(popInt(E1)) ELSE Ref(popInt(E1))
      <3>1. e \in Entry
        BY <2>1
      <3>2. Replace(1, <<e, e>>)
        BY <2>3 DEF op_dup
      <3> HIDE DEF e
      <3> QED BY <3>1, <3>2, <2>2 DEF Replace
    <2>4. CASE op_d2i
      BY <2>1, <2>2, <2>4 DEF op_d2i, Replace
    <2>5. CASE op_l2i
      BY <2>1, <2>2, <2>5 DEF op_l2i, Replace
    <2> QED BY <2>3, <2>4, <2>5 DEF Conversions
  <1>5. 1 \in Nat /\ 1 =< Len(stack)
    BY <1>1, StackEntries
  <1>6. StackTyped
    BY <1>4, <1>5, ReplaceTypes
  <1> QED BY <1>1, <1>6, OnStackKeeps

WideOps == op_lsub \/ op_dadd \/ op_dmul

LEMMA WideOpsKeep ==
  ASSUME DoublesAreTyped, Inv, WideOps
  PROVE  Inv'
  <1>1. Len(stack) >= 2 /\ \E op : At(op) /\ OnStack
    BY DEF WideOps, op_lsub, op_dadd, op_dmul, DoubleOp
  <1>2. /\ popLong(E2) \in Int /\ popLong(E1) \in Int
        /\ D1 \in 0 .. DWord - 1 /\ D2 \in 0 .. DWord - 1
    <2>1. E1 \in Entry /\ E2 \in Entry
      BY <1>1, StackEntries
    <2>2. popLong(E2) \in Int /\ popLong(E1) \in Int
      BY <2>1, Popped
    <2>3. \A e \in Entry : get_double_parameter(e) \in 0 .. DWord - 1
      BY DoubleParameter
    <2> QED BY <2>1, <2>2, <2>3 DEF D1, D2
  <1>3. AddDouble(D1, D2) \in 0 .. DWord - 1 /\ MulDouble(D1, D2) \in 0 .. DWord - 1
    BY <1>2 DEF DoublesAreTyped
  <1>4. PICK e \in Entry : /\ Len(stack) - 2 + Len(<<e>>) =< StackMax
                           /\ stack' = SubSeq(stack, 1, Len(stack) - 2) \o <<e>>
    <2>1. Long(popLong(E2) - popLong(E1)) \in Entry
      BY <1>2, Entries
    <2>2. Double(AddDouble(D1, D2)) \in Entry /\ Double(MulDouble(D1, D2)) \in Entry
      BY <1>3, Doubles
    <2> QED BY <2>1, <2>2 DEF WideOps, op_lsub, op_dadd, op_dmul, DoubleOp, Replace
  <1>5. <<e>> \in Seq(Entry) /\ 2 \in Nat /\ 2 =< Len(stack)
    BY <1>1, StackEntries
  <1>6. StackTyped
    BY <1>4, <1>5, ReplaceTypes
  <1> QED BY <1>1, <1>6, OnStackKeeps

-----------------------------------------------------------------------------
(***************************************************************************)
(* Jumps and local variables.                                              *)
(***************************************************************************)
LEMMA EmptyIsTyped == <<>> \in Seq(Entry) /\ Len(<<>>) = 0
  OBVIOUS

LEMMA JumpsKeep ==
  ASSUME Inv, op_goto \/ op_if_icmpge
  PROVE  Inv'
  <1>1. Running /\ Top.pc # Outside /\ Top.pc \in DOMAIN Code /\ class' = class
    BY DEF op_goto, op_if_icmpge, At
  <1>2. Top.pc + Signed(I.lit, Short) \in Nat /\ Top.pc + 3 \in Nat
    BY <1>1, Instruction DEF op_goto, op_if_icmpge, At
  <1>3. PICK n \in Nat : frames' = Append(Front(frames), [Top EXCEPT !.pc = n])
    BY <1>2 DEF op_goto, op_if_icmpge, GoTo, InTop
  <1>4. Placed
    BY <1>1, <1>3, PcPlaces
  <1>5. CASE op_goto
    BY <1>4, <1>5, QuietKeeps DEF op_goto
  <1>6. CASE op_if_icmpge
    <2>1. Len(stack) >= 2 /\ Replace(2, <<>>)
      BY <1>6 DEF op_if_icmpge
    <2>2. 2 \in Nat /\ 2 =< Len(stack)
      BY <2>1, StackEntries
    <2>3. StackTyped
      BY <2>1, <2>2, EmptyIsTyped, ReplaceTypes DEF Replace
    <2> QED BY <1>4, <1>6, <2>3, PlacedKeeps DEF op_if_icmpge, StackTyped, Inv, TypeOK
  <1> QED BY <1>5, <1>6

Locals == [0 .. 3 * NLocals - 1 -> 0 .. Word - 1]

LEMMA LocalsTyped == ASSUME Inv PROVE local \in Locals /\ DOMAIN local = 0 .. 3 * NLocals - 1
  BY DEF Inv, TypeOK, Locals

LEMMA LoadsKeep ==
  ASSUME Inv, op_iload \/ op_lload
  PROVE  Inv'
  <1>1. \E op : At(op) /\ OnStack
    BY DEF op_iload, op_lload
  <1>2. I.index \in Nat
    BY <1>1, Instruction DEF At
  <1>3. PICK e \in Entry : /\ Len(stack) - 0 + Len(<<e>>) =< StackMax
                           /\ stack' = SubSeq(stack, 1, Len(stack) - 0) \o <<e>>
    <2>1. CASE op_iload
      <3>1. local[I.index] \in Int
        BY <2>1, LocalsTyped, Sizes DEF op_iload, IsInt, Locals
      <3> QED BY <2>1, <3>1, Entries DEF op_iload, Replace
    <2>2. CASE op_lload
      <3>1. local[high(I.index)] \in Nat /\ local[low(I.index)] \in Nat
        BY <1>2, <2>2, LocalsTyped, Sizes DEF op_lload, IsLong, Locals, high, low
      <3>2. long_int(I.index) \in Int
        BY <3>1, Sizes DEF long_int
      <3>3. \A n \in Int : Signed(n % Word, Word) \in Int
        BY Sizes DEF Signed
      <3>4. Long(Signed(long_int(I.index) % Word, Word)) \in Entry
        BY <3>2, <3>3, Entries
      <3> QED BY <2>2, <3>4 DEF op_lload, Replace
    <2> QED BY <2>1, <2>2
  <1>4. <<e>> \in Seq(Entry) /\ 0 \in Nat /\ 0 =< Len(stack)
    BY StackEntries
  <1>5. StackTyped
    BY <1>3, <1>4, ReplaceTypes
  <1> QED BY <1>1, <1>5, OnStackKeeps

LEMMA StoresKeep ==
  ASSUME Inv, op_istore \/ op_lstore
  PROVE  Inv'
  <1>1. /\ \E op : At(op)
        /\ Stored /\ Len(stack) >= 1 /\ Replace(1, <<>>)
    BY DEF op_istore, op_lstore
  <1>2. E1.v % Word \in 0 .. Word - 1 /\ E1.v \div Word \in 0 .. Word - 1
    BY <1>1, StackEntries, Popped
  <1>3. local' \in Locals
    <2>1. CASE op_istore
      BY <1>2, <2>1, LocalsTyped DEF op_istore, Locals
    <2>2. CASE op_lstore
      BY <1>2, <2>2, LocalsTyped DEF op_lstore, Locals
    <2> QED BY <2>1, <2>2
  <1>4. 1 \in Nat /\ 1 =< Len(stack)
    BY <1>1, StackEntries
  <1>5. StackTyped
    BY <1>1, <1>4, EmptyIsTyped, ReplaceTypes DEF Replace
  <1>6. Placed
    BY <1>1, GoPlaces DEF Stored
  <1> QED BY <1>1, <1>3, <1>5, <1>6, PlacedKeeps DEF Stored, StackTyped, Locals, Inv, TypeOK

LEMMA IncrementKeeps ==
  ASSUME Inv, op_iinc
  PROVE  Inv'
  <1>1. At("iinc") /\ IsInt /\ Stored /\ UNCHANGED stack
    BY DEF op_iinc
  <1>2. I.lit \in Nat
    BY <1>1, Instruction DEF At
  <1>3. local[I.index] \in 0 .. Word - 1
    BY <1>1, LocalsTyped DEF IsInt, Locals
  <1>4. (local[I.index] + I.lit) % Word \in 0 .. Word - 1
    <2> DEFINE n == local[I.index] + I.lit
    <2>1. n \in Int
      BY <1>2, <1>3, Sizes
    <2> HIDE DEF n
    <2>2. n % Word \in 0 .. Word - 1
      BY <2>1, Sizes
    <2> QED BY <2>2 DEF n
  <1>5. local' \in Locals
    BY <1>4, LocalsTyped DEF op_iinc, Locals
  <1>6. Placed
    BY <1>1, GoPlaces DEF Stored
  <1> QED BY <1>1, <1>5, <1>6, PlacedKeeps DEF Stored, Locals, Inv, TypeOK, Entry

-----------------------------------------------------------------------------
(***************************************************************************)
(* Activations.                                                            *)
(***************************************************************************)
LEMMA ActivationLocated ==
  ASSUME Inv, NEW m \in 1 .. Len(Methods)
  PROVE  Activation(m) \in Located
  BY DEF Activation, Located, Frame, Outside

LEMMA SpecialKeeps ==
  ASSUME Inv, op_invokespecial
  PROVE  Inv'
  <1>1. /\ Running /\ Top.pc # Outside /\ Top.pc \in DOMAIN Code /\ class' = class
        /\ UNCHANGED <<mode, stack, local, builder, printed>>
    BY DEF op_invokespecial, At
  <1>2. Top.pc + 3 \in Nat /\ I.lit \in Nat /\ Top \in Located
    BY <1>1, Instruction, TopOfFrames
  <1> DEFINE caller == [Top EXCEPT !.pc = @ + 3]
             pushed == IF I.lit < Len(Methods) THEN <<caller, Activation(I.lit + 1)>>
                       ELSE <<caller>>
  <1>3. caller \in Located
    BY <1>1, <1>2 DEF Located, Frame
  <1>4. I.lit < Len(Methods) => Activation(I.lit + 1) \in Located
    BY <1>2, MethodsOfClass, ActivationLocated
  <1>5. frames' = Front(frames) \o pushed
    BY DEF op_invokespecial
  <1> HIDE DEF caller
  <1>6. pushed \in Seq(Located)
    BY <1>3, <1>4
  <1> HIDE DEF pushed
  <1>7. Placed
    BY <1>1, <1>5, <1>6, TopOfFrames, ConcatProperties DEF Placed
  <1> QED BY <1>1, <1>7, QuietKeeps

LEMMA StaticKeeps ==
  ASSUME Inv, op_invokestatic
  PROVE  Inv'
  <1>1. At("invokestatic") /\ Running
    BY DEF op_invokestatic, At
  <1>2. CASE OnStack /\ UNCHANGED stack
    BY <1>1, <1>2, OnStackKeeps DEF StackTyped, Inv, TypeOK, Entry
  <1>3. CASE Leave /\ UNCHANGED <<class, mode, stack, local, builder, printed>>
    BY <1>1, <1>3, LeavePlaces, QuietKeeps
  <1>4. CASE /\ OnStack
             /\ \/ \E r \in Randoms : Replace(0, <<Double(r)>>)
                \/ \E t \in Times : Replace(0, <<Long(t)>>)
    <2>1. \A r \in Randoms : Double(r) \in Entry
      BY Doubles, SizeAssumption
    <2>2. \A t \in Times : Long(t) \in Entry
      BY Entries, SizeAssumption
    <2>3. PICK e \in Entry : /\ Len(stack) - 0 + Len(<<e>>) =< StackMax
                             /\ stack' = SubSeq(stack, 1, Len(stack) - 0) \o <<e>>
      BY <1>4, <2>1, <2>2 DEF Replace
    <2>4. <<e>> \in Seq(Entry) /\ 0 \in Nat /\ 0 =< Len(stack)
      BY StackEntries
    <2>5. StackTyped
      BY <2>3, <2>4, ReplaceTypes
    <2> QED BY <1>1, <1>4, <2>5, OnStackKeeps
  <1> QED BY <1>2, <1>3, <1>4 DEF op_invokestatic

\* What an entry adds to the string builder.
LEMMA PiecesTyped ==
  ASSUME Inv, NEW e \in Entry
  PROVE  Pieces(e) \in Seq(Piece)
  <1>1. popInt(e) \in Int
    BY Popped
  <1>2. Finds("string", popInt(e)) => Pool[popInt(e)].n \in Int
    BY PoolEntries
  <1>3. \A n \in Int : [kind |-> "text", n |-> n] \in Piece /\ [kind |-> "int", n |-> n] \in Piece
    BY DEF Piece
  <1>4. \A p \in Piece : <<p>> \in Seq(Piece)
    BY Singleton
  <1>5. CASE e.type = "ref" /\ Finds("string", popInt(e))
    <2>1. Pieces(e) = <<[kind |-> "text", n |-> Pool[popInt(e)].n]>>
      BY <1>5 DEF Pieces
    <2> QED BY <1>2, <1>3, <1>4, <1>5, <2>1
  <1>6. CASE e.type = "int"
    <2>1. Pieces(e) = <<[kind |-> "int", n |-> popInt(e)]>>
      BY <1>6 DEF Pieces
    <2> QED BY <1>1, <1>3, <1>4, <2>1
  <1>7. CASE e.type # "int" /\ ~ (e.type = "ref" /\ Finds("string", popInt(e)))
    <2>1. Pieces(e) = <<>>
      BY <1>7 DEF Pieces
    <2> QED BY <2>1
  <1> QED BY <1>5, <1>6, <1>7

LEMMA VirtualKeeps ==
  ASSUME Inv, op_invokevirtual
  PROVE  Inv'
  <1>1. At("invokevirtual") /\ Running
    BY DEF op_invokevirtual, println, append, At
  <1>2. CASE println \/ append
    <2>1. Len(stack) >= 1 /\ Go /\ class' = class /\ Replace(1, <<>>) /\ UNCHANGED <<mode, local>>
      BY <1>2 DEF println, append
    <2>2. Placed
      BY <1>1, <2>1, GoPlaces
    <2>3. 1 \in Nat /\ 1 =< Len(stack) /\ E1 \in Entry
      BY <2>1, StackEntries
    <2>4. StackTyped
      BY <2>1, <2>3, EmptyIsTyped, ReplaceTypes DEF Replace
    <2>5. Text \in Seq(Piece)
      BY <2>3, PiecesTyped, ConcatProperties DEF Text, Inv, TypeOK
    <2>6. builder' \in Seq(Piece) /\ printed' \in Seq(Seq(Piece))
      <3> DEFINE T == Text
      <3>1. T \in Seq(Piece) /\ builder \in Seq(Piece) /\ printed \in Seq(Seq(Piece))
        BY <2>5 DEF Inv, TypeOK
      <3>2. Append(printed, T) \in Seq(Seq(Piece))
        BY <3>1, AppendProperties
      <3>3. \/ printed' = Append(printed, T) /\ builder' = <<>>
            \/ printed' = printed /\ builder' = T
        BY <1>2 DEF println, append
      <3> HIDE DEF T
      <3>4. CASE printed' = Append(printed, T) /\ builder' = <<>>
        BY <3>2, <3>4
      <3>5. CASE printed' = printed /\ builder' = T
        BY <3>1, <3>5
      <3> QED BY <3>3, <3>4, <3>5
    <2> QED BY <2>1, <2>2, <2>4, <2>6, PlacedKeeps DEF StackTyped, Inv, TypeOK
  <1>3. CASE OnStack /\ UNCHANGED stack
    BY <1>1, <1>3, OnStackKeeps DEF StackTyped, Inv, TypeOK, Entry
  <1>4. CASE Leave /\ UNCHANGED <<class, mode, stack, local, builder, printed>>
    BY <1>1, <1>4, LeavePlaces, QuietKeeps
  <1> QED BY <1>2, <1>3, <1>4 DEF op_invokevirtual

\* To the next attribute, and back to the caller.
LEMMA AttributesKeep ==
  ASSUME Inv, NextAttribute \/ EndMethod \/ op_return
  PROVE  Inv'
  <1>1. Running
    BY DEF NextAttribute, EndMethod, op_return, At
  <1>2. CASE Leave /\ UNCHANGED <<class, mode, stack, local, builder, printed>>
    BY <1>1, <1>2, LeavePlaces, QuietKeeps
  <1>3. CASE NextAttribute /\ Attributes[Top.attribute].name = "Code"
             /\ InTop([Top EXCEPT !.pc = 0])
             /\ UNCHANGED <<class, mode, stack, local, builder, printed>>
    <2>1. Top \in Located
      BY <1>1, TopOfFrames
    <2> DEFINE f == [Top EXCEPT !.pc = 0]
    <2>2. f \in Located
      BY <1>3, <2>1 DEF Located, Frame, Attributes, NextAttribute
    <2>3. frames' = Append(Front(frames), f)
      BY <1>3 DEF InTop
    <2> HIDE DEF f
    <2>4. Placed
      BY <1>1, <1>3, <2>2, <2>3, InTopPlaces
    <2> QED BY <1>3, <2>4, QuietKeeps
  <1>4. CASE Stop("undefined")
    BY <1>4, StopKeeps DEF Ended
  <1>5. CASE EndMethod
    <2>1. /\ frames' = Front(frames) /\ class' = class
          /\ mode' \in {"run"} \cup Ended
          /\ UNCHANGED <<stack, local, builder, printed>>
      BY <1>5 DEF EndMethod, Ended
    <2>2. Placed
      BY <1>1, <2>1, TopOfFrames DEF Placed
    <2> QED BY <2>1, <2>2, PlacedKeeps DEF Inv, TypeOK, Entry
  <1> QED BY <1>2, <1>3, <1>4, <1>5 DEF NextAttribute, op_return

-----------------------------------------------------------------------------
LEMMA InitTyped ==
  ASSUME Init
  PROVE  Inv
  <1>1. class \in Classes /\ Len(Methods) \in Nat
    BY ClassAssumption DEF Init, IsClass, Methods
  <1>2. init \in 0 .. Len(Methods)
    <2> DEFINE S == {i \in 1 .. Len(Methods) : Methods[i].name = "<init>"}
    <2>1. init = IF S # {} THEN Min(S) ELSE 0
      BY DEF init, SelectInSeq
    <2>2. S \subseteq Nat /\ S \subseteq 1 .. Len(Methods)
      BY <1>1
    <2> HIDE DEF S
    <2>3. S # {} => Min(S) \in S
      BY <2>2, MinOfNats
    <2>4. init = 0 \/ init \in S
      BY <2>1, <2>3
    <2>5. 0 \in 0 .. Len(Methods) /\ 1 .. Len(Methods) \subseteq 0 .. Len(Methods)
      BY <1>1
    <2> QED BY <2>2, <2>4, <2>5, Zenon
  <1>3. frames \in Seq(Frame) /\ frames \in Seq(Located)
    <2>1. CASE init = 0
      BY <2>1 DEF Init
    <2>2. CASE init # 0
      <3>1. Activation(init) \in Frame /\ Activation(init) \in Located
        BY <1>1, <1>2, <2>2 DEF Activation, Located, Frame, Outside
      <3> QED BY <2>2, <3>1 DEF Init
    <2> QED BY <2>1, <2>2
  <1>4. local \in [0 .. 3 * NLocals - 1 -> 0 .. Word - 1]
    BY Sizes DEF Init
  <1>5. Len(stack) =< StackMax
    BY EmptyIsTyped, SizeAssumption DEF Init
  <1> QED BY <1>1, <1>3, <1>4, <1>5 DEF Init, Inv, TypeOK, Frame, Ended

LEMMA StepKeeps ==
  ASSUME DoublesAreTyped, Inv, [Next]_vars
  PROVE  Inv'
  <1>1. CASE Constants
    BY <1>1, ConstantsKeep
  <1>2. CASE IntOps
    BY <1>2, IntOpsKeep
  <1>3. CASE Conversions \/ WideOps
    BY <1>3, ConversionsKeep, WideOpsKeep
  <1>4. CASE op_goto \/ op_if_icmpge
    BY <1>4, JumpsKeep
  <1>5. CASE op_iload \/ op_lload \/ op_istore \/ op_lstore \/ op_iinc
    BY <1>5, LoadsKeep, StoresKeep, IncrementKeeps
  <1>6. CASE op_invokespecial \/ op_invokestatic \/ op_invokevirtual
    BY <1>6, SpecialKeeps, StaticKeeps, VirtualKeeps
  <1>7. CASE NextAttribute \/ EndMethod \/ op_return
    BY <1>7, AttributesKeep
  <1>8. CASE op_new
    BY <1>8, OnStackKeeps DEF op_new, StackTyped, Inv, TypeOK, Entry
  <1>9. CASE trap \/ stray
    BY <1>9, StopKeeps DEF trap, stray, Ended
  <1>10. CASE UNCHANGED vars
    <2>1. Placed /\ UNCHANGED <<mode, stack, local, builder, printed>>
      BY <1>10 DEF vars, Placed, Inv
    <2> QED BY <2>1, QuietKeeps
  <1> QED BY <1>1, <1>2, <1>3, <1>4, <1>5, <1>6, <1>7, <1>8, <1>9, <1>10 DEF Next, Step,
            Constants, IntOps, Conversions, WideOps, unknown, Halted

\* Every variable keeps its type, in every program whose jumps stay behind
\* the first instruction: the stack never exceeds its size, an int of the
\* locals its width, and every activation is of a method of the class.
THEOREM InterpTypeOK ==
  ASSUME DoublesAreTyped
  PROVE  Spec => []TypeOK
  <1>1. Init => Inv
    BY InitTyped
  <1>2. Inv /\ [Next]_vars => Inv'
    BY StepKeeps
  <1>3. Inv => TypeOK
    BY DEF Inv
  <1> QED BY <1>1, <1>2, <1>3, PTL DEF Spec
================================================================================
