--------------------------- MODULE DvmCallsProofs ---------------------------
(***************************************************************************)
(* Theorems about DvmCalls, for every set of programs, every size of the   *)
(* register bank and of the virtual table, and both interpreters.          *)
(*                                                                         *)
(* TypeOK and StackShape are inductive only together: a handler has typed  *)
(* operands because the running method is a method of the file, and the    *)
(* elements of frames are typed because each call checks its target.       *)
(*                                                                         *)
(* CallTarget holds for all conforming programs: simple_dvm looks a method *)
(* up by its name, takes the first id with it, and searches an array in    *)
(* which ids are stored as differences; what it finds is the method of the *)
(* id when the name is unique and the array lists the id.  So such a       *)
(* program leaves the tables only at the limits that AtALimit names.       *)
(*                                                                         *)
(* The refinement of Activations is at the end.                            *)
(***************************************************************************)
EXTENDS DvmConforming, SequenceFacts

\* The shape of the C stack: runMethod runs exactly in the modes of its loop;
\* the first activation is one of simple_dvm_startup and the others are calls
\* made by an invoke; each runs a method of the file that fits in the bank.
StackShape ==
  /\ mode \in {"check", "exec"} => frames # <<>>
  /\ mode \in {"clinit", "link", "main", "done"} => frames = <<>>
  /\ \A k \in DOMAIN frames :
       /\ frames[k].from = "exec" <=> k > 1
       /\ InTable(dex, frames[k].meth)
       /\ Method(dex, frames[k].meth).registers_size <= NRegs

Inv == TypeOK /\ StackShape

\* No pc that a return leaves is inside a method, and no test leads back: what
\* the place of the next instruction depends on.
WellPlaced == ShortMethods /\ ForwardTests

-----------------------------------------------------------------------------
(***************************************************************************)
(* Facts about the tables.                                                 *)
(***************************************************************************)

\* C indices below the length are indices of the table.
LEMMA TableIndex ==
  ASSUME NEW s, IsSeq(s), NEW i \in 0 .. Len(s) - 1
  PROVE  i + 1 \in DOMAIN s
  <1>1. DOMAIN s = 1 .. Len(s) /\ Len(s) \in Nat
    BY LenProperties DEF IsSeq
  <1> QED BY <1>1

\* A method pointer that points into a table of a parsed file points to a
\* verified method.
LEMMA VerifiedMethod ==
  ASSUME NEW d, IsProgram(d), NEW ref, InTable(d, ref)
  PROVE  Verified(Method(d, ref))
  <1>1. ref.kind \in Kinds
    BY DEF InTable, Ref
  <1>2. ref.cls + 1 \in DOMAIN d.class_def
    BY TableIndex DEF IsProgram, InTable
  <1>3. IsSeq(Methods(d, ref))
    BY <1>1, <1>2 DEF IsProgram, Methods
  <1>4. ref.idx + 1 \in DOMAIN Methods(d, ref)
    BY <1>3, TableIndex DEF InTable
  <1> QED BY <1>1, <1>2, <1>4 DEF IsProgram, Method, Methods

\* The parts of an instruction of a verified method.
LEMMA InstrParts ==
  ASSUME NEW m, Verified(m), NEW o \in DOMAIN m.code
  PROVE  /\ m.code[o].op \in Ops
         /\ m.code[o].vx \in Reg /\ m.code[o].vy \in Reg
         /\ m.code[o].lit \in Int
         /\ m.code[o].args \in Seq(Reg)
         /\ m.code[o].op \in {"sget-object", "sput-object"} => m.code[o].lit \in Fields
         /\ Length(m.code[o]) \in Nat
  <1>1. m.code[o] \in Instr
    BY DEF Verified
  <1>2. Length(m.code[o]) \in Nat
    BY DEF Length
  <1> QED BY <1>1, <1>2 DEF Instr, Verified

\* What copy_parameter makes of a bank is a bank.
LEMMA CopyType ==
  ASSUME NEW bank \in [Reg -> Int], NEW size \in Nat, NEW args \in Seq(Reg),
         NEW tmp \in Int
  PROVE  copy_parameter(bank, size, args, tmp) \in [Reg -> Int]
  <1>1. Len(args) \in Nat /\ \A k \in 1 .. Len(args) : args[k] \in Reg
    BY LenProperties, ElementOfSeq
  <1>2. Reg \subseteq Int
    BY NRegsAssumption DEF Reg
  <1> QED BY <1>1, <1>2, SMTT(30) DEF copy_parameter

-----------------------------------------------------------------------------
(***************************************************************************)
(* Facts about a state.                                                    *)
(***************************************************************************)

\* In the modes of the loop, the running method is a verified one that fits in
\* the register bank.
LEMMA RunningMethod ==
  ASSUME Inv, mode \in {"check", "exec"}
  PROVE  /\ Len(frames) \in Nat \ {0}
         /\ DOMAIN frames = 1 .. Len(frames)
         /\ Top \in Frame
         /\ InTable(dex, Top.meth)
         /\ Verified(Running)
  <1>1. /\ frames \in Seq(Frame) /\ frames # <<>> /\ file \in DOMAIN Programs
        /\ \A k \in DOMAIN frames : InTable(dex, frames[k].meth)
    BY DEF Inv, TypeOK, StackShape
  <1>2. Len(frames) \in Nat \ {0} /\ DOMAIN frames = 1 .. Len(frames)
    BY <1>1, LenProperties, EmptySeq
  <1>3. Top = frames[Len(frames)]
    BY DEF Top, Last
  <1>4. Top \in Frame /\ InTable(dex, Top.meth)
    BY <1>1, <1>2, <1>3, ElementOfSeq
  <1>5. IsProgram(dex)
    BY <1>1, ProgramAssumption DEF dex
  <1> QED BY <1>2, <1>4, <1>5, VerifiedMethod DEF Running

\* The instruction that a handler works on.
LEMMA Current ==
  ASSUME Inv, mode = "exec", pc \in DOMAIN Running.code
  PROVE  /\ I.op \in Ops
         /\ I.vx \in Reg /\ I.vy \in Reg /\ I.lit \in Int /\ I.args \in Seq(Reg)
         /\ I.op \in {"sget-object", "sput-object"} => I.lit \in Fields
         /\ Length(I) \in Nat
  BY RunningMethod, InstrParts DEF I

\* A step that leaves the C stack alone and does not leave the loop keeps the
\* shape of the stack.
LEMMA SameFrames ==
  ASSUME Inv, UNCHANGED <<file, frames>>,
         mode' \in {"undefined", "exit"} \/ (frames # <<>> /\ mode' \in {"check", "exec"})
           \/ (frames = <<>> /\ mode' \in {"clinit", "link", "main", "done"})
  PROVE  StackShape'
  BY DEF Inv, StackShape, dex

LEMMA UndefinedKeeps ==
  ASSUME Inv, Undefined
  PROVE  Inv'
  <1>1. TypeOK'
    BY DEF Inv, Undefined, TypeOK, Modes, code, data, dex, table
  <1>2. StackShape'
    BY SameFrames DEF Undefined, code
  <1> QED BY <1>1, <1>2 DEF Inv

\* A call in any mode that makes calls keeps the invariant: the new element of
\* frames is the first one exactly when simple_dvm_startup made it.
LEMMA CallKeeps ==
  ASSUME Inv, mode \in Froms, NEW meth, NEW save \in {NRegs, VSaved},
         NEW args \in Seq(Reg), Call(meth, save, args)
  PROVE  Inv'
  <1>1. CASE Undefined
    BY <1>1, UndefinedKeeps
  <1>2. CASE Activate(meth, save, args)
    <2> DEFINE frame == [meth |-> meth, save |-> save, saved |-> regs,
                         pc_current |-> pc, from |-> mode]
    <2>1. frames \in Seq(Frame) /\ regs \in [Reg -> Int] /\ file \in DOMAIN Programs
      BY DEF Inv, TypeOK
    <2>2. frame \in Frame
      BY <1>2, <2>1 DEF Inv, TypeOK, Activate, InTable, Frame
    <2>3. frames' = Append(frames, frame)
      BY <1>2 DEF Activate
    <2>4. /\ Len(frames) \in Nat /\ DOMAIN frames = 1 .. Len(frames)
          /\ frames' \in Seq(Frame)
          /\ DOMAIN frames' = 1 .. Len(frames) + 1
          /\ \A k \in 1 .. Len(frames) : frames'[k] = frames[k]
          /\ frames'[Len(frames) + 1] = frame
          /\ frames' # <<>>
      BY <2>1, <2>2, <2>3, AppendProperties, LenProperties
    <2>5. regs' \in [Reg -> Int]
      <3>1. Method(dex, meth).registers_size \in Nat
        BY <1>2, <2>1, ProgramAssumption, VerifiedMethod DEF Activate, dex, Verified
      <3>2. Garbage \subseteq Int
        BY DvmAssumption
      <3>3. PICK tmp \in Garbage :
              regs' = copy_parameter(regs, Method(dex, meth).registers_size, args, tmp)
        BY <1>2 DEF Activate
      <3> QED BY <2>1, <3>1, <3>2, <3>3, CopyType
    <2>6. TypeOK'
      BY <1>2, <2>4, <2>5 DEF Inv, TypeOK, Activate, Modes, code, data, dex, table
    <2>7. frame.from = "exec" <=> Len(frames) + 1 > 1
      BY <2>1, <2>4, EmptySeq DEF Inv, StackShape, Froms
    <2>8. InTable(dex, frame.meth) /\ Method(dex, frame.meth).registers_size <= NRegs
      BY <1>2 DEF Activate
    <2>9. /\ mode' = "check" /\ file' = file
          /\ \A k \in 1 .. Len(frames) :
               /\ frames[k].from = "exec" <=> k > 1
               /\ InTable(dex, frames[k].meth)
               /\ Method(dex, frames[k].meth).registers_size <= NRegs
      BY <1>2, <2>4 DEF Activate, code, Inv, StackShape
    <2>10. \A k \in DOMAIN frames' :
             /\ frames'[k].from = "exec" <=> k > 1
             /\ InTable(dex, frames'[k].meth)
             /\ Method(dex, frames'[k].meth).registers_size <= NRegs
      <3> SUFFICES ASSUME NEW k \in 1 .. Len(frames) + 1
                   PROVE  /\ frames'[k].from = "exec" <=> k > 1
                          /\ InTable(dex, frames'[k].meth)
                          /\ Method(dex, frames'[k].meth).registers_size <= NRegs
        BY <2>4
      <3>1. CASE k \in 1 .. Len(frames)
        BY <2>4, <2>9, <3>1
      <3>2. CASE k = Len(frames) + 1
        BY <2>4, <2>7, <2>8, <3>2
      <3> QED BY <2>4, <3>1, <3>2
    <2>11. StackShape'
      BY <2>4, <2>9, <2>10 DEF StackShape, dex
    <2> QED BY <2>6, <2>11 DEF Inv
  <1> QED BY <1>1, <1>2 DEF Call

-----------------------------------------------------------------------------
(***************************************************************************)
(* The steps.                                                              *)
(***************************************************************************)
LEMMA InitInv == Init => Inv
  <1> SUFFICES ASSUME Init PROVE Inv
    OBVIOUS
  <1>1. TypeOK
    <2>1. \A S : <<>> \in Seq(S)
      BY EmptySeq
    <2>2. \A g \in [Fields -> Garbage] : g \in [Fields -> Int]
      BY DvmAssumption
    <2> QED BY <2>1, <2>2 DEF Init, TypeOK, Modes
  <1>2. StackShape
    BY DEF Init, StackShape
  <1> QED BY <1>1, <1>2 DEF Inv

LEMMA StartupKeeps ==
  ASSUME Inv, StartClinit \/ Link \/ StartMain
  PROVE  Inv'
  <1>1. ASSUME NEW name, NEW next \in {"link", "done"}, Entry(name, next),
               mode \in {"clinit", "main"}
        PROVE  Inv'
    <2>1. CASE UNCHANGED <<code, data, regs, pc, p, frames, virtual_table>> /\ mode' = next
      <3>1. TypeOK'
        BY <2>1 DEF Inv, TypeOK, Modes, code, data, dex, table
      <3>2. StackShape'
        BY <1>1, <2>1, SameFrames DEF Inv, StackShape, code
      <3> QED BY <3>1, <3>2 DEF Inv
    <2>2. ASSUME NEW meth, Call(meth, NRegs, p)
          PROVE  Inv'
      BY <1>1, <2>2, CallKeeps DEF Inv, TypeOK, Froms
    <2> QED BY <1>1, <2>1, <2>2 DEF Entry
  <1>2. CASE StartClinit
    BY <1>1, <1>2 DEF StartClinit
  <1>3. CASE StartMain
    BY <1>1, <1>3 DEF StartMain
  <1>4. CASE Link
    <2>1. CASE Undefined
      BY <2>1, UndefinedKeeps
    <2>2. CASE ~ Undefined
      <3>1. TypeOK'
        BY <1>4, <2>2 DEF Link, Inv, TypeOK, Modes, code, data, dex, table
      <3>2. StackShape'
        BY <1>4, <2>2, SameFrames DEF Link, Inv, StackShape, code
      <3> QED BY <3>1, <3>2 DEF Inv
    <2> QED BY <2>1, <2>2
  <1> QED BY <1>2, <1>3, <1>4

LEMMA EnterBodyKeeps ==
  ASSUME Inv, EnterBody
  PROVE  Inv'
  <1>1. TypeOK'
    BY DEF EnterBody, Inv, TypeOK, Modes, code, data, dex, table
  <1>2. StackShape'
    BY SameFrames DEF EnterBody, Inv, StackShape, code
  <1> QED BY <1>1, <1>2 DEF Inv

\* The end of an activation: the stack loses its last element, and the program
\* goes on where the activation came from.
LEMMA LeaveMethodKeeps ==
  ASSUME Inv, LeaveMethod
  PROVE  Inv'
  <1>1. /\ Len(frames) \in Nat \ {0} /\ DOMAIN frames = 1 .. Len(frames)
        /\ Top \in Frame
    BY RunningMethod DEF LeaveMethod
  <1>2. frames \in Seq(Frame) /\ Top = frames[Len(frames)]
    BY DEF Inv, TypeOK, Top, Last
  <1>3. /\ frames' \in Seq(Frame)
        /\ Len(frames') = Len(frames) - 1
        /\ DOMAIN frames' = 1 .. Len(frames) - 1
        /\ \A k \in 1 .. Len(frames) - 1 : frames'[k] = frames[k]
    BY <1>1, <1>2, FrontProperties DEF LeaveMethod, Unwound
  <1>4. Top.from \in Froms /\ Top.pc_current \in Int /\ Top.saved \in [Reg -> Int]
    BY <1>1 DEF Frame
  <1>5. /\ pc' \in Int
        /\ Top.from = "exec" => mode' \in {"check", "exec"}
        /\ Top.from # "exec" => mode' \in {"link", "done"}
    BY <1>4 DEF LeaveMethod, Behind, Continue, Froms, Inv, TypeOK
  <1>6. regs' \in [Reg -> Int]
    BY <1>4 DEF LeaveMethod, Restore, Inv, TypeOK
  <1>7. TypeOK'
    BY <1>3, <1>5, <1>6 DEF LeaveMethod, Inv, TypeOK, Modes, code, data, dex, table
  <1>8. Top.from = "exec" <=> Len(frames) > 1
    BY <1>1, <1>2 DEF Inv, StackShape
  <1>9. frames' = <<>> <=> Len(frames) = 1
    BY <1>1, <1>3, EmptySeq
  <1>10. StackShape'
    <2>1. \A k \in DOMAIN frames' :
            /\ frames'[k].from = "exec" <=> k > 1
            /\ InTable(dex, frames'[k].meth)
            /\ Method(dex, frames'[k].meth).registers_size <= NRegs
      BY <1>1, <1>3 DEF Inv, StackShape
    <2> QED BY <1>1, <1>5, <1>8, <1>9, <2>1 DEF StackShape, LeaveMethod, code, dex
  <1> QED BY <1>7, <1>10 DEF Inv

\* What the handlers of one activation have in common.
LEMMA LocalKeeps ==
  ASSUME Inv, mode = "exec", Local, mode' \in {"check", "exec"}, pc' \in Int,
         regs' \in [Reg -> Int], result' \in [top : Int, bottom : Int],
         object' \in Seq(Int), static_field_value' \in [Fields -> Int]
  PROVE  Inv'
  <1>1. TypeOK'
    BY DEF Local, Inv, TypeOK, Modes, code, dex, table
  <1>2. StackShape'
    BY SameFrames DEF Local, Inv, StackShape, code
  <1> QED BY <1>1, <1>2 DEF Inv

LEMMA UnsignedType ==
  ASSUME NEW lit \in Int
  PROVE  Unsigned(lit) \in Int
  BY BranchSpanAssumption DEF Unsigned

LEMMA HandlersKeep ==
  ASSUME Inv,
         \/ const \/ op_move \/ op_move_result \/ op_sget_object \/ op_sput_object
         \/ op_goto \/ op_if_eqz \/ op_new_instance \/ op_return_void \/ op_return
  PROVE  Inv'
  <1>1. mode = "exec" /\ pc \in DOMAIN Running.code
    BY DEF const, op_move, op_move_result, op_sget_object, op_sput_object, op_goto,
           op_if_eqz, op_new_instance, op_return_void, op_return, At
  <1>2. /\ I.vx \in Reg /\ I.vy \in Reg /\ I.lit \in Int /\ Length(I) \in Nat
        /\ I.op \in {"sget-object", "sput-object"} => I.lit \in Fields
    BY <1>1, Current
  <1>3. /\ pc \in Int /\ regs \in [Reg -> Int] /\ result \in [top : Int, bottom : Int]
        /\ object \in Seq(Int) /\ static_field_value \in [Fields -> Int]
    BY DEF Inv, TypeOK
  <1>4. ASSUME NEW v \in Int, SetReg(v)
        PROVE  regs' \in [Reg -> Int]
    BY <1>2, <1>3, <1>4 DEF SetReg
  <1>5. Continue => mode' \in {"check", "exec"}
    BY DEF Continue
  <1>6. Advance => mode' \in {"check", "exec"} /\ pc' \in Int
    BY <1>2, <1>3, <1>5 DEF Advance
  <1>7. CASE const
    BY <1>1, <1>2, <1>3, <1>4, <1>6, <1>7, LocalKeeps DEF const, data
  <1>8. CASE op_move
    <2>1. regs[I.vy] \in Int
      BY <1>2, <1>3
    <2> QED BY <1>1, <1>3, <1>4, <1>6, <1>8, <2>1, LocalKeeps DEF op_move, data
  <1>9. CASE op_move_result
    <2>1. result.bottom \in Int
      BY <1>3
    <2> QED BY <1>1, <1>3, <1>4, <1>6, <1>9, <2>1, LocalKeeps DEF op_move_result, data
  <1>10. CASE op_sget_object
    <2>1. static_field_value[I.lit] \in Int
      BY <1>2, <1>3, <1>10 DEF op_sget_object, At, I
    <2> QED BY <1>1, <1>3, <1>4, <1>6, <1>10, <2>1, LocalKeeps DEF op_sget_object, data
  <1>11. CASE op_sput_object
    <2>1. static_field_value' \in [Fields -> Int]
      BY <1>2, <1>3, <1>11 DEF op_sput_object
    <2> QED BY <1>1, <1>3, <1>6, <1>11, <2>1, LocalKeeps DEF op_sput_object
  <1>12. CASE op_goto
    BY <1>1, <1>2, <1>3, <1>5, <1>12, LocalKeeps DEF op_goto, data
  <1>13. CASE op_if_eqz
    <2>1. Unsigned(I.lit) \in Int
      BY <1>2, UnsignedType
    <2> QED BY <1>1, <1>3, <1>5, <1>13, <2>1, LocalKeeps DEF op_if_eqz, data
  <1>14. CASE op_new_instance
    <2>1. CASE Undefined
      BY <2>1, UndefinedKeeps
    <2>2. Len(object) \in Nat /\ Append(object, I.lit) \in Seq(Int)
      BY <1>2, <1>3, LenProperties, AppendProperties
    <2>3. CASE SetReg(-1) /\ UNCHANGED object /\ Advance /\ Local
               /\ UNCHANGED <<result, static_field_value>>
      BY <1>1, <1>3, <1>4, <1>6, <2>3, LocalKeeps
    <2>4. CASE object' = Append(object, I.lit) /\ SetReg(Len(object)) /\ Advance /\ Local
               /\ UNCHANGED <<result, static_field_value>>
      BY <1>1, <1>3, <1>4, <1>6, <2>2, <2>4, LocalKeeps
    <2> QED BY <1>14, <2>1, <2>3, <2>4 DEF op_new_instance
  <1>15. CASE op_return_void
    BY <1>1, <1>3, <1>15, DvmAssumption, LocalKeeps DEF op_return_void, data
  <1>16. CASE op_return
    <2>1. result' \in [top : Int, bottom : Int]
      BY <1>2, <1>3, <1>16 DEF op_return
    <2> QED BY <1>1, <1>3, <1>16, <2>1, DvmAssumption, LocalKeeps DEF op_return
  <1> QED BY <1>7, <1>8, <1>9, <1>10, <1>11, <1>12, <1>13, <1>14, <1>15, <1>16

LEMMA InvokesKeep ==
  ASSUME Inv, op_invoke_direct \/ op_invoke_virtual
  PROVE  Inv'
  <1>1. mode = "exec" /\ pc \in DOMAIN Running.code /\ mode \in Froms
    BY DEF op_invoke_direct, op_invoke_virtual, At, Froms
  <1>2. I.args \in Seq(Reg) /\ Length(I) \in Nat
    BY <1>1, Current
  <1>3. Advance => mode' \in {"check", "exec"} /\ pc' \in Int
    BY <1>2 DEF Advance, Continue, Inv, TypeOK
  <1>4. ASSUME p' = I.args, Advance, UNCHANGED <<code, regs, frames, virtual_table>>,
               UNCHANGED <<object, static_field_value>>,
               result' \in [top : Int, bottom : Int]
        PROVE  Inv'
    <2>1. TypeOK'
      BY <1>2, <1>3, <1>4 DEF Inv, TypeOK, Modes, code, dex, table
    <2>2. StackShape'
      BY <1>1, <1>3, <1>4, SameFrames DEF Inv, StackShape, code
    <2> QED BY <2>1, <2>2 DEF Inv
  <1>5. ASSUME NEW id, LibraryCall(id)
        PROVE  Inv'
    <2>1. result' \in [top : Int, bottom : Int]
      BY <1>5, DvmAssumption DEF LibraryCall, Inv, TypeOK
    <2> QED BY <1>4, <1>5, <2>1 DEF LibraryCall
  <1>6. ASSUME NoCall
        PROVE  Inv'
    BY <1>4, <1>6 DEF NoCall, data, Inv, TypeOK
  <1>7. ASSUME NEW meth, NEW save \in {NRegs, VSaved}, Call(meth, save, I.args)
        PROVE  Inv'
    BY <1>1, <1>2, <1>7, CallKeeps
  <1>8. ASSUME NEW id, NEW kind, CallByName(id, kind)
        PROVE  Inv'
    <2>1. CASE Undefined
      BY <2>1, UndefinedKeeps
    <2>2. CASE ~ Undefined
      <3>1. PICK meth : NoCall \/ Call(meth, NRegs, I.args)
        BY <1>8, <2>2 DEF CallByName
      <3> QED BY <1>6, <1>7, <3>1
    <2> QED BY <2>1, <2>2
  <1>9. CASE op_invoke_direct
    BY <1>5, <1>8, <1>9 DEF op_invoke_direct
  <1>10. CASE op_invoke_virtual
    <2>1. \/ Undefined \/ NoCall
          \/ \E id : LibraryCall(id)
          \/ \E id : CallByName(id, "virtual")
          \/ \E meth : Call(meth, VSaved, I.args)
      BY <1>10 DEF op_invoke_virtual
    <2> QED BY <1>5, <1>6, <1>7, <1>8, <2>1, UndefinedKeeps
  <1> QED BY <1>9, <1>10

LEMMA UnknownKeeps ==
  ASSUME Inv, unknown \/ Stray
  PROVE  Inv'
  <1>1. CASE Undefined
    BY <1>1, UndefinedKeeps
  <1>2. CASE mode' = "exit" /\ UNCHANGED <<code, data, regs, pc, p, frames, virtual_table>>
    <2>1. TypeOK'
      BY <1>2 DEF Inv, TypeOK, Modes, code, data, dex, table
    <2>2. StackShape'
      BY <1>2, SameFrames DEF code
    <2> QED BY <2>1, <2>2 DEF Inv
  <1> QED BY <1>1, <1>2 DEF unknown, Stray

LEMMA NextInv == Inv /\ [Next]_vars => Inv'
  <1> SUFFICES ASSUME Inv, [Next]_vars PROVE Inv'
    OBVIOUS
  <1>1. CASE StartClinit \/ Link \/ StartMain
    BY <1>1, StartupKeeps
  <1>2. CASE EnterBody
    BY <1>2, EnterBodyKeeps
  <1>3. CASE LeaveMethod
    BY <1>3, LeaveMethodKeeps
  <1>4. CASE \/ const \/ op_move \/ op_move_result \/ op_sget_object \/ op_sput_object
             \/ op_goto \/ op_if_eqz \/ op_new_instance \/ op_return_void \/ op_return
    BY <1>4, HandlersKeep
  <1>5. CASE op_invoke_direct \/ op_invoke_virtual
    BY <1>5, InvokesKeep
  <1>6. CASE unknown \/ Stray
    BY <1>6, UnknownKeeps
  <1>7. CASE UNCHANGED vars
    BY <1>7 DEF Inv, TypeOK, StackShape, vars, dex, table
  <1> QED BY <1>1, <1>2, <1>3, <1>4, <1>5, <1>6, <1>7 DEF Next, Step, Halted

\* The type invariant: whatever the program calls, returns or runs into, every
\* variable of simple_dalvik_vm keeps its type.
THEOREM CallsTypeOK == Spec => []TypeOK
  <1>1. Inv => TypeOK
    BY DEF Inv
  <1> QED BY InitInv, NextInv, <1>1, PTL DEF Spec

-----------------------------------------------------------------------------
(***************************************************************************)
(* The loop of runMethod ends by a return.  Every activation above the     *)
(* first was called by an invoke at pc_current of the one below: the pc    *)
(* that the handler of the invoke sets is behind an instruction of the     *)
(* caller, not of the callee, so that this has to be remembered.           *)
(***************************************************************************)

\* What a pointer into a table points to is among the methods of the file.
LEMMA MethodsOfTable ==
  ASSUME NEW d, NEW ref, InTable(d, ref)
  PROVE  ref \in MethodsOf(d)
  <1>1. ref = [cls |-> ref.cls, kind |-> ref.kind, idx |-> ref.idx] /\ ref.kind \in Kinds
    BY DEF InTable, Ref
  <1>2. /\ ref.cls \in 0 .. Len(d.class_def) - 1
        /\ ref.idx \in 0 .. Len(d.class_def[ref.cls + 1][ref.kind]) - 1
    BY DEF InTable, Methods
  <1> DEFINE Row(c, kind) == {[cls |-> c, kind |-> kind, idx |-> x] :
                                x \in 0 .. Len(d.class_def[c + 1][kind]) - 1}
  <1>3. ref \in Row(ref.cls, ref.kind)
    BY <1>1, <1>2
  <1>4. MethodsOf(d) = UNION {Row(c, kind) : c \in 0 .. Len(d.class_def) - 1, kind \in Kinds}
    BY DEF MethodsOf
  <1> HIDE DEF Row
  <1> QED BY <1>1, <1>2, <1>3, <1>4

LEMMA ShortMethod ==
  ASSUME WellPlaced, file \in DOMAIN Programs, NEW ref, InTable(dex, ref)
  PROVE  /\ Method(dex, ref).insns_size <= ReturnVoidPc
         /\ Method(dex, ref).insns_size <= ReturnPc
  BY MethodsOfTable DEF WellPlaced, ShortMethods, dex

\* A test that does not lead back goes where its offset says.
LEMMA TestForward ==
  ASSUME WellPlaced, Inv, mode = "exec", pc \in DOMAIN Running.code, I.op = "if-eqz"
  PROVE  Unsigned(I.lit) = I.lit
  <1>1. InTable(dex, Top.meth) /\ file \in DOMAIN Programs
    BY RunningMethod DEF Inv, TypeOK
  <1>2. Top.meth \in MethodsOf(dex)
    BY <1>1, MethodsOfTable
  <1>3. \A ref \in MethodsOf(dex) : \A o \in DOMAIN Code(dex, ref) :
          Code(dex, ref)[o].op = "if-eqz" => Code(dex, ref)[o].lit >= 0
    BY <1>1 DEF WellPlaced, ForwardTests, dex
  <1>4. I.lit \in Int /\ I.lit >= 0
    BY <1>2, <1>3, Current DEF Running, I, Code
  <1> QED BY <1>4 DEF Unsigned

CallSite(k) ==
  /\ frames[k].pc_current \in DOMAIN Method(dex, frames[k - 1].meth).code
  /\ Method(dex, frames[k - 1].meth).code[frames[k].pc_current].op \in Invokes

CallSites == \A k \in 2 .. Len(frames) : CallSite(k)

LoopInv == Inv /\ CallSites /\ LoopEndsByReturn

\* Falling through or branching from an instruction of a verified method leads
\* to another one, which is below both pcs that a return leaves.
LEMMA Reachable ==
  ASSUME NEW m, Verified(m), NEW o \in DOMAIN m.code
  PROVE  /\ m.code[o].op \notin Returns \cup {"goto", "unknown"} =>
              o + Length(m.code[o]) \in DOMAIN m.code
         /\ m.code[o].op \in Branches => o + m.code[o].lit \in DOMAIN m.code
  BY DEF Verified

LEMMA NotAReturnPc ==
  ASSUME WellPlaced, Inv, mode \in {"check", "exec"}, pc \in DOMAIN Running.code
  PROVE  pc < Running.insns_size /\ pc \notin {ReturnVoidPc, ReturnPc}
  <1>1. Running.insns_size \in Nat /\ pc \in 0 .. Running.insns_size - 1
    BY RunningMethod DEF Verified
  <1>2. Running.insns_size <= ReturnVoidPc /\ Running.insns_size <= ReturnPc
    <2>1. InTable(dex, Top.meth) /\ file \in DOMAIN Programs
      BY RunningMethod DEF Inv, TypeOK
    <2> QED BY <2>1, ShortMethod DEF Running
  <1> QED BY <1>1, <1>2, DvmAssumption

\* A step to an instruction of the activation that is on top after it.
LEMMA AtInstruction ==
  ASSUME WellPlaced, Inv', CallSites', mode' \in {"check", "exec"},
         pc' \in DOMAIN Running'.code
  PROVE  LoopInv'
  <1>1. pc' \notin {ReturnVoidPc, ReturnPc}
    <2>1. (Inv /\ mode \in {"check", "exec"} /\ pc \in DOMAIN Running.code =>
             pc \notin {ReturnVoidPc, ReturnPc})'
      BY NotAReturnPc, PTL
    <2> QED BY <2>1
  <1> QED BY <1>1 DEF LoopInv, LoopEndsByReturn

LEMMA OutsideLoop ==
  ASSUME Inv', CallSites', mode' \notin {"check", "exec"}
  PROVE  LoopInv'
  BY DEF LoopInv, LoopEndsByReturn

LEMMA SameSites ==
  ASSUME CallSites, UNCHANGED <<file, frames>>
  PROVE  CallSites'
  BY DEF CallSites, CallSite, dex

\* A handler that stays in the activation goes to an instruction of it, or
\* leaves one of the two pcs of the returns, which are past its code.
LEMMA HandlersStay ==
  ASSUME WellPlaced, LoopInv, Inv',
         \/ const \/ op_move \/ op_move_result \/ op_sget_object \/ op_sput_object
         \/ op_goto \/ op_if_eqz \/ op_new_instance \/ op_return_void \/ op_return
  PROVE  LoopInv'
  <1>1. mode = "exec" /\ pc \in DOMAIN Running.code
    BY DEF const, op_move, op_move_result, op_sget_object, op_sput_object, op_goto,
           op_if_eqz, op_new_instance, op_return_void, op_return, At
  <1>2. UNCHANGED <<file, frames>>
    BY DEF const, op_move, op_move_result, op_sget_object, op_sput_object, op_goto,
           op_if_eqz, op_new_instance, op_return_void, op_return, Local, Undefined, code
  <1>3. CallSites' /\ Running' = Running /\ Top' = Top
    BY <1>2, SameSites DEF LoopInv, Running, Top, dex
  <1>4. Verified(Running)
    BY <1>1, RunningMethod DEF LoopInv
  <1>5. /\ I.op \notin Returns \cup {"goto", "unknown"} => pc + Length(I) \in DOMAIN Running.code
        /\ I.op \in Branches => pc + I.lit \in DOMAIN Running.code
    BY <1>1, <1>4, Reachable DEF I
  <1>6. ASSUME Continue, pc' \in DOMAIN Running.code
        PROVE  LoopInv'
    BY <1>3, <1>6, AtInstruction DEF Continue
  <1>7. CASE const \/ op_move \/ op_move_result \/ op_sget_object \/ op_sput_object
    <2>1. Advance /\ I.op \in OneReg \cup {"move"}
      BY <1>7 DEF const, op_move, op_move_result, op_sget_object, op_sput_object, At, I,
                  OneReg
    <2> QED BY <1>5, <1>6, <2>1 DEF Advance, OneReg, Returns
  <1>8. CASE op_goto
    BY <1>5, <1>6, <1>8 DEF op_goto, At, I, Branches
  <1>9. CASE op_if_eqz
    <2>1. pc' \in {pc + I.lit, pc + 4} /\ I.op = "if-eqz" /\ Continue
      <3>1. I.op = "if-eqz"
        BY <1>9 DEF op_if_eqz, At, I
      <3>2. Unsigned(I.lit) = I.lit
        BY <1>1, <3>1, TestForward DEF LoopInv
      <3> QED BY <1>9, <3>1, <3>2 DEF op_if_eqz
    <2>2. Length(I) = 4
      BY <2>1 DEF Length, Invokes
    <2> QED BY <1>5, <1>6, <2>1, <2>2 DEF Branches, Returns
  <1>10. CASE op_new_instance
    <2>1. Undefined \/ (Advance /\ I.op = "new-instance")
      BY <1>10 DEF op_new_instance, At, I
    <2>2. CASE Undefined
      BY <1>3, <2>2, OutsideLoop DEF Undefined
    <2> QED BY <1>5, <1>6, <2>1, <2>2 DEF Advance, Returns
  <1>11. CASE op_return_void \/ op_return
    <2>1. mode' = "check" /\ pc' \in {ReturnVoidPc, ReturnPc}
      BY <1>11 DEF op_return_void, op_return
    <2>2. Running.insns_size <= ReturnVoidPc /\ Running.insns_size <= ReturnPc
      <3>1. InTable(dex, Top.meth) /\ file \in DOMAIN Programs
        BY <1>1, RunningMethod DEF LoopInv, Inv, TypeOK
      <3> QED BY <3>1, ShortMethod DEF Running
    <2>3. pc' >= Running.insns_size
      <3>1. Running.insns_size \in Nat
        BY <1>4 DEF Verified
      <3> QED BY <2>1, <2>2, <3>1, DvmAssumption
    <2> QED BY <1>3, <2>1, <2>3 DEF LoopInv, LoopEndsByReturn
  <1> QED BY <1>7, <1>8, <1>9, <1>10, <1>11

\* A call starts at the first instruction of the callee, and remembers an
\* invoke of the caller.
LEMMA CallStays ==
  ASSUME WellPlaced, LoopInv, Inv', NEW meth, NEW save, NEW args,
         Call(meth, save, args),
         \/ frames = <<>>
         \/ mode = "exec" /\ pc \in DOMAIN Running.code /\ I.op \in Invokes
  PROVE  LoopInv'
  <1>1. CASE Undefined
    <2>1. UNCHANGED <<file, frames>> /\ mode' = "undefined"
      BY <1>1 DEF Undefined, code
    <2> QED BY <2>1, SameSites, OutsideLoop DEF LoopInv
  <1>2. CASE Activate(meth, save, args)
    <2> DEFINE frame == [meth |-> meth, save |-> save, saved |-> regs,
                         pc_current |-> pc, from |-> mode]
    <2>1. frames \in Seq(Frame) /\ frames' \in Seq(Frame)
      BY DEF LoopInv, Inv, TypeOK
    <2>2. frames' = Append(frames, frame) /\ dex' = dex /\ pc' = 0 /\ mode' = "check"
      BY <1>2 DEF Activate, code, dex
    <2>3. /\ Len(frames) \in Nat
          /\ Len(frames') = Len(frames) + 1
          /\ \A k \in 1 .. Len(frames) : frames'[k] = frames[k]
          /\ frames'[Len(frames) + 1] = frame
      BY <2>1, <2>2, AppendProperties, LenProperties
    <2>4. Running' = Method(dex, meth)
      BY <2>2, <2>3 DEF Running, Top, Last
    <2>5. Verified(Running')
      BY <1>2, <2>4, ProgramAssumption, VerifiedMethod DEF Activate, dex, LoopInv, Inv, TypeOK
    <2>6. CallSites'
      <3> SUFFICES ASSUME NEW k \in 2 .. Len(frames')
                   PROVE  CallSite(k)'
        BY DEF CallSites
      <3>1. CASE k \in 2 .. Len(frames)
        <4>1. CallSite(k) /\ k - 1 \in 1 .. Len(frames) /\ k \in 1 .. Len(frames)
          BY <2>3, <3>1 DEF LoopInv, CallSites
        <4> QED BY <2>2, <2>3, <4>1 DEF CallSite
      <3>2. CASE k = Len(frames) + 1
        <4>1. Len(frames) # 0 /\ k - 1 = Len(frames) /\ k - 1 \in 1 .. Len(frames)
          BY <2>3, <3>2
        <4>2. frames # <<>> /\ frames'[k - 1] = Top /\ frames'[k].pc_current = pc
          BY <2>1, <2>3, <3>2, <4>1, EmptySeq DEF Top, Last
        <4> QED BY <2>2, <4>2 DEF CallSite, Running, I
      <3> QED BY <2>3, <3>1, <3>2
    <2> QED BY <2>2, <2>5, <2>6, AtInstruction DEF Verified
  <1> QED BY <1>1, <1>2 DEF Call

\* The end of an activation leads behind the invoke that called it.
LEMMA BehindInvoke ==
  ASSUME LoopInv, LeaveMethod, Top.from = "exec"
  PROVE  pc' \in DOMAIN Running'.code
  <1> DEFINE m == Len(frames)
  <1>1. /\ m \in Nat \ {0} /\ DOMAIN frames = 1 .. m
        /\ Top = frames[m] /\ frames \in Seq(Frame)
    BY RunningMethod DEF LeaveMethod, LoopInv, Inv, TypeOK, Top, Last
  <1>2. m \in 2 .. m /\ m - 1 \in 1 .. m - 1
    BY <1>1 DEF LoopInv, Inv, StackShape
  <1>3. Running' = Method(dex, frames[m - 1].meth)
    <2>1. Len(frames') = m - 1 /\ frames'[m - 1] = frames[m - 1]
      BY <1>1, <1>2, FrontProperties DEF LeaveMethod, Unwound
    <2> QED BY <2>1 DEF LeaveMethod, code, dex, Running, Top, Last
  <1>4. CallSite(m)
    BY <1>2 DEF LoopInv, CallSites
  <1>5. Verified(Running')
    <2>1. InTable(dex, frames[m - 1].meth)
      BY <1>1, <1>2 DEF LoopInv, Inv, StackShape
    <2> QED BY <1>3, <2>1, ProgramAssumption, VerifiedMethod DEF dex, LoopInv, Inv, TypeOK
  <1> DEFINE i == Running'.code[Top.pc_current]
  <1>6. Top.pc_current \in DOMAIN Running'.code /\ i.op \in Invokes
    BY <1>1, <1>3, <1>4 DEF CallSite
  <1>7. Length(i) = 6 /\ i.op \notin Returns \cup {"goto", "unknown"}
    BY <1>6 DEF Length, Invokes, Returns
  <1>8. Top.pc_current + 6 \in DOMAIN Running'.code
    BY <1>5, <1>6, <1>7, Reachable
  <1> QED BY <1>8 DEF LeaveMethod, Behind

LEMMA LeaveMethodStays ==
  ASSUME WellPlaced, LoopInv, Inv', LeaveMethod
  PROVE  LoopInv'
  <1> DEFINE m == Len(frames)
  <1>1. m \in Nat \ {0} /\ DOMAIN frames = 1 .. m /\ frames \in Seq(Frame)
    BY RunningMethod DEF LeaveMethod, LoopInv, Inv, TypeOK
  <1>2. /\ Len(frames') = m - 1
        /\ DOMAIN frames' = 1 .. m - 1
        /\ \A k \in 1 .. m - 1 : frames'[k] = frames[k]
    BY <1>1, FrontProperties DEF LeaveMethod, Unwound
  <1>3. dex' = dex
    BY DEF LeaveMethod, code, dex
  <1>4. CallSites'
    <2> SUFFICES ASSUME NEW k \in 2 .. m - 1
                 PROVE  CallSite(k)'
      BY <1>2 DEF CallSites
    <2>1. CallSite(k) /\ k \in 1 .. m - 1 /\ k - 1 \in 1 .. m - 1
      BY <1>1 DEF LoopInv, CallSites
    <2> QED BY <1>2, <1>3, <2>1 DEF CallSite
  <1>5. CASE mode' \notin {"check", "exec"}
    BY <1>4, <1>5, OutsideLoop
  <1>6. CASE mode' \in {"check", "exec"}
    <2>1. Top.from = "exec"
      BY <1>6 DEF LeaveMethod
    <2> QED BY <1>4, <1>6, <2>1, AtInstruction, BehindInvoke
  <1> QED BY <1>5, <1>6

LEMMA StartupStays ==
  ASSUME WellPlaced, LoopInv, Inv', StartClinit \/ Link \/ StartMain
  PROVE  LoopInv'
  <1>1. frames = <<>>
    BY DEF StartClinit, Link, StartMain, LoopInv, Inv, StackShape
  <1>2. ASSUME UNCHANGED <<file, frames>>, mode' \notin {"check", "exec"}
        PROVE  LoopInv'
    BY <1>2, SameSites, OutsideLoop DEF LoopInv
  <1>3. ASSUME NEW name, NEW next \in {"link", "done"}, Entry(name, next)
        PROVE  LoopInv'
    <2>1. ASSUME NEW meth, Call(meth, NRegs, p)
          PROVE  LoopInv'
      BY <1>1, <2>1, CallStays
    <2> QED BY <1>2, <1>3, <2>1 DEF Entry, code
  <1>4. CASE Link
    BY <1>2, <1>4 DEF Link, Undefined, code
  <1> QED BY <1>3, <1>4 DEF StartClinit, StartMain

LEMMA InvokesStay ==
  ASSUME WellPlaced, LoopInv, Inv', op_invoke_direct \/ op_invoke_virtual
  PROVE  LoopInv'
  <1>1. mode = "exec" /\ pc \in DOMAIN Running.code /\ I.op \in Invokes
    BY DEF op_invoke_direct, op_invoke_virtual, At, I, Invokes
  <1>2. ASSUME Undefined
        PROVE  LoopInv'
    BY <1>2, SameSites, OutsideLoop DEF LoopInv, Undefined, code
  <1>3. ASSUME NEW meth, NEW save, Call(meth, save, I.args)
        PROVE  LoopInv'
    BY <1>1, <1>3, CallStays
  <1>4. ASSUME Advance, UNCHANGED <<code, frames>>
        PROVE  LoopInv'
    <2>1. CallSites' /\ Running' = Running
      BY <1>4, SameSites DEF LoopInv, Running, Top, dex, code
    <2>2. pc' \in DOMAIN Running.code
      <3>1. I.op \notin Returns \cup {"goto", "unknown"}
        BY <1>1 DEF Invokes, Returns
      <3>2. Verified(Running)
        BY <1>1, RunningMethod DEF LoopInv
      <3> QED BY <1>1, <1>4, <3>1, <3>2, Reachable DEF Advance, I
    <2> QED BY <1>4, <2>1, <2>2, AtInstruction DEF Advance, Continue
  <1>5. ASSUME NEW id, LibraryCall(id) \/ NoCall
        PROVE  LoopInv'
    BY <1>4, <1>5 DEF LibraryCall, NoCall
  <1>6. ASSUME NEW id, NEW kind, CallByName(id, kind)
        PROVE  LoopInv'
    <2>1. PICK meth : Undefined \/ NoCall \/ Call(meth, NRegs, I.args)
      BY <1>6 DEF CallByName
    <2> QED BY <1>2, <1>3, <1>5, <2>1
  <1>7. CASE op_invoke_direct
    BY <1>5, <1>6, <1>7 DEF op_invoke_direct
  <1>8. CASE op_invoke_virtual
    <2>1. \/ Undefined \/ NoCall
          \/ \E id : LibraryCall(id)
          \/ \E id : CallByName(id, "virtual")
          \/ \E meth : Call(meth, VSaved, I.args)
      BY <1>8 DEF op_invoke_virtual
    <2> QED BY <1>2, <1>3, <1>5, <1>6, <2>1
  <1> QED BY <1>7, <1>8

LEMMA NextLoopInv ==
  ASSUME WellPlaced
  PROVE  LoopInv /\ [Next]_vars => LoopInv'
  <1> SUFFICES ASSUME LoopInv, [Next]_vars PROVE LoopInv'
    OBVIOUS
  <1>1. Inv'
    BY NextInv DEF LoopInv
  <1>2. CASE StartClinit \/ Link \/ StartMain
    BY <1>1, <1>2, StartupStays
  <1>3. CASE EnterBody
    <2>1. /\ mode = "check" /\ mode' = "exec" /\ pc < Running.insns_size
          /\ UNCHANGED <<file, frames, pc>>
      BY <1>3 DEF EnterBody, code
    <2>2. pc \in DOMAIN Running.code
      <3>1. Running.insns_size \in Nat /\ pc \in Int
        BY <2>1, RunningMethod DEF LoopInv, Inv, TypeOK, Verified
      <3> QED BY <2>1, <3>1 DEF LoopInv, LoopEndsByReturn
    <2>3. CallSites' /\ Running' = Running
      BY <2>1, SameSites DEF LoopInv, Running, Top, dex
    <2> QED BY <1>1, <2>1, <2>2, <2>3, AtInstruction
  <1>4. CASE LeaveMethod
    BY <1>1, <1>4, LeaveMethodStays
  <1>5. CASE \/ const \/ op_move \/ op_move_result \/ op_sget_object \/ op_sput_object
             \/ op_goto \/ op_if_eqz \/ op_new_instance \/ op_return_void \/ op_return
    BY <1>1, <1>5, HandlersStay
  <1>6. CASE op_invoke_direct \/ op_invoke_virtual
    BY <1>1, <1>6, InvokesStay
  <1>7. CASE unknown \/ Stray
    <2>1. UNCHANGED <<file, frames>> /\ mode' \notin {"check", "exec"}
      BY <1>7 DEF unknown, Stray, Undefined, code
    <2> QED BY <1>1, <2>1, SameSites, OutsideLoop DEF LoopInv
  <1>8. CASE UNCHANGED vars
    BY <1>1, <1>8 DEF LoopInv, LoopEndsByReturn, CallSites, CallSite, Running, Top, dex, vars
  <1> QED BY <1>2, <1>3, <1>4, <1>5, <1>6, <1>7, <1>8 DEF Next, Step, Halted

\* When no method is as long as the pcs that the returns leave and no test
\* leads back, runMethod's loop is left by a return and only by a return, and
\* is left by every return; and everywhere else, also after a call, an
\* instruction of the running method is at pc.
THEOREM ReturnEndsLoop ==
  ASSUME ShortMethods, ForwardTests
  PROVE  Spec => []LoopEndsByReturn
  <1>1. Init => LoopInv
    BY InitInv DEF Init, LoopInv, CallSites, LoopEndsByReturn
  <1>2. LoopInv => LoopEndsByReturn
    BY DEF LoopInv
  <1>3. LoopInv /\ [Next]_vars => LoopInv'
    BY NextLoopInv DEF WellPlaced
  <1> QED BY <1>1, <1>2, <1>3, PTL DEF Spec

-----------------------------------------------------------------------------
(***************************************************************************)
(* Lookups.                                                                *)
(***************************************************************************)
\* The ids of an array of methods: one for each element.
LEMMA MethodIdsLen ==
  ASSUME NEW m_Arr, Len(m_Arr) \in Nat
  PROVE  Len(MethodIds(m_Arr)) = Len(m_Arr)
  <1> DEFINE S == {IdsUpTo(m_Arr)[k] : k \in 1 .. Len(m_Arr)}
  <1>1. MethodIds(m_Arr) \in [1 .. Len(m_Arr) -> S]
    BY DEF MethodIds
  <1>2. MethodIds(m_Arr) \in Seq(S) /\ DOMAIN MethodIds(m_Arr) = 1 .. Len(m_Arr)
    BY <1>1, SeqDef
  <1> QED BY <1>2, LenProperties

\* When an array lists an id, index_of is the C index of an element with it.
LEMMA IndexOf ==
  ASSUME NEW m_Arr, Len(m_Arr) \in Nat, NEW id,
         \E k \in 1 .. Len(m_Arr) : MethodIds(m_Arr)[k] = id
  PROVE  /\ index_of(m_Arr, id) \in 0 .. Len(m_Arr) - 1
         /\ MethodIds(m_Arr)[index_of(m_Arr, id) + 1] = id
  <1> DEFINE ids == MethodIds(m_Arr)
             J   == {k \in 1 .. Len(ids) : ids[k] = id}
  <1>1. Len(ids) = Len(m_Arr)
    BY MethodIdsLen
  <1> HIDE DEF ids
  <1>2. J \subseteq Nat /\ J # {}
    BY <1>1 DEF ids
  <1>3. Min(J) \in J
    BY <1>2, MinOfNats
  <1>4. SelectInSeq(ids, LAMBDA i : i = id) = Min(J)
    BY <1>2 DEF SelectInSeq
  <1>5. index_of(m_Arr, id) = Min(J) - 1
    BY <1>1, <1>3, <1>4 DEF index_of, ids
  <1> QED BY <1>1, <1>3, <1>5 DEF ids

\* The method that the code finds for an id, by class and index_of.
MethodOf(d, kind, id) == RefOf(d, ClassOf(d, id), kind, id)

\* A method that is listed is found under its id.
LEMMA ListedFound ==
  ASSUME NEW d, IsProgram(d), NEW kind \in Kinds, NEW id, Listed(d, kind, id),
         InTable(d, MethodOf(d, kind, id))
  PROVE  LET m   == MethodOf(d, kind, id)
             ids == MethodIds(d.class_def[ClassOf(d, id) + 1][kind])
         IN  /\ ClassOf(d, id) # -1 /\ m.cls = ClassOf(d, id) /\ m.kind = kind
             /\ ids[m.idx + 1] = id
  <1> DEFINE m == MethodOf(d, kind, id)
             c == ClassOf(d, id)
             m_Arr == d.class_def[c + 1][kind]
  <1>1. m.cls = c /\ m.kind = kind
    BY DEF MethodOf, RefOf
  <1>2. c \in 0 .. Len(d.class_def) - 1
    BY <1>1 DEF InTable
  <1>3. m.idx = index_of(m_Arr, id)
    BY <1>2 DEF MethodOf, RefOf
  <1>4. Len(m_Arr) \in Nat
    <2>1. c + 1 \in DOMAIN d.class_def
      BY <1>2, TableIndex DEF IsProgram
    <2>2. IsSeq(m_Arr)
      BY <2>1 DEF IsProgram
    <2> QED BY <2>2, LenProperties DEF IsSeq
  <1>5. c # -1 /\ \E k \in 1 .. Len(m_Arr) : MethodIds(m_Arr)[k] = id
    <2>1. Len(d.class_def) \in Nat
      BY LenProperties DEF IsProgram, IsSeq
    <2> QED BY <1>2, <2>1 DEF Listed
  <1> HIDE DEF c, m, m_Arr
  <1>6. MethodIds(m_Arr)[m.idx + 1] = id
    BY <1>3, <1>4, <1>5, IndexOf
  <1> QED BY <1>1, <1>5, <1>6 DEF c, m, m_Arr

LEMMA FoundIsListed ==
  ASSUME NEW d, IsProgram(d), NEW kind \in Kinds, NEW id, Listed(d, kind, id),
         InTable(d, MethodOf(d, kind, id))
  PROVE  MethodOf(d, kind, id) \in MethodsFor(d, kind, id)
  <1> DEFINE m == MethodOf(d, kind, id)
  <1>1. /\ m.cls = ClassOf(d, id) /\ m.kind = kind
        /\ MethodIds(d.class_def[ClassOf(d, id) + 1][kind])[m.idx + 1] = id
    BY ListedFound
  <1>2. m \in MethodsOf(d)
    BY MethodsOfTable
  <1>3. Methods(d, m) = d.class_def[ClassOf(d, id) + 1][kind]
    BY <1>1 DEF Methods
  <1> HIDE DEF m
  <1> QED BY <1>1, <1>2, <1>3 DEF MethodsFor, m

\* The first method of a name, when that is the id itself.
LEMMA FoundByName ==
  ASSUME NEW d, NEW kind, NEW id \in Nat, EntryId(d, NameOf(d, id)) = id
  PROVE  invoke_method_entry(d, NameOf(d, id), kind) = MethodOf(d, kind, id)
  BY DEF invoke_method_entry, MethodOf, ClassOf

LEMMA EntryLookUp ==
  ASSUME file \in DOMAIN Programs, NEW name \in Entries(dex), NEW kind \in Kinds
  PROVE  entry[file][kind][name] = invoke_method_entry(dex, name, kind)
  BY DEF entry, dex

LEMMA NameIsEntry ==
  ASSUME NEW d, IsProgram(d), NEW id \in 0 .. Len(d.method_id) - 1
  PROVE  NameOf(d, id) \in Entries(d)
  <1>1. id + 1 \in DOMAIN d.method_id
    BY TableIndex DEF IsProgram
  <1>2. d.method_id[id + 1].name_idx + 1 \in DOMAIN d.string
    BY <1>1 DEF IsProgram
  <1> QED BY <1>2 DEF NameOf, Entries, ToSet

-----------------------------------------------------------------------------
(***************************************************************************)
(* Invokes.                                                                *)
(***************************************************************************)
LEMMA CurrentConforms ==
  ASSUME Conforming, Inv, mode = "exec", pc \in DOMAIN Running.code
  PROVE  /\ I.op \in Invokes => InvokeConforms(dex, I) /\ I.lit \in 0 .. Len(dex.method_id) - 1
         /\ I.op = "invoke-virtual" => Running.registers_size <= VSaved
         /\ I.op = "if-eqz" => I.vx < Nibble
  <1>1. file \in DOMAIN Programs /\ Conforms(dex)
    BY DEF Inv, TypeOK, Conforming, dex
  <1>2. CodeConforms(dex, Running)
    <2>1. InTable(dex, Top.meth)
      BY RunningMethod
    <2> QED BY <1>1, <2>1, MethodsOfTable DEF Conforms, Running
  <1>3. I.op \in Invokes => I.lit \in Nat
    <2>1. Verified(Running)
      BY RunningMethod
    <2> QED BY <2>1 DEF Verified, I, Invokes, Branches
  <1>4. Len(dex.method_id) \in Nat
    BY <1>1, ProgramAssumption, LenProperties DEF dex, IsProgram, IsSeq
  <1> QED BY <1>2, <1>3, <1>4 DEF CodeConforms, I, InvokeConforms

\* A conforming program has no test that leads back.
LEMMA ConformingPlaced ==
  ASSUME Conforming, ShortMethods
  PROVE  WellPlaced
  <1>1. ASSUME NEW f \in DOMAIN Programs, NEW ref \in MethodsOf(Programs[f]),
               NEW o \in DOMAIN Code(Programs[f], ref)
        PROVE  Code(Programs[f], ref)[o].op = "if-eqz" => Code(Programs[f], ref)[o].lit >= 0
    <2>1. CodeConforms(Programs[f], Method(Programs[f], ref))
      BY DEF Conforming, Conforms
    <2> QED BY <2>1 DEF CodeConforms, Code
  <1> QED BY <1>1 DEF WellPlaced, ForwardTests

\* The method that the current invoke should run.
Target == MethodOf(dex, KindOf(I.op), I.lit)

\* The lookup by name, for an invoke that does not go to the library.
LEMMA EntryIsTarget ==
  ASSUME Conforming, Inv, mode = "exec", pc \in DOMAIN Running.code, I.op \in Invokes,
         library(dex, I.lit) = "none"
  PROVE  entry[file][KindOf(I.op)][NameOf(dex, I.lit)] = Target
  <1>1. InvokeConforms(dex, I) /\ I.lit \in 0 .. Len(dex.method_id) - 1 /\ I.lit \in Nat
    BY CurrentConforms
  <1>2. file \in DOMAIN Programs /\ IsProgram(dex)
    BY ProgramAssumption DEF Inv, TypeOK, dex
  <1>3. NameOf(dex, I.lit) \in Entries(dex) /\ KindOf(I.op) \in Kinds
    BY <1>1, <1>2, NameIsEntry DEF KindOf, Kinds
  <1> QED BY <1>1, <1>2, <1>3, EntryLookUp, FoundByName DEF InvokeConforms, Target

\* The virtual table has the target of the invoke, or nothing.
LEMMA TableTarget ==
  ASSUME Conforming, Inv, op_invoke_virtual,
         I.lit < VTableSize, virtual_table[I.lit] # NoMethod
  PROVE  virtual_table[I.lit] = Target /\ ClassOf(dex, I.lit) # -1
  <1>1. mode = "exec" /\ pc \in DOMAIN Running.code /\ I.op = "invoke-virtual"
    BY DEF op_invoke_virtual, At, I
  <1>2. I.lit \in 0 .. Len(dex.method_id) - 1 /\ KindOf(I.op) = "virtual"
    BY <1>1, CurrentConforms DEF Invokes, KindOf
  <1>3. I.lit \in 0 .. VTableSize - 1
    BY <1>2, VTableAssumption
  <1>4. virtual_table = table[file] /\ file \in DOMAIN Programs
    BY <1>3 DEF Inv, TypeOK
  <1>5. virtual_table = virtural_table_lookup(dex)
    BY <1>4 DEF table, dex
  <1> QED BY <1>2, <1>3, <1>5 DEF virtural_table_lookup, Target, MethodOf, ClassOf

\* An invoke runs no method but its target, and a method that it runs saves all
\* registers of the caller.
LEMMA InvokeRunsTarget ==
  ASSUME Conforming, Inv, op_invoke_direct \/ op_invoke_virtual
  PROVE  \/ Undefined \/ NoCall \/ LibraryCall(I.lit)
         \/ /\ library(dex, I.lit) = "none" \/ ClassOf(dex, I.lit) # -1
            /\ \E save \in {NRegs, VSaved} :
                 Activate(Target, save, I.args) /\ Running.registers_size <= save
  <1>1. mode = "exec" /\ pc \in DOMAIN Running.code /\ I.op \in Invokes
    BY DEF op_invoke_direct, op_invoke_virtual, At, I, Invokes
  <1>2. /\ InvokeConforms(dex, I) /\ I.lit \in 0 .. Len(dex.method_id) - 1
        /\ I.op = "invoke-virtual" => Running.registers_size <= VSaved
    BY <1>1, CurrentConforms
  <1>3. file \in DOMAIN Programs /\ IsProgram(dex) /\ ParsedId(I.lit) = I.lit
    BY <1>2, ProgramAssumption DEF Inv, TypeOK, dex, InvokeConforms
  <1>4. Running.registers_size <= NRegs
    <2>1. Len(frames) \in DOMAIN frames
      BY <1>1, RunningMethod
    <2> QED BY <2>1 DEF Inv, StackShape, Running, Top, Last
  <1>5. library(dex, I.lit) = "none" =>
          entry[file][KindOf(I.op)][NameOf(dex, I.lit)] = Target
    BY <1>1, EntryIsTarget
  <1>6. ASSUME library(dex, I.lit) = "none", CallByName(I.lit, KindOf(I.op))
        PROVE  Undefined \/ NoCall \/ Activate(Target, NRegs, I.args)
    BY <1>5, <1>6 DEF CallByName, Call
  <1>7. CASE op_invoke_direct
    <2>1. KindOf(I.op) = "direct"
      BY <1>7 DEF op_invoke_direct, At, I, KindOf
    <2>2. LibraryCall(I.lit) \/ (library(dex, I.lit) = "none" /\ CallByName(I.lit, "direct"))
      BY <1>3, <1>7 DEF op_invoke_direct
    <2> QED BY <1>4, <1>6, <2>1, <2>2
  <1>8. CASE op_invoke_virtual
    <2>1. KindOf(I.op) = "virtual" /\ Running.registers_size <= VSaved
      BY <1>2, <1>8 DEF op_invoke_virtual, At, I, KindOf
    <2>2. \/ Undefined \/ NoCall \/ LibraryCall(I.lit)
          \/ library(dex, I.lit) = "none" /\ CallByName(I.lit, "virtual")
          \/ /\ I.lit < VTableSize /\ virtual_table[I.lit] # NoMethod
             /\ Call(virtual_table[I.lit], VSaved, I.args)
      BY <1>3, <1>8 DEF op_invoke_virtual
    <2>3. ASSUME I.lit < VTableSize, virtual_table[I.lit] # NoMethod
          PROVE  virtual_table[I.lit] = Target /\ ClassOf(dex, I.lit) # -1
      BY <1>8, <2>3, TableTarget
    <2> QED BY <1>4, <1>6, <2>1, <2>2, <2>3 DEF Call
  <1> QED BY <1>7, <1>8

-----------------------------------------------------------------------------
(***************************************************************************)
(* What a step does to the C stack.                                        *)
(***************************************************************************)

\* An invoke calls its target, and saves what the target could overwrite.
CallsTarget ==
  /\ mode = "exec" /\ pc \in DOMAIN Running.code /\ I.op \in Invokes
  /\ \E save \in {NRegs, VSaved} :
       Activate(Target, save, I.args) /\ Running.registers_size <= save

\* simple_dvm_startup calls <clinit> or main.
StartsUp ==
  /\ frames = <<>>
  /\ \E name \in {"<clinit>", "main"} :
       /\ mode = IF name = "main" THEN "main" ELSE "clinit"
       /\ Activate(invoke_method_entry(dex, name, "direct"), NRegs, p)

LEMMA StackSteps ==
  ASSUME Conforming, Inv, [Next]_vars
  PROVE  /\ dex' = dex
         /\ UNCHANGED frames \/ LeaveMethod \/ StartsUp \/ CallsTarget
  <1>1. Undefined => UNCHANGED <<file, frames>>
    BY DEF Undefined, code
  <1>2. Activate(Target, NRegs, I.args) \/ Activate(Target, VSaved, I.args)
          => UNCHANGED file
    BY DEF Activate, code
  <1>3. CASE StartClinit \/ Link \/ StartMain
    <2>1. frames = <<>>
      BY <1>3 DEF StartClinit, Link, StartMain, Inv, StackShape
    <2>2. ASSUME NEW name \in {"<clinit>", "main"}, NEW next, Entry(name, next)
          PROVE  /\ UNCHANGED file
                 /\ \/ UNCHANGED frames
                    \/ Activate(invoke_method_entry(dex, name, "direct"), NRegs, p)
      <3>1. entry[file]["direct"][name] = invoke_method_entry(dex, name, "direct")
        BY EntryLookUp DEF Entries, Kinds, Inv, TypeOK
      <3>2. ASSUME NEW meth, Call(meth, NRegs, p)
            PROVE  UNCHANGED file /\ (UNCHANGED frames \/ Activate(meth, NRegs, p))
        BY <1>1, <3>2 DEF Call, Activate, code
      <3>3. CASE UNCHANGED <<code, frames>>
        BY <3>3 DEF code
      <3>4. CASE Call(invoke_method_entry(dex, name, "direct"), NRegs, p)
        BY <3>2, <3>4
      <3> QED BY <2>2, <3>1, <3>3, <3>4 DEF Entry
    <2>3. CASE StartClinit
      <3>1. mode = "clinit" /\ Entry("<clinit>", "link")
        BY <2>3 DEF StartClinit
      <3> QED BY <2>1, <2>2, <3>1 DEF StartsUp, dex
    <2>4. CASE StartMain
      <3>1. mode = "main" /\ Entry("main", "done")
        BY <2>4 DEF StartMain
      <3> QED BY <2>1, <2>2, <3>1 DEF StartsUp, dex
    <2>5. CASE Link
      BY <1>1, <2>5 DEF Link, code, dex
    <2> QED BY <1>3, <2>3, <2>4, <2>5
  <1>4. CASE EnterBody \/ LeaveMethod \/ unknown \/ Stray
    BY <1>1, <1>4 DEF EnterBody, LeaveMethod, unknown, Stray, code, dex
  <1>5. CASE \/ const \/ op_move \/ op_move_result \/ op_sget_object \/ op_sput_object
             \/ op_goto \/ op_if_eqz \/ op_new_instance \/ op_return_void \/ op_return
    BY <1>1, <1>5 DEF const, op_move, op_move_result, op_sget_object, op_sput_object,
       op_goto, op_if_eqz, op_new_instance, op_return_void, op_return, Local, code, dex
  <1>6. CASE op_invoke_direct \/ op_invoke_virtual
    <2>1. CASE Undefined \/ NoCall \/ LibraryCall(I.lit)
      BY <1>1, <2>1 DEF NoCall, LibraryCall, code, dex
    <2>2. CASE \E save \in {NRegs, VSaved} :
                 Activate(Target, save, I.args) /\ Running.registers_size <= save
      <3>1. mode = "exec" /\ pc \in DOMAIN Running.code /\ I.op \in Invokes
        BY <1>6 DEF op_invoke_direct, op_invoke_virtual, At, I, Invokes
      <3> QED BY <1>2, <2>2, <3>1 DEF CallsTarget, dex
    <2> QED BY <1>6, <2>1, <2>2, InvokeRunsTarget
  <1>7. CASE UNCHANGED vars
    BY <1>7 DEF vars, dex
  <1> QED BY <1>3, <1>4, <1>5, <1>6, <1>7 DEF Next, Step, Halted

\* A call leaves the elements of the stack alone, and adds one.
LEMMA Grown ==
  ASSUME Inv, TypeOK', NEW frame, frames' = Append(frames, frame)
  PROVE  /\ Len(frames) \in Nat /\ Len(frames') = Len(frames) + 1
         /\ \A k \in 1 .. Len(frames) : frames'[k] = frames[k]
         /\ frames'[Len(frames) + 1] = frame
  <1>1. frames \in Seq(Frame) /\ frames' \in Seq(Frame)
    BY DEF Inv, TypeOK
  <1>2. Len(frames) \in Nat /\ DOMAIN frames = 1 .. Len(frames)
    BY <1>1, LenProperties
  <1> QED BY <1>1, <1>2, AppendProperties

LEMMA Shrunk ==
  ASSUME Inv, LeaveMethod
  PROVE  /\ Len(frames) \in Nat \ {0} /\ Len(frames') = Len(frames) - 1
         /\ \A k \in 1 .. Len(frames) - 1 : frames'[k] = frames[k]
  <1>1. Len(frames) \in Nat \ {0} /\ frames \in Seq(Frame)
    BY RunningMethod DEF LeaveMethod, Inv, TypeOK
  <1> QED BY <1>1, FrontProperties DEF LeaveMethod, Unwound

-----------------------------------------------------------------------------
(***************************************************************************)
(* The target and the saved registers of each call.                        *)
(***************************************************************************)

\* Activation k was called with all registers of its caller saved.
SavedEnough ==
  \A k \in 2 .. Len(frames) :
    Method(dex, frames[k - 1].meth).registers_size <= frames[k].save

TargetAt(k) ==
  LET m == frames[k].meth
      i == Caller(k)
  IN  /\ m.cls = ClassOf(dex, i.lit) /\ m.kind = KindOf(i.op)
      /\ MethodIds(dex.class_def[ClassOf(dex, i.lit) + 1][KindOf(i.op)])[m.idx + 1] = i.lit

LEMMA CallTargetAt == CallTarget <=> \A k \in 2 .. Len(frames) : TargetAt(k)
  BY DEF CallTarget, TargetAt, ClassOf, KindOf

TargetInv == LoopInv /\ CallTarget /\ SavedEnough

LEMMA NextTargetInv ==
  ASSUME Conforming, WellPlaced
  PROVE  TargetInv /\ [Next]_vars => TargetInv'
  <1> DEFINE Saved(k) == Method(dex, frames[k - 1].meth).registers_size <= frames[k].save
             Good == \A k \in 2 .. Len(frames) : TargetAt(k) /\ Saved(k)
  <1>1. CallTarget /\ SavedEnough <=> Good
    BY CallTargetAt DEF SavedEnough
  <1>2. (CallTarget /\ SavedEnough)' <=> Good'
    BY <1>1, PTL
  <1> SUFFICES ASSUME LoopInv, Good, [Next]_vars PROVE LoopInv' /\ Good'
    BY <1>1, <1>2 DEF TargetInv
  <1>3. LoopInv' /\ Inv /\ TypeOK'
    BY NextLoopInv DEF LoopInv, Inv
  <1>4. dex' = dex /\ (UNCHANGED frames \/ LeaveMethod \/ StartsUp \/ CallsTarget)
    BY <1>3, StackSteps
  <1> SUFFICES Good'
    BY <1>3
  <1>5. ASSUME NEW k \in 2 .. Len(frames), frames'[k] = frames[k], frames'[k - 1] = frames[k - 1]
        PROVE  TargetAt(k)' /\ Saved(k)'
    <2>1. Caller(k)' = Caller(k)
      BY <1>4, <1>5 DEF Caller
    <2>2. TargetAt(k) /\ Saved(k)
      OBVIOUS
    <2> QED BY <1>4, <1>5, <2>1, <2>2 DEF TargetAt
  <1>6. CASE UNCHANGED frames
    BY <1>5, <1>6
  <1>7. CASE LeaveMethod
    <2>1. /\ Len(frames) \in Nat \ {0} /\ Len(frames') = Len(frames) - 1
          /\ \A k \in 1 .. Len(frames) - 1 : frames'[k] = frames[k]
      BY <1>3, <1>7, Shrunk
    <2> SUFFICES ASSUME NEW k \in 2 .. Len(frames) - 1
                 PROVE  TargetAt(k)' /\ Saved(k)'
      BY <2>1
    <2>2. k \in 2 .. Len(frames) /\ k \in 1 .. Len(frames) - 1 /\ k - 1 \in 1 .. Len(frames) - 1
      BY <2>1
    <2> QED BY <1>5, <2>1, <2>2
  <1>8. CASE StartsUp
    <2>1. Len(frames') = 1
      <3>1. Len(frames) = 0 /\ \E frame : frames' = Append(frames, frame)
        BY <1>8, EmptySeq DEF StartsUp, Activate
      <3> QED BY <1>3, <3>1, Grown
    <2> QED BY <2>1
  <1>9. CASE CallsTarget
    <2> DEFINE n == Len(frames)
    <2>1. PICK save \in {NRegs, VSaved} :
            Activate(Target, save, I.args) /\ Running.registers_size <= save
      BY <1>9 DEF CallsTarget
    <2>2. /\ n \in Nat /\ Len(frames') = n + 1
          /\ \A k \in 1 .. n : frames'[k] = frames[k]
          /\ frames'[n + 1].meth = Target /\ frames'[n + 1].save = save
          /\ frames'[n + 1].pc_current = pc
      <3> DEFINE frame == [meth |-> Target, save |-> save, saved |-> regs,
                           pc_current |-> pc, from |-> mode]
      <3>1. frames' = Append(frames, frame)
        BY <2>1 DEF Activate
      <3>2. frame.meth = Target /\ frame.save = save /\ frame.pc_current = pc
        OBVIOUS
      <3> HIDE DEF frame
      <3> QED BY <1>3, <3>1, <3>2, Grown
    <2>3. n # 0 /\ Top = frames[n]
      BY <1>3, <1>9, RunningMethod DEF CallsTarget, Top, Last
    <2>4. ASSUME NEW k \in 2 .. n
          PROVE  TargetAt(k)' /\ Saved(k)'
      <3>1. k \in 1 .. n /\ k - 1 \in 1 .. n
        BY <2>2
      <3> QED BY <1>5, <2>2, <3>1
    <2>5. ASSUME NEW k, k = n + 1
          PROVE  TargetAt(k)' /\ Saved(k)'
      <3>1. k - 1 = n /\ frames'[k - 1] = Top
        BY <2>2, <2>3, <2>5
      <3>2. Saved(k)'
        BY <1>4, <2>1, <2>2, <2>5, <3>1 DEF Running
      <3>3. Caller(k)' = I
        BY <1>4, <2>2, <2>5, <3>1 DEF Caller, Code, Running, I
      <3>4. /\ Target.cls = ClassOf(dex, I.lit) /\ Target.kind = KindOf(I.op)
            /\ MethodIds(dex.class_def[ClassOf(dex, I.lit) + 1][KindOf(I.op)])[Target.idx + 1]
                 = I.lit
        <4>1. InTable(dex, Target) /\ file \in DOMAIN Programs
          BY <1>3, <2>1 DEF Activate, Inv, TypeOK
        <4>2. Listed(dex, KindOf(I.op), I.lit) /\ KindOf(I.op) \in Kinds
          BY <1>3, <1>9, CurrentConforms DEF CallsTarget, InvokeConforms, KindOf, Kinds
        <4> QED BY <4>1, <4>2, ProgramAssumption, ListedFound DEF Target, dex
      <3> QED BY <1>4, <2>2, <2>5, <3>2, <3>3, <3>4 DEF TargetAt
    <2> SUFFICES ASSUME NEW k \in 2 .. n + 1
                 PROVE  TargetAt(k)' /\ Saved(k)'
      BY <2>2
    <2>6. k \in 2 .. n \/ k = n + 1
      BY <2>2
    <2> QED BY <2>4, <2>5, <2>6
  <1> QED BY <1>3, <1>4, <1>6, <1>7, <1>8, <1>9

LEMMA InitTargetInv == Init => TargetInv
  <1> SUFFICES ASSUME Init PROVE TargetInv
    OBVIOUS
  <1>1. LoopInv
    BY InitInv DEF Init, LoopInv, CallSites, LoopEndsByReturn
  <1>2. 2 .. Len(frames) = {}
    BY EmptySeq DEF Init
  <1> QED BY <1>1, <1>2, CallTargetAt DEF TargetInv, SavedEnough

\* Every running call of a conforming program executes the method that its
\* instruction names: the lookup by name, the walk through the differences of
\* the method ids, and the virtual table all come to that method.
THEOREM CallsRunTheirTarget ==
  ASSUME Conforming, ShortMethods
  PROVE  Spec => []CallTarget
  <1>1. TargetInv => CallTarget
    BY DEF TargetInv
  <1>2. TargetInv /\ [Next]_vars => TargetInv'
    BY NextTargetInv, ConformingPlaced
  <1> QED BY <1>1, <1>2, InitTargetInv, PTL DEF Spec

\* The end of an invoke gives the caller all its registers back.
LEMMA CallerRestored ==
  ASSUME Inv, SavedEnough, LeaveMethod, Len(frames) > 1
  PROVE  \A r \in 0 .. Method(dex, frames[Len(frames) - 1].meth).registers_size - 1 :
           regs'[r] = Top.saved[r]
  <1> DEFINE n == Len(frames)
             caller == Method(dex, frames[n - 1].meth)
  <1>1. n \in Nat /\ DOMAIN frames = 1 .. n /\ Top \in Frame
    BY RunningMethod DEF LeaveMethod
  <1>2. Top = frames[n] /\ caller.registers_size <= Top.save
    BY <1>1 DEF SavedEnough, Top, Last
  <1>3. caller.registers_size \in Nat /\ caller.registers_size <= NRegs
    <2>1. n - 1 \in DOMAIN frames
      BY <1>1
    <2>2. InTable(dex, frames[n - 1].meth) /\ caller.registers_size <= NRegs
      BY <2>1 DEF Inv, StackShape
    <2>3. Verified(caller)
      BY <2>2, ProgramAssumption, VerifiedMethod DEF dex, Inv, TypeOK
    <2> QED BY <2>2, <2>3 DEF Verified
  <1>4. Top.save \in Nat
    BY <1>1, NRegsAssumption, DvmAssumption DEF Frame
  <1>5. \A r \in 0 .. caller.registers_size - 1 : r \in Reg /\ r < Top.save
    BY <1>2, <1>3, <1>4, NRegsAssumption DEF Reg
  <1> QED BY <1>5 DEF LeaveMethod, Restore

\* While the invoke runs, the registers of its caller are safe, also behind
\* invoke_virtual_method, which saves only 16 of them.
THEOREM CallersKeepTheirRegisters ==
  ASSUME Conforming, ShortMethods
  PROVE  Spec => CallerRegistersKept
  <1>1. ASSUME TargetInv, [Next]_vars
        PROVE  [Len(frames') < Len(frames) /\ Len(frames) > 1 =>
                  \A r \in 0 .. Method(dex, frames[Len(frames) - 1].meth).registers_size - 1 :
                    regs'[r] = Top.saved[r]]_vars
    <2> SUFFICES ASSUME Len(frames') < Len(frames), Len(frames) > 1
                 PROVE  LeaveMethod
      BY <1>1, CallerRestored DEF TargetInv, LoopInv
    <2>1. Inv /\ TypeOK'
      BY <1>1, NextInv DEF TargetInv, LoopInv, Inv
    <2>2. Len(frames) \in Nat
      BY <2>1, LenProperties DEF Inv, TypeOK
    <2>3. UNCHANGED frames \/ LeaveMethod \/ StartsUp \/ CallsTarget
      BY <1>1, <2>1, StackSteps
    <2>4. ASSUME NEW meth, NEW save, NEW args, Activate(meth, save, args)
          PROVE  FALSE
      <3>1. Len(frames') = Len(frames) + 1
        BY <2>1, <2>4, Grown DEF Activate
      <3> QED BY <2>2, <3>1
    <2> QED BY <2>2, <2>3, <2>4 DEF StartsUp, CallsTarget
  <1>2. TargetInv /\ [Next]_vars => TargetInv'
    BY NextTargetInv, ConformingPlaced
  <1> QED BY <1>1, <1>2, InitTargetInv, PTL DEF Spec, CallerRegistersKept

-----------------------------------------------------------------------------
(***************************************************************************)
(* Where the C code has no defined outcome.                                *)
(***************************************************************************)

\* The class of a method id, when the file defines it, is an index of class_def.
LEMMA ClassIndex ==
  ASSUME NEW d, IsProgram(d), NEW id, ClassOf(d, id) # -1
  PROVE  ClassOf(d, id) \in 0 .. Len(d.class_def) - 1
  <1> DEFINE class_idx == d.method_id[id + 1].class_idx
             J == {k \in 1 .. Len(d.class_def) : d.class_def[k].class_idx = class_idx}
  <1>1. Len(d.class_def) \in Nat
    BY LenProperties DEF IsProgram, IsSeq
  <1>2. class_def_of(d, class_idx) = (IF J # {} THEN Min(J) ELSE 0) - 1
    BY DEF class_def_of, SelectInSeq
  <1>3. J # {} => Min(J) \in J
    <2>1. J \subseteq Nat
      BY <1>1
    <2> HIDE DEF J
    <2> QED BY <2>1, MinOfNats
  <1> HIDE DEF class_idx
  <1>4. ClassOf(d, id) = class_def_of(d, class_idx)
    BY DEF ClassOf, class_idx
  <1> QED BY <1>1, <1>2, <1>3, <1>4

\* The lookup of a listed method of a class of the file ends at a method.
LEMMA ListedInTable ==
  ASSUME NEW d, IsProgram(d), NEW kind \in Kinds, NEW id, ClassOf(d, id) # -1,
         Listed(d, kind, id)
  PROVE  InTable(d, MethodOf(d, kind, id))
  <1> DEFINE c == ClassOf(d, id)
             m == MethodOf(d, kind, id)
             m_Arr == d.class_def[c + 1][kind]
  <1>1. c \in 0 .. Len(d.class_def) - 1 /\ c \in Int
    BY ClassIndex
  <1>2. m = [cls |-> c, kind |-> kind, idx |-> index_of(m_Arr, id)]
    BY <1>1 DEF MethodOf, RefOf
  <1>3. Len(m_Arr) \in Nat
    <2>1. c + 1 \in DOMAIN d.class_def
      BY <1>1, TableIndex DEF IsProgram
    <2> QED BY <2>1, LenProperties DEF IsProgram, IsSeq
  <1>4. index_of(m_Arr, id) \in 0 .. Len(m_Arr) - 1
    BY <1>3, IndexOf DEF Listed
  <1> HIDE DEF c, m, m_Arr
  <1>5. m \in Ref
    BY <1>1, <1>2, <1>4 DEF Ref
  <1>6. Methods(d, m) = m_Arr
    BY <1>2 DEF Methods, m_Arr
  <1> QED BY <1>1, <1>2, <1>4, <1>5, <1>6 DEF InTable, m

\* A call that goes astray at a listed method needs too many registers.
LEMMA AstrayAtLimit ==
  ASSUME IsProgram(dex), NEW kind \in Kinds, NEW id, ClassOf(dex, id) # -1,
         Listed(dex, kind, id), Astray(MethodOf(dex, kind, id))
  PROVE  AtALimit
  <1> DEFINE meth == MethodOf(dex, kind, id)
  <1>1. InTable(dex, meth)
    BY ListedInTable
  <1>2. meth \in MethodsOf(dex) /\ Method(dex, meth).registers_size \in Nat
    BY <1>1, MethodsOfTable, VerifiedMethod DEF Verified
  <1>3. ~ (Method(dex, meth).registers_size <= NRegs)
    BY <1>1 DEF Astray
  <1> HIDE DEF meth
  <1> QED BY <1>2, <1>3, NRegsAssumption DEF AtALimit

LEMMA CallAstray ==
  ASSUME NEW meth, NEW save, NEW args, Call(meth, save, args), mode' = "undefined"
  PROVE  Undefined /\ Astray(meth)
  BY DEF Call, Activate

LEMMA StartupUndefined ==
  ASSUME Conforming, Inv, StartClinit \/ Link \/ StartMain, mode' = "undefined"
  PROVE  Undefined /\ AtALimit
  <1>1. file \in DOMAIN Programs /\ IsProgram(dex) /\ Conforms(dex)
    BY ProgramAssumption DEF Inv, TypeOK, Conforming, dex
  <1>2. CASE Link
    BY <1>2 DEF Link, AtALimit
  <1>3. ASSUME NEW name \in {"<clinit>", "main"}, NEW next \in {"link", "done"},
               Entry(name, next)
        PROVE  Undefined /\ AtALimit
    <2> DEFINE id == EntryId(dex, name)
    <2>1. PICK meth : meth = entry[file]["direct"][name]
      OBVIOUS
    <2>2. meth # NoMethod /\ Undefined /\ Astray(meth)
      BY <1>3, <2>1, CallAstray DEF Entry
    <2>3. meth = invoke_method_entry(dex, name, "direct")
      BY <1>1, <2>1, EntryLookUp DEF Entries, Kinds
    <2>4. id # -1 /\ meth = MethodOf(dex, "direct", id)
      BY <2>2, <2>3 DEF invoke_method_entry, MethodOf, ClassOf
    <2>5. Listed(dex, "direct", id)
      BY <1>1, <2>4 DEF Conforms, EntryConforms
    <2>6. CASE ClassOf(dex, id) = -1
      BY <2>2, <2>4, <2>6 DEF AtALimit
    <2>7. CASE ClassOf(dex, id) # -1
      BY <1>1, <2>2, <2>4, <2>5, <2>7, AstrayAtLimit DEF Kinds
    <2> QED BY <2>6, <2>7
  <1> QED BY <1>2, <1>3 DEF StartClinit, StartMain

LEMMA InvokesUndefined ==
  ASSUME Conforming, Inv, op_invoke_direct \/ op_invoke_virtual, mode' = "undefined"
  PROVE  Undefined /\ AtALimit
  <1>1. mode = "exec" /\ pc \in DOMAIN Running.code /\ I.op \in Invokes
    BY DEF op_invoke_direct, op_invoke_virtual, At, I, Invokes
  <1>2. /\ IsProgram(dex) /\ ParsedId(I.lit) = I.lit /\ I.lit \in 0 .. Len(dex.method_id) - 1
        /\ Listed(dex, KindOf(I.op), I.lit) /\ KindOf(I.op) \in Kinds
    BY <1>1, CurrentConforms, ProgramAssumption
       DEF Inv, TypeOK, dex, InvokeConforms, KindOf, Kinds
  <1>3. AsksTooMuch => AtALimit
    BY <1>1, RunningMethod, EmptySeq DEF AtALimit, Inv, StackShape
  <1>4. ~ NoCall /\ \A id : ~ LibraryCall(id)
    BY DEF NoCall, LibraryCall, Advance, Continue
  <1>5. ASSUME NEW save, Call(Target, save, I.args),
               ClassOf(dex, I.lit) # -1 \/ library(dex, I.lit) = "none"
        PROVE  Undefined /\ AtALimit
    <2>1. PICK target : target = Target
      OBVIOUS
    <2>2. Undefined /\ Astray(Target)
      BY <1>5, <2>1, CallAstray
    <2>3. CASE ClassOf(dex, I.lit) = -1
      BY <1>1, <1>3, <1>5, <2>2, <2>3 DEF AsksTooMuch
    <2>4. CASE ClassOf(dex, I.lit) # -1
      BY <1>2, <2>2, <2>4, AstrayAtLimit DEF Target
    <2> QED BY <2>3, <2>4
  <1>6. ASSUME library(dex, I.lit) = "none", CallByName(I.lit, KindOf(I.op))
        PROVE  Undefined /\ AtALimit
    <2>1. entry[file][KindOf(I.op)][NameOf(dex, I.lit)] = Target
      BY <1>1, <1>6, EntryIsTarget
    <2>2. Call(Target, NRegs, I.args)
      BY <1>2, <1>4, <1>6, <2>1 DEF CallByName
    <2> QED BY <1>5, <1>6, <2>2
  <1>7. CASE op_invoke_direct
    <2>1. KindOf(I.op) = "direct"
      BY <1>7 DEF op_invoke_direct, At, I, KindOf
    <2> QED BY <1>2, <1>4, <1>6, <1>7, <2>1 DEF op_invoke_direct
  <1>8. CASE op_invoke_virtual
    <2> DEFINE receiver == regs[I.args[1]]
               object_length == Len(object)
    <2>1. I.op = "invoke-virtual" /\ KindOf(I.op) = "virtual"
      BY <1>8 DEF op_invoke_virtual, At, I, KindOf
    <2>2. \/ library(dex, I.lit) = "none" /\ CallByName(I.lit, "virtual")
          \/ receiver = object_length /\ Undefined
          \/ receiver \in 0 .. object_length - 1 /\ I.lit >= VTableSize /\ Undefined
          \/ /\ I.lit < VTableSize /\ virtual_table[I.lit] # NoMethod
             /\ Call(virtual_table[I.lit], VSaved, I.args)
      BY <1>2, <1>4, <1>8 DEF op_invoke_virtual
    <2>3. receiver = object_length => AtALimit
      BY <1>3, <2>1 DEF AsksTooMuch
    <2>4. receiver \in 0 .. object_length - 1 /\ I.lit >= VTableSize => AtALimit
      BY <1>3, <2>1 DEF AsksTooMuch
    <2> HIDE DEF receiver, object_length
    <2>5. CASE I.lit < VTableSize /\ virtual_table[I.lit] # NoMethod
               /\ Call(virtual_table[I.lit], VSaved, I.args)
      <3>1. virtual_table[I.lit] = Target /\ ClassOf(dex, I.lit) # -1
        BY <1>8, <2>5, TableTarget
      <3> QED BY <1>5, <2>5, <3>1
    <2> QED BY <1>6, <2>1, <2>2, <2>3, <2>4, <2>5
  <1> QED BY <1>7, <1>8

\* The other handlers and the loop: only an object too many and an opcode
\* without a handler, since the pc of a conforming program does not go astray.
LEMMA HandlersUndefined ==
  ASSUME LoopInv, mode' = "undefined",
         \/ EnterBody \/ LeaveMethod
         \/ const \/ op_move \/ op_move_result \/ op_sget_object \/ op_sput_object
         \/ op_goto \/ op_if_eqz \/ op_new_instance \/ op_return_void \/ op_return
         \/ unknown \/ Stray
  PROVE  Undefined /\ AtALimit
  <1>1. ASSUME Continue PROVE FALSE
    BY <1>1 DEF Continue
  <1>2. CASE op_new_instance \/ unknown
    <2>1. mode = "exec" /\ pc \in DOMAIN Running.code
      BY <1>2 DEF op_new_instance, unknown, At
    <2>2. frames # <<>>
      BY <2>1 DEF LoopInv, Inv, StackShape
    <2>3. Undefined /\ AsksTooMuch
      BY <1>1, <1>2 DEF op_new_instance, unknown, At, I, AsksTooMuch, Advance
    <2> QED BY <2>1, <2>2, <2>3 DEF AtALimit
  <1>3. ~ Stray
    BY DEF LoopInv, LoopEndsByReturn, Stray
  <1>4. CASE EnterBody \/ LeaveMethod \/ op_return_void \/ op_return
    BY <1>1, <1>4 DEF EnterBody, LeaveMethod, op_return_void, op_return
  <1>5. CASE \/ const \/ op_move \/ op_move_result \/ op_sget_object \/ op_sput_object
             \/ op_goto \/ op_if_eqz
    BY <1>1, <1>5 DEF const, op_move, op_move_result, op_sget_object, op_sput_object,
                      op_goto, op_if_eqz, Advance
  <1> QED BY <1>2, <1>3, <1>4, <1>5

\* What no step changes after Undefined: the limit that led to it.
LEMMA LimitStays ==
  ASSUME AtALimit, UNCHANGED <<code, data, regs, pc, frames>>
  PROVE  AtALimit'
  BY DEF AtALimit, AsksTooMuch, Running, I, Top, dex, code, data

\* A conforming program of short methods meets an undefined outcome only at one
\* of the limits of AtALimit.
THEOREM UndefinedAtLimits ==
  ASSUME Conforming, ShortMethods
  PROVE  Spec => []UndefinedByLimitsOnly
  <1>1. Init => LoopInv /\ UndefinedByLimitsOnly
    BY InitTargetInv DEF Init, TargetInv, UndefinedByLimitsOnly
  <1>2. LoopInv /\ UndefinedByLimitsOnly /\ [Next]_vars => LoopInv' /\ UndefinedByLimitsOnly'
    <2> SUFFICES ASSUME LoopInv, UndefinedByLimitsOnly, [Next]_vars
                 PROVE  LoopInv' /\ UndefinedByLimitsOnly'
      OBVIOUS
    <2>1. LoopInv'
      BY NextLoopInv, ConformingPlaced
    <2>2. CASE mode' # "undefined"
      BY <2>1, <2>2 DEF UndefinedByLimitsOnly
    <2>3. CASE UNCHANGED vars
      BY <2>1, <2>3, LimitStays DEF vars, code, data, UndefinedByLimitsOnly
    <2>4. CASE mode' = "undefined" /\ Step
      <3>1. Undefined /\ AtALimit
        BY <2>4, StartupUndefined, InvokesUndefined, HandlersUndefined DEF Step, LoopInv
      <3> QED BY <2>1, <3>1, LimitStays DEF Undefined, UndefinedByLimitsOnly
    <2> QED BY <2>2, <2>3, <2>4 DEF Next, Halted
  <1> QED BY <1>1, <1>2, PTL DEF Spec

-----------------------------------------------------------------------------
(***************************************************************************)
(* simple_dvm implements Activations, for all conforming programs: each    *)
(* step of DvmCalls is, seen through Stack, a step of Activations or       *)
(* changes nothing that Activations sees.                                  *)
(***************************************************************************)

\* The definitions of DvmProgram, as the instance A has them.
LEMMA SameLength ==
  ASSUME NEW i
  PROVE  A!Length(i) = Length(i)
  BY DEF A!Length, Length, A!Invokes, Invokes

LEMMA SameMethod ==
  ASSUME NEW d, NEW ref
  PROVE  A!Method(d, ref) = Method(d, ref) /\ A!Code(d, ref) = Code(d, ref)
  BY DEF A!Method, A!Methods, A!Code, Method, Methods, Code

LEMMA SameLibrary ==
  ASSUME NEW d, NEW id
  PROVE  A!library(d, id) = library(d, id) /\ A!NameOf(d, id) = NameOf(d, id)
  BY DEF A!library, A!NameOf, library, NameOf

LEMMA SameClass ==
  ASSUME NEW d, NEW c
  PROVE  A!class_def_of(d, c) = class_def_of(d, c)
  BY DEF A!class_def_of, A!SelectInSeq, A!Min, class_def_of, SelectInSeq, Min

LEMMA SameIds ==
  ASSUME NEW m_Arr
  PROVE  A!MethodIds(m_Arr) = MethodIds(m_Arr)
  <1>1. A!IdsUpTo(m_Arr) = IdsUpTo(m_Arr)
    BY DEF A!IdsUpTo, IdsUpTo
  <1> QED BY <1>1 DEF A!MethodIds, MethodIds

LEMMA SameIndex ==
  ASSUME NEW m_Arr, NEW id
  PROVE  A!index_of(m_Arr, id) = index_of(m_Arr, id)
  <1> DEFINE ids == MethodIds(m_Arr)
             Index(k) == IF k = 0 THEN id ELSE k - 1
  <1>1. A!SelectInSeq(ids, LAMBDA i : i = id) = SelectInSeq(ids, LAMBDA i : i = id)
    BY DEF A!SelectInSeq, A!Min, SelectInSeq, Min
  <1>2. A!MethodIds(m_Arr) = ids
    BY SameIds
  <1> HIDE DEF ids
  <1>3. A!index_of(m_Arr, id) = Index(A!SelectInSeq(ids, LAMBDA i : i = id))
    BY <1>2 DEF A!index_of
  <1>4. index_of(m_Arr, id) = Index(SelectInSeq(ids, LAMBDA i : i = id))
    BY DEF index_of, ids
  <1> QED BY <1>1, <1>3, <1>4

LEMMA SameMethodOf ==
  ASSUME NEW kind, NEW id
  PROVE  A!MethodOf(kind, id) = MethodOf(dex, kind, id)
  BY SameClass, SameIndex DEF A!MethodOf, A!RefOf, MethodOf, RefOf, ClassOf

LEMMA SameDefines ==
  ASSUME NEW kind, NEW id
  PROVE  A!Defines(kind, id) <=>
           /\ id \in 0 .. Len(dex.method_id) - 1
           /\ ClassOf(dex, id) # -1
           /\ Listed(dex, kind, id)
  BY SameClass, SameIds DEF A!Defines, Listed, ClassOf

-----------------------------------------------------------------------------
(***************************************************************************)
(* The stack of Activations.                                               *)
(***************************************************************************)
Act(d, meth, bank, at) ==
  [meth |-> meth,
   regs |-> [r \in 0 .. Method(d, meth).registers_size - 1 |-> bank[r]],
   pc   |-> at]

\* The pc of the running activation.
TopPc == IF mode = "check" /\ pc >= Running.insns_size THEN -1 ELSE pc

StackIsSeq ==
  /\ Len(frames) \in Nat /\ Len(Stack) = Len(frames)
  /\ Stack = [k \in 1 .. Len(frames) |-> Stack[k]]
  /\ Stack \in Seq({Stack[k] : k \in 1 .. Len(frames)})
  /\ frames = <<>> => Stack = <<>>

Elements ==
  /\ frames # <<>> =>
       Len(frames) > 0 /\ Stack[Len(frames)] = Act(dex, Top.meth, regs, TopPc)
  /\ \A k \in 1 .. Len(frames) - 1 :
       Stack[k] = Act(dex, frames[k].meth, frames[k + 1].saved, frames[k + 1].pc_current)

LEMMA StackIs == TypeOK => StackIsSeq /\ Elements
  <1> SUFFICES ASSUME TypeOK PROVE StackIsSeq /\ Elements
    OBVIOUS
  <1> DEFINE n == Len(frames)
             S == {Stack[k] : k \in 1 .. n}
  <1>1. n \in Nat /\ (frames = <<>> <=> n = 0)
    BY LenProperties, EmptySeq DEF TypeOK
  <1>2. Stack = [k \in 1 .. n |-> Stack[k]]
    BY DEF Stack
  <1>3. Stack \in Seq(S) /\ DOMAIN Stack = 1 .. n
    <2>1. Stack \in [1 .. n -> S]
      BY <1>2
    <2> QED BY <1>1, <2>1, SeqDef
  <1>4. Len(Stack) = n
    BY <1>1, <1>3, LenProperties
  <1>5. n = 0 => Stack = <<>>
    BY <1>3, <1>4, EmptySeq
  <1>6. ASSUME NEW k \in 1 .. n
        PROVE  Stack[k] =
                 [meth |-> frames[k].meth,
                  regs |-> [r \in 0 .. Method(dex, frames[k].meth).registers_size - 1 |->
                              IF k = n THEN regs[r] ELSE frames[k + 1].saved[r]],
                  pc   |-> IF k # n THEN frames[k + 1].pc_current
                           ELSE IF mode = "check" /\ pc >= Method(dex, frames[k].meth).insns_size
                                THEN -1 ELSE pc]
    BY DEF Stack
  <1>7. frames # <<>> => n > 0 /\ Stack[n] = Act(dex, Top.meth, regs, TopPc)
    <2> SUFFICES ASSUME n > 0 PROVE Stack[n] = Act(dex, Top.meth, regs, TopPc)
      BY <1>1
    <2>1. n \in 1 .. n /\ Top = frames[n]
      BY <1>1 DEF Top, Last
    <2> HIDE DEF n
    <2> QED BY <1>6, <2>1 DEF Act, TopPc, Running
  <1>8. \A k \in 1 .. n - 1 :
          Stack[k] = Act(dex, frames[k].meth, frames[k + 1].saved, frames[k + 1].pc_current)
    <2> SUFFICES ASSUME NEW k \in 1 .. n - 1
                 PROVE  Stack[k] = Act(dex, frames[k].meth, frames[k + 1].saved,
                                       frames[k + 1].pc_current)
      OBVIOUS
    <2>1. k \in 1 .. n /\ k # n
      BY <1>1
    <2> HIDE DEF n
    <2> QED BY <1>6, <2>1 DEF Act
  <1> HIDE DEF n
  <1>9. (frames # <<>> => n > 0) /\ (frames = <<>> => Stack = <<>>)
    BY <1>1, <1>5
  <1> QED BY <1>1, <1>2, <1>3, <1>4, <1>7, <1>8, <1>9 DEF StackIsSeq, Elements, n

LEMMA StackIsNext == TypeOK' => StackIsSeq' /\ Elements'
  BY StackIs, PTL

\* A step inside the running activation.
LEMMA StackInside ==
  ASSUME TypeOK, TypeOK', UNCHANGED <<file, frames>>, frames # <<>>
  PROVE  Stack' = [Stack EXCEPT ![Len(frames)] = Act(dex, Top.meth, regs', TopPc')]
  <1> DEFINE n == Len(frames)
             act == Act(dex, Top.meth, regs', TopPc')
  <1>1. dex' = dex /\ Top' = Top
    BY DEF dex, Top
  <1>2. n \in Nat /\ n > 0 /\ Stack = [k \in 1 .. n |-> Stack[k]]
        /\ Stack' = [k \in 1 .. n |-> Stack'[k]]
    BY StackIs, StackIsNext DEF StackIsSeq, Elements
  <1>3. Stack'[n] = act
    BY <1>1, StackIsNext DEF Elements
  <1>4. \A k \in 1 .. n - 1 : Stack'[k] = Stack[k]
    BY <1>1, StackIs, StackIsNext DEF Elements
  <1> HIDE DEF n, act
  <1>5. \A k \in 1 .. n : Stack'[k] = IF k = n THEN act ELSE Stack[k]
    BY <1>2, <1>3, <1>4
  <1>6. Stack' = [k \in 1 .. n |-> IF k = n THEN act ELSE Stack[k]]
    BY <1>2, <1>5
  <1> QED BY <1>2, <1>6 DEF n, act

\* A call, made at pc.
LEMMA StackPushed ==
  ASSUME Inv, TypeOK', NEW meth, NEW save, NEW args, Activate(meth, save, args),
         frames # <<>> => TopPc = pc, TopPc' = 0
  PROVE  /\ Len(Stack') = Len(Stack) + 1
         /\ SubSeq(Stack', 1, Len(Stack)) = Stack
         /\ Stack'[Len(Stack) + 1] = Act(dex, meth, regs', 0)
  <1> DEFINE n == Len(frames)
             frame == [meth |-> meth, save |-> save, saved |-> regs,
                       pc_current |-> pc, from |-> mode]
  <1>1. frames' = Append(frames, frame) /\ dex' = dex
    BY DEF Activate, code, dex
  <1>2. /\ n \in Nat /\ Len(frames') = n + 1
        /\ \A k \in 1 .. n : frames'[k] = frames[k]
        /\ frames'[n + 1] = frame
    BY <1>1, Grown
  <1>3. TypeOK
    BY DEF Inv
  <1>4. Top' = frame /\ frames' # <<>>
    BY <1>2, EmptySeq DEF Top, Last
  <1>5. Stack'[n + 1] = Act(dex, meth, regs', 0)
    BY <1>1, <1>2, <1>4, StackIsNext DEF Elements
  <1>6. ASSUME NEW k \in 1 .. n
        PROVE  Stack'[k] = Stack[k]
    <2>1. frames'[k] = frames[k] /\ k \in 1 .. Len(frames') - 1
      BY <1>2
    <2>2. Stack'[k] = Act(dex, frames[k].meth, frames'[k + 1].saved, frames'[k + 1].pc_current)
      BY <1>1, <2>1, StackIsNext DEF Elements
    <2>3. CASE k \in 1 .. n - 1
      <3>1. frames'[k + 1] = frames[k + 1]
        BY <1>2, <2>3
      <3> QED BY <1>3, <2>2, <2>3, <3>1, StackIs DEF Elements
    <2>4. CASE k = n
      <3>1. frames # <<>> /\ Top = frames[n]
        BY <2>4, EmptySeq DEF Top, Last
      <3>2. Stack[n] = Act(dex, frames[n].meth, regs, pc)
        BY <1>3, <3>1, StackIs DEF Elements
      <3> QED BY <1>2, <2>2, <2>4, <3>2
    <2> QED BY <1>2, <2>3, <2>4
  <1>7. Len(Stack) = n /\ Len(Stack') = n + 1
    BY <1>2, <1>3, StackIs, StackIsNext DEF StackIsSeq
  <1>8. SubSeq(Stack', 1, n) = Stack
    <2>1. SubSeq(Stack', 1, n) = [k \in 1 .. n |-> Stack'[k]]
      BY <1>2, <1>7, SubSeqProperties, StackIsNext DEF StackIsSeq
    <2>2. Stack = [k \in 1 .. n |-> Stack[k]]
      BY <1>3, StackIs DEF StackIsSeq
    <2> HIDE DEF n
    <2> QED BY <1>6, <2>1, <2>2
  <1> QED BY <1>5, <1>7, <1>8

LEMMA SameAct ==
  ASSUME NEW d, NEW meth, NEW bank1, NEW bank2, NEW at,
         \A r \in 0 .. Method(d, meth).registers_size - 1 : bank1[r] = bank2[r]
  PROVE  Act(d, meth, bank1, at) = Act(d, meth, bank2, at)
  BY DEF Act

\* Act with another pc, and with another value in a register.
LEMMA ActParts ==
  ASSUME NEW d, NEW meth, NEW bank, NEW at
  PROVE  /\ Act(d, meth, bank, at).meth = meth
         /\ Act(d, meth, bank, at).pc = at
         /\ DOMAIN Act(d, meth, bank, at).regs = 0 .. Method(d, meth).registers_size - 1
         /\ \A r \in 0 .. Method(d, meth).registers_size - 1 :
              Act(d, meth, bank, at).regs[r] = bank[r]
         /\ \A next : [Act(d, meth, bank, at) EXCEPT !.pc = next] = Act(d, meth, bank, next)
  <1> DEFINE own == [r \in 0 .. Method(d, meth).registers_size - 1 |-> bank[r]]
  <1>1. DOMAIN own = 0 .. Method(d, meth).registers_size - 1
        /\ \A r \in 0 .. Method(d, meth).registers_size - 1 : own[r] = bank[r]
    OBVIOUS
  <1>2. \A next : Act(d, meth, bank, next) = [meth |-> meth, regs |-> own, pc |-> next]
    BY DEF Act
  <1> HIDE DEF own
  <1>3. /\ Act(d, meth, bank, at).meth = meth
        /\ Act(d, meth, bank, at).regs = own
        /\ Act(d, meth, bank, at).pc = at
    BY <1>2
  <1>4. \A next : [Act(d, meth, bank, at) EXCEPT !.pc = next] = Act(d, meth, bank, next)
    BY <1>2
  <1> QED BY <1>1, <1>3, <1>4

\* The pc is the running activation's own, except behind a return.
LEMMA TopPcIs ==
  ASSUME WellPlaced, LoopInv
  PROVE  /\ mode # "check" => TopPc = pc
         /\ mode = "check" /\ pc \in DOMAIN Running.code => TopPc = pc
         /\ mode = "check" /\ pc \in {ReturnVoidPc, ReturnPc} => TopPc = -1
  <1>1. ASSUME mode = "check", pc \in DOMAIN Running.code
        PROVE  TopPc = pc
    <2>1. pc < Running.insns_size /\ Running.insns_size \in Nat /\ pc \in Int
      BY <1>1, NotAReturnPc, RunningMethod DEF LoopInv, Inv, TypeOK, Verified
    <2> QED BY <2>1 DEF TopPc
  <1>2. mode = "check" /\ pc \in {ReturnVoidPc, ReturnPc} => pc >= Running.insns_size
    BY DEF LoopInv, LoopEndsByReturn
  <1> QED BY <1>1, <1>2 DEF TopPc

LEMMA TopPcIsNext ==
  ASSUME WellPlaced, LoopInv'
  PROVE  /\ mode' # "check" => TopPc' = pc'
         /\ mode' = "check" /\ pc' \in DOMAIN Running'.code => TopPc' = pc'
         /\ mode' = "check" /\ pc' \in {ReturnVoidPc, ReturnPc} => TopPc' = -1
  <1>1. (LoopInv => /\ mode # "check" => TopPc = pc
                    /\ mode = "check" /\ pc \in DOMAIN Running.code => TopPc = pc
                    /\ mode = "check" /\ pc \in {ReturnVoidPc, ReturnPc} => TopPc = -1)'
    BY TopPcIs, PTL
  <1> QED BY <1>1

-----------------------------------------------------------------------------
(***************************************************************************)
(* The steps of runMethod's loop.                                          *)
(***************************************************************************)

\* The end of an activation.
LEMMA LeavesResume ==
  ASSUME WellPlaced, LoopInv, SavedEnough, LoopInv', LeaveMethod
  PROVE  A!Resume /\ UNCHANGED dex
  <1> DEFINE n == Len(frames)
  <1>1. Inv /\ TypeOK /\ TypeOK'
    BY DEF LoopInv, Inv
  <1>2. /\ n \in Nat \ {0} /\ DOMAIN frames = 1 .. n
        /\ Top = frames[n] /\ frames # <<>> /\ Top \in Frame
    BY <1>1, RunningMethod, EmptySeq DEF LeaveMethod, Top, Last
  <1>3. Len(frames') = n - 1 /\ \A k \in 1 .. n - 1 : frames'[k] = frames[k]
    BY <1>1, Shrunk
  <1>4. dex' = dex /\ UNCHANGED <<result, object>>
    BY DEF LeaveMethod, code, data, dex
  <1>5. A!n = n /\ Stack[n].pc = -1
    <2>1. A!n = n /\ Stack[n] = Act(dex, Top.meth, regs, TopPc)
      BY <1>1, <1>2, StackIs DEF StackIsSeq, Elements, A!n
    <2>2. TopPc = -1
      BY DEF LeaveMethod, TopPc
    <2> QED BY <2>1, <2>2 DEF Act
  <1>6. CASE n = 1
    <2>1. Stack' = <<>>
      <3>1. frames' = <<>>
        BY <1>1, <1>3, <1>6, EmptySeq DEF TypeOK
      <3> QED BY <1>1, <3>1, StackIsNext DEF StackIsSeq
    <2> QED BY <1>4, <1>5, <1>6, <2>1 DEF A!Resume, A!Running, A!Returned
  <1>7. CASE n > 1
    <2> DEFINE front == [k \in 1 .. n - 1 |-> Stack[k]]
               caller == frames[n - 1].meth
               back == Top.pc_current + 6
    <2>1. Top.from = "exec" /\ pc' = back /\ Continue
      <3>1. Top.from = "exec"
        BY <1>1, <1>2, <1>7 DEF Inv, StackShape
      <3> QED BY <3>1 DEF LeaveMethod, Behind
    <2>2. Stack[n - 1] = Act(dex, caller, Top.saved, Top.pc_current)
      <3>1. n - 1 \in 1 .. n - 1 /\ (n - 1) + 1 = n
        BY <1>2, <1>7
      <3> QED BY <1>1, <1>2, <3>1, StackIs DEF Elements
    <2>3. Stack'[n - 1] = Act(dex, caller, regs', back)
      <3>1. frames' # <<>> /\ Top' = frames[n - 1] /\ n - 1 \in 1 .. n - 1
        BY <1>2, <1>3, <1>7, EmptySeq DEF Top, Last
      <3>2. TopPc' = back
        <4>1. pc' \in DOMAIN Running'.code
          BY <2>1, BehindInvoke
        <4> QED BY <2>1, <4>1, TopPcIsNext
      <3> QED BY <1>1, <1>3, <1>4, <3>1, <3>2, StackIsNext DEF Elements
    <2>4. Act(dex, caller, regs', back) = Act(dex, caller, Top.saved, back)
      BY <1>1, <1>7, CallerRestored, SameAct
    <2>5. \A k \in 1 .. n - 2 : Stack'[k] = Stack[k]
      <3> SUFFICES ASSUME NEW k \in 1 .. n - 2
                   PROVE  Stack'[k] = Stack[k]
        OBVIOUS
      <3>1. /\ k \in 1 .. n - 1 /\ k \in 1 .. Len(frames') - 1
            /\ frames'[k] = frames[k] /\ frames'[k + 1] = frames[k + 1]
        BY <1>2, <1>3
      <3> QED BY <1>1, <1>4, <3>1, StackIs, StackIsNext DEF Elements
    <2>6. Stack' = [front EXCEPT ![n - 1].pc = @ + 6]
      <3>1. Stack'[n - 1] = [front[n - 1] EXCEPT !.pc = @ + 6]
        <4>1. front[n - 1] = Act(dex, caller, Top.saved, Top.pc_current)
          BY <1>2, <1>7, <2>2
        <4> HIDE DEF front, n
        <4>2. front[n - 1].pc = Top.pc_current
          BY <4>1, ActParts
        <4>3. [front[n - 1] EXCEPT !.pc = back] = Act(dex, caller, Top.saved, back)
          BY <4>1, ActParts
        <4> QED BY <2>3, <2>4, <4>2, <4>3
      <3>2. Stack' = [k \in 1 .. n - 1 |-> Stack'[k]]
        BY <1>1, <1>3, StackIsNext DEF StackIsSeq
      <3>3. \A k \in 1 .. n - 1 :
              Stack'[k] = IF k = n - 1 THEN [front[k] EXCEPT !.pc = @ + 6] ELSE front[k]
        <4> SUFFICES ASSUME NEW k \in 1 .. n - 1
                     PROVE  Stack'[k] = IF k = n - 1 THEN [front[k] EXCEPT !.pc = @ + 6]
                                        ELSE front[k]
          OBVIOUS
        <4>1. front[k] = Stack[k]
          OBVIOUS
        <4> HIDE DEF front, n
        <4>2. k = n - 1 \/ k \in 1 .. n - 2
          BY <1>2
        <4> QED BY <2>5, <3>1, <4>1, <4>2
      <3>4. DOMAIN front = 1 .. n - 1
        OBVIOUS
      <3> HIDE DEF front, n
      <3> QED BY <3>2, <3>3, <3>4
    <2>7. A!Front(Stack) = front
      <3>1. Len(Stack) = n /\ \A k \in 1 .. n - 1 : Stack[k] \in {Stack[j] : j \in 1 .. n}
        BY <1>1, StackIs DEF StackIsSeq
      <3> QED BY <1>2, <3>1, SubSeqProperties DEF A!Front
    <2> QED BY <1>4, <1>5, <1>7, <2>6, <2>7 DEF A!Resume, A!Running, A!Returned
  <1> QED BY <1>2, <1>6, <1>7

\* What Activations sees of the current instruction.
LEMMA AtExec ==
  ASSUME WellPlaced, LoopInv, mode = "exec", pc \in DOMAIN Running.code
  PROVE  /\ A!n = Len(frames) /\ Len(frames) \in Nat \ {0} /\ frames # <<>>
         /\ Stack = [k \in 1 .. Len(frames) |-> Stack[k]]
         /\ Stack[Len(frames)] = Act(dex, Top.meth, regs, pc)
         /\ A!Running.pc = pc /\ A!I = I
         /\ \A ops : I.op \in ops => A!At(ops)
         /\ \A r \in Operands(I) :
              r \in 0 .. Running.registers_size - 1 /\ r \in Reg /\ A!V(r) = regs[r]
  <1>1. Inv /\ TypeOK
    BY DEF LoopInv, Inv
  <1>2. Len(frames) \in Nat \ {0} /\ frames # <<>> /\ Verified(Running)
    BY <1>1, RunningMethod, EmptySeq DEF Inv, StackShape
  <1>3. /\ Len(Stack) = Len(frames) /\ Stack = [k \in 1 .. Len(frames) |-> Stack[k]]
        /\ Stack[Len(frames)] = Act(dex, Top.meth, regs, pc)
    BY <1>1, <1>2, StackIs, TopPcIs DEF StackIsSeq, Elements
  <1>4. A!n = Len(frames) /\ A!Running = Act(dex, Top.meth, regs, pc)
    BY <1>3 DEF A!n, A!Running
  <1>5. A!Running.meth = Top.meth /\ A!Running.pc = pc
    BY <1>4, ActParts
  <1>6. A!Code(dex, A!Running.meth) = Running.code /\ A!I = I
    BY <1>5, SameMethod DEF A!I, I, Running, Code
  <1>7. \A ops : I.op \in ops => A!At(ops)
    BY <1>2, <1>4, <1>5, <1>6 DEF A!At
  <1>8. ASSUME NEW r \in Operands(I)
        PROVE  r \in 0 .. Running.registers_size - 1 /\ r \in Reg /\ A!V(r) = regs[r]
    <2>1. r < Running.registers_size /\ Running.registers_size \in Nat
      BY <1>2 DEF Verified, I
    <2>2. r \in Reg
      <3>1. /\ I.vx \in Reg /\ I.vy \in Reg
            /\ \A a \in ToSet(I.args) : a \in Reg
        BY <1>1, Current, ElementOfSeq, LenProperties DEF ToSet
      <3>2. \/ r \in ToSet(I.args) \/ r = I.vx \/ r = I.vy
        BY DEF Operands
      <3> QED BY <3>1, <3>2
    <2>3. r \in 0 .. Running.registers_size - 1
      BY <2>1, <2>2, NRegsAssumption DEF Reg
    <2> QED BY <1>4, <2>2, <2>3, ActParts DEF A!V, Running
  <1> QED BY <1>2, <1>3, <1>4, <1>5, <1>6, <1>7, <1>8

\* A handler that goes on at an instruction of its method.
LEMMA GoesOn ==
  ASSUME WellPlaced, LoopInv, LoopInv', mode = "exec", pc \in DOMAIN Running.code,
         UNCHANGED <<file, frames>>, pc' \in DOMAIN Running.code
  PROVE  Stack' = [Stack EXCEPT ![Len(frames)] = Act(dex, Top.meth, regs', pc')]
  <1>1. TypeOK /\ TypeOK' /\ frames # <<>>
    BY AtExec DEF LoopInv, Inv
  <1>2. Running' = Running
    BY DEF Running, Top, dex
  <1>3. TopPc' = pc'
    BY <1>2, TopPcIsNext
  <1> QED BY <1>1, <1>3, StackInside

LEMMA GoesTo ==
  ASSUME WellPlaced, LoopInv, LoopInv', mode = "exec", pc \in DOMAIN Running.code,
         UNCHANGED <<file, frames, regs>>, pc' \in DOMAIN Running.code
  PROVE  A!GoTo(pc')
  <1>1. Stack' = [Stack EXCEPT ![Len(frames)] = Act(dex, Top.meth, regs, pc')]
    BY GoesOn
  <1>2. [Stack[Len(frames)] EXCEPT !.pc = pc'] = Act(dex, Top.meth, regs, pc')
    BY AtExec, ActParts
  <1>3. [Stack EXCEPT ![Len(frames)].pc = pc'] =
          [Stack EXCEPT ![Len(frames)] = [Stack[Len(frames)] EXCEPT !.pc = pc']]
    OBVIOUS
  <1> QED BY <1>1, <1>2, <1>3, AtExec DEF A!GoTo

LEMMA OwnSet ==
  ASSUME NEW S, NEW bank, S \subseteq DOMAIN bank, NEW r \in S, NEW v
  PROVE  [[x \in S |-> bank[x]] EXCEPT ![r] = v] = [x \in S |-> [bank EXCEPT ![r] = v][x]]
  OBVIOUS

\* An activation, and a bank, with v in register r.
SetIn(a, r, v, next) == [a EXCEPT !.regs[r] = v, !.pc = next]
Written(bank, r, v)  == [bank EXCEPT ![r] = v]

LEMMA ActSet ==
  ASSUME NEW d, NEW meth, NEW bank, NEW at, NEW r, NEW v, NEW next,
         0 .. Method(d, meth).registers_size - 1 \subseteq DOMAIN bank,
         r \in 0 .. Method(d, meth).registers_size - 1
  PROVE  SetIn(Act(d, meth, bank, at), r, v, next) = Act(d, meth, Written(bank, r, v), next)
  <1> DEFINE R == 0 .. Method(d, meth).registers_size - 1
             own == [x \in R |-> bank[x]]
             new == [x \in R |-> [bank EXCEPT ![r] = v][x]]
  <1>1. [own EXCEPT ![r] = v] = new
    BY OwnSet
  <1>2. /\ Act(d, meth, bank, at) = [meth |-> meth, regs |-> own, pc |-> at]
        /\ Act(d, meth, Written(bank, r, v), next) = [meth |-> meth, regs |-> new, pc |-> next]
    BY DEF Act, Written
  <1> HIDE DEF own, new
  <1>3. [[meth |-> meth, regs |-> own, pc |-> at] EXCEPT !.regs[r] = v] =
          [meth |-> meth, regs |-> new, pc |-> at]
    BY <1>1
  <1>4. [[meth |-> meth, regs |-> new, pc |-> at] EXCEPT !.pc = next] =
          [meth |-> meth, regs |-> new, pc |-> next]
    OBVIOUS
  <1>5. \A a : [a EXCEPT !.regs[r] = v, !.pc = next] = [[a EXCEPT !.regs[r] = v] EXCEPT !.pc = next]
    OBVIOUS
  <1> QED BY <1>2, <1>3, <1>4, <1>5 DEF SetIn

\* A handler that sets its destination register.
LEMMA SetsRegister ==
  ASSUME WellPlaced, LoopInv, LoopInv', mode = "exec", pc \in DOMAIN Running.code,
         UNCHANGED <<file, frames>>, NEW v, SetReg(v), Advance, I.vx \in Operands(I),
         I.op \notin Returns \cup {"goto", "unknown"}
  PROVE  A!Set(v)
  <1> DEFINE n == Len(frames)
             x == I.vx
             next == pc + Length(I)
  <1>1. TypeOK /\ Verified(Running) /\ Running.registers_size <= NRegs
    <2>1. Verified(Running) /\ Len(frames) \in DOMAIN frames
      BY RunningMethod DEF LoopInv
    <2> QED BY <2>1 DEF LoopInv, Inv, StackShape, Running, Top, Last
  <1>2. next \in DOMAIN Running.code
    BY <1>1, Reachable DEF I
  <1>3. Stack' = [Stack EXCEPT ![n] = Act(dex, Top.meth, Written(regs, x, v), next)]
    BY <1>2, GoesOn DEF SetReg, Advance, Written
  <1>4. SetIn(Stack[n], x, v, next) = Act(dex, Top.meth, Written(regs, x, v), next)
    <2>1. regs \in [Reg -> Int] /\ Running.registers_size \in Nat
      BY <1>1 DEF TypeOK, Verified
    <2>2. 0 .. Running.registers_size - 1 \subseteq DOMAIN regs
      BY <1>1, <2>1, NRegsAssumption DEF Reg
    <2>3. Stack[n] = Act(dex, Top.meth, regs, pc) /\ x \in 0 .. Running.registers_size - 1
      BY AtExec
    <2> HIDE DEF n, x, next
    <2> QED BY <2>2, <2>3, ActSet DEF Running
  <1>5. Stack[n].pc = pc /\ n \in DOMAIN Stack
    BY AtExec, ActParts
  <1>6. [Stack EXCEPT ![n].regs[x] = v, ![n].pc = @ + Length(I)] =
          [Stack EXCEPT ![n] = SetIn(Stack[n], x, v, next)]
    <2> HIDE DEF n, x
    <2> QED BY <1>5 DEF SetIn
  <1>7. A!n = n /\ A!I = I /\ A!Length(A!I) = Length(I)
    BY AtExec, SameLength
  <1> QED BY <1>3, <1>4, <1>6, <1>7 DEF A!Set

\* What Activations sees of a step that moves neither values nor the pc.
LEMMA Unseen ==
  ASSUME WellPlaced, LoopInv, LoopInv', mode # "check", mode' # "check",
         UNCHANGED <<code, data, regs, pc, frames>>
  PROVE  UNCHANGED A!vars
  <1>1. TypeOK /\ TypeOK' /\ dex' = dex /\ UNCHANGED <<result, object>>
    BY DEF LoopInv, Inv, code, data, dex
  <1>2. CASE frames = <<>>
    BY <1>1, <1>2, StackIs, StackIsNext DEF StackIsSeq, A!vars
  <1>3. CASE frames # <<>>
    <2>1. Stack' = [Stack EXCEPT ![Len(frames)] = Act(dex, Top.meth, regs, pc)]
      BY <1>1, <1>3, StackInside, TopPcIsNext DEF code
    <2>2. /\ Stack = [k \in 1 .. Len(frames) |-> Stack[k]]
          /\ Stack[Len(frames)] = Act(dex, Top.meth, regs, pc)
      BY <1>1, <1>3, StackIs, TopPcIs DEF StackIsSeq, Elements
    <2>3. Stack' = Stack
      BY <2>1, <2>2
    <2> QED BY <1>1, <2>3 DEF A!vars
  <1> QED BY <1>2, <1>3

LEMMA LocalsRefine ==
  ASSUME Conforming, WellPlaced, LoopInv, LoopInv',
         \/ const \/ op_move \/ op_move_result \/ op_sget_object \/ op_sput_object
         \/ op_goto \/ op_if_eqz
  PROVE  A!Local /\ UNCHANGED dex
  <1>1. /\ mode = "exec" /\ pc \in DOMAIN Running.code
        /\ UNCHANGED <<file, frames>> /\ dex' = dex
        /\ UNCHANGED object /\ UNCHANGED result
    BY DEF const, op_move, op_move_result, op_sget_object, op_sput_object, op_goto,
           op_if_eqz, At, Local, code, data, dex
  <1>2. ASSUME NEW v, SetReg(v), Advance, I.op \in OneReg \cup {"move"}
        PROVE  A!Set(v)
    <2>1. I.vx \in Operands(I) /\ I.op \notin Returns \cup {"goto", "unknown"}
      BY <1>2 DEF Operands, OneReg, Invokes, Returns
    <2> QED BY <1>1, <1>2, <2>1, SetsRegister
  <1>3. /\ \A op : I.op = op => A!At({op})
        /\ \A r \in Operands(I) : A!V(r) = regs[r]
        /\ A!I = I /\ A!Running.pc = pc
    BY <1>1, AtExec
  <1>4. CASE const
    <2>1. I.op = "const" /\ A!Set(I.lit)
      BY <1>2, <1>4 DEF const, At, I, OneReg
    <2> QED BY <1>1, <1>3, <2>1 DEF A!Local
  <1>5. CASE op_move
    <2>1. I.op = "move" /\ I.vy \in Operands(I)
      BY <1>5 DEF op_move, At, I, Operands, Invokes, OneReg
    <2>2. A!Set(regs[I.vy])
      BY <1>2, <1>5, <2>1 DEF op_move
    <2>3. A!V(A!I.vy) = regs[I.vy]
      BY <1>3, <2>1
    <2>4. A!Set(A!V(A!I.vy))
      BY <2>2, <2>3 DEF A!Set
    <2> QED BY <1>1, <1>3, <2>1, <2>4 DEF A!Local
  <1>6. CASE op_move_result
    <2>1. I.op = "move-result" /\ A!Set(result.bottom)
      BY <1>2, <1>6 DEF op_move_result, At, I, OneReg
    <2> QED BY <1>1, <1>3, <2>1 DEF A!Local
  <1>7. CASE op_sget_object
    <2>1. I.op = "sget-object" /\ A!Set(static_field_value[I.lit])
      BY <1>2, <1>7 DEF op_sget_object, At, I, OneReg
    <2>2. Stack'[A!n].regs[A!I.vx] = static_field_value[I.lit]
      <3> DEFINE v == static_field_value[I.lit]
      <3>1. Stack'[A!n] = Act(dex, Top.meth, regs', pc')
        <4>1. pc' \in DOMAIN Running.code
          <5>1. I.op \notin Returns \cup {"goto", "unknown"} /\ Verified(Running)
            BY <1>1, <2>1, RunningMethod DEF LoopInv, Returns
          <5> QED BY <1>1, <1>7, <5>1, Reachable DEF op_sget_object, Advance, I
        <4>2. Stack' = [Stack EXCEPT ![Len(frames)] = Act(dex, Top.meth, regs', pc')]
          BY <1>1, <4>1, GoesOn
        <4> QED BY <1>1, <4>2, AtExec
      <3>2. I.vx \in 0 .. Running.registers_size - 1 /\ I.vx \in Reg
        <4>1. I.vx \in Operands(I)
          BY <2>1 DEF Operands, OneReg, Invokes
        <4> QED BY <1>1, <4>1, AtExec
      <3>3. regs'[I.vx] = v
        BY <1>7, <3>2 DEF op_sget_object, SetReg, LoopInv, Inv, TypeOK
      <3> QED BY <1>3, <3>1, <3>2, <3>3, ActParts DEF Running
    <2>3. A!Set(Stack'[A!n].regs[A!I.vx])
      BY <2>1, <2>2 DEF A!Set
    <2> QED BY <1>1, <1>3, <2>1, <2>3 DEF A!Local
  <1>8. CASE op_sput_object \/ op_goto \/ op_if_eqz
    <2>1. UNCHANGED regs /\ I.op \in {"sput-object", "goto", "if-eqz"}
      BY <1>8 DEF op_sput_object, op_goto, op_if_eqz, At, I
    <2>2. /\ I.op = "sput-object" => pc' = pc + 4
          /\ I.op = "goto" => pc' = pc + I.lit
          /\ I.op = "if-eqz" => pc' = pc + IF A!V(I.vx) = 0 THEN I.lit ELSE 4
      <3>1. I.op = "sput-object" => Length(I) = 4
        BY DEF Length, Invokes
      <3>2. I.op = "if-eqz" => I.vx % Nibble = I.vx /\ A!V(I.vx) = regs[I.vx]
        <4>1. I.op = "if-eqz" => I.vx < Nibble /\ I.vx \in Reg /\ I.vx \in Operands(I)
          BY <1>1, Current, CurrentConforms DEF LoopInv, Operands, OneReg, Invokes
        <4> QED BY <1>3, <4>1, NRegsAssumption DEF Reg
      <3>3. I.op = "if-eqz" => Unsigned(I.lit) = I.lit
        BY <1>1, TestForward DEF LoopInv
      <3> QED BY <1>8, <3>1, <3>2, <3>3 DEF op_sput_object, op_goto, op_if_eqz, At, I, Advance
    <2>3. pc' \in DOMAIN Running.code
      <3>1. Verified(Running)
        BY <1>1, RunningMethod DEF LoopInv
      <3>2. /\ I.op = "sput-object" \/ I.op = "if-eqz" => pc + 4 \in DOMAIN Running.code
            /\ I.op \in Branches => pc + I.lit \in DOMAIN Running.code
        BY <1>1, <3>1, Reachable DEF I, Length, Invokes, Returns
      <3> QED BY <2>1, <2>2, <3>2 DEF Branches
    <2>4. A!GoTo(pc')
      BY <1>1, <2>1, <2>3, GoesTo
    <2>5. /\ I.op = "sput-object" => A!GoTo(A!Running.pc + 4)
          /\ I.op = "goto" => A!GoTo(A!Running.pc + A!I.lit)
          /\ I.op = "if-eqz" => A!GoTo(A!Running.pc + IF A!V(A!I.vx) = 0 THEN A!I.lit ELSE 4)
      BY <1>3, <2>2, <2>4 DEF A!GoTo
    <2> QED BY <1>1, <1>3, <2>1, <2>5 DEF A!Local
  <1> QED BY <1>1, <1>4, <1>5, <1>6, <1>7, <1>8

LEMMA NewRefines ==
  ASSUME Conforming, WellPlaced, LoopInv, LoopInv', op_new_instance
  PROVE  (A!New /\ UNCHANGED dex) \/ UNCHANGED A!vars
  <1>1. /\ mode = "exec" /\ pc \in DOMAIN Running.code /\ I.op = "new-instance"
        /\ UNCHANGED <<file, frames>> /\ dex' = dex
    BY DEF op_new_instance, At, I, Local, Undefined, code, dex
  <1>2. CASE Undefined
    BY <1>1, <1>2, Unseen DEF Undefined
  <1>3. CASE Advance /\ UNCHANGED result
    <2>1. ASSUME NEW v, SetReg(v)
          PROVE  A!Set(v)
      <3>1. I.vx \in Operands(I) /\ I.op \notin Returns \cup {"goto", "unknown"}
        BY <1>1 DEF Operands, OneReg, Invokes, Returns
      <3> QED BY <1>1, <1>3, <2>1, <3>1, SetsRegister
    <2>2. A!At({"new-instance"}) /\ A!I = I
      BY <1>1, AtExec
    <2>3. A!class_def_of(dex, A!I.lit) = class_def_of(dex, I.lit)
      BY <2>2, SameClass
    <2>4. CASE class_def_of(dex, I.lit) = -1 /\ SetReg(-1) /\ UNCHANGED object
      <3>1. A!Set(-1)
        BY <2>1, <2>4
      <3> QED BY <1>1, <1>3, <2>2, <2>3, <2>4, <3>1 DEF A!New
    <2>5. CASE /\ class_def_of(dex, I.lit) # -1 /\ object' = Append(object, I.lit)
               /\ SetReg(Len(object))
      <3>1. A!Set(Len(object))
        BY <2>1, <2>5
      <3> QED BY <1>1, <1>3, <2>2, <2>3, <2>5, <3>1 DEF A!New
    <2>6. Undefined => Advance /\ mode' = "undefined"
      BY <1>3 DEF Undefined
    <2> QED BY <2>4, <2>5, <2>6 DEF op_new_instance, Advance, Continue
  <1> QED BY <1>2, <1>3 DEF op_new_instance

LEMMA ReturnsRefine ==
  ASSUME WellPlaced, LoopInv, LoopInv', op_return_void \/ op_return
  PROVE  A!Return /\ UNCHANGED dex
  <1>1. /\ mode = "exec" /\ pc \in DOMAIN Running.code /\ I.op \in Returns
        /\ UNCHANGED <<file, frames, regs, object>> /\ dex' = dex
        /\ mode' = "check" /\ pc' \in {ReturnVoidPc, ReturnPc}
    BY DEF op_return_void, op_return, At, I, Local, Returns, code, data, dex
  <1>2. TypeOK /\ TypeOK' /\ A!I = I /\ A!At(Returns) /\ A!n = Len(frames)
    BY <1>1, AtExec DEF LoopInv, Inv
  <1>3. A!GoTo(A!Returned)
    <2>1. TopPc' = -1 /\ frames # <<>>
      BY <1>1, AtExec, TopPcIsNext
    <2>2. Stack' = [Stack EXCEPT ![Len(frames)] = Act(dex, Top.meth, regs, -1)]
      BY <1>1, <1>2, <2>1, StackInside
    <2>3. [Stack[Len(frames)] EXCEPT !.pc = -1] = Act(dex, Top.meth, regs, -1)
      BY <1>1, AtExec, ActParts
    <2>4. [Stack EXCEPT ![Len(frames)].pc = -1] =
            [Stack EXCEPT ![Len(frames)] = [Stack[Len(frames)] EXCEPT !.pc = -1]]
      OBVIOUS
    <2> QED BY <1>2, <2>2, <2>3, <2>4 DEF A!GoTo, A!Returned
  <1>4. result'.bottom = IF A!I.op = "return" THEN A!V(A!I.vx) ELSE result.bottom
    <2>1. CASE op_return
      <3>1. I.op = "return" /\ result'.bottom = regs[I.vx]
        BY <1>2, <2>1 DEF op_return, At, I, TypeOK
      <3>2. I.vx \in Operands(I)
        BY <3>1 DEF Operands, Invokes, OneReg
      <3> QED BY <1>1, <1>2, <3>1, <3>2, AtExec
    <2>2. CASE op_return_void
      BY <1>2, <2>2 DEF op_return_void, At, I, data
    <2> QED BY <2>1, <2>2
  <1>5. A!At(A!Returns)
    BY <1>2 DEF A!Returns, Returns
  <1> QED BY <1>1, <1>3, <1>4, <1>5 DEF A!Return

-----------------------------------------------------------------------------
(***************************************************************************)
(* Calls.                                                                  *)
(***************************************************************************)

\* The arguments of a call, in the last registers of the callee.
LEMMA Arguments ==
  ASSUME NEW size \in Nat, size <= NRegs, NEW bank, NEW tmp,
         NEW args \in Seq(Reg), Len(args) <= size
  PROVE  \A k \in DOMAIN args :
           /\ size - Len(args) + k - 1 \in 0 .. size - 1
           /\ copy_parameter(bank, size, args, tmp)[size - Len(args) + k - 1] = bank[args[k]]
  <1> SUFFICES ASSUME NEW k \in DOMAIN args
               PROVE  /\ size - Len(args) + k - 1 \in 0 .. size - 1
                      /\ copy_parameter(bank, size, args, tmp)[size - Len(args) + k - 1]
                           = bank[args[k]]
    OBVIOUS
  <1> DEFINE first == size - Len(args)
             r == first + k - 1
  <1>1. Len(args) \in Nat /\ k \in 1 .. Len(args)
    BY LenProperties
  <1>2. first \in Nat /\ r \in 0 .. size - 1 /\ r \in Reg
        /\ r >= first /\ r < size /\ r - first + 1 = k
    BY <1>1, NRegsAssumption DEF Reg
  <1>3. copy_parameter(bank, size, args, tmp)[r] = bank[args[r - first + 1]]
    <2> HIDE DEF r
    <2> QED BY <1>2 DEF copy_parameter
  <1> QED BY <1>2, <1>3

\* A call pushes an activation, with these arguments.
LEMMA CallPushes ==
  ASSUME WellPlaced, LoopInv, LoopInv', mode # "check",
         NEW meth, NEW save, NEW args \in Seq(Reg), Activate(meth, save, args)
  PROVE  /\ A!Pushed(meth, <<>>)
         /\ \A values : /\ DOMAIN values = DOMAIN args
                        /\ Len(values) = Len(args)
                        /\ Len(args) <= Method(dex, meth).registers_size
                        /\ \A k \in DOMAIN args : values[k] = regs[args[k]]
                        => A!Pushed(meth, values)
  <1> DEFINE size == Method(dex, meth).registers_size
             a == Act(dex, meth, regs', 0)
  <1>1. Inv /\ TypeOK /\ TypeOK' /\ dex' = dex
    BY DEF LoopInv, Inv, Activate, code, dex
  <1>2. InTable(dex, meth) /\ size <= NRegs /\ size \in Nat /\ 0 \in DOMAIN Method(dex, meth).code
    BY <1>1, ProgramAssumption, VerifiedMethod DEF Activate, dex, TypeOK, Verified
  <1>3. Top'.meth = meth
    <2> DEFINE frame == [meth |-> meth, save |-> save, saved |-> regs,
                         pc_current |-> pc, from |-> mode]
    <2>1. frames' = Append(frames, frame) /\ frame.meth = meth
      BY DEF Activate
    <2> HIDE DEF frame
    <2>2. Len(frames) \in Nat /\ frames'[Len(frames) + 1] = frame /\ Len(frames') = Len(frames) + 1
      BY <1>1, <2>1, Grown
    <2> QED BY <2>1, <2>2 DEF Top, Last
  <1>4. TopPc' = 0
    <2>1. pc' = 0 /\ pc' \in DOMAIN Running'.code
      BY <1>1, <1>2, <1>3 DEF Activate, Running
    <2> QED BY <2>1, TopPcIsNext
  <1>5. /\ Len(Stack') = A!n + 1
        /\ SubSeq(Stack', 1, A!n) = Stack
        /\ Stack'[A!n + 1] = a
    <2>1. TopPc = pc
      BY TopPcIs
    <2> QED BY <1>1, <1>4, <2>1, StackPushed DEF A!n
  <1>6. a.meth = meth /\ a.pc = 0 /\ DOMAIN a.regs = 0 .. size - 1
        /\ \A r \in 0 .. size - 1 : a.regs[r] = regs'[r]
    BY ActParts
  <1>7. A!Method(dex, meth).registers_size = size
    BY SameMethod
  <1> HIDE DEF a
  <1>8. DOMAIN <<>> = {}
    OBVIOUS
  <1>9. A!Pushed(meth, <<>>)
    BY <1>5, <1>6, <1>7, <1>8 DEF A!Pushed
  <1>10. ASSUME NEW values, DOMAIN values = DOMAIN args, Len(values) = Len(args),
                Len(args) <= size,
                \A k \in DOMAIN args : values[k] = regs[args[k]]
         PROVE  A!Pushed(meth, values)
    <2>1. PICK tmp : regs' = copy_parameter(regs, size, args, tmp)
      BY DEF Activate
    <2> DEFINE first == size - Len(args)
    <2>2. \A k \in DOMAIN args :
            first + k - 1 \in 0 .. size - 1 /\ regs'[first + k - 1] = regs[args[k]]
      BY <1>2, <1>10, <2>1, Arguments
    <2>3. \A k \in DOMAIN values : a.regs[first + k - 1] = values[k]
      BY <1>6, <1>10, <2>2
    <2>4. A!Method(dex, meth).registers_size - Len(values) = first
      BY <1>7, <1>10
    <2> HIDE DEF size, first
    <2> QED BY <1>5, <1>6, <1>7, <2>3, <2>4 DEF A!Pushed, size
  <1> QED BY <1>9, <1>10

-----------------------------------------------------------------------------
(***************************************************************************)
(* The virtual table is there when a virtual call is made: <clinit> runs   *)
(* before it is, and makes none.                                           *)
(***************************************************************************)
Linked ==
  mode \in {"main", "done"} \/ (frames # <<>> /\ frames[1].from = "main")
    => virtual_table = table[file]

Initializers == CHOOSE S \in SUBSET MethodsOf(dex) : IsInitializers(dex, S)

Initializing ==
  frames # <<>> /\ frames[1].from = "clinit" =>
    \A k \in 1 .. Len(frames) : frames[k].meth \in Initializers

LEMMA InitializersAre ==
  ASSUME Conforming, Inv
  PROVE  IsInitializers(dex, Initializers)
  <1>1. \E S \in SUBSET MethodsOf(dex) : IsInitializers(dex, S)
    BY DEF Conforming, Conforms, Inv, TypeOK, dex
  <1> QED BY <1>1 DEF Initializers

LEMMA TableSteps ==
  ASSUME Inv, [Next]_vars
  PROVE  /\ file' = file
         /\ \/ mode = "link" /\ mode' = "main" /\ virtual_table' = table[file]
            \/ /\ UNCHANGED virtual_table
               /\ mode' \in {"main", "done"} => mode \in {"main", "done"} \/ LeaveMethod
  <1>1. ASSUME NEW meth, NEW save, NEW args, Call(meth, save, args)
        PROVE  UNCHANGED <<file, virtual_table>> /\ mode' \in {"check", "undefined"}
    BY <1>1 DEF Call, Activate, Undefined, code
  <1>2. Advance => mode' \in {"check", "exec"}
    BY DEF Advance, Continue
  <1>3. CASE StartClinit \/ StartMain
    <2>1. ASSUME NEW name, NEW next, Entry(name, next)
          PROVE  UNCHANGED <<file, virtual_table>> /\ mode' \in {"check", "undefined", next}
      <3>1. CASE \E meth : Call(meth, NRegs, p)
        BY <1>1, <3>1
      <3>2. CASE mode' = next /\ UNCHANGED <<code, virtual_table>>
        BY <3>2 DEF code
      <3> QED BY <2>1, <3>1, <3>2 DEF Entry
    <2> QED BY <1>3, <2>1 DEF StartClinit, StartMain
  <1>4. CASE Link
    BY <1>4 DEF Link, Undefined, code
  <1>5. CASE EnterBody \/ LeaveMethod \/ unknown \/ Stray
    BY <1>5 DEF EnterBody, LeaveMethod, unknown, Stray, Undefined, code
  <1>6. CASE \/ const \/ op_move \/ op_move_result \/ op_sget_object \/ op_sput_object
             \/ op_goto \/ op_if_eqz \/ op_new_instance \/ op_return_void \/ op_return
    BY <1>6 DEF const, op_move, op_move_result, op_sget_object, op_sput_object,
       op_goto, op_if_eqz, op_new_instance, op_return_void, op_return, Local, Advance,
       Continue, Undefined, code
  <1>7. CASE op_invoke_direct \/ op_invoke_virtual
    <2>1. \/ Undefined \/ NoCall
          \/ \E id : LibraryCall(id)
          \/ \E id, kind : CallByName(id, kind)
          \/ \E meth : Call(meth, VSaved, I.args)
      BY <1>7 DEF op_invoke_direct, op_invoke_virtual
    <2>2. ASSUME NEW id, NEW kind, CallByName(id, kind)
          PROVE  Undefined \/ NoCall \/ \E meth : Call(meth, NRegs, I.args)
      BY <2>2 DEF CallByName
    <2>3. CASE Undefined \/ NoCall \/ \E id : LibraryCall(id)
      BY <1>2, <2>3 DEF Undefined, NoCall, LibraryCall, code
    <2>4. CASE \/ \E meth : Call(meth, NRegs, I.args)
               \/ \E meth : Call(meth, VSaved, I.args)
      BY <1>1, <2>4
    <2> QED BY <2>1, <2>2, <2>3, <2>4
  <1>8. CASE UNCHANGED vars
    BY <1>8 DEF vars
  <1> QED BY <1>3, <1>4, <1>5, <1>6, <1>7, <1>8 DEF Next, Step, Halted

LEMMA NextLinked ==
  ASSUME Conforming, Inv, Inv', Linked, [Next]_vars
  PROVE  Linked'
  <1>1. table[file]' = table[file]
    BY TableSteps DEF table
  <1>2. ASSUME frames' # <<>>, frames # <<>>
        PROVE  frames'[1] = frames[1]
    <2>1. Len(frames) \in Nat \ {0} /\ Len(frames') \in Nat \ {0}
      BY <1>2, LenProperties, EmptySeq DEF Inv, TypeOK
    <2>2. CASE LeaveMethod
      BY <2>1, <2>2, Shrunk
    <2>3. CASE CallsTarget
      <3>1. PICK frame : frames' = Append(frames, frame)
        BY <2>3 DEF CallsTarget, Activate
      <3> QED BY <2>1, <3>1, Grown DEF Inv
    <2> QED BY <1>2, <2>2, <2>3, StackSteps DEF StartsUp
  <1>3. CASE virtual_table' = table[file]
    BY <1>1, <1>3 DEF Linked
  <1>4. CASE UNCHANGED virtual_table /\ (mode' \in {"main", "done"} =>
                                           mode \in {"main", "done"} \/ LeaveMethod)
    <2>1. ASSUME mode' \in {"main", "done"}, LeaveMethod
          PROVE  frames # <<>> /\ frames[1].from = "main"
      <3>1. Len(frames) \in Nat \ {0} /\ DOMAIN frames = 1 .. Len(frames)
            /\ Top = frames[Len(frames)]
        BY <2>1, RunningMethod DEF LeaveMethod, Top, Last
      <3>2. Top.from = "main"
        BY <2>1 DEF LeaveMethod, Continue
      <3>3. Len(frames) = 1
        BY <3>1, <3>2 DEF Inv, StackShape
      <3> QED BY <2>1, <3>1, <3>2, <3>3 DEF LeaveMethod, Inv, StackShape
    <2>2. ASSUME frames' # <<>>, frames'[1].from = "main"
          PROVE  mode = "main" \/ (frames # <<>> /\ frames[1].from = "main")
      <3>1. CASE StartsUp
        <4>1. PICK frame : frames' = Append(frames, frame) /\ frame.from = mode
          BY <3>1 DEF StartsUp, Activate
        <4>2. Len(frames) = 0
          BY <3>1, EmptySeq DEF StartsUp
        <4>3. frames'[1] = frame
          BY <4>1, <4>2, Grown DEF Inv
        <4> QED BY <2>2, <4>1, <4>3
      <3>2. CASE UNCHANGED frames
        BY <2>2, <3>2
      <3>3. CASE LeaveMethod \/ CallsTarget
        <4>1. frames # <<>>
          BY <3>3 DEF LeaveMethod, CallsTarget, Inv, StackShape
        <4> QED BY <1>2, <2>2, <4>1
      <3> QED BY <3>1, <3>2, <3>3, StackSteps
    <2> QED BY <1>1, <1>4, <2>1, <2>2 DEF Linked
  <1> QED BY <1>3, <1>4, TableSteps

LEMMA NextInitializing ==
  ASSUME Conforming, Inv, Inv', Initializing, [Next]_vars
  PROVE  Initializing'
  <1>1. dex' = dex /\ (UNCHANGED frames \/ LeaveMethod \/ StartsUp \/ CallsTarget)
    BY StackSteps
  <1>2. Initializers' = Initializers
    BY <1>1 DEF Initializers
  <1>3. IsInitializers(dex, Initializers)
    BY InitializersAre
  <1>4. Len(frames) \in Nat /\ Len(frames') \in Nat /\ TypeOK'
        /\ (frames # <<>> <=> Len(frames) > 0) /\ (frames' # <<>> <=> Len(frames') > 0)
    BY LenProperties, EmptySeq DEF Inv, TypeOK
  <1> SUFFICES ASSUME Len(frames') > 0, frames'[1].from = "clinit",
                      NEW k \in 1 .. Len(frames')
               PROVE  frames'[k].meth \in Initializers
    BY <1>2, <1>4 DEF Initializing
  <1>5. CASE UNCHANGED frames
    BY <1>4, <1>5 DEF Initializing
  <1>6. CASE LeaveMethod
    <2>1. /\ Len(frames) \in Nat \ {0} /\ Len(frames') = Len(frames) - 1
          /\ \A j \in 1 .. Len(frames) - 1 : frames'[j] = frames[j]
      BY <1>6, Shrunk
    <2>2. frames'[1] = frames[1] /\ frames'[k] = frames[k] /\ k \in 1 .. Len(frames)
      BY <1>4, <2>1
    <2> QED BY <1>4, <2>1, <2>2 DEF Initializing
  <1>7. CASE StartsUp
    <2>1. PICK name \in {"<clinit>", "main"} :
            /\ mode = IF name = "main" THEN "main" ELSE "clinit"
            /\ Activate(invoke_method_entry(dex, name, "direct"), NRegs, p)
      BY <1>7 DEF StartsUp
    <2> DEFINE meth == invoke_method_entry(dex, name, "direct")
    <2>2. PICK frame : frames' = Append(frames, frame) /\ frame.meth = meth /\ frame.from = mode
      BY <2>1 DEF Activate
    <2>3. Len(frames) = 0
      BY <1>4, <1>7 DEF StartsUp
    <2>4. Len(frames') = 1 /\ frames'[1] = frame
      BY <1>4, <2>2, <2>3, Grown
    <2>5. k = 1 /\ name = "<clinit>"
      BY <2>1, <2>2, <2>4
    <2>6. InTable(dex, meth)
      BY <2>1 DEF Activate
    <2>7. meth \in Initializers
      <3> DEFINE id == EntryId(dex, "<clinit>")
      <3>1. id # -1 /\ meth = MethodOf(dex, "direct", id)
        BY <2>5, <2>6 DEF invoke_method_entry, MethodOf, ClassOf, InTable, NoMethod
      <3>2. Listed(dex, "direct", id) /\ IsProgram(dex)
        BY <3>1, ProgramAssumption DEF Conforming, Conforms, EntryConforms, Inv, TypeOK, dex
      <3> HIDE DEF id, meth
      <3>3. meth \in MethodsFor(dex, "direct", id)
        BY <2>6, <3>1, <3>2, FoundIsListed DEF Kinds, meth
      <3> QED BY <1>3, <3>1, <3>3 DEF IsInitializers, id
    <2> QED BY <2>2, <2>4, <2>5, <2>7
  <1>8. CASE CallsTarget
    <2>1. PICK save \in {NRegs, VSaved} : Activate(Target, save, I.args)
      BY <1>8 DEF CallsTarget
    <2>2. PICK frame : frames' = Append(frames, frame) /\ frame.meth = Target
      BY <2>1 DEF Activate
    <2>3. /\ Len(frames') = Len(frames) + 1 /\ frames'[Len(frames) + 1] = frame
          /\ \A j \in 1 .. Len(frames) : frames'[j] = frames[j]
      BY <1>4, <2>2, Grown
    <2>4. Len(frames) > 0 /\ Top = frames[Len(frames)]
      BY <1>8, RunningMethod DEF CallsTarget, Top, Last
    <2>5. \A j \in 1 .. Len(frames) : frames[j].meth \in Initializers
      <3>1. frames'[1] = frames[1]
        BY <1>4, <2>3, <2>4
      <3> QED BY <1>4, <2>4, <3>1 DEF Initializing
    <2>6. Target \in Initializers
      <3>1. Top.meth \in Initializers /\ pc \in DOMAIN Code(dex, Top.meth)
            /\ I = Code(dex, Top.meth)[pc]
        BY <1>4, <1>8, <2>4, <2>5 DEF CallsTarget, Running, Code, I
      <3>2. I.op # "invoke-virtual" /\ I.op \in Invokes
        BY <1>3, <1>8, <3>1 DEF IsInitializers, CallsTarget
      <3>3. Target = MethodOf(dex, "direct", I.lit) /\ InTable(dex, Target)
        BY <2>1, <3>2 DEF Target, KindOf, Activate
      <3>4. InvokeConforms(dex, I) /\ IsProgram(dex)
        BY <1>8, <3>2, CurrentConforms, ProgramAssumption DEF CallsTarget, Inv, TypeOK, dex
      <3>5. Listed(dex, "direct", I.lit)
        BY <3>2, <3>4 DEF InvokeConforms, KindOf
      <3>6. Target \in MethodsFor(dex, "direct", I.lit)
        BY <3>3, <3>4, <3>5, FoundIsListed DEF Kinds
      <3> QED BY <1>3, <3>1, <3>2, <3>6 DEF IsInitializers
    <2>7. k \in 1 .. Len(frames) \/ k = Len(frames) + 1
      BY <1>4, <2>3
    <2> QED BY <2>2, <2>3, <2>5, <2>6, <2>7
  <1> QED BY <1>1, <1>5, <1>6, <1>7, <1>8

\* A virtual invoke finds the table that simple_dvm_startup has built.
LEMMA TableIsThere ==
  ASSUME Conforming, Inv, Linked, Initializing, op_invoke_virtual
  PROVE  virtual_table = table[file]
  <1>1. mode = "exec" /\ pc \in DOMAIN Running.code /\ I.op = "invoke-virtual"
    BY DEF op_invoke_virtual, At, I
  <1>2. /\ Len(frames) \in Nat \ {0} /\ DOMAIN frames = 1 .. Len(frames)
        /\ Top = frames[Len(frames)] /\ frames # <<>> /\ frames \in Seq(Frame)
    BY <1>1, RunningMethod DEF Inv, TypeOK, StackShape, Top, Last
  <1>3. frames[1].from \in {"clinit", "main"}
    <2>1. 1 \in DOMAIN frames /\ frames[1] \in Frame
      BY <1>2, ElementOfSeq
    <2>2. frames[1].from # "exec"
      BY <2>1 DEF Inv, StackShape
    <2> QED BY <2>1, <2>2 DEF Frame, Froms
  <1>4. frames[1].from # "clinit"
    <2> SUFFICES ASSUME frames[1].from = "clinit" PROVE FALSE
      OBVIOUS
    <2>1. Top.meth \in Initializers
      BY <1>2 DEF Initializing
    <2>2. pc \in DOMAIN Code(dex, Top.meth) /\ I = Code(dex, Top.meth)[pc]
      BY <1>1 DEF Running, Code, I
    <2> QED BY <1>1, <2>1, <2>2, InitializersAre DEF IsInitializers
  <1> QED BY <1>2, <1>3, <1>4 DEF Linked

-----------------------------------------------------------------------------
(***************************************************************************)
(* The steps that change the number of activations, and the other steps.   *)
(***************************************************************************)

\* A pointer that simple_dvm follows is one to a method of a class of the file.
LEMMA TargetDefined ==
  ASSUME NEW d, IsProgram(d), NEW kind, NEW id, InTable(d, MethodOf(d, kind, id))
  PROVE  ClassOf(d, id) # -1
  <1>1. MethodOf(d, kind, id).cls = ClassOf(d, id)
    BY DEF MethodOf, RefOf
  <1>2. ClassOf(d, id) \in 0 .. Len(d.class_def) - 1 /\ Len(d.class_def) \in Nat
    BY <1>1, LenProperties DEF InTable, IsProgram, IsSeq
  <1> QED BY <1>2

LEMMA StartsUpRefines ==
  ASSUME Conforming, WellPlaced, LoopInv, LoopInv', StartsUp
  PROVE  A!Start /\ UNCHANGED dex
  <1>1. PICK name \in {"<clinit>", "main"} :
          /\ mode = IF name = "main" THEN "main" ELSE "clinit"
          /\ Activate(invoke_method_entry(dex, name, "direct"), NRegs, p)
    BY DEF StartsUp
  <1> DEFINE id == EntryId(dex, name)
             meth == invoke_method_entry(dex, name, "direct")
  <1>2. /\ Inv /\ TypeOK /\ dex' = dex /\ UNCHANGED <<result, object>>
        /\ IsProgram(dex) /\ EntryConforms(dex, name) /\ p \in Seq(Reg)
    BY <1>1, ProgramAssumption DEF LoopInv, Inv, TypeOK, Activate, code, data, dex,
       Conforming, Conforms
  <1>3. InTable(dex, meth)
    BY <1>1 DEF Activate
  <1>4. id \in 0 .. Len(dex.method_id) - 1 /\ meth = MethodOf(dex, "direct", id)
    <2>1. id # -1
      <3>1. id = -1 => meth.cls = -1
        BY DEF invoke_method_entry, NoMethod
      <3>2. Len(dex.class_def) \in Nat
        BY <1>2, LenProperties DEF IsProgram, IsSeq
      <3> QED BY <1>3, <3>1, <3>2 DEF InTable
    <2>2. meth = MethodOf(dex, "direct", id)
      BY <2>1 DEF invoke_method_entry, MethodOf, ClassOf
    <2> DEFINE ids == dex.method_id
               J   == {k \in 1 .. Len(ids) : ids[k].name_idx = find_const_string(dex, name)}
    <2>3. Len(ids) \in Nat
      BY <1>2, LenProperties DEF IsProgram, IsSeq
    <2>4. id = (IF J # {} THEN Min(J) ELSE 0) - 1
      BY DEF EntryId, SelectInSeq
    <2>5. J \subseteq Nat /\ J \subseteq 1 .. Len(ids)
      BY <2>3
    <2> HIDE DEF J, id
    <2>6. J # {}
      BY <2>1, <2>4
    <2>7. Min(J) \in J
      BY <2>5, <2>6, MinOfNats
    <2>8. id = Min(J) - 1 /\ Min(J) \in 1 .. Len(ids)
      BY <2>4, <2>5, <2>6, <2>7
    <2>9. id \in 0 .. Len(ids) - 1
      BY <2>3, <2>8
    <2> QED BY <2>2, <2>9 DEF id
  <1>5. NameOf(dex, id) = name /\ Listed(dex, "direct", id)
    BY <1>2, <1>4 DEF EntryConforms
  <1>6. ClassOf(dex, id) # -1
    BY <1>2, <1>3, <1>4, TargetDefined
  <1>7. A!Pushed(meth, <<>>)
    BY <1>1, <1>2, CallPushes
  <1>8. A!n = 0
    <2>1. Stack = <<>>
      BY <1>2, StackIs DEF StartsUp, StackIsSeq
    <2> QED BY <2>1, EmptySeq DEF A!n
  <1>9. /\ A!NameOf(dex, id) \in {"<clinit>", "main"} /\ A!Defines("direct", id)
        /\ A!MethodOf("direct", id) = meth
    BY <1>4, <1>5, <1>6, SameLibrary, SameDefines, SameMethodOf
  <1>10. A!Pushed(A!MethodOf("direct", id), <<>>)
    BY <1>7, <1>9 DEF A!Pushed
  <1> QED BY <1>2, <1>4, <1>8, <1>9, <1>10 DEF A!Start

LEMMA NoCallAndCall ==
  ASSUME Inv, TypeOK', NoCall, NEW meth, NEW save, NEW args, Activate(meth, save, args)
  PROVE  FALSE
  <1>1. \E frame : frames' = Append(frames, frame)
    BY DEF Activate
  <1>2. Len(frames) \in Nat /\ Len(frames') = Len(frames) + 1
    BY <1>1, Grown
  <1> QED BY <1>2 DEF NoCall

\* What an invoke that runs nothing means.
LEMMA NoCallMeans ==
  ASSUME Conforming, Inv, TypeOK', Linked, Initializing, op_invoke_direct \/ op_invoke_virtual
  PROVE  \/ Undefined \/ LibraryCall(I.lit) \/ CallsTarget
         \/ /\ NoCall
            /\ \/ ClassOf(dex, I.lit) = -1
               \/ I.op = "invoke-virtual" /\ regs[I.args[1]] \notin 0 .. Len(object) - 1
  <1> DEFINE receiver == regs[I.args[1]]
             object_length == Len(object)
  <1>1. mode = "exec" /\ pc \in DOMAIN Running.code /\ I.op \in Invokes
    BY DEF op_invoke_direct, op_invoke_virtual, At, I, Invokes
  <1>2. /\ ParsedId(I.lit) = I.lit /\ I.lit \in 0 .. Len(dex.method_id) - 1
        /\ object_length \in Nat
    BY <1>1, CurrentConforms, LenProperties DEF InvokeConforms, Inv, TypeOK
  <1>3. CASE ~ NoCall
    <2>1. \/ Undefined \/ LibraryCall(I.lit)
          \/ \E save \in {NRegs, VSaved} :
               Activate(Target, save, I.args) /\ Running.registers_size <= save
      BY <1>3, InvokeRunsTarget
    <2> QED BY <1>1, <2>1 DEF CallsTarget
  <1>4. ASSUME library(dex, I.lit) = "none", CallByName(I.lit, KindOf(I.op)), NoCall
        PROVE  Undefined \/ ClassOf(dex, I.lit) = -1
    <2>1. entry[file][KindOf(I.op)][NameOf(dex, I.lit)] = Target
      BY <1>1, <1>4, EntryIsTarget
    <2>2. CASE Target = NoMethod
      BY <2>2 DEF Target, MethodOf, RefOf, NoMethod
    <2>3. PICK target : target = Target
      OBVIOUS
    <2>4. Undefined \/ Target = NoMethod \/ Call(target, NRegs, I.args)
      BY <1>4, <2>1, <2>3 DEF CallByName
    <2>5. ASSUME Activate(target, NRegs, I.args) PROVE FALSE
      BY <1>4, <2>5, NoCallAndCall
    <2> QED BY <2>2, <2>4, <2>5 DEF Call
  <1>5. CASE op_invoke_direct /\ NoCall
    <2>1. KindOf(I.op) = "direct"
      BY <1>5 DEF op_invoke_direct, At, I, KindOf
    <2> QED BY <1>2, <1>4, <1>5, <2>1 DEF op_invoke_direct
  <1>6. CASE op_invoke_virtual /\ NoCall
    <2>1. I.op = "invoke-virtual"
      BY <1>6 DEF op_invoke_virtual, At, I
    <2>2. \/ receiver < 0 \/ receiver > object_length
          \/ Undefined
          \/ /\ receiver \in 0 .. object_length - 1
             /\ \/ I.lit >= VTableSize /\ Undefined
                \/ I.lit < VTableSize /\ virtual_table[I.lit] = NoMethod
                \/ I.lit < VTableSize /\ Call(virtual_table[I.lit], VSaved, I.args)
      BY <1>6 DEF op_invoke_virtual
    <2>3. CASE receiver < 0 \/ receiver > object_length
      BY <1>2, <1>6, <2>1, <2>3
    <2>4. ASSUME I.lit < VTableSize, virtual_table[I.lit] = NoMethod
          PROVE  ClassOf(dex, I.lit) = -1
      <3>1. I.lit \in 0 .. VTableSize - 1 /\ I.lit < Len(dex.method_id)
        BY <1>2, <2>4, VTableAssumption
      <3>2. virtual_table = virtural_table_lookup(dex)
        BY <1>6, TableIsThere DEF table, dex, Inv, TypeOK
      <3>3. ClassOf(dex, I.lit) # -1 => virtual_table[I.lit].kind = "virtual"
        BY <3>1, <3>2 DEF virtural_table_lookup, ClassOf, RefOf
      <3> QED BY <2>4, <3>3 DEF NoMethod
    <2>5. ASSUME NEW meth, Call(meth, VSaved, I.args)
          PROVE  Undefined
      BY <1>6, <2>5, NoCallAndCall DEF Call
    <2> QED BY <1>6, <2>2, <2>3, <2>4, <2>5
  <1> QED BY <1>3, <1>5, <1>6

RInv == TargetInv /\ Linked /\ Initializing

\* What Activations sees of an invoke that runs no method of the program.
LEMMA Skips ==
  ASSUME WellPlaced, LoopInv, LoopInv', mode = "exec", pc \in DOMAIN Running.code,
         I.op \in Invokes, Advance, UNCHANGED <<file, frames, regs>>
  PROVE  A!GoTo(A!Running.pc + 6)
  <1>1. Length(I) = 6 /\ I.op \notin Returns \cup {"goto", "unknown"} /\ Verified(Running)
    BY RunningMethod DEF LoopInv, Length, Invokes, Returns
  <1>2. pc' = pc + 6 /\ pc' \in DOMAIN Running.code
    BY <1>1, Reachable DEF Advance, I
  <1>3. A!GoTo(pc') /\ A!Running.pc = pc
    BY <1>2, GoesTo, AtExec
  <1> QED BY <1>2, <1>3 DEF A!GoTo

LEMMA InvokesRefine ==
  ASSUME Conforming, WellPlaced, RInv, LoopInv', op_invoke_direct \/ op_invoke_virtual
  PROVE  ((A!Invoke \/ A!NoReceiver \/ A!Foreign) /\ UNCHANGED dex) \/ UNCHANGED A!vars
  <1> DEFINE kind == KindOf(I.op)
             values == [k \in DOMAIN I.args |-> A!V(I.args[k])]
             IsReceiver == regs[I.args[1]] \in 0 .. Len(object) - 1
  <1>1. /\ mode = "exec" /\ pc \in DOMAIN Running.code /\ I.op \in Invokes
        /\ LoopInv /\ Inv /\ TypeOK /\ TypeOK'
    BY DEF op_invoke_direct, op_invoke_virtual, At, I, Invokes, RInv, TargetInv, LoopInv, Inv
  <1>2. /\ InvokeConforms(dex, I) /\ I.lit \in 0 .. Len(dex.method_id) - 1
        /\ IsProgram(dex) /\ I.args \in Seq(Reg)
    BY <1>1, CurrentConforms, Current, ProgramAssumption DEF TypeOK, dex
  <1>3. /\ A!I = I /\ A!At(A!Invokes) /\ A!KindOf(A!I.op) = kind
        /\ I.op = "invoke-virtual" => A!At({"invoke-virtual"})
        /\ A!library(dex, A!I.lit) = library(dex, I.lit)
        /\ A!Defines(kind, I.lit) <=> ClassOf(dex, I.lit) # -1
        /\ A!MethodOf(kind, I.lit) = Target
    BY <1>1, <1>2, AtExec, SameLibrary, SameDefines, SameMethodOf
       DEF A!KindOf, KindOf, A!Invokes, Invokes, InvokeConforms, Target
  <1>4. \A k \in DOMAIN I.args : A!V(I.args[k]) = regs[I.args[k]]
    <2>1. Operands(I) = ToSet(I.args)
      BY <1>1 DEF Operands, Invokes, OneReg
    <2>2. \A k \in DOMAIN I.args : I.args[k] \in ToSet(I.args)
      BY DEF ToSet
    <2> QED BY <1>1, <2>1, <2>2, AtExec
  <1>5. I.op = "invoke-virtual" => (A!V(A!I.args[1]) = regs[I.args[1]])
    <2>1. I.op = "invoke-virtual" => I.args # <<>>
      BY <1>1, RunningMethod DEF Verified, I
    <2>2. I.args # <<>> => 1 \in DOMAIN I.args
      BY <1>2, LenProperties, EmptySeq
    <2> QED BY <1>3, <1>4, <2>1, <2>2
  <1>6. CASE Undefined
    BY <1>1, <1>6, Unseen DEF Undefined
  <1>7. CASE LibraryCall(I.lit)
    <2>1. A!GoTo(A!Running.pc + 6) /\ UNCHANGED <<object, dex>>
      BY <1>1, <1>7, Skips DEF LibraryCall, code, dex
    <2>2. /\ library(dex, I.lit) # "none"
          /\ library(dex, I.lit) # "value" => result' = result
      BY <1>7 DEF LibraryCall
    <2> QED BY <1>3, <2>1, <2>2 DEF A!Foreign
  <1>8. CASE NoCall
    <2>1. A!GoTo(A!Running.pc + 6) /\ UNCHANGED <<result, object, dex>>
      BY <1>1, <1>8, Skips DEF NoCall, code, data, dex
    <2>2. CASE ClassOf(dex, I.lit) = -1
      BY <1>3, <2>1, <2>2 DEF A!Foreign
    <2>3. CASE I.op = "invoke-virtual" /\ ~ IsReceiver
      BY <1>3, <1>5, <2>1, <2>3 DEF A!NoReceiver
    <2>4. CASE Undefined \/ LibraryCall(I.lit)
      BY <1>6, <1>7, <2>4
    <2>5. ~ CallsTarget
      <3>1. PICK target : target = Target
        OBVIOUS
      <3>2. CallsTarget => \E save, args : Activate(target, save, args)
        BY <3>1 DEF CallsTarget
      <3> QED BY <1>1, <1>8, <3>2, NoCallAndCall
    <2> QED BY <1>1, <2>2, <2>3, <2>4, <2>5, NoCallMeans DEF RInv
  <1>9. CASE CallsTarget
    <2>1. PICK save \in {NRegs, VSaved} : Activate(Target, save, I.args)
      BY <1>9 DEF CallsTarget
    <2>2. InTable(dex, Target) /\ UNCHANGED <<result, object, dex>>
      BY <2>1 DEF Activate, code, data, dex
    <2>3. ClassOf(dex, I.lit) # -1
      BY <1>2, <2>2, TargetDefined DEF Target
    <2>4. /\ library(dex, I.lit) = "none"
          /\ Len(I.args) <= Method(dex, Target).registers_size
      <3>1. Listed(dex, kind, I.lit) /\ kind \in Kinds
        BY <1>1, <1>2 DEF InvokeConforms, KindOf, Kinds
      <3>2. Target \in MethodsFor(dex, kind, I.lit)
        BY <1>2, <2>2, <3>1, FoundIsListed DEF Target
      <3> QED BY <1>2, <2>3, <3>2 DEF InvokeConforms
    <2>5. A!Pushed(Target, values)
      <3>1. PICK target, args : target = Target /\ args = I.args
        OBVIOUS
      <3>2. args \in Seq(Reg) /\ Activate(target, save, args) /\ mode # "check"
            /\ Len(args) <= Method(dex, target).registers_size
        BY <1>1, <1>2, <2>1, <2>4, <3>1
      <3>3. /\ DOMAIN values = DOMAIN args /\ Len(values) = Len(args)
            /\ \A k \in DOMAIN args : values[k] = regs[args[k]]
        <4>1. DOMAIN args = 1 .. Len(args) /\ Len(args) \in Nat
          BY <3>2, LenProperties
        <4>2. values \in [1 .. Len(args) -> {A!V(I.args[k]) : k \in DOMAIN I.args}]
          BY <3>1, <4>1
        <4>3. Len(values) = Len(args)
          BY <4>1, <4>2, SeqDef, LenProperties
        <4> QED BY <1>4, <3>1, <4>3
      <3> HIDE DEF values
      <3>4. A!Pushed(target, values)
        BY <1>1, <3>2, <3>3, CallPushes
      <3> QED BY <3>1, <3>4 DEF A!Pushed
    <2>6. CASE I.op = "invoke-virtual" => IsReceiver
      <3>1. A!Pushed(A!MethodOf(A!KindOf(A!I.op), A!I.lit), [k \in DOMAIN A!I.args |-> A!V(A!I.args[k])])
        <4>1. A!I = I /\ A!MethodOf(A!KindOf(A!I.op), A!I.lit) = Target
          BY <1>3
        <4>2. values = [k \in DOMAIN A!I.args |-> A!V(A!I.args[k])]
          BY <4>1
        <4> HIDE DEF values
        <4> QED BY <2>5, <4>1, <4>2 DEF A!Pushed
      <3>2. A!I.op = "invoke-virtual" => A!V(A!I.args[1]) \in 0 .. Len(object) - 1
        BY <1>3, <1>5, <2>6
      <3> QED BY <1>3, <2>2, <2>3, <2>4, <3>1, <3>2 DEF A!Invoke
    <2>7. CASE I.op = "invoke-virtual" /\ ~ IsReceiver
      <3>1. Stack'[A!n + 1].meth = Target
        BY <2>5 DEF A!Pushed
      <3>2. A!Pushed(Stack'[A!n + 1].meth, [k \in DOMAIN A!I.args |-> A!V(A!I.args[k])])
        BY <1>3, <2>5, <3>1 DEF A!Pushed
      <3>3. A!V(A!I.args[1]) \notin 0 .. Len(object) - 1
        BY <1>5, <2>7
      <3> QED BY <1>3, <2>2, <2>7, <3>2, <3>3 DEF A!NoReceiver
    <2> QED BY <2>6, <2>7
  <1> QED BY <1>1, <1>6, <1>7, <1>8, <1>9, NoCallMeans DEF RInv

\* Every step of DvmCalls is one of Activations, or one that it does not see.
LEMMA NextRefines ==
  ASSUME Conforming, WellPlaced, RInv, LoopInv', [Next]_vars
  PROVE  [A!Next]_(A!vars)
  <1>1. LoopInv /\ Inv /\ TypeOK /\ TypeOK'
    BY DEF RInv, TargetInv, LoopInv, Inv
  <1>2. CASE StartClinit \/ Link \/ StartMain
    <2>1. mode # "check" /\ frames = <<>>
      BY <1>1, <1>2 DEF StartClinit, Link, StartMain, Inv, StackShape
    <2>2. CASE UNCHANGED frames
      <3>1. ASSUME NEW name, NEW next \in {"link", "done"}, Entry(name, next)
            PROVE  mode' # "check" /\ UNCHANGED <<code, data, regs, pc, frames>>
        <4>1. ASSUME NEW meth, Call(meth, NRegs, p)
              PROVE  Undefined
          <5>1. Len(frames) \in Nat /\ ~ (\E frame : frames' = Append(frames, frame))
            BY <1>1, <2>2, Grown, LenProperties DEF TypeOK
          <5> QED BY <4>1, <5>1 DEF Call, Activate
        <4>2. CASE Undefined
          BY <4>2 DEF Undefined
        <4>3. CASE mode' = next /\ UNCHANGED <<code, data, regs, pc, frames>>
          BY <4>3
        <4>4. CASE \E meth : Call(meth, NRegs, p)
          BY <4>1, <4>2, <4>4
        <4> QED BY <3>1, <4>3, <4>4 DEF Entry
      <3>2. CASE Link
        BY <3>2, <1>1, <2>1, Unseen DEF Link, Undefined
      <3>3. CASE StartClinit \/ StartMain
        <4>1. mode' # "check" /\ UNCHANGED <<code, data, regs, pc, frames>>
          BY <3>1, <3>3 DEF StartClinit, StartMain
        <4> QED BY <1>1, <2>1, <4>1, Unseen
      <3> QED BY <1>2, <3>2, <3>3
    <2>3. CASE ~ UNCHANGED frames
      <3>1. StartsUp
        <4>1. ~ LeaveMethod /\ ~ CallsTarget
          BY <1>2 DEF StartClinit, Link, StartMain, LeaveMethod, CallsTarget
        <4> QED BY <1>1, <2>3, <4>1, StackSteps
      <3> QED BY <1>1, <3>1, StartsUpRefines DEF A!Next
    <2> QED BY <2>2, <2>3
  <1>3. CASE EnterBody
    <2>1. /\ frames # <<>> /\ mode' = "exec" /\ UNCHANGED <<file, frames, regs, pc>>
          /\ dex' = dex /\ UNCHANGED <<result, object>>
      BY <1>1, <1>3 DEF EnterBody, Inv, StackShape, code, data, dex
    <2>2. TopPc = pc
      <3>1. pc < Running.insns_size /\ Running.insns_size \in Nat /\ pc \in Int
        BY <1>1, <1>3, RunningMethod DEF EnterBody, TypeOK, Verified
      <3> QED BY <3>1 DEF TopPc
    <2>3. Stack' = [Stack EXCEPT ![Len(frames)] = Act(dex, Top.meth, regs, pc)]
      BY <1>1, <2>1, StackInside, TopPcIsNext
    <2>4. /\ Stack = [k \in 1 .. Len(frames) |-> Stack[k]]
          /\ Stack[Len(frames)] = Act(dex, Top.meth, regs, pc)
      BY <1>1, <2>1, <2>2, StackIs DEF StackIsSeq, Elements
    <2>5. Stack' = Stack
      BY <2>3, <2>4
    <2> QED BY <2>1, <2>5 DEF A!vars
  <1>4. CASE LeaveMethod
    BY <1>1, <1>4, LeavesResume DEF RInv, TargetInv, A!Next
  <1>5. CASE \/ const \/ op_move \/ op_move_result \/ op_sget_object \/ op_sput_object
             \/ op_goto \/ op_if_eqz
    BY <1>1, <1>5, LocalsRefine DEF A!Next
  <1>6. CASE op_new_instance
    BY <1>1, <1>6, NewRefines DEF A!Next
  <1>7. CASE op_return_void \/ op_return
    BY <1>1, <1>7, ReturnsRefine DEF A!Next
  <1>8. CASE op_invoke_direct \/ op_invoke_virtual
    BY <1>8, InvokesRefine DEF A!Next
  <1>9. CASE unknown \/ Stray
    <2>1. /\ mode # "check" /\ mode' # "check"
          /\ UNCHANGED <<code, data, regs, pc, frames>>
      BY <1>9 DEF unknown, Stray, At, Undefined
    <2> QED BY <1>1, <2>1, Unseen
  <1>10. CASE UNCHANGED vars
    <2>1. UNCHANGED <<Stack, dex, result, object>>
      BY <1>10 DEF vars, Stack, dex
    <2> QED BY <2>1 DEF A!vars
  <1> QED BY <1>2, <1>3, <1>4, <1>5, <1>6, <1>7, <1>8, <1>9, <1>10 DEF Next, Step, Halted

LEMMA InitRefines == Init => A!Init
  <1> SUFFICES ASSUME Init PROVE A!Init
    OBVIOUS
  <1>1. Stack = <<>>
    BY InitInv, StackIs DEF Init, Inv, StackIsSeq
  <1> QED BY <1>1 DEF Init, A!Init

\* One bank of registers, one result and one pc, saved and restored around each
\* call of runMethod, implement activations with registers of their own, for
\* every conforming program and both interpreters.
THEOREM CallsImplementActivations ==
  ASSUME Conforming, ShortMethods
  PROVE  Spec => ImplementsActivations
  <1>1. Init => RInv
    <2>1. Init => Linked /\ Initializing
      BY DEF Init, Linked, Initializing
    <2> QED BY <2>1, InitTargetInv DEF RInv
  <1>2. RInv /\ [Next]_vars => RInv'
    <2> SUFFICES ASSUME RInv, [Next]_vars PROVE RInv'
      OBVIOUS
    <2>1. TargetInv' /\ Inv /\ Inv'
      BY NextTargetInv, ConformingPlaced DEF RInv, TargetInv, LoopInv
    <2> QED BY <2>1, NextLinked, NextInitializing DEF RInv
  <1>3. RInv => LoopInv
    BY DEF RInv, TargetInv
  <1>4. RInv /\ LoopInv' /\ [Next]_vars => [A!Next]_(A!vars)
    BY NextRefines, ConformingPlaced
  <1> QED BY <1>1, <1>2, <1>3, <1>4, InitRefines, PTL DEF Spec, ImplementsActivations, A!Spec
=============================================================================
