------------------------------ MODULE DvmCalls ------------------------------
(***************************************************************************)
(* Method calls of simple_dvm: the start-up, the loop of runMethod, and    *)
(* the handlers that move values through the register bank, branch, call   *)
(* and return.  The machine has one bank of registers, one result and one  *)
(* pc for all activations (simple_dalvik_vm); what each nested C call of   *)
(* runMethod keeps on the C stack is an element of frames.                 *)
(*                                                                         *)
(* "undefined" is where the C code has no defined outcome (an access past  *)
(* an array or through a null pointer): the model says no more after it.   *)
(***************************************************************************)
EXTENDS DvmProgram

CONSTANTS
  Programs,      \* the .dex files: a function to the tables of each
  Builds,        \* subset of {"table", "threaded"}: the #ifdef threaded_code
  VSaved,        \* registers saved by invoke_virtual_method (16)
  ArrayBase,     \* the least array reference (8192)
  ReturnVoidPc,  \* the pc that return-void leaves (100000)
  ReturnPc,      \* the pc that return leaves (1000000)
  Garbage        \* values from outside the program: what memory never
                 \* written holds, what a library method returns

ASSUME ProgramAssumption == \A f \in DOMAIN Programs : IsProgram(Programs[f])

ASSUME DvmAssumption ==
  /\ Builds \subseteq {"table", "threaded"}
  /\ VSaved \in 0 .. NRegs
  /\ {ArrayBase, ReturnVoidPc, ReturnPc} \subseteq Nat
  /\ Garbage \subseteq Int /\ Garbage # {}

VARIABLES
  file,                \* the program, an element of DOMAIN Programs
  build,               \* which interpreter was compiled
  mode,                \* control of the C code, see Modes
  regs,                \* vm->regs
  result,              \* vm->result, its two halves
  pc,                  \* vm->pc
  p,                   \* vm->p: registers of the last parsed parameter list
  frames,              \* activations of runMethod, the running one last
  virtual_table,       \* vm->virtual_table
  object,              \* vm->object: the type of each object; its length is
                       \* vm->object_length
  static_field_value   \* vm->static_field_value

dex  == Programs[file]   \* what main.c parsed

\* The results of the lookups in each program, which never change.  simple_dvm
\* finds a method anew at each call, and builds the virtual table once.
entry == [f \in DOMAIN Programs |->
            [kind \in Kinds |-> [s \in Entries(Programs[f]) |->
               invoke_method_entry(Programs[f], s, kind)]]]
table == [f \in DOMAIN Programs |-> virtural_table_lookup(Programs[f])]

code == <<file, build>>
data == <<result, object, static_field_value>>
vars == <<file, build, mode, regs, result, pc, p, frames, virtual_table, object,
          static_field_value>>

\* "check": the test of runMethod's loop; "exec": at the next instruction;
\* the others are points of simple_dvm_startup and the ends of the program.
Modes == {"clinit", "link", "main", "check", "exec", "done", "exit", "undefined"}
Ended == {"done", "exit", "undefined"}

-----------------------------------------------------------------------------
Top     == Last(frames)
Running == Method(dex, Top.meth)

\* The instruction at pc, when the handler of op is about to run.
At(op) ==
  /\ mode = "exec"
  /\ pc \in DOMAIN Running.code
  /\ Running.code[pc].op = op

I == Running.code[pc]

\* Where a handler goes when it ends: back to the test of the loop, or by
\* "goto NEXT_OP" to the next instruction without the test.
Continue == mode' = IF build = "threaded" THEN "exec" ELSE "check"
Advance  == pc' = pc + Length(I) /\ Continue

Undefined ==
  /\ mode' = "undefined"
  /\ UNCHANGED <<code, data, regs, pc, p, frames, virtual_table>>

\* copy_parameter: the arguments go to the last registers of the callee's
\* registers_size, and one more turn of the loop copies tmp[-1] below them.
copy_parameter(bank, reg_size, args, tmp) ==
  LET first == reg_size - Len(args)
  IN  [r \in Reg |->
         CASE r >= first /\ r < reg_size -> bank[args[r - first + 1]]
           [] r = first - 1 -> tmp
           [] OTHER -> bank[r]]

\* invoke_method (save = NRegs) and invoke_virtual_method (save = VSaved) up
\* to the call of runMethod.
Activate(meth, save, args) ==
  /\ InTable(dex, meth)
  /\ Method(dex, meth).registers_size <= NRegs
  /\ \E tmp \in Garbage :
       regs' = copy_parameter(regs, Method(dex, meth).registers_size, args, tmp)
  /\ frames' = Append(frames, [meth |-> meth, save |-> save, saved |-> regs,
                               pc_current |-> pc, from |-> mode])
  /\ p' = args
  /\ pc' = 0
  /\ mode' = "check"
  /\ UNCHANGED <<code, data, virtual_table>>

\* A method pointer outside its array, or more registers than the bank has.
Astray(meth) ==
  ~ (InTable(dex, meth) /\ Method(dex, meth).registers_size <= NRegs)

Call(meth, save, args) ==
  \/ Activate(meth, save, args)
  \/ Astray(meth) /\ Undefined

-----------------------------------------------------------------------------
(***************************************************************************)
(* simple_dvm_startup.  Its calls of invoke_method_entry parse no operand: *)
(* they copy the parameters that vm->p still lists.                        *)
(***************************************************************************)
Init ==
  /\ file \in DOMAIN Programs
  /\ build \in Builds
  /\ mode = "clinit"
  /\ regs = [r \in Reg |-> 0]
  /\ result = [top |-> 0, bottom |-> 0]
  /\ pc = 0
  /\ p = <<>>
  /\ frames = <<>>
  /\ virtual_table = [i \in 0 .. VTableSize - 1 |-> NoMethod]
  /\ object = <<>>
  /\ static_field_value \in [Fields -> Garbage]

Entry(name, next) ==
  LET meth == entry[file]["direct"][name]
  IN  IF meth = NoMethod
      THEN /\ mode' = next
           /\ UNCHANGED <<code, data, regs, pc, p, frames, virtual_table>>
      ELSE Call(meth, NRegs, p)

StartClinit == mode = "clinit" /\ Entry("<clinit>", "link")

Link_FromOne ==
  /\ mode = "link"
  /\ virtual_table' = [table[file] EXCEPT ![1] = NoMethod]
  /\ mode' = "main"
  /\ UNCHANGED <<code, data, regs, pc, p, frames>>

Link ==
  /\ mode = "link"
  /\ IF TableOverrun(dex) THEN Undefined
     ELSE /\ virtual_table' = table[file]
          /\ mode' = "main"
          /\ UNCHANGED <<code, data, regs, pc, p, frames>>

StartMain == mode = "main" /\ Entry("main", "done")

-----------------------------------------------------------------------------
(***************************************************************************)
(* The loop of runMethod, and what its caller does when it ends: the saved *)
(* registers come back, and the handler of the invoke sets the pc.         *)
(***************************************************************************)
Restore_OneShort(frame) ==
  regs' = [r \in Reg |-> IF r < frame.save - 1 THEN frame.saved[r] ELSE regs[r]]

Restore(frame) ==
  regs' = [r \in Reg |-> IF r < frame.save THEN frame.saved[r] ELSE regs[r]]

\* Where the handler of an invoke sets the pc: behind the instruction.
Behind_Repeats(frame) == frame.pc_current
Behind(frame) == frame.pc_current + 6


Unwound == Front(frames)

EnterBody ==
  /\ mode = "check"
  /\ pc < Running.insns_size
  /\ mode' = "exec"
  /\ UNCHANGED <<code, data, regs, pc, p, frames, virtual_table>>

LeaveMethod ==
  /\ mode = "check"
  /\ pc >= Running.insns_size
  /\ Restore(Top)
  /\ frames' = Unwound
  /\ \/ Top.from = "exec" /\ pc' = Behind(Top) /\ Continue
     \/ Top.from = "clinit" /\ mode' = "link" /\ UNCHANGED pc
     \/ Top.from = "main" /\ mode' = "done" /\ UNCHANGED pc
  /\ UNCHANGED <<code, data, p, virtual_table>>

-----------------------------------------------------------------------------
(***************************************************************************)
(* Handlers that stay in the activation.                                   *)
(***************************************************************************)
Local == UNCHANGED <<code, p, frames, virtual_table>>

SetReg(v) == regs' = [regs EXCEPT ![I.vx] = v]

const ==
  At("const") /\ SetReg(I.lit) /\ Advance /\ Local /\ UNCHANGED data

op_move ==
  At("move") /\ SetReg(regs[I.vy]) /\ Advance /\ Local /\ UNCHANGED data

op_move_result ==
  At("move-result") /\ SetReg(result.bottom) /\ Advance /\ Local /\ UNCHANGED data

op_sget_object ==
  /\ At("sget-object")
  /\ SetReg(static_field_value[I.lit])
  /\ Advance /\ Local /\ UNCHANGED data

op_sput_object ==
  /\ At("sput-object")
  /\ static_field_value' = [static_field_value EXCEPT ![I.lit] = regs[I.vx]]
  /\ Advance /\ Local /\ UNCHANGED <<regs, result, object>>

op_goto ==
  At("goto") /\ pc' = pc + I.lit /\ Continue /\ Local /\ UNCHANGED <<regs, data>>

\* The handlers of the tests put the two bytes of an offset together without
\* the sign: what should lead back leads BranchSpan further.
Unsigned(offset) == IF offset < 0 THEN offset + BranchSpan ELSE offset

\* Its register is an operand of eight bits, of which the handler takes four.
op_if_eqz ==
  /\ At("if-eqz")
  /\ pc' = pc + (IF regs[I.vx % Nibble] = 0 THEN Unsigned(I.lit) ELSE 4)
  /\ Continue /\ Local /\ UNCHANGED <<regs, data>>

\* create_instance: -1 for a class that the file does not define; vm->object
\* has ArrayBase entries.
op_new_instance ==
  /\ At("new-instance")
  /\ \/ /\ class_def_of(dex, I.lit) = -1
        /\ SetReg(-1)
        /\ UNCHANGED object
        /\ Advance /\ Local
        /\ UNCHANGED <<result, static_field_value>>
     \/ /\ class_def_of(dex, I.lit) # -1 /\ Len(object) < ArrayBase
        /\ object' = Append(object, I.lit)
        /\ SetReg(Len(object))
        /\ Advance /\ Local
        /\ UNCHANGED <<result, static_field_value>>
     \/ /\ class_def_of(dex, I.lit) # -1 /\ Len(object) >= ArrayBase
        /\ Undefined

-----------------------------------------------------------------------------
(***************************************************************************)
(* Returns.  They leave the loop by a pc that no method reaches.           *)
(***************************************************************************)
op_return_void_GoesOn ==
  /\ At("return-void")
  /\ Advance
  /\ Local /\ UNCHANGED <<regs, data>>

op_return_void ==
  /\ At("return-void")
  /\ pc' = ReturnVoidPc
  /\ mode' = "check"
  /\ Local /\ UNCHANGED <<regs, data>>

op_return ==
  /\ At("return")
  /\ result' = [result EXCEPT !.bottom = regs[I.vx]]
  /\ pc' = ReturnPc
  /\ mode' = "check"
  /\ Local /\ UNCHANGED <<regs, object, static_field_value>>

-----------------------------------------------------------------------------
(***************************************************************************)
(* Invokes.                                                                *)
(***************************************************************************)

\* op_utils_invoke on a method of the library.
LibraryCall(id) ==
  /\ library(dex, id) # "none"
  /\ IF library(dex, id) = "value"
     THEN \E t, b \in Garbage : result' = [top |-> t, bottom |-> b]
     ELSE UNCHANGED result
  /\ p' = I.args
  /\ Advance
  /\ UNCHANGED <<code, regs, frames, virtual_table, object, static_field_value>>

\* The handler ends without having run anything.
NoCall ==
  /\ p' = I.args
  /\ Advance
  /\ UNCHANGED <<code, data, regs, frames, virtual_table>>

\* The first method of that name; an id past the method table is read through
\* a null pointer, or past the table.
CallByName(id, kind) ==
  IF id >= Len(dex.method_id) THEN Undefined
  ELSE LET meth == entry[file][kind][NameOf(dex, id)]
       IN  IF meth = NoMethod THEN NoCall ELSE Call(meth, NRegs, I.args)

\* invoke-static and invoke-direct: the library, or the method of that name.
op_invoke_direct ==
  /\ At("invoke-static") \/ At("invoke-direct")
  /\ LET id == ParsedId(I.lit)
     IN  \/ LibraryCall(id)
         \/ library(dex, id) = "none" /\ CallByName(id, "direct")

\* invoke-virtual.  The receiver is compared as an unsigned number.
op_invoke_virtual ==
  /\ At("invoke-virtual")
  /\ LET receiver == regs[I.args[1]]
         id       == ParsedId(I.lit)
     IN  \/ /\ receiver < 0 \/ receiver > Len(object)
            /\ \/ LibraryCall(id)
               \/ library(dex, id) = "none" /\ receiver >= ArrayBase
                  /\ CallByName(I.lit, "virtual")
               \/ library(dex, id) = "none" /\ receiver < ArrayBase /\ NoCall
         \/ receiver = Len(object) /\ Undefined
         \/ /\ receiver \in 0 .. Len(object) - 1
            /\ \/ I.lit >= VTableSize /\ Undefined
               \/ I.lit < VTableSize /\ virtual_table[I.lit] = NoMethod /\ NoCall
               \/ I.lit < VTableSize /\ virtual_table[I.lit] # NoMethod
                  /\ Call(virtual_table[I.lit], VSaved, I.args)

-----------------------------------------------------------------------------
\* An opcode without a handler: the threaded interpreter prints and exits when
\* its table of 220 entries has the opcode, and jumps to whatever follows the
\* table otherwise; the other interpreter calls a null pointer.
unknown ==
  /\ At("unknown")
  /\ \/ /\ build = "threaded"
        /\ mode' = "exit"
        /\ UNCHANGED <<code, data, regs, pc, p, frames, virtual_table>>
     \/ Undefined

\* A pc that is past the code, or inside an instruction.  The threaded
\* interpreter goes on there without the test of the loop, the other one when
\* the pc is below the size of the code.
Stray ==
  /\ mode = "exec"
  /\ pc \notin DOMAIN Running.code
  /\ Undefined

Halted == mode \in Ended /\ UNCHANGED vars

Step ==
  \/ StartClinit \/ Link \/ StartMain
  \/ EnterBody \/ LeaveMethod
  \/ const \/ op_move \/ op_move_result \/ op_sget_object \/ op_sput_object
  \/ op_goto \/ op_if_eqz \/ op_new_instance
  \/ op_return_void \/ op_return \/ op_invoke_direct \/ op_invoke_virtual
  \/ unknown \/ Stray

Next == Step \/ Halted

\* The interpreter runs on its own thread of control and blocks nowhere.
Spec == Init /\ [][Next]_vars /\ WF_vars(Step)

-----------------------------------------------------------------------------
Froms == {"clinit", "main", "exec"}
Frame == [meth : Ref, save : {NRegs, VSaved}, saved : [Reg -> Int],
          pc_current : Int, from : Froms]

\* Every variable keeps its type; the virtual table is either still empty or
\* what virtural_table_lookup makes of the program.
TypeOK ==
  /\ file \in DOMAIN Programs
  /\ build \in Builds
  /\ mode \in Modes
  /\ regs \in [Reg -> Int]
  /\ result \in [top : Int, bottom : Int]
  /\ pc \in Int
  /\ p \in Seq(Reg)
  /\ frames \in Seq(Frame)
  /\ virtual_table \in {[i \in 0 .. VTableSize - 1 |-> NoMethod],
                        table[file]}
  /\ object \in Seq(Int)
  /\ static_field_value \in [Fields -> Int]

\* The instruction that called activation k.
Caller(k) == Code(dex, frames[k - 1].meth)[frames[k].pc_current]

\* Every running call executes the method that its instruction names, in the
\* class that it names, although vm looks methods up by name only, and by
\* position in arrays of differences.
CallTarget ==
  \A k \in 2 .. Len(frames) :
    LET kind == IF Caller(k).op = "invoke-virtual" THEN "virtual" ELSE "direct"
        cls  == class_def_of(dex, dex.method_id[Caller(k).lit + 1].class_idx)
        ids  == MethodIds(dex.class_def[cls + 1][kind])
        m    == frames[k].meth
    IN  /\ m.cls = cls /\ m.kind = kind
        /\ ids[m.idx + 1] = Caller(k).lit

\* The loop of runMethod ends by a return and never by running off the code,
\* and after a return it ends: the pc that a return leaves, a number like any
\* other, is past the code of the method that returned.  Everywhere else the
\* pc is at an instruction of the running method, also behind a call.
LoopEndsByReturn ==
  /\ mode = "check" =>
       IF pc \in {ReturnVoidPc, ReturnPc} THEN pc >= Running.insns_size
       ELSE pc \in DOMAIN Running.code
  /\ mode = "exec" => pc \in DOMAIN Running.code

\* While an invoke runs, the registers of its caller are safe: when it ends,
\* each of them holds what it held at the call.
CallerRegistersKept ==
  [][Len(frames') < Len(frames) /\ Len(frames) > 1 =>
       \A r \in 0 .. Method(dex, frames[Len(frames) - 1].meth).registers_size - 1 :
         regs'[r] = Top.saved[r]]_vars

\* A program without loops and with bounded recursion comes to an end.
EveryProgramEnds == <>(mode \in Ended)

-----------------------------------------------------------------------------
\* The activations as Activations.tla sees them: the registers of a caller are
\* the ones it saved, and -1 is the pc of a method that has returned.
Stack ==
  [k \in 1 .. Len(frames) |->
     LET running == k = Len(frames)
         method  == Method(dex, frames[k].meth)
     IN  [meth |-> frames[k].meth,
          regs |-> [r \in 0 .. method.registers_size - 1 |->
                      IF running THEN regs[r] ELSE frames[k + 1].saved[r]],
          pc   |-> IF ~ running THEN frames[k + 1].pc_current
                   ELSE IF mode = "check" /\ pc >= method.insns_size THEN -1 ELSE pc]]

A == INSTANCE Activations WITH stack <- Stack, value <- result.bottom

\* One bank of registers, one result and one pc, saved and restored around
\* each call, behave like activations with registers of their own.
ImplementsActivations == A!Spec
=============================================================================
