---------------------------- MODULE DvmConforming ----------------------------
(***************************************************************************)
(* The programs for which simple_dvm keeps the promises of Activations.    *)
(* Each condition excludes one thing that the Dalvik format allows and the *)
(* code gets wrong: methods with the same name, a method that its class    *)
(* inherits, a method id of more than eight bits, a virtual call from a    *)
(* large method or before the virtual table is there, a test of a register *)
(* that four bits cannot name or with an offset that leads back, code as   *)
(* long as the pc of a return.                                             *)
(***************************************************************************)
EXTENDS DvmCalls

\* The pointers to the methods of a file.
MethodsOf(d) ==
  UNION {{[cls |-> c, kind |-> kind, idx |-> x] :
            x \in 0 .. Len(d.class_def[c + 1][kind]) - 1} :
           c \in 0 .. Len(d.class_def) - 1, kind \in Kinds}

\* The pcs that the returns leave are not inside any method.
ShortMethods ==
  \A f \in DOMAIN Programs : \A ref \in MethodsOf(Programs[f]) :
    /\ Method(Programs[f], ref).insns_size <= ReturnVoidPc
    /\ Method(Programs[f], ref).insns_size <= ReturnPc

\* No test leads back in its method.
ForwardTests ==
  \A f \in DOMAIN Programs : \A ref \in MethodsOf(Programs[f]) :
    \A o \in DOMAIN Code(Programs[f], ref) :
      LET i == Code(Programs[f], ref)[o]
      IN  i.op = "if-eqz" => i.lit >= 0

KindOf(op) == IF op = "invoke-virtual" THEN "virtual" ELSE "direct"

ClassOf(d, id) == class_def_of(d, d.method_id[id + 1].class_idx)

\* A method of a class that the file defines is in the array of this kind.
Listed(d, kind, id) ==
  ClassOf(d, id) # -1 =>
    \E k \in 1 .. Len(d.class_def[ClassOf(d, id) + 1][kind]) :
      MethodIds(d.class_def[ClassOf(d, id) + 1][kind])[k] = id

\* The elements that list this id: the method that an invoke of it should run.
MethodsFor(d, kind, id) ==
  {ref \in MethodsOf(d) :
     /\ ref.cls = ClassOf(d, id) /\ ref.kind = kind
     /\ MethodIds(Methods(d, ref))[ref.idx + 1] = id}

\* An invoke names a method whose id the handlers decode, which is the
\* library's, or the first one of its name; and the arguments fit.
InvokeConforms(d, i) ==
  LET kind == KindOf(i.op)
  IN  /\ i.lit < Len(d.method_id)
      /\ ParsedId(i.lit) = i.lit
      /\ library(d, i.lit) # "none" => ClassOf(d, i.lit) = -1
      /\ library(d, i.lit) = "none" => EntryId(d, NameOf(d, i.lit)) = i.lit
      /\ Listed(d, kind, i.lit)
      /\ \A ref \in MethodsFor(d, kind, i.lit) :
           Len(i.args) <= Method(d, ref).registers_size

CodeConforms(d, m) ==
  \A o \in DOMAIN m.code :
    LET i == m.code[o]
    IN  /\ i.op \in Invokes => InvokeConforms(d, i)
        /\ i.op = "invoke-virtual" => m.registers_size <= VSaved
        /\ i.op = "if-eqz" => i.vx < Nibble /\ i.lit >= 0

\* <clinit> and main, if there are methods with these names.
EntryConforms(d, name) ==
  LET id == EntryId(d, name)
  IN  id # -1 => NameOf(d, id) = name /\ Listed(d, "direct", id)

\* A set of methods that has <clinit> and what its methods call, and makes no
\* virtual call.
IsInitializers(d, S) ==
  LET clinit == EntryId(d, "<clinit>")
  IN  /\ clinit # -1 => MethodsFor(d, "direct", clinit) \subseteq S
      /\ \A ref \in S : \A o \in DOMAIN Code(d, ref) :
           LET i == Code(d, ref)[o]
           IN  /\ i.op # "invoke-virtual"
               /\ i.op \in Invokes => MethodsFor(d, "direct", i.lit) \subseteq S

Conforms(d) ==
  /\ \A name \in {"<clinit>", "main"} : EntryConforms(d, name)
  /\ \A ref \in MethodsOf(d) : CodeConforms(d, Method(d, ref))
  /\ \E S \in SUBSET MethodsOf(d) : IsInitializers(d, S)

Conforming == \A f \in DOMAIN Programs : Conforms(Programs[f])

-----------------------------------------------------------------------------
\* What the next instruction asks for that no condition above excludes: an
\* opcode without a handler, one object too many, a method of a class that the
\* file does not define, the receiver object_length, which a comparison lets
\* through, and a method id past the virtual table.
AsksTooMuch ==
  \/ I.op = "unknown"
  \/ I.op = "new-instance" /\ Len(object) >= ArrayBase
  \/ I.op \in Invokes /\ library(dex, I.lit) = "none" /\ ClassOf(dex, I.lit) = -1
  \/ I.op = "invoke-virtual" /\ regs[I.args[1]] = Len(object)
  \/ /\ I.op = "invoke-virtual" /\ I.lit >= VTableSize
     /\ regs[I.args[1]] \in 0 .. Len(object) - 1

\* More methods or registers than the machine has room for, a <clinit> or main
\* of a class that the file does not define, or the next instruction.
AtALimit ==
  \/ TableOverrun(dex)
  \/ \E ref \in MethodsOf(dex) : Method(dex, ref).registers_size > NRegs
  \/ \E name \in {"<clinit>", "main"} :
       EntryId(dex, name) # -1 /\ ClassOf(dex, EntryId(dex, name)) = -1
  \/ frames # <<>> /\ pc \in DOMAIN Running.code /\ AsksTooMuch

\* Only these limits lead a conforming program past a table: no lookup of a
\* method that the file lists ends outside its array, over however many calls,
\* and no branch, return or end of a call leaves the pc outside the code.
UndefinedByLimitsOnly == mode = "undefined" => AtALimit
=============================================================================
