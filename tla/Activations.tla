---------------------------- MODULE Activations ----------------------------
(***************************************************************************)
(* What method calls promise, independently of how simple_dvm keeps        *)
(* registers: a stack of activations, each with registers of its own.  An  *)
(* instruction changes nothing but its destination register; an invoke     *)
(* runs the method that its operand names, with the arguments in the last  *)
(* registers; a return leaves every register of the caller as the call     *)
(* found it and continues behind the invoke.                               *)
(***************************************************************************)
EXTENDS DvmProgram

VARIABLES
  dex,     \* the program
  stack,   \* activations [meth, regs, pc], the running one last
  value,   \* the value of the last return or library call
  object   \* the type of each object of the program's classes

vars == <<dex, stack, value, object>>

\* The pc of an activation whose method has returned.
Returned == -1

n       == Len(stack)
Running == stack[n]
I       == Code(dex, Running.meth)[Running.pc]
V(r)    == Running.regs[r]

At(ops) ==
  /\ n > 0
  /\ Running.pc \in DOMAIN Code(dex, Running.meth)
  /\ I.op \in ops

\* The running activation goes on at next.
GoTo(next) == stack' = [stack EXCEPT ![n].pc = next]

\* The same, with v in the destination register.
Set(v) ==
  stack' = [stack EXCEPT ![n].regs[I.vx] = v, ![n].pc = @ + Length(I)]

\* Does a class of the program have this method in an array of this kind?
Defines(kind, id) ==
  /\ id \in 0 .. Len(dex.method_id) - 1
  /\ LET c == class_def_of(dex, dex.method_id[id + 1].class_idx)
     IN  c # -1 /\ \E k \in 1 .. Len(dex.class_def[c + 1][kind]) :
                      MethodIds(dex.class_def[c + 1][kind])[k] = id

MethodOf(kind, id) ==
  RefOf(dex, class_def_of(dex, dex.method_id[id + 1].class_idx), kind, id)

KindOf(op) == IF op = "invoke-virtual" THEN "virtual" ELSE "direct"

\* stack' has one activation more, of meth with these arguments.  Its other
\* registers hold anything.
Pushed(meth, args) ==
  LET a     == stack'[n + 1]
      first == Method(dex, meth).registers_size - Len(args)
  IN  /\ Len(stack') = n + 1
      /\ SubSeq(stack', 1, n) = stack
      /\ a.meth = meth /\ a.pc = 0
      /\ DOMAIN a.regs = 0 .. Method(dex, meth).registers_size - 1
      /\ \A k \in DOMAIN args : a.regs[first + k - 1] = args[k]

-----------------------------------------------------------------------------
Init ==
  /\ stack = <<>>
  /\ object = <<>>
  /\ value = 0

Start ==
  /\ n = 0
  /\ \E id \in 0 .. Len(dex.method_id) - 1 :
       /\ NameOf(dex, id) \in {"<clinit>", "main"}
       /\ Defines("direct", id)
       /\ Pushed(MethodOf("direct", id), <<>>)
  /\ UNCHANGED <<value, object>>

Local ==
  \/ At({"const"}) /\ Set(I.lit) /\ UNCHANGED <<value, object>>
  \/ At({"move"}) /\ Set(V(I.vy)) /\ UNCHANGED <<value, object>>
  \/ At({"move-result"}) /\ Set(value) /\ UNCHANGED <<value, object>>
  \/ At({"sget-object"}) /\ Set(stack'[n].regs[I.vx]) /\ UNCHANGED <<value, object>>
  \/ At({"sput-object"}) /\ GoTo(Running.pc + 4) /\ UNCHANGED <<value, object>>
  \/ At({"goto"}) /\ GoTo(Running.pc + I.lit) /\ UNCHANGED <<value, object>>
  \/ /\ At({"if-eqz"})
     /\ GoTo(Running.pc + IF V(I.vx) = 0 THEN I.lit ELSE 4)
     /\ UNCHANGED <<value, object>>

New ==
  /\ At({"new-instance"})
  /\ IF class_def_of(dex, I.lit) = -1
     THEN Set(-1) /\ UNCHANGED object
     ELSE Set(Len(object)) /\ object' = Append(object, I.lit)
  /\ UNCHANGED value

Return ==
  /\ At(Returns)
  /\ GoTo(Returned)
  /\ value' = IF I.op = "return" THEN V(I.vx) ELSE value
  /\ UNCHANGED object

Resume ==
  /\ n > 0 /\ Running.pc = Returned
  /\ stack' = IF n = 1 THEN <<>> ELSE [Front(stack) EXCEPT ![n - 1].pc = @ + 6]
  /\ UNCHANGED <<value, object>>

\* An invoke of a method that the program defines; the receiver of a virtual
\* one must be an object.
Invoke ==
  /\ At(Invokes)
  /\ Defines(KindOf(I.op), I.lit)
  /\ library(dex, I.lit) = "none"
  /\ I.op = "invoke-virtual" => V(I.args[1]) \in 0 .. Len(object) - 1
  /\ Pushed(MethodOf(KindOf(I.op), I.lit), [k \in DOMAIN I.args |-> V(I.args[k])])
  /\ UNCHANGED <<value, object>>

\* A virtual invoke whose receiver is no object: nothing is promised of what it
\* runs, if anything.
NoReceiver ==
  /\ At({"invoke-virtual"})
  /\ V(I.args[1]) \notin 0 .. Len(object) - 1
  /\ \/ GoTo(Running.pc + 6)
     \/ Pushed(stack'[n + 1].meth, [k \in DOMAIN I.args |-> V(I.args[k])])
  /\ UNCHANGED <<value, object>>

\* An invoke of a method that no class of the program defines runs nothing
\* of the program.
Foreign ==
  /\ At(Invokes)
  /\ ~ Defines(KindOf(I.op), I.lit) \/ library(dex, I.lit) # "none"
  /\ GoTo(Running.pc + 6)
  /\ library(dex, I.lit) # "value" => value' = value
  /\ UNCHANGED object

Next ==
  /\ \/ Start \/ Local \/ New \/ Return \/ Resume \/ Invoke \/ NoReceiver \/ Foreign
  /\ UNCHANGED dex

Spec == Init /\ [][Next]_vars
=============================================================================
