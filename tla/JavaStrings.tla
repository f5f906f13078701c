---------------------------- MODULE JavaStrings ----------------------------
(***************************************************************************)
(* What a Java program means that builds strings and prints lines: every   *)
(* string builder has a text of its own, a string keeps the text that it   *)
(* was made of, and println prints the string it is given.                 *)
(*                                                                         *)
(* orderly says whether the program has kept, so far, to one builder at a  *)
(* time: between a toString and the println of its string nothing else is  *)
(* built or printed, and a printed builder is not used again.              *)
(***************************************************************************)
EXTENDS Integers, Sequences

CONSTANTS
  Regs,         \* the variables of the program
  Chars,        \* the characters of texts
  StringData,   \* the literals: a sequence of texts, number n at n + 1
  Ints,         \* the ints it uses
  Decimal,      \* the text of each int
  AppendTypes   \* parameter types of the methods append

VARIABLES
  held,      \* what each variable holds
  made,      \* what the last toString returned
  builders,  \* the text of each builder, in the order of their creation
  phase,     \* "idle", "building", "built": the life of the last builder
  orderly,   \* see above
  lines      \* the lines printed

vars == <<held, made, builders, phase, orderly, lines>>

Int32(n)      == [kind |-> "int", n |-> n]
Literal(id)   == [kind |-> "literal", id |-> id]
Builder(b)    == [kind |-> "builder", b |-> b]
String(t, b)  == [kind |-> "string", text |-> t, by |-> b]
Nothing       == [kind |-> "nothing"]

Ids    == 0 .. Len(StringData) - 1
Newest == Len(builders)

\* What toString makes, and what a variable may hold.
Strings == [kind : {"string"}, text : Seq(Chars), by : 1 .. Newest] \cup {Nothing}
Values  == [kind : {"int"}, n : Ints] \cup [kind : {"literal"}, id : Ids]
           \cup [kind : {"builder"}, b : 1 .. Newest] \cup Strings

IsString(x) == x.kind \in {"literal", "string"}
TextOf(x)   == IF x.kind = "literal" THEN StringData[x.id + 1] ELSE x.text

Init ==
  /\ held = [v \in Regs |-> Nothing] /\ made = Nothing
  /\ builders = <<>> /\ phase = "idle" /\ orderly = TRUE /\ lines = <<>>

Set(v, x) == held' = [held EXCEPT ![v] = x]

ConstString(v, id) ==
  Set(v, Literal(id)) /\ UNCHANGED <<made, builders, phase, orderly, lines>>

ConstInt(v, n) ==
  Set(v, Int32(n)) /\ UNCHANGED <<made, builders, phase, orderly, lines>>

NewBuilder(v) ==
  /\ builders' = Append(builders, <<>>)
  /\ Set(v, Builder(Newest + 1))
  /\ phase' = "building"
  /\ orderly' = (orderly /\ phase # "built")
  /\ UNCHANGED <<made, lines>>

\* append(String), append(int), or of something else, whose text t is
\* anything.
AppendTo(v, w, type, t) ==
  /\ held[v].kind = "builder"
  /\ CASE type = "string" -> IsString(held[w]) /\ t = TextOf(held[w])
       [] type = "int"    -> held[w].kind = "int" /\ t = Decimal[held[w].n]
       [] OTHER           -> type \in AppendTypes
  /\ builders' = [builders EXCEPT ![held[v].b] = @ \o t]
  /\ orderly' = /\ orderly /\ phase = "building" /\ held[v].b = Newest
                /\ type \in {"string", "int"} /\ held[w].kind # "string"
  /\ UNCHANGED <<held, made, phase, lines>>

ToString(v) ==
  /\ held[v].kind = "builder"
  /\ made' = String(builders[held[v].b], held[v].b)
  /\ phase' = "built"
  /\ orderly' = (orderly /\ phase # "idle" /\ held[v].b = Newest)
  /\ UNCHANGED <<held, builders, lines>>

MoveResult(v) ==
  /\ made # Nothing
  /\ Set(v, made)
  /\ UNCHANGED <<made, builders, phase, orderly, lines>>

Println(v) ==
  /\ IsString(held[v])
  /\ lines' = Append(lines, TextOf(held[v]))
  /\ orderly' = (orderly /\ IF phase = "built"
                            THEN held[v].kind = "string" /\ held[v].by = Newest
                            ELSE held[v].kind = "literal")
  /\ phase' = IF phase = "built" THEN "idle" ELSE phase
  /\ UNCHANGED <<held, made, builders>>
=============================================================================
