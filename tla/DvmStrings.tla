----------------------------- MODULE DvmStrings -----------------------------
(***************************************************************************)
(* The strings of simple_dvm: const-string, the methods of StringBuilder   *)
(* in java_lib.c, println.  There is one static buffer for all builders,   *)
(* and a flag that makes println print it instead of its argument.  A      *)
(* string in a register is its number in the string table; toString        *)
(* returns nothing, so what move-result-object finds is stale.             *)
(*                                                                         *)
(* The machine makes every step together with what the step means in Java, *)
(* INSTANCE JavaStrings.                                                   *)
(***************************************************************************)
EXTENDS Integers, Sequences

CONSTANTS
  Regs,         \* the registers that the program uses
  Chars,        \* the characters of texts
  NUL,          \* the end of a text in memory
  StringData,   \* string_data_item: the text of each string
  Ints,         \* the ints that the program uses
  Decimal,      \* the text that %d makes of each int
  BufSize,      \* bytes of buf (1024)
  AppendTypes,  \* parameter types of append: "string", "int" and others
  OtherTexts,   \* what Java appends for the other types
  Stale,        \* what vm->result may hold
  MaxBuilders, MaxLines,  \* bounds: builders made, lines printed,
  MaxText       \* and characters of a builder

\* A string_data_item has room for 255 bytes and an int has at most eleven
\* characters: each single text is shorter than buf.
ASSUME StringsAssumption ==
  /\ NUL \notin Chars
  /\ BufSize \in Nat \ {0}
  /\ StringData \in Seq(Seq(Chars))
  /\ \A k \in DOMAIN StringData : Len(StringData[k]) < BufSize
  /\ Ints \subseteq Int /\ Decimal \in [Ints -> Seq(Chars)]
  /\ \A n \in Ints : Len(Decimal[n]) < BufSize
  /\ {"string", "int"} \subseteq AppendTypes
  /\ OtherTexts \subseteq Seq(Chars)
  /\ Stale \subseteq Int

VARIABLES
  mode,      \* "run", or "undefined" after an access past buf or a null text
  reg,       \* the registers
  result,    \* vm->result
  buf, buf_ptr, use_buf,
  out,       \* the lines printed
  held, made, builders, phase, orderly, lines   \* of JavaStrings

code == <<mode, reg, result, buf, buf_ptr, use_buf, out>>
vars == <<code, held, made, builders, phase, orderly, lines>>

Java == INSTANCE JavaStrings

-----------------------------------------------------------------------------
Bytes == 0 .. BufSize - 1
Clear == [i \in Bytes |-> NUL]

\* What printf("%s") shows of the buffer: the characters before the first NUL.
FirstNul(b) == CHOOSE n \in Bytes : b[n] = NUL /\ \A k \in 0 .. n - 1 : b[k] # NUL
Shown(b)    == [i \in 1 .. FirstNul(b) |-> b[i - 1]]

\* get_string_data returns a null pointer for other numbers.
IsStringId(n)      == n \in 0 .. Len(StringData) - 1
get_string_data(n) == StringData[n + 1]

\* snprintf(buf + buf_ptr, 1024, ...): its limit is the size of the whole
\* buffer, more than any text has, so it never stops at the end of buf.
\* Mutant: no room for the NUL.
Fits_OffByOne(t) == buf_ptr + Len(t) <= BufSize
Fits(t) == buf_ptr + Len(t) < BufSize

snprintf(t) ==
  /\ Fits(t)
  /\ buf' = [i \in Bytes |-> IF i \in buf_ptr .. buf_ptr + Len(t) - 1
                             THEN t[i - buf_ptr + 1]
                             ELSE IF i = buf_ptr + Len(t) THEN NUL ELSE buf[i]]
  /\ buf_ptr' = buf_ptr + Len(t)
  /\ mode' = mode

Undefined == mode' = "undefined" /\ UNCHANGED <<reg, result, buf, buf_ptr, use_buf, out>>

Init ==
  /\ mode = "run" /\ reg = [v \in Regs |-> 0] /\ result \in Stale
  /\ buf = Clear /\ buf_ptr = 0 /\ use_buf = 0 /\ out = <<>>
  /\ Java!Init

-----------------------------------------------------------------------------
(***************************************************************************)
(* The handlers and the functions of the library.                          *)
(***************************************************************************)
SetReg(v, n) == reg' = [reg EXCEPT ![v] = n]

op_const_string(v, id) ==
  SetReg(v, id) /\ UNCHANGED <<mode, result, buf, buf_ptr, use_buf, out>>

op_const(v, n) ==
  SetReg(v, n) /\ UNCHANGED <<mode, result, buf, buf_ptr, use_buf, out>>

op_move_result_object(v) ==
  SetReg(v, result) /\ UNCHANGED <<mode, result, buf, buf_ptr, use_buf, out>>

\* Mutant: the text of the builder before stays.
java_lang_string_builder_init_KeepsText(v) ==
  SetReg(v, -1) /\ UNCHANGED <<mode, result, buf, buf_ptr, use_buf, out>>

\* new-instance of a class that the file does not define gives -1.
java_lang_string_builder_init(v) ==
  /\ SetReg(v, -1)
  /\ buf' = Clear /\ buf_ptr' = 0
  /\ UNCHANGED <<mode, result, use_buf, out>>

java_lang_string_builder_append(w, type) ==
  \/ /\ type = "string" /\ IsStringId(reg[w])
     /\ snprintf(get_string_data(reg[w]))
     /\ UNCHANGED <<reg, result, use_buf, out>>
  \/ type = "string" /\ IsStringId(reg[w]) /\ ~Fits(get_string_data(reg[w])) /\ Undefined
  \/ type = "string" /\ ~IsStringId(reg[w]) /\ Undefined
  \/ /\ type = "int"
     /\ snprintf(Decimal[reg[w]])
     /\ UNCHANGED <<reg, result, use_buf, out>>
  \/ type = "int" /\ ~Fits(Decimal[reg[w]]) /\ Undefined
  \/ type \notin {"string", "int"} /\ UNCHANGED code

java_lang_string_builder_to_string ==
  use_buf' = 1 /\ UNCHANGED <<mode, reg, result, buf, buf_ptr, out>>

\* Mutant: the flag stays set.
java_io_print_stream_println_KeepsFlag(v) ==
  \/ /\ use_buf = 1
     /\ out' = Append(out, Shown(buf))
     /\ buf' = Clear /\ buf_ptr' = 0
     /\ UNCHANGED <<mode, reg, result, use_buf>>
  \/ /\ use_buf = 0 /\ IsStringId(reg[v])
     /\ out' = Append(out, get_string_data(reg[v]))
     /\ UNCHANGED <<mode, reg, result, buf, buf_ptr, use_buf>>

java_io_print_stream_println(v) ==
  \/ /\ use_buf = 1
     /\ out' = Append(out, Shown(buf))
     /\ use_buf' = 0 /\ buf' = Clear /\ buf_ptr' = 0
     /\ UNCHANGED <<mode, reg, result>>
  \/ /\ use_buf = 0 /\ IsStringId(reg[v])
     /\ out' = Append(out, get_string_data(reg[v]))
     /\ UNCHANGED <<mode, reg, result, buf, buf_ptr, use_buf>>
  \/ use_buf = 0 /\ ~IsStringId(reg[v]) /\ Undefined

-----------------------------------------------------------------------------
(***************************************************************************)
(* Each statement, in the machine and in Java.                             *)
(***************************************************************************)
ConstString(v, id)     == op_const_string(v, id) /\ Java!ConstString(v, id)
ConstInt(v, n)         == op_const(v, n) /\ Java!ConstInt(v, n)
NewBuilder(v)          == java_lang_string_builder_init(v) /\ Java!NewBuilder(v)
AppendTo(v, w, type, t) == Java!AppendTo(v, w, type, t)
                           /\ java_lang_string_builder_append(w, type)
ToString(v)            == java_lang_string_builder_to_string /\ Java!ToString(v)
MoveResult(v)          == op_move_result_object(v) /\ Java!MoveResult(v)
Println(v)             == java_io_print_stream_println(v) /\ Java!Println(v)

Texts == {StringData[k] : k \in DOMAIN StringData} \cup {Decimal[n] : n \in Ints}
         \cup {held[v].text : v \in {u \in Regs : held[u].kind = "string"}} \cup OtherTexts

\* Nothing is said of a program after its first disorderly step.
Next ==
  /\ mode = "run" /\ orderly
  /\ \E v \in Regs :
       \/ \E id \in Java!Ids : ConstString(v, id)
       \/ \E n \in Ints : ConstInt(v, n)
       \/ Len(builders) < MaxBuilders /\ NewBuilder(v)
       \/ \E w \in Regs, type \in AppendTypes, t \in Texts :
            AppendTo(v, w, type, t) /\ Len(builders'[held[v].b]) <= MaxText
       \/ ToString(v)
       \/ MoveResult(v)
       \/ Len(lines) < MaxLines /\ Println(v)

Stopped == (mode = "undefined" \/ ~orderly) /\ UNCHANGED vars

Spec == Init /\ [][Next \/ Stopped]_vars

-----------------------------------------------------------------------------
(***************************************************************************)
(* Properties.                                                             *)
(***************************************************************************)
\* The text in the buffer ends within it, at buf_ptr, and every string of the
\* program was made by a builder of it (java_lib.c:28-30).
TypeOK ==
  /\ mode \in {"run", "undefined"}
  /\ reg \in [Regs -> Int] /\ result \in Stale
  /\ buf \in [Bytes -> Chars \cup {NUL}] /\ buf_ptr \in Bytes /\ buf[buf_ptr] = NUL
  /\ use_buf \in {0, 1} /\ out \in Seq(Seq(Chars))
  /\ held \in [Regs -> Java!Values] /\ made \in Java!Strings
  /\ builders \in Seq(Seq(Chars)) /\ lines \in Seq(Seq(Chars))
  /\ phase \in {"idle", "building", "built"} /\ orderly \in BOOLEAN

\* println prints the same lines as Java (java_lib.c:31-49), although all
\* builders share one buffer and the string that toString made is not in the
\* register that println is given, as long as the program is orderly.
PrintsLikeJava == orderly /\ mode = "run" => out = lines

\* An orderly program leaves the buffer only with a text as long as the buffer:
\* what earlier builders held does not count (java_lib.c:52-60).
OverrunByLongTextOnly ==
  orderly /\ mode = "undefined" => \E k \in DOMAIN builders : Len(builders[k]) >= BufSize
=============================================================================
