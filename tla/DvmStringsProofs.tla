-------------------------- MODULE DvmStringsProofs --------------------------
(***************************************************************************)
(* The strings of orderly programs are right for every string table, every *)
(* size of the buffer and every number of builders.                        *)
(***************************************************************************)
EXTENDS DvmStrings, SequenceTheorems, TLAPS

\* The buffer holds the text t.
Holds(t) == buf_ptr = Len(t) /\ \A i \in 1 .. Len(t) : buf[i - 1] = t[i]

\* A register holds the number of a literal, or the int, of its variable.
Numbered(v) ==
  /\ held[v].kind = "int" => reg[v] = held[v].n
  /\ held[v].kind = "literal" => reg[v] = held[v].id

\* A string that the newest builder made has that builder's text.
UpToDate(x) ==
  x.kind = "string" /\ x.by = Java!Newest =>
    phase # "building" /\ x.text = builders[Java!Newest]

\* The buffer belongs to the newest builder until its string is printed.
Agree ==
  orderly /\ mode = "run" =>
    /\ out = lines
    /\ \A v \in Regs : Numbered(v) /\ UpToDate(held[v])
    /\ UpToDate(made)
    /\ use_buf = 1 <=> phase = "built"
    /\ phase # "idle" => Java!Newest > 0 /\ Holds(builders[Java!Newest])

Inv == TypeOK /\ Agree /\ OverrunByLongTextOnly

USE DEF Java!Newest, Java!Ids, Java!Values, Java!Strings, Java!Int32, Java!Literal, Java!Builder,
        Java!String, Java!Nothing, Java!IsString, Java!TextOf, Java!Set, Bytes

-----------------------------------------------------------------------------
\* What println shows of a buffer that holds a text.
LEMMA ShownIsHeld ==
  ASSUME TypeOK, NEW t \in Seq(Chars), Holds(t)
  PROVE  Shown(buf) = t
<1>1. NUL \notin Chars
  BY StringsAssumption
<1>2. \A k \in 0 .. Len(t) - 1 : buf[k] # NUL
  <2> TAKE k \in 0 .. Len(t) - 1
  <2>1. k + 1 \in 1 .. Len(t) /\ t[k + 1] \in Chars
    OBVIOUS
  <2> QED BY <2>1, <1>1 DEF Holds
<1>3. Len(t) \in Bytes /\ buf[Len(t)] = NUL
  BY DEF TypeOK, Holds
<1>4. \A n \in Bytes : buf[n] = NUL /\ (\A k \in 0 .. n - 1 : buf[k] # NUL) => n = Len(t)
  BY <1>2, <1>3, StringsAssumption
<1>5. FirstNul(buf) = Len(t)
  BY <1>2, <1>3, <1>4 DEF FirstNul
<1>6. Shown(buf) = [i \in 1 .. Len(t) |-> t[i]]
  BY <1>5 DEF Shown, Holds
<1> QED BY <1>6

\* The values that variables may hold, when a builder is added.
LEMMA ValuesGrow ==
  ASSUME TypeOK, NEW x \in Java!Values, Len(builders') >= Len(builders),
         Len(builders') \in Nat
  PROVE  x \in Java!Values'
BY DEF TypeOK

-----------------------------------------------------------------------------
LEMMA InitInv == Init => Inv
<1> SUFFICES ASSUME Init PROVE Inv
  OBVIOUS
<1> USE StringsAssumption DEF Init, Java!Init
<1>1. TypeOK
  BY DEF TypeOK, Clear
<1>2. Agree
  BY DEF Agree, Numbered, UpToDate
<1> QED BY <1>1, <1>2 DEF Inv, OverrunByLongTextOnly

\* The registers and what Java holds in them, after a register is set.
LEMMA SetKeeps ==
  ASSUME Inv, mode = "run", orderly, NEW v \in Regs, NEW n \in Int,
         NEW x \in Java!Values, x.kind = "int" => n = x.n, x.kind = "literal" => n = x.id,
         UpToDate(x),
         SetReg(v, n), Java!Set(v, x),
         UNCHANGED <<mode, result, buf, buf_ptr, use_buf, out,
                     made, builders, phase, orderly, lines>>
  PROVE  Inv'
<1> USE DEF Inv, SetReg
<1>1. TypeOK'
  BY DEF TypeOK
<1>2. Agree'
  BY DEF TypeOK, Agree, Numbered, UpToDate, Holds
<1>3. OverrunByLongTextOnly'
  BY DEF OverrunByLongTextOnly
<1> QED BY <1>1, <1>2, <1>3

LEMMA ConstStringKeeps ==
  ASSUME Inv, mode = "run", orderly, NEW v \in Regs, NEW id \in Java!Ids, ConstString(v, id)
  PROVE  Inv'
<1>1. Java!Literal(id) \in Java!Values /\ id \in Int
  BY StringsAssumption
<1>2. UpToDate(Java!Literal(id))
  BY DEF UpToDate
<1> QED BY <1>1, <1>2, SetKeeps DEF ConstString, op_const_string, Java!ConstString

LEMMA ConstIntKeeps ==
  ASSUME Inv, mode = "run", orderly, NEW v \in Regs, NEW n \in Ints, ConstInt(v, n)
  PROVE  Inv'
<1>1. Java!Int32(n) \in Java!Values /\ n \in Int
  BY StringsAssumption
<1>2. UpToDate(Java!Int32(n))
  BY DEF UpToDate
<1> QED BY <1>1, <1>2, SetKeeps DEF ConstInt, op_const, Java!ConstInt

LEMMA MoveResultKeeps ==
  ASSUME Inv, mode = "run", orderly, NEW v \in Regs, MoveResult(v)
  PROVE  Inv'
<1>1. made \in Java!Values /\ result \in Int /\ UpToDate(made)
  BY StringsAssumption DEF Inv, TypeOK, Agree
<1>2. made.kind # "int" /\ made.kind # "literal"
  BY DEF Inv, TypeOK
<1> QED BY <1>1, <1>2, SetKeeps DEF MoveResult, op_move_result_object, Java!MoveResult

-----------------------------------------------------------------------------
(***************************************************************************)
(* The methods of StringBuilder, and println.                              *)
(***************************************************************************)
LEMMA NewBuilderKeeps ==
  ASSUME Inv, mode = "run", orderly, NEW v \in Regs, NewBuilder(v)
  PROVE  Inv'
<1> USE StringsAssumption
    DEF Inv, NewBuilder, java_lang_string_builder_init, Java!NewBuilder, SetReg
<1>1. builders' \in Seq(Seq(Chars)) /\ Len(builders') = Len(builders) + 1
      /\ builders'[Len(builders')] = <<>>
  BY DEF TypeOK
<1>2. Java!Builder(Len(builders) + 1) \in Java!Values'
  BY <1>1 DEF TypeOK
<1>3. \A x \in Java!Values : x \in Java!Values'
  BY <1>1, ValuesGrow DEF TypeOK
<1>4. \A x \in Java!Strings : x \in Java!Strings'
  BY <1>1 DEF TypeOK
<1>5. TypeOK'
  BY <1>1, <1>2, <1>3, <1>4 DEF TypeOK, Clear
<1>6. \A x \in Java!Values : ~(x.kind = "string" /\ x.by = Java!Newest')
  BY <1>1 DEF TypeOK
<1>7. Holds(<<>>)'
  BY DEF Holds
<1>8. Agree'
  <2> SUFFICES ASSUME orderly' PROVE Agree'
    BY DEF Agree
  <2>1. use_buf' = 0 /\ phase' = "building" /\ out' = lines'
    BY DEF Agree, TypeOK
  <2>2. \A u \in Regs : Numbered(u)'
    BY DEF Agree, Numbered, TypeOK
  <2>3. \A u \in Regs : UpToDate(held[u])'
    BY <1>6 DEF TypeOK, UpToDate
  <2>4. UpToDate(made)'
    BY <1>6 DEF TypeOK, UpToDate
  <2> QED BY <1>1, <1>7, <2>1, <2>2, <2>3, <2>4 DEF Agree
<1> QED BY <1>5, <1>8 DEF OverrunByLongTextOnly

\* A variable that holds a builder, or a string.
LEMMA BuilderHeld ==
  ASSUME TypeOK, NEW v \in Regs, held[v].kind = "builder"
  PROVE  held[v].b \in 1 .. Len(builders) /\ builders[held[v].b] \in Seq(Chars)
<1>1. held[v] \in Java!Values
  BY DEF TypeOK
<1>2. held[v] \in [kind : {"builder"}, b : 1 .. Len(builders)]
  BY <1>1
<1>3. held[v].b \in 1 .. Len(builders)
  BY <1>2
<1> QED BY <1>3 DEF TypeOK

LEMMA TextHeld ==
  ASSUME TypeOK, NEW v \in Regs, Java!IsString(held[v])
  PROVE  /\ Java!TextOf(held[v]) \in Seq(Chars)
         /\ held[v].kind = "literal" => held[v].id \in Java!Ids
<1>1. held[v] \in Java!Values
  BY DEF TypeOK
<1>2. CASE held[v].kind = "literal"
  <2>1. held[v] \in [kind : {"literal"}, id : Java!Ids]
    BY <1>1, <1>2
  <2>2. held[v].id + 1 \in 1 .. Len(StringData)
    BY <2>1, StringsAssumption
  <2> QED BY <1>2, <2>1, <2>2, StringsAssumption
<1>3. CASE held[v].kind # "literal"
  <2>1. held[v] \in [kind : {"string"}, text : Seq(Chars), by : 1 .. Len(builders)]
    BY <1>1, <1>3
  <2> QED BY <1>3, <2>1
<1> QED BY <1>2, <1>3

LEMMA ToStringKeeps ==
  ASSUME Inv, mode = "run", orderly, NEW v \in Regs, ToString(v)
  PROVE  Inv'
<1> USE StringsAssumption
    DEF Inv, ToString, java_lang_string_builder_to_string, Java!ToString
<1>1. held[v].b \in 1 .. Len(builders) /\ builders[held[v].b] \in Seq(Chars)
  BY BuilderHeld
<1>2. made' \in Java!Strings'
  BY <1>1 DEF TypeOK
<1>3. Java!Values' = Java!Values
  OBVIOUS
<1>4. TypeOK'
  BY <1>2, <1>3 DEF TypeOK
<1>5. \A u \in Regs : Numbered(u)'
  BY DEF Agree, Numbered
<1>6. Agree'
  <2> SUFFICES ASSUME orderly' PROVE Agree'
    BY DEF Agree
  <2>1. phase # "idle" /\ held[v].b = Len(builders)
    OBVIOUS
  <2>2. \A u \in Regs : UpToDate(held[u])'
    BY DEF Agree, UpToDate
  <2>3. UpToDate(made)'
    BY <2>1 DEF UpToDate
  <2>4. out' = lines' /\ use_buf' = 1 /\ phase' = "built"
        /\ Len(builders') > 0 /\ Holds(builders[Len(builders)])'
    BY <2>1 DEF Agree, Holds
  <2> QED BY <1>5, <2>2, <2>3, <2>4 DEF Agree
<1> QED BY <1>4, <1>6 DEF OverrunByLongTextOnly

LEMMA PrintlnKeeps ==
  ASSUME Inv, mode = "run", orderly, NEW v \in Regs, Println(v)
  PROVE  Inv'
<1> USE StringsAssumption DEF Inv, Println, Java!Println
<1>1. Java!TextOf(held[v]) \in Seq(Chars)
      /\ (held[v].kind = "literal" => held[v].id \in Java!Ids)
  BY TextHeld
<1>2. CASE use_buf = 1
  <2>1. phase = "built" /\ Java!Newest > 0 /\ Holds(builders[Java!Newest])
    BY <1>2 DEF Agree
  <2>2. builders[Java!Newest] \in Seq(Chars) /\ Shown(buf) = builders[Java!Newest]
    BY <2>1, ShownIsHeld DEF TypeOK
  <2>3. /\ out' = Append(out, Shown(buf)) /\ use_buf' = 0 /\ buf' = Clear /\ buf_ptr' = 0
        /\ UNCHANGED <<mode, reg, result>>
    BY <1>2 DEF java_io_print_stream_println
  <2>4. TypeOK'
    BY <1>1, <2>2, <2>3 DEF TypeOK, Clear
  <2>5. Agree'
    <3> SUFFICES ASSUME orderly' PROVE Agree'
      BY DEF Agree
    <3>1. held[v].kind = "string" /\ held[v].by = Java!Newest
      BY <2>1
    <3>2. Java!TextOf(held[v]) = Shown(buf)
      BY <2>2, <3>1 DEF Agree, UpToDate
    <3>3. out' = lines' /\ use_buf' = 0 /\ phase' = "idle"
      BY <2>1, <2>3, <3>2 DEF Agree
    <3>4. \A u \in Regs : Numbered(u)' /\ UpToDate(held[u])'
      BY <2>1, <2>3, <3>3 DEF Agree, Numbered, UpToDate
    <3>5. UpToDate(made)'
      BY <2>1, <2>3, <3>3 DEF Agree, UpToDate
    <3> QED BY <3>3, <3>4, <3>5 DEF Agree
  <2> QED BY <2>3, <2>4, <2>5 DEF OverrunByLongTextOnly
<1>3. CASE use_buf # 1
  <2>1. phase # "built" /\ phase' = phase /\ use_buf = 0
    BY <1>3 DEF Agree, TypeOK
  <2>2. orderly' => IsStringId(reg[v]) /\ get_string_data(reg[v]) = Java!TextOf(held[v])
    BY <1>1, <2>1 DEF Agree, Numbered, IsStringId, get_string_data
  <2>3. CASE IsStringId(reg[v])
    <3>1. /\ out' = Append(out, get_string_data(reg[v]))
          /\ UNCHANGED <<mode, reg, result, buf, buf_ptr, use_buf>>
      BY <1>3, <2>3 DEF java_io_print_stream_println
    <3>2. get_string_data(reg[v]) \in Seq(Chars)
      BY <2>3 DEF IsStringId, get_string_data
    <3>3. out' \in Seq(Seq(Chars)) /\ lines' \in Seq(Seq(Chars))
      BY <1>1, <3>1, <3>2 DEF TypeOK
    <3>4. phase' \in {"idle", "building", "built"} /\ orderly' \in BOOLEAN
      BY DEF TypeOK
    <3>5. TypeOK'
      BY <3>1, <3>3, <3>4 DEF TypeOK
    <3>6. Agree'
      BY <2>1, <2>2, <3>1 DEF Agree, Numbered, UpToDate, Holds
    <3> QED BY <3>1, <3>5, <3>6 DEF OverrunByLongTextOnly
  <2>4. CASE ~IsStringId(reg[v])
    <3>1. Undefined /\ orderly' = FALSE
      BY <1>3, <2>2, <2>4 DEF java_io_print_stream_println
    <3>2. TypeOK'
      BY <1>1, <3>1 DEF TypeOK, Undefined
    <3> QED BY <3>1, <3>2 DEF Agree, OverrunByLongTextOnly
  <2> QED BY <2>3, <2>4
<1> QED BY <1>2, <1>3

\* Appending a text that fits, to the builder that the buffer belongs to.
LEMMA AppendHolds ==
  ASSUME TypeOK, NEW s \in Seq(Chars), NEW t \in Seq(Chars), Holds(s), snprintf(t)
  PROVE  Holds(s \o t)'
<1> USE StringsAssumption DEF snprintf, Holds, Fits
<1>1. Len(s \o t) = Len(s) + Len(t) /\ Len(s) \in Nat /\ Len(t) \in Nat
  OBVIOUS
<1>2. ASSUME NEW i \in 1 .. Len(s \o t)
      PROVE  buf'[i - 1] = (s \o t)[i]
  <2>1. i - 1 \in Bytes
    BY <1>1 DEF TypeOK
  <2>2. CASE i <= Len(s)
    BY <1>1, <2>1, <2>2 DEF TypeOK
  <2>3. CASE i > Len(s)
    BY <1>1, <2>1, <2>3 DEF TypeOK
  <2> QED BY <2>2, <2>3, <1>1
<1> QED BY <1>1, <1>2 DEF TypeOK

\* The buffer, and what the text is that goes there.
LEMMA SnprintfTyped ==
  ASSUME TypeOK, NEW t \in Seq(Chars), snprintf(t)
  PROVE  buf' \in [Bytes -> Chars \cup {NUL}] /\ buf_ptr' \in Bytes /\ buf'[buf_ptr'] = NUL
<1> USE StringsAssumption DEF snprintf, Fits, TypeOK
<1>1. buf_ptr' \in Bytes /\ Len(t) \in Nat
  OBVIOUS
<1>2. ASSUME NEW i \in Bytes PROVE buf'[i] \in Chars \cup {NUL}
  <2>1. CASE i \in buf_ptr .. buf_ptr + Len(t) - 1
    <3>1. i - buf_ptr + 1 \in 1 .. Len(t)
      BY <2>1, <1>1
    <3> QED BY <2>1, <3>1
  <2>2. CASE i \notin buf_ptr .. buf_ptr + Len(t) - 1
    BY <2>2
  <2> QED BY <2>1, <2>2
<1>3. buf' \in [Bytes -> Chars \cup {NUL}]
  BY <1>2
<1>4. buf'[buf_ptr'] = NUL
  BY <1>1
<1> QED BY <1>1, <1>3, <1>4

\* What an append means to Java.
LEMMA AppendMeans ==
  ASSUME TypeOK, NEW v \in Regs, NEW w \in Regs, NEW type \in AppendTypes, NEW t \in Texts,
         Java!AppendTo(v, w, type, t)
  PROVE  /\ held[v].b \in 1 .. Len(builders) /\ t \in Seq(Chars)
         /\ builders' \in Seq(Seq(Chars)) /\ Len(builders') = Len(builders)
         /\ builders'[held[v].b] = builders[held[v].b] \o t
<1>1. held[v].b \in 1 .. Len(builders) /\ builders[held[v].b] \in Seq(Chars)
  BY BuilderHeld DEF Java!AppendTo
<1>2. t \in Seq(Chars)
  <2>1. \A u \in Regs : held[u].kind = "string" => held[u].text \in Seq(Chars)
    BY TextHeld
  <2>2. \A n \in Ints : Decimal[n] \in Seq(Chars)
    BY StringsAssumption
  <2>3. \A k \in DOMAIN StringData : StringData[k] \in Seq(Chars)
    BY StringsAssumption
  <2> QED BY <2>1, <2>2, <2>3, StringsAssumption DEF Texts
<1>3. PICK b \in 1 .. Len(builders) : b = held[v].b
  BY <1>1
<1>4. PICK u \in Seq(Chars) : u = builders[b] \o t
  <2>1. builders[b] \in Seq(Chars)
    BY <1>1, <1>3
  <2>2. builders[b] \o t \in Seq(Chars)
    BY <1>2, <2>1
  <2> QED BY <2>2
<1>5. builders' = [builders EXCEPT ![b] = u] /\ builders \in Seq(Seq(Chars))
  BY <1>3, <1>4 DEF TypeOK, Java!AppendTo
<1>6. builders' \in Seq(Seq(Chars)) /\ Len(builders') = Len(builders) /\ builders'[b] = u
  BY <1>5
<1> QED BY <1>1, <1>2, <1>3, <1>4, <1>6

LEMMA AppendKeeps ==
  ASSUME Inv, mode = "run", orderly, NEW v \in Regs, NEW w \in Regs,
         NEW type \in AppendTypes, NEW t \in Texts, AppendTo(v, w, type, t)
  PROVE  Inv'
<1>1. Java!AppendTo(v, w, type, t) /\ java_lang_string_builder_append(w, type)
  BY DEF AppendTo
<1>2. PICK b \in 1 .. Len(builders), s \in Seq(Chars), u \in Seq(Chars) :
        /\ b = held[v].b /\ s = builders[b] /\ u = s \o t /\ t \in Seq(Chars)
        /\ builders' \in Seq(Seq(Chars)) /\ Len(builders') = Len(builders)
        /\ builders'[b] = u
  <2>1. /\ held[v].b \in 1 .. Len(builders) /\ t \in Seq(Chars)
        /\ builders' \in Seq(Seq(Chars)) /\ Len(builders') = Len(builders)
        /\ builders'[held[v].b] = builders[held[v].b] \o t
    BY <1>1, AppendMeans DEF Inv
  <2>2. builders[held[v].b] \in Seq(Chars)
    BY <2>1 DEF Inv, TypeOK
  <2>3. builders[held[v].b] \o t \in Seq(Chars)
    BY <2>1, <2>2
  <2> QED BY <2>1, <2>2, <2>3
<1>3. /\ UNCHANGED <<held, made, phase, lines>>
      /\ orderly' = (/\ phase = "building" /\ b = Java!Newest
                     /\ type \in {"string", "int"} /\ held[w].kind # "string")
      /\ Java!Values' = Java!Values /\ Java!Strings' = Java!Strings
  BY <1>1, <1>2 DEF Java!AppendTo
\* What is appended is what Java appends, when the step is orderly.
<1>4. ASSUME orderly'
      PROVE  /\ type = "string" => IsStringId(reg[w]) /\ get_string_data(reg[w]) = t
             /\ type = "int" => Decimal[reg[w]] = t
  <2>1. CASE type = "string"
    <3>1. held[w].kind = "literal" /\ t = Java!TextOf(held[w])
      BY <1>1, <1>3, <1>4, <2>1 DEF Java!AppendTo
    <3>2. held[w].id \in Java!Ids /\ reg[w] = held[w].id
      BY <3>1, TextHeld DEF Inv, Agree, Numbered
    <3> QED BY <2>1, <3>1, <3>2 DEF IsStringId, get_string_data
  <2>2. CASE type = "int"
    <3>1. held[w].kind = "int" /\ t = Decimal[held[w].n]
      BY <1>1, <2>2 DEF Java!AppendTo
    <3> QED BY <2>2, <3>1 DEF Inv, Agree, Numbered
  <2> QED BY <1>3, <1>4, <2>1, <2>2
<1>5. orderly' => Holds(s)
  <2>1. orderly' => b = Len(builders) /\ phase # "idle"
    BY <1>3
  <2> QED BY <1>2, <2>1 DEF Inv, Agree
<1>6. ASSUME NEW text \in Seq(Chars), snprintf(text), orderly' => text = t,
             UNCHANGED <<reg, result, use_buf, out>>
      PROVE  Inv'
  <2>1. TypeOK'
    <3>1. buf' \in [Bytes -> Chars \cup {NUL}] /\ buf_ptr' \in Bytes /\ buf'[buf_ptr'] = NUL
      BY <1>6, SnprintfTyped DEF Inv
    <3> QED BY <1>2, <1>3, <1>6, <3>1 DEF Inv, TypeOK, snprintf
  <2>2. Agree'
    <3> SUFFICES ASSUME orderly' PROVE Agree'
      BY DEF Agree
    <3>1. snprintf(t) /\ Holds(s)
      BY <1>5, <1>6
    <3>2. buf_ptr' = Len(u) /\ \A i \in 1 .. Len(u) : buf'[i - 1] = u[i]
      <4>1. TypeOK /\ t \in Seq(Chars) /\ u = s \o t
        BY <1>2 DEF Inv
      <4>2. Holds(s \o t)'
        BY <3>1, <4>1, AppendHolds
      <4> QED BY <4>1, <4>2 DEF Holds
    <3>3. builders'[Len(builders')] = u /\ Len(builders') > 0
      <4>1. Len(builders) \in Nat /\ b \in 1 .. Len(builders)
        BY DEF Inv, TypeOK
      <4>2. b = Len(builders)
        BY <1>3
      <4> QED BY <1>2, <4>1, <4>2
    <3>4. Holds(builders[Len(builders)])'
      BY <3>2, <3>3 DEF Holds
    <3>5. \A r \in Regs : Numbered(r)' /\ UpToDate(held[r])'
      BY <1>2, <1>3, <1>6 DEF Inv, Agree, Numbered, UpToDate
    <3>6. UpToDate(made)'
      BY <1>2, <1>3 DEF Inv, Agree, UpToDate
    <3>7. out' = lines' /\ (use_buf' = 1 <=> phase' = "built")
      BY <1>3, <1>6 DEF Inv, Agree
    <3> QED BY <3>3, <3>4, <3>5, <3>6, <3>7 DEF Agree
  <2>3. mode' = "run"
    BY <1>6 DEF snprintf
  <2> QED BY <2>1, <2>2, <2>3 DEF Inv, OverrunByLongTextOnly
<1>7. ASSUME Undefined, orderly' => ~Fits(t)
      PROVE  Inv'
  <2>1. TypeOK'
    BY <1>2, <1>3, <1>7 DEF Inv, TypeOK, Undefined
  <2>2. orderly' => Len(u) >= BufSize
    BY <1>2, <1>5, <1>7, StringsAssumption DEF Fits, Holds
  <2>3. OverrunByLongTextOnly'
    <3>1. b \in DOMAIN builders' /\ (orderly' => Len(builders'[b]) >= BufSize)
      BY <1>2, <2>2
    <3> QED BY <3>1 DEF OverrunByLongTextOnly
  <2> QED BY <1>7, <2>1, <2>3 DEF Inv, Agree, Undefined
<1>8. CASE type = "string" /\ IsStringId(reg[w])
  <2>1. get_string_data(reg[w]) \in Seq(Chars)
    BY <1>8, StringsAssumption DEF IsStringId, get_string_data
  <2> QED BY <1>1, <1>4, <1>6, <1>7, <1>8, <2>1 DEF java_lang_string_builder_append
<1>9. CASE type = "string" /\ ~IsStringId(reg[w])
  BY <1>1, <1>4, <1>7, <1>9 DEF java_lang_string_builder_append
<1>10. CASE type = "int"
  <2>1. Decimal[reg[w]] \in Seq(Chars)
    <3>1. held[w].kind = "int"
      BY <1>1, <1>10 DEF Java!AppendTo
    <3>2. held[w] \in [kind : {"int"}, n : Ints]
      BY <3>1 DEF Inv, TypeOK
    <3>3. reg[w] = held[w].n
      BY <3>1 DEF Inv, Agree, Numbered
    <3> QED BY <3>2, <3>3, StringsAssumption
  <2> QED BY <1>1, <1>4, <1>6, <1>7, <1>10, <2>1 DEF java_lang_string_builder_append
<1>11. CASE type \notin {"string", "int"}
  <2>1. UNCHANGED code /\ orderly' = FALSE
    BY <1>1, <1>3, <1>11 DEF java_lang_string_builder_append
  <2>2. TypeOK'
    BY <1>2, <1>3, <2>1 DEF Inv, TypeOK, code
  <2> QED BY <2>1, <2>2 DEF Inv, Agree, OverrunByLongTextOnly
<1> QED BY <1>8, <1>9, <1>10, <1>11

-----------------------------------------------------------------------------
LEMMA NextInv ==
  ASSUME Inv, [Next \/ Stopped]_vars
  PROVE  Inv'
<1>1. CASE UNCHANGED vars
  BY <1>1 DEF Inv, TypeOK, Agree, OverrunByLongTextOnly, Numbered, UpToDate, Holds, vars, code
<1>2. CASE Next
  <2>1. mode = "run" /\ orderly
    BY <1>2 DEF Next
  <2>2. PICK v \in Regs :
          \/ \E id \in Java!Ids : ConstString(v, id)
          \/ \E n \in Ints : ConstInt(v, n)
          \/ NewBuilder(v)
          \/ \E w \in Regs, type \in AppendTypes, t \in Texts : AppendTo(v, w, type, t)
          \/ ToString(v)
          \/ MoveResult(v)
          \/ Println(v)
    BY <1>2 DEF Next
  <2> QED BY <2>1, <2>2, ConstStringKeeps, ConstIntKeeps, NewBuilderKeeps, AppendKeeps,
             ToStringKeeps, MoveResultKeeps, PrintlnKeeps
<1> QED BY <1>1, <1>2 DEF Stopped

LEMMA SpecInv == Spec => []Inv
BY InitInv, NextInv, PTL DEF Spec

-----------------------------------------------------------------------------
\* The text in the one static buffer always ends within it, whatever builders
\* a program makes (java_lib.c:28-30).
THEOREM StringsTypeOK == Spec => []TypeOK
<1>1. Inv => TypeOK
  BY DEF Inv
<1> QED BY <1>1, SpecInv, PTL

\* An orderly program prints the lines that Java prints, although builders
\* share a buffer and println looks at a flag, not at its argument
\* (java_lib.c:31-49).
THEOREM StringsRight == Spec => []PrintsLikeJava
<1>1. Inv => PrintsLikeJava
  BY DEF Inv, Agree, PrintsLikeJava
<1> QED BY <1>1, SpecInv, PTL

\* Only one text as long as the buffer makes an orderly program leave it
\* (java_lib.c:63-81).
THEOREM StringsWithinBuffer == Spec => []OverrunByLongTextOnly
<1>1. Inv => OverrunByLongTextOnly
  BY DEF Inv
<1> QED BY <1>1, SpecInv, PTL
=============================================================================
