------------------------------ MODULE DvmData ------------------------------
(***************************************************************************)
(* The handlers of bytecode_thread.c that compute: constants, int and long *)
(* arithmetic, conversions, comparisons and the tests of branches.         *)
(*                                                                         *)
(* A register holds a word of 4 bytes, here a number 0 .. Word - 1; a long *)
(* is in two registers, its high word in vx and its low one in vx + 1,     *)
(* assembled through a pointer to a C long of 8 bytes.  Half a byte has    *)
(* HalfByte values (16 in the code), so that small instances are           *)
(* exhaustive.                                                             *)
(* Overflow wraps, as in the code that gcc generates for these handlers.   *)
(***************************************************************************)
EXTENDS Integers, Sequences

CONSTANTS
  NRegs,       \* registers of the bank (32)
  Nibble,      \* registers that a field of four bits can name (16)
  HalfByte,    \* values of four bits (16)
  Starts,      \* pairs of a straight-line program and an initial bank
  Results,     \* initial values of vm->result
  Garbage,     \* words that memory outside the variables of a handler holds
  AddDouble(_, _), MulDouble(_, _), \* double arithmetic on bit patterns
  DoubleToInt(_)

Byte == HalfByte * HalfByte
Short == Byte * Byte
Word == Short * Short
DWord == Word * Word
Reg == 0 .. NRegs - 1

\* lit is the unsigned number that the bytes of a literal make, or the first
\* key of a packed-switch; units are the 16-bit units of its targets.
Fields == [op : STRING, vx : Reg, vy : Reg, vz : Reg, lit : Int, units : Seq(0 .. Short - 1)]

IfOps == {"if-eq", "if-ne", "if-lt", "if-ge", "if-gt", "if-le",
          "if-eqz", "if-nez", "if-ltz", "if-gez", "if-gtz", "if-lez"}

\* The operands that are pairs of registers.
WideX == {"move-result-wide", "const-wide/16", "const-wide/32", "const-wide/high16",
          "add-long", "sub-long", "mul-long", "div-long", "int-to-long",
          "add-long/2addr", "sub-long/2addr", "mul-long/2addr",
          "add-double/2addr", "mul-double/2addr"}
WideY == {"add-long", "sub-long", "mul-long", "div-long", "cmp-long", "long-to-int",
          "add-long/2addr", "sub-long/2addr", "mul-long/2addr",
          "add-double/2addr", "mul-double/2addr", "double-to-int"}
WideZ == {"add-long", "sub-long", "mul-long", "div-long", "cmp-long"}

\* The operands of the Dalvik tools: pairs are in the bank, a literal has the
\* width of its format, a target of a packed-switch has two units, and its keys
\* are ints.
Verified(x) ==
  /\ x.op \in WideX => x.vx + 1 \in Reg
  /\ x.op \in WideY => x.vy + 1 \in Reg
  /\ x.op \in WideZ => x.vz + 1 \in Reg
  /\ IF x.op = "packed-switch"
     THEN /\ Len(x.units) % 2 = 0
          /\ x.lit >= -(Word \div 2) /\ x.lit + Len(x.units) \div 2 <= Word \div 2
     ELSE x.lit \in 0 .. Word - 1
  /\ x.op = "const/4" => x.lit < HalfByte
  /\ x.op \in {"add-int/lit8", "sub-int/lit8", "mul-int/lit8", "div-int/lit8", "goto"} =>
       x.lit < Byte
  /\ x.op \in IfOps \cup {"const/16", "const-wide/16", "const-wide/high16"} =>
       x.lit < Short

Instr == {x \in Fields : Verified(x)}

ASSUME DataAssumption ==
  /\ NRegs \in Nat \ {0} /\ Nibble \in 1 .. NRegs
  /\ HalfByte \in Nat \ {0} /\ HalfByte % 2 = 0
  /\ Garbage \subseteq 0 .. Word - 1 /\ Garbage # {}
  /\ Starts \subseteq Seq(Instr) \X [Reg -> 0 .. Word - 1]
  /\ Results \subseteq [top : 0 .. Word - 1, bottom : 0 .. Word - 1]

VARIABLES
  program,  \* a sequence of instructions; a branch ends it
  k,        \* the index of the instruction that runs next
  pc,       \* its address in bytes
  regs,     \* vm->regs
  result,   \* vm->result, two words
  mode      \* "run", or "trap" after a division that the processor refuses

vars == <<program, k, pc, regs, result, mode>>

-----------------------------------------------------------------------------
\* The number of 0 .. size - 1 read as two's complement.
Signed(u, size) == IF 2 * u < size THEN u ELSE u - size

int(r) == Signed(regs[r], Word)
pair(r) == regs[r] * Word + regs[r + 1]
long(r) == Signed(pair(r), DWord)

\* The division of C rounds towards zero.
Quot(a, b) ==
  LET q == (IF a < 0 THEN -a ELSE a) \div (IF b < 0 THEN -b ELSE b)
  IN  IF (a < 0) = (b < 0) THEN q ELSE -q
Rem(a, b) == a - b * Quot(a, b)

Traps_OnZero(a, b, size) == b = 0

\* The processor traps when the quotient does not exist or does not fit.
Traps(a, b, size) == b = 0 \/ (b = -1 /\ 2 * a = -size)

i == program[k]
vx == i.vx
vy == i.vy
vz == i.vz

At(op) ==
  /\ mode = "run" /\ k <= Len(program) /\ i.op = op
  /\ UNCHANGED <<program, result, mode>>

\* The instruction of op is next; it has this many bytes.
Op(op, bytes) == At(op) /\ k' = k + 1 /\ pc' = pc + bytes

SetInt_Unwrapped(v) == regs' = [regs EXCEPT ![vx] = v]
SetInt(v) == regs' = [regs EXCEPT ![vx] = v % Word]
SetPair(hi, lo) == regs' = [regs EXCEPT ![vx] = hi, ![vx + 1] = lo]
SetLong_LowFirst(v) == SetPair(v % Word, (v % DWord) \div Word)
SetLong(v) == SetPair((v % DWord) \div Word, v % Word)

-----------------------------------------------------------------------------
(***************************************************************************)
(* Moves and constants.                                                    *)
(***************************************************************************)
op_move == Op("move", 2) /\ SetInt(regs[vy])
op_move_result == Op("move-result", 2) /\ SetInt(result.bottom)
op_move_result_object == Op("move-result-object", 2) /\ SetInt(result.bottom)
op_move_result_wide == Op("move-result-wide", 2) /\ SetPair(result.bottom, result.top)

\* Only the literal of four bits is extended with its sign.
op_const_4 == Op("const/4", 2) /\ SetInt(Signed(i.lit, HalfByte))
op_const_16 == Op("const/16", 4) /\ SetInt(i.lit)
op_const_wide_16 == Op("const-wide/16", 4) /\ SetPair(0, i.lit)
op_const_wide_32 == Op("const-wide/32", 6) /\ SetPair(0, i.lit)

\* The macro store_to_reg casts before it adds: its ptr2 + 4 is 16 bytes past
\* the value.
op_const_wide_high16 ==
  Op("const-wide/high16", 4) /\ \E junk \in Garbage : SetPair(junk, i.lit)

-----------------------------------------------------------------------------
(***************************************************************************)
(* Arithmetic.  All operands are loaded before the first half is stored.   *)
(***************************************************************************)
op_add_int == Op("add-int", 4) /\ SetInt(int(vy) + int(vz))
op_sub_int == Op("sub-int", 4) /\ SetInt(int(vy) - int(vz))
op_mul_int == Op("mul-int", 4) /\ SetInt(int(vy) * int(vz))
op_add_int_2addr == Op("add-int/2addr", 2) /\ SetInt(int(vx) + int(vy))
op_sub_int_2addr == Op("sub-int/2addr", 2) /\ SetInt(int(vx) - int(vy))

\* The literal of eight bits is a number 0 .. Byte - 1.
op_add_int_lit8 == Op("add-int/lit8", 4) /\ SetInt(int(vy) + i.lit)
op_sub_int_lit8 == Op("sub-int/lit8", 4) /\ SetInt(int(vy) - i.lit)
op_mul_int_lit8 == Op("mul-int/lit8", 4) /\ SetInt(int(vy) * i.lit)

op_add_long == Op("add-long", 4) /\ SetLong(long(vy) + long(vz))
op_sub_long == Op("sub-long", 4) /\ SetLong(long(vy) - long(vz))
op_mul_long == Op("mul-long", 4) /\ SetLong(long(vy) * long(vz))
op_add_long_2addr == Op("add-long/2addr", 2) /\ SetLong(long(vx) + long(vy))
op_sub_long_2addr == Op("sub-long/2addr", 2) /\ SetLong(long(vx) - long(vy))

\* Both halves of the product go to vx.
op_mul_long_2addr == Op("mul-long/2addr", 2) /\ SetInt(long(vx) * long(vy))

op_add_double_2addr ==
  Op("add-double/2addr", 2) /\ SetLong(AddDouble(pair(vx), pair(vy)))
op_mul_double_2addr ==
  Op("mul-double/2addr", 2) /\ SetLong(MulDouble(pair(vx), pair(vy)))

\* A quotient by way of the remainder.
ByRemainder(a, b) == Quot(a - Rem(a, b), b)

op_div_int ==
  /\ Op("div-int", 4) /\ ~ Traps(int(vy), int(vz), Word)
  /\ SetInt(ByRemainder(int(vy), int(vz)))
op_div_int_lit8 ==
  /\ Op("div-int/lit8", 4) /\ ~ Traps(int(vy), i.lit, Word)
  /\ SetInt(ByRemainder(int(vy), i.lit))
op_div_long ==
  /\ Op("div-long", 4) /\ ~ Traps(long(vy), long(vz), DWord)
  /\ SetLong(Quot(long(vy), long(vz)))

\* The process is killed by a signal, inside the handler.
trap ==
  /\ mode = "run" /\ k <= Len(program)
  /\ \/ i.op = "div-int" /\ Traps(int(vy), int(vz), Word)
     \/ i.op = "div-int/lit8" /\ Traps(int(vy), i.lit, Word)
     \/ i.op = "div-long" /\ Traps(long(vy), long(vz), DWord)
  /\ mode' = "trap"
  /\ UNCHANGED <<program, k, pc, regs, result>>

op_long_to_int_High == Op("long-to-int", 2) /\ SetInt(regs[vy])

op_int_to_long == Op("int-to-long", 2) /\ SetLong(int(vy))
op_long_to_int == Op("long-to-int", 2) /\ SetInt(long(vy))
op_int_to_char == Op("int-to-char", 2) /\ SetInt(regs[vy] % Byte)
op_double_to_int == Op("double-to-int", 2) /\ SetInt(DoubleToInt(pair(vy)))

\* 1 for equal longs and 0 for any others.
op_cmp_long == Op("cmp-long", 4) /\ SetInt(IF long(vy) = long(vz) THEN 1 ELSE 0)

-----------------------------------------------------------------------------
(***************************************************************************)
(* The tests of the conditional branches.  The ones against zero take four *)
(* bits of their register operand of eight.                                *)
(***************************************************************************)
if_lt_Unsigned(r, s) == regs[r] < regs[s]

if_eq(r, s) == int(r) = int(s)
if_ne(r, s) == int(r) # int(s)
if_lt(r, s) == int(r) < int(s)
if_ge(r, s) == int(r) >= int(s)
if_gt(r, s) == int(r) > int(s)
if_le(r, s) == int(r) <= int(s)
if_eqz(r) == int(r % Nibble) = 0
if_nez(r) == int(r % Nibble) # 0
if_ltz(r) == int(r % Nibble) < 0
if_gez(r) == int(r % Nibble) >= 0
if_gtz(r) == int(r % Nibble) > 0
if_lez(r) == int(r % Nibble) <= 0

\* Where a branch goes, the program of the model ends.
Goes(offset) == pc' = pc + offset /\ k' = Len(program) + 1 /\ UNCHANGED regs

\* The offset of 16 bits is a number 0 .. Short - 1.
Branch(op, test) == At(op) /\ Goes(IF test THEN 2 * i.lit ELSE 4)

op_if ==
  \/ Branch("if-eq", if_eq(vx, vy)) \/ Branch("if-ne", if_ne(vx, vy))
  \/ Branch("if-lt", if_lt(vx, vy)) \/ Branch("if-ge", if_ge(vx, vy))
  \/ Branch("if-gt", if_gt(vx, vy)) \/ Branch("if-le", if_le(vx, vy))
  \/ Branch("if-eqz", if_eqz(vx)) \/ Branch("if-nez", if_nez(vx))
  \/ Branch("if-ltz", if_ltz(vx)) \/ Branch("if-gez", if_gez(vx))
  \/ Branch("if-gtz", if_gtz(vx)) \/ Branch("if-lez", if_lez(vx))

\* The offset of 8 bits is a char, signed where gcc makes char signed.
op_goto == At("goto") /\ Goes(2 * Signed(i.lit, Byte))

\* Of the units of the targets, the one of the key's number and the next one,
\* the first as the high half.
op_packed_switch_Inclusive ==
  /\ At("packed-switch")
  /\ LET key == int(vx) - i.lit
     IN  IF key >= 0 /\ 2 * key <= Len(i.units)
         THEN Goes(2 * Signed(i.units[key + 1] * Short + i.units[key + 2], Word))
         ELSE Goes(6)

op_packed_switch ==
  /\ At("packed-switch")
  /\ LET key == int(vx) - i.lit
     IN  IF key >= 0 /\ 2 * key < Len(i.units)
         THEN Goes(2 * Signed(i.units[key + 1] * Short + i.units[key + 2], Word))
         ELSE Goes(6)

-----------------------------------------------------------------------------
Init ==
  /\ \E start \in Starts : program = start[1] /\ regs = start[2]
  /\ result \in Results
  /\ k = 1 /\ pc = 0 /\ mode = "run"

Halted == (mode = "trap" \/ k > Len(program)) /\ UNCHANGED vars

Next ==
  \/ op_move \/ op_move_result \/ op_move_result_object \/ op_move_result_wide
  \/ op_const_4 \/ op_const_16 \/ op_const_wide_16 \/ op_const_wide_32
  \/ op_const_wide_high16
  \/ op_add_int \/ op_sub_int \/ op_mul_int \/ op_add_int_2addr \/ op_sub_int_2addr
  \/ op_add_int_lit8 \/ op_sub_int_lit8 \/ op_mul_int_lit8
  \/ op_add_long \/ op_sub_long \/ op_mul_long
  \/ op_add_long_2addr \/ op_sub_long_2addr \/ op_mul_long_2addr
  \/ op_add_double_2addr \/ op_mul_double_2addr
  \/ op_div_int \/ op_div_int_lit8 \/ op_div_long \/ trap
  \/ op_int_to_long \/ op_long_to_int \/ op_int_to_char \/ op_double_to_int
  \/ op_cmp_long \/ op_if \/ op_goto \/ op_packed_switch
  \/ Halted

Spec == Init /\ [][Next]_vars

-----------------------------------------------------------------------------
\* Registers and results hold words, whatever the arithmetic produces.
TypeOK ==
  /\ program \in Seq(Instr)
  /\ k \in 1 .. Len(program) + 1
  /\ pc \in Int
  /\ regs \in [Reg -> 0 .. Word - 1]
  /\ result \in [top : 0 .. Word - 1, bottom : 0 .. Word - 1]
  /\ mode \in {"run", "trap"}

\* An instruction has just computed.
Computes(ops) == k' = k + 1 /\ i.op \in ops

\* The registers after it hold this long at vx, and the others are as before.
HoldsLong(exact) ==
  /\ (Signed(regs'[vx] * Word + regs'[vx + 1], DWord) - exact) % DWord = 0
  /\ \A r \in Reg \ {vx, vx + 1} : regs'[r] = regs[r]

\* Long arithmetic is arithmetic modulo 2^64 on the longs that the register
\* pairs held before, also where the pairs of the operands and of the result
\* overlap, and it touches no other register.  (mul-long/2addr is left out: it
\* stores both halves of the product in vx.)
LongArithmetic ==
  [][/\ Computes({"add-long"}) => HoldsLong(long(vy) + long(vz))
     /\ Computes({"sub-long"}) => HoldsLong(long(vy) - long(vz))
     /\ Computes({"mul-long"}) => HoldsLong(long(vy) * long(vz))
     /\ Computes({"add-long/2addr"}) => HoldsLong(long(vx) + long(vy))
     /\ Computes({"sub-long/2addr"}) => HoldsLong(long(vx) - long(vy))
     /\ Computes({"int-to-long"}) => HoldsLong(int(vy))
     /\ Computes({"move-result-wide"}) =>
          HoldsLong(result.bottom * Word + result.top)]_vars

\* q is a divided by b: the remainder is smaller than b, and it has the sign
\* of a.
IsQuotient(q, a, b) ==
  LET r   == a - q * b
      abs == IF b < 0 THEN -b ELSE b
  IN  /\ r > -abs /\ r < abs
      /\ r = 0 \/ (r < 0) = (a < 0)

\* The detour of div-int and div-int/lit8 by the remainder, and div-long, give
\* the quotient rounded towards zero for all operands whose quotient has their
\* width, and the process survives those.
Division ==
  [][k <= Len(program) /\ i.op \in {"div-int", "div-int/lit8", "div-long"} =>
       LET wide == i.op = "div-long"
           size == IF wide THEN DWord ELSE Word
           a    == IF wide THEN long(vy) ELSE int(vy)
           b    == CASE wide -> long(vz) [] i.op = "div-int" -> int(vz) [] OTHER -> i.lit
           q    == IF wide THEN Signed(regs'[vx] * Word + regs'[vx + 1], DWord)
                   ELSE Signed(regs'[vx], Word)
       IN  IF mode' = "run" THEN IsQuotient(q, a, b)
           ELSE \A c \in -(size \div 2) .. (size \div 2) - 1 : ~ IsQuotient(c, a, b)]_vars

\* The tests of the branches order the ints: of less, equal and greater exactly
\* one holds, the other three are their opposites, and the tests against zero
\* are the same tests.
TestsOrderInts ==
  \A r, s \in 0 .. Nibble - 1 :
    /\ if_lt(r, s) \/ if_eq(r, s) \/ if_gt(r, s)
    /\ if_lt(r, s) => ~ if_eq(r, s) /\ if_gt(s, r) /\ ~ if_lt(s, r)
    /\ if_ge(r, s) = ~ if_lt(r, s) /\ if_le(r, s) = ~ if_gt(r, s)
    /\ if_ne(r, s) = ~ if_eq(r, s)
    /\ regs[s] = 0 =>
         /\ if_eqz(r) = if_eq(r, s) /\ if_nez(r) = if_ne(r, s)
         /\ if_ltz(r) = if_lt(r, s) /\ if_gez(r) = if_ge(r, s)
         /\ if_gtz(r) = if_gt(r, s) /\ if_lez(r) = if_le(r, s)
         \* Every word below the half of all words is a positive int.
         /\ if_gtz(r) = (regs[r] # 0 /\ 2 * regs[r] < Word)

\* A taken branch goes the number of 16-bit units that the two's complement of
\* its operand says, forwards or backwards.
TakenTo(offset) == pc' \in {pc + 4, pc + 2 * offset}

\* That is so for the tests with every offset, as the example of if-lt has it:
\* "Jumps to the current position-35H words".
BackwardBranches ==
  [][k <= Len(program) /\ i.op \in IfOps => TakenTo(Signed(i.lit, Short))]_vars

\* The keys of a packed-switch, counted from its first one; the target of each
\* in the file, an int whose low half comes first; and a switch whose targets
\* are all ahead of it, fewer units away than a half counts.
Keys == 0 .. Len(i.units) \div 2 - 1
Target(key) == Signed(i.units[2 * key + 2] * Short + i.units[2 * key + 1], Word)
NearTargets == \A key \in Keys : Target(key) \in 1 .. Short - 1

\* Where a packed-switch goes although its handler reads the halves of a target
\* in the wrong order and the targets half as far apart as they are: with near
\* targets the odd keys 1, 3, 5, .. go to the targets of 1, 2, 3, .., and the
\* even keys to none of the switch's targets.  An int without a key goes on
\* behind the instruction.
SwitchTargets ==
  [][k <= Len(program) /\ i.op = "packed-switch" =>
       LET key == int(vx) - i.lit
       IN  /\ key \notin Keys => pc' = pc + 6
           /\ NearTargets /\ key \in Keys =>
                IF key % 2 = 1 THEN pc' = pc + 2 * Target((key + 1) \div 2)
                ELSE \A other \in Keys : pc' # pc + 2 * Target(other)]_vars

\* Every key goes to its own target, as the cases of the switch statements of
\* the repository's benchmark do in Java.
SwitchGoesToItsKey ==
  [][k <= Len(program) /\ i.op = "packed-switch" =>
       LET key == int(vx) - i.lit
       IN  key \in Keys => pc' = pc + 2 * Target(key)]_vars
=============================================================================
