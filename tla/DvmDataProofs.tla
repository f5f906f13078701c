---------------------------- MODULE DvmDataProofs ----------------------------
(***************************************************************************)
(* Theorems about DvmData, for all programs, words of any width and banks  *)
(* of any size: what TLC checks for ints of 8 bits holds for those of 32.  *)
(*                                                                         *)
(* TypeOK is inductive as it stands.  The other properties follow from it, *)
(* since each handler is one step: what they need are the facts about      *)
(* two's complement, halves of a long and quotients of the first part.     *)
(***************************************************************************)
EXTENDS DvmData, SequenceTheorems, TLAPS

-----------------------------------------------------------------------------
(***************************************************************************)
(* Numbers.                                                                *)
(***************************************************************************)
LEMMA Sizes ==
  /\ Byte \in Nat \ {0} /\ Short \in Nat \ {0} /\ Word \in Nat \ {0}
  /\ DWord \in Nat \ {0} /\ DWord = Word * Word
  /\ Byte =< Short /\ Short =< Word
  /\ Word % 2 = 0 /\ DWord % 2 = 0
  <1> USE DataAssumption
  <1>1. Byte \in Nat \ {0}
    BY DEF Byte
  <1>2. Short \in Nat \ {0} /\ Byte =< Short
    BY <1>1 DEF Short
  <1>3. Word \in Nat \ {0} /\ Short =< Word
    BY <1>2 DEF Word
  <1>4. DWord \in Nat \ {0} /\ DWord = Word * Word
    BY <1>3 DEF DWord
  <1>5. \A m, n \in Nat : m % 2 = 0 => (m * n) % 2 = 0
    <2> TAKE m, n \in Nat
    <2> HAVE m % 2 = 0
    <2> DEFINE h == m \div 2
    <2>1. h \in Nat /\ m = 2 * h
      OBVIOUS
    <2>2. m * n = 2 * (h * n) /\ h * n \in Nat
      BY <2>1
    <2> HIDE DEF h
    <2> QED BY <2>2
  <1>6. Byte % 2 = 0
    BY <1>5 DEF Byte
  <1>7. Short % 2 = 0
    BY <1>1, <1>5, <1>6 DEF Short
  <1>8. Word % 2 = 0
    BY <1>2, <1>5, <1>7 DEF Word
  <1>9. DWord % 2 = 0
    BY <1>3, <1>5, <1>8 DEF DWord
  <1> QED BY <1>1, <1>2, <1>3, <1>4, <1>8, <1>9

LEMMA Remainder ==
  ASSUME NEW S \in Nat \ {0}, NEW v \in Int
  PROVE  /\ v \div S \in Int /\ v % S \in 0 .. S - 1
         /\ v = (v \div S) * S + (v % S)
  OBVIOUS

LEMMA RemainderUnique ==
  ASSUME NEW S \in Nat \ {0}, NEW q \in Int, NEW r \in 0 .. S - 1
  PROVE  (q * S + r) % S = r /\ (q * S + r) \div S = q
  OBVIOUS

\* Two words hold a number below the square of their size.
LEMMA PairOfWords ==
  ASSUME NEW S \in Nat \ {0}, NEW hi \in 0 .. S - 1, NEW lo \in 0 .. S - 1
  PROVE  hi * S + lo \in 0 .. S * S - 1
  OBVIOUS

\* The halves that SetLong stores are words, and make the number.
LEMMA Halves ==
  ASSUME NEW S \in Nat \ {0}, NEW v \in Int
  PROVE  /\ v % S \in 0 .. S - 1
         /\ (v % (S * S)) \div S \in 0 .. S - 1
         /\ ((v % (S * S)) \div S) * S + (v % S) = v % (S * S)
  <1> DEFINE D == S * S
             m == v % D
             q == v \div D
             hi == m \div S
             lo == m % S
  <1>1. D \in Nat \ {0}
    OBVIOUS
  <1> HIDE DEF D
  <1>2. q \in Int /\ m \in 0 .. D - 1 /\ v = q * D + m
    BY <1>1, Remainder
  <1> HIDE DEF m, q
  <1>3. hi \in Int /\ lo \in 0 .. S - 1 /\ m = hi * S + lo
    BY <1>2, Remainder
  <1> HIDE DEF hi, lo
  <1>4. hi \in 0 .. S - 1
    <2>1. hi * S < S * S
      BY <1>2, <1>3 DEF D
    <2>2. hi < S
      BY <2>1, <1>3
    <2>3. hi * S > -S
      BY <1>2, <1>3
    <2>4. hi >= 0
      BY <2>3, <1>3
    <2> QED BY <2>2, <2>4, <1>3
  <1>5. v = (q * S + hi) * S + lo /\ q * S + hi \in Int
    BY <1>2, <1>3 DEF D
  <1>6. v % S = lo
    BY <1>3, <1>5, RemainderUnique
  <1> QED BY <1>3, <1>4, <1>6 DEF hi, m, D

-----------------------------------------------------------------------------
(***************************************************************************)
(* Two's complement.                                                       *)
(***************************************************************************)
LEMMA SignedRange ==
  ASSUME NEW S \in Nat \ {0}, NEW u \in 0 .. S - 1
  PROVE  Signed(u, S) \in Int /\ -S =< 2 * Signed(u, S) /\ 2 * Signed(u, S) < S
  BY DEF Signed

\* It stands for its number modulo the size.
LEMMA SignedCongruent ==
  ASSUME NEW S \in Nat \ {0}, NEW v \in Int
  PROVE  (Signed(v % S, S) - v) % S = 0
  <1> DEFINE q == v \div S
             m == v % S
  <1>1. q \in Int /\ m \in 0 .. S - 1 /\ v = q * S + m
    BY Remainder
  <1> HIDE DEF q, m
  <1>2. \E c \in {-q, -q - 1} : Signed(m, S) - v = c * S
    BY <1>1 DEF Signed
  <1>3. \A c \in Int : (c * S) % S = 0
    <2> TAKE c \in Int
    <2>1. (c * S + 0) % S = 0
      BY RemainderUnique
    <2> QED BY <2>1
  <1>4. (Signed(m, S) - v) % S = 0
    <2>1. PICK c \in Int : Signed(m, S) - v = c * S
      BY <1>1, <1>2
    <2> QED BY <1>3, <2>1
  <1> QED BY <1>4 DEF m

\* A number that has the width is read back.
LEMMA SignedInverse ==
  ASSUME NEW S \in Nat \ {0}, NEW v \in Int, -S =< 2 * v, 2 * v < S
  PROVE  Signed(v % S, S) = v
  <1>1. CASE v >= 0
    <2>1. v % S = v
      BY <1>1
    <2> QED BY <2>1 DEF Signed
  <1>2. CASE v < 0
    <2>1. v + S \in 0 .. S - 1 /\ v = (-1) * S + (v + S)
      BY <1>2
    <2>2. v % S = v + S
      BY <2>1, RemainderUnique
    <2> QED BY <2>2, <1>2 DEF Signed
  <1> QED BY <1>1, <1>2

\* Equal words are equal ints.
LEMMA SignedInjective ==
  ASSUME NEW S \in Nat \ {0}, NEW u \in 0 .. S - 1, NEW w \in 0 .. S - 1,
         Signed(u, S) = Signed(w, S)
  PROVE  u = w
  BY DEF Signed

-----------------------------------------------------------------------------
(***************************************************************************)
(* Quotients.                                                              *)
(***************************************************************************)
\* Quot rounds towards zero.
LEMMA QuotIsQuotient ==
  ASSUME NEW a \in Int, NEW b \in Int, b # 0
  PROVE  Quot(a, b) \in Int /\ IsQuotient(Quot(a, b), a, b)
  <1> DEFINE A == IF a < 0 THEN -a ELSE a
             B == IF b < 0 THEN -b ELSE b
             q == A \div B
             m == A % B
  <1>1. A \in Nat /\ B \in Nat \ {0}
    OBVIOUS
  <1>2. a \in {A, -A} /\ b \in {B, -B} /\ (a < 0 => a = -A) /\ (b < 0 => b = -B)
        /\ (~ a < 0 => a = A) /\ (~ b < 0 => b = B)
    OBVIOUS
  <1>3. Quot(a, b) = IF (a < 0) = (b < 0) THEN q ELSE -q
    BY DEF Quot
  <1>4. IsQuotient(Quot(a, b), a, b)
          <=> LET r == a - Quot(a, b) * b
              IN  r > -B /\ r < B /\ (r = 0 \/ (r < 0) = (a < 0))
    BY DEF IsQuotient
  <1> HIDE DEF A, B
  <1>5. q \in Int /\ m \in 0 .. B - 1 /\ A = q * B + m
    BY <1>1, Remainder
  <1> HIDE DEF q, m
  <1>6. Quot(a, b) \in Int
    BY <1>3, <1>5
  <1>7. a - Quot(a, b) * b = IF a < 0 THEN -m ELSE m
    BY <1>1, <1>2, <1>3, <1>5
  <1>8. (a < 0 /\ m # 0 => -m < 0) /\ -m > -B /\ m > -B /\ m < B /\ -m < B
    BY <1>1, <1>5
  <1> QED BY <1>4, <1>5, <1>6, <1>7, <1>8

\* It exists in the width of its operands unless the processor traps.
LEMMA QuotFits ==
  ASSUME NEW S \in Nat \ {0}, NEW a \in Int, NEW b \in Int,
         -S =< 2 * a, 2 * a < S, ~ Traps(a, b, S)
  PROVE  b # 0 /\ -S =< 2 * Quot(a, b) /\ 2 * Quot(a, b) < S
  <1>1. b # 0
    BY DEF Traps
  <1> DEFINE A == IF a < 0 THEN -a ELSE a
             B == IF b < 0 THEN -b ELSE b
             q == A \div B
             m == A % B
  <1>2. A \in Nat /\ B \in Nat \ {0}
    BY <1>1
  <1>3. Quot(a, b) = IF (a < 0) = (b < 0) THEN q ELSE -q
    BY DEF Quot
  <1>4. 2 * A =< S
    OBVIOUS
  <1>5. B = 1 => b \in {-1, 1}
    OBVIOUS
  <1>6. 2 * A = S => a < 0 /\ 2 * a = -S
    OBVIOUS
  <1> HIDE DEF A, B
  <1>7. q \in Int /\ m \in 0 .. B - 1 /\ A = q * B + m
    BY <1>2, Remainder
  <1> HIDE DEF q, m
  <1>8. q * B > -B
    BY <1>2, <1>7
  <1>9. q >= 0
    BY <1>2, <1>7, <1>8
  <1>10. CASE B = 1
    <2>1. q = A
      BY <1>2, <1>7, <1>10
    <2>2. b = -1 => 2 * A # S
      BY <1>6 DEF Traps
    <2> QED BY <1>1, <1>2, <1>3, <1>4, <1>5, <1>6, <1>10, <2>1, <2>2
  <1>11. CASE B >= 2
    <2>1. q * B >= q * 2
      BY <1>2, <1>7, <1>9, <1>11
    <2>2. 2 * q =< A
      BY <1>7, <2>1, <1>2
    <2>3. 2 * q < S
      BY <1>4, <2>2, <1>2, <1>7
    <2> QED BY <1>1, <1>3, <1>7, <1>9, <2>3
  <1> QED BY <1>2, <1>10, <1>11

\* The detour by the remainder changes nothing.
LEMMA ByRemainderIsQuot ==
  ASSUME NEW a \in Int, NEW b \in Int, b # 0
  PROVE  ByRemainder(a, b) = Quot(a, b)
  <1> DEFINE q == Quot(a, b)
             c == b * q
             B == IF b < 0 THEN -b ELSE b
             Q == IF q < 0 THEN -q ELSE q
  <1>1. q \in Int
    BY QuotIsQuotient
  <1>2. a - Rem(a, b) = c
    BY <1>1 DEF Rem
  <1> HIDE DEF q
  <1>3. B \in Nat \ {0} /\ Q \in Nat
    BY <1>1
  <1>4. (IF c < 0 THEN -c ELSE c) = Q * B + 0
    BY <1>1
  <1>5. (IF c < 0 THEN -c ELSE c) \div B = Q
    <2>1. 0 \in 0 .. B - 1
      BY <1>3
    <2> HIDE DEF B, Q
    <2> QED BY <1>3, <1>4, <2>1, RemainderUnique
  <1>6. Quot(c, b) = IF (c < 0) = (b < 0) THEN Q ELSE -Q
    BY <1>5 DEF Quot
  <1>7. q = 0 \/ ((c < 0) = (b < 0)) = (q > 0)
    BY <1>1
  <1>8. Quot(c, b) = q
    BY <1>1, <1>6, <1>7
  <1> QED BY <1>2, <1>8 DEF ByRemainder, q

-----------------------------------------------------------------------------
(***************************************************************************)
(* Registers and the operands of an instruction.                           *)
(***************************************************************************)
\* The arithmetic of doubles yields bit patterns, which are numbers.
DoublesAreNumbers ==
  \A a, b \in 0 .. DWord - 1 :
    AddDouble(a, b) \in Int /\ MulDouble(a, b) \in Int /\ DoubleToInt(a) \in Int

LEMMA IntOfRegister ==
  ASSUME TypeOK, NEW r \in Reg
  PROVE  /\ regs[r] \in 0 .. Word - 1
         /\ int(r) \in Int /\ -Word =< 2 * int(r) /\ 2 * int(r) < Word
  <1>1. regs[r] \in 0 .. Word - 1
    BY DEF TypeOK
  <1> QED BY <1>1, Sizes, SignedRange DEF int

LEMMA LongOfPair ==
  ASSUME TypeOK, NEW r \in Reg, r + 1 \in Reg
  PROVE  /\ pair(r) \in 0 .. DWord - 1
         /\ long(r) \in Int /\ -DWord =< 2 * long(r) /\ 2 * long(r) < DWord
  <1>1. regs[r] \in 0 .. Word - 1 /\ regs[r + 1] \in 0 .. Word - 1
    BY DEF TypeOK
  <1>2. pair(r) \in 0 .. DWord - 1
    BY <1>1, Sizes, PairOfWords DEF pair
  <1> QED BY <1>2, Sizes, SignedRange DEF long

LEMMA Operands ==
  ASSUME TypeOK, k =< Len(program)
  PROVE  /\ k \in 1 .. Len(program) /\ i \in Fields /\ Verified(i)
         /\ vx \in Reg /\ vy \in Reg /\ vz \in Reg /\ i.lit \in Int
         /\ int(vx) \in Int /\ int(vy) \in Int /\ int(vz) \in Int
         /\ i.op \in WideX => vx + 1 \in Reg /\ pair(vx) \in 0 .. DWord - 1 /\ long(vx) \in Int
         /\ i.op \in WideY => vy + 1 \in Reg /\ pair(vy) \in 0 .. DWord - 1 /\ long(vy) \in Int
         /\ i.op \in WideZ => vz + 1 \in Reg /\ pair(vz) \in 0 .. DWord - 1 /\ long(vz) \in Int
  <1>1. k \in 1 .. Len(program)
    BY DEF TypeOK
  <1>2. program[k] \in Instr
    BY <1>1 DEF TypeOK
  <1>3. i \in Fields /\ Verified(i)
    BY <1>2 DEF i, Instr
  <1>4. vx \in Reg /\ vy \in Reg /\ vz \in Reg /\ i.lit \in Int
    BY <1>3 DEF Fields, vx, vy, vz
  <1>5. /\ i.op \in WideX => vx + 1 \in Reg
        /\ i.op \in WideY => vy + 1 \in Reg
        /\ i.op \in WideZ => vz + 1 \in Reg
    BY <1>3 DEF Verified, vx, vy, vz
  <1> QED BY <1>1, <1>3, <1>4, <1>5, IntOfRegister, LongOfPair

\* The words that SetInt and SetLong store.
LEMMA Stored ==
  /\ \A v \in Int : v % Word \in 0 .. Word - 1
  /\ \A v \in Int : (v % DWord) \div Word \in 0 .. Word - 1
  BY Sizes, Remainder, Halves

\* The next instruction is one that stores at vx, or at vx and vx + 1.
Stores(v) == regs' = [regs EXCEPT ![vx] = v]
Advances ==
  /\ k =< Len(program) /\ k' = k + 1 /\ pc' \in Int
  /\ UNCHANGED <<program, result, mode>>

LEMMA OpAdvances ==
  ASSUME TypeOK, NEW op, NEW bytes \in Int, Op(op, bytes)
  PROVE  Advances
  BY DEF Op, At, Advances, TypeOK

LEMMA AdvanceKeeps ==
  ASSUME TypeOK, Advances, regs' \in [Reg -> 0 .. Word - 1]
  PROVE  TypeOK'
  BY Operands DEF TypeOK, Advances

-----------------------------------------------------------------------------
(***************************************************************************)
(* Each handler keeps the types.                                           *)
(***************************************************************************)
IntOps ==
  \/ op_move \/ op_move_result \/ op_move_result_object \/ op_const_4 \/ op_const_16
  \/ op_add_int \/ op_sub_int \/ op_mul_int \/ op_add_int_2addr \/ op_sub_int_2addr
  \/ op_add_int_lit8 \/ op_sub_int_lit8 \/ op_mul_int_lit8 \/ op_mul_long_2addr
  \/ op_div_int \/ op_div_int_lit8
  \/ op_long_to_int \/ op_int_to_char \/ op_double_to_int \/ op_cmp_long

LongOps ==
  \/ op_add_long \/ op_sub_long \/ op_mul_long
  \/ op_add_long_2addr \/ op_sub_long_2addr
  \/ op_add_double_2addr \/ op_mul_double_2addr
  \/ op_div_long \/ op_int_to_long

PairOps ==
  \/ op_move_result_wide \/ op_const_wide_16 \/ op_const_wide_32 \/ op_const_wide_high16

BranchOps == op_if \/ op_goto \/ op_packed_switch

LEMMA NextIsGroups == Next <=> IntOps \/ LongOps \/ PairOps \/ BranchOps \/ trap \/ Halted
  BY Zenon DEF Next, IntOps, LongOps, PairOps, BranchOps

LEMMA IntOpKeeps ==
  ASSUME TypeOK, DoublesAreNumbers, IntOps
  PROVE  TypeOK'
  <1> DEFINE Words == 0 .. Word - 1
  <1> HIDE DEF Words
  <1>1. /\ regs \in [Reg -> Words] /\ \A v \in Int : v % Word \in Words
        /\ result.bottom \in Int
    BY Stored, Sizes DEF TypeOK, Words
  <1>2. CASE op_move \/ op_int_to_char
    <2>1. Advances
      BY <1>2, OpAdvances DEF op_move, op_int_to_char
    <2>2. regs[vy] \in Int /\ regs[vy] % Byte \in Int
      BY <1>2, <2>1, Operands, IntOfRegister, Sizes DEF Advances
    <2>3. regs' \in [Reg -> Words]
      BY <1>1, <1>2, <2>2 DEF op_move, op_int_to_char, SetInt
    <2> QED BY <2>1, <2>3, AdvanceKeeps DEF Words
  <1>3. CASE op_move_result \/ op_move_result_object
    <2>1. Advances
      BY <1>3, OpAdvances DEF op_move_result, op_move_result_object
    <2>2. vx \in Reg
      BY <1>3, <2>1, Operands DEF Advances
    <2>3. regs' \in [Reg -> Words]
      BY <1>1, <1>3, <2>2 DEF op_move_result, op_move_result_object, SetInt
    <2> QED BY <2>1, <2>3, AdvanceKeeps DEF Words
  <1>4. CASE op_const_4 \/ op_const_16
    <2>1. Advances
      BY <1>4, OpAdvances DEF op_const_4, op_const_16
    <2>2. i.lit \in Int /\ Signed(i.lit, HalfByte) \in Int
      BY <1>4, <2>1, Operands, DataAssumption DEF Advances, Signed
    <2>3. regs' \in [Reg -> Words]
      BY <1>1, <1>4, <2>2 DEF op_const_4, op_const_16, SetInt
    <2> QED BY <2>1, <2>3, AdvanceKeeps DEF Words
  <1>5. CASE op_add_int \/ op_sub_int \/ op_mul_int \/ op_add_int_2addr \/
           op_sub_int_2addr \/ op_add_int_lit8 \/ op_sub_int_lit8 \/ op_mul_int_lit8
    <2>1. Advances
      BY <1>5, OpAdvances DEF op_add_int, op_sub_int, op_mul_int, op_add_int_2addr,
        op_sub_int_2addr, op_add_int_lit8, op_sub_int_lit8, op_mul_int_lit8
    <2>2. int(vx) \in Int /\ int(vy) \in Int /\ int(vz) \in Int /\ i.lit \in Int
      BY <1>5, <2>1, Operands DEF Advances
    <2>3. regs' \in [Reg -> Words]
      BY <1>1, <1>5, <2>2 DEF op_add_int, op_sub_int, op_mul_int, op_add_int_2addr,
        op_sub_int_2addr, op_add_int_lit8, op_sub_int_lit8, op_mul_int_lit8, SetInt
    <2> QED BY <2>1, <2>3, AdvanceKeeps DEF Words
  <1>6. CASE op_div_int \/ op_div_int_lit8
    <2>1. Advances
      BY <1>6, OpAdvances DEF op_div_int, op_div_int_lit8
    <2>2. int(vy) \in Int /\ int(vz) \in Int /\ i.lit \in Int
      BY <2>1, Operands DEF Advances
    <2>3. \A b \in Int : ~ Traps(int(vy), b, Word) => ByRemainder(int(vy), b) \in Int
      BY <2>2, QuotIsQuotient, ByRemainderIsQuot DEF Traps
    <2>4. regs' \in [Reg -> Words]
      BY <1>1, <1>6, <2>2, <2>3 DEF op_div_int, op_div_int_lit8, SetInt
    <2> QED BY <2>1, <2>4, AdvanceKeeps DEF Words
  <1>7. CASE op_mul_long_2addr \/ op_long_to_int \/ op_cmp_long
    <2>1. Advances
      BY <1>7, OpAdvances DEF op_mul_long_2addr, op_long_to_int, op_cmp_long
    <2>2. long(vy) \in Int /\ (op_mul_long_2addr => long(vx) \in Int)
      BY <1>7, <2>1, Operands DEF Advances, WideX, WideY, Op, At, op_mul_long_2addr,
        op_long_to_int, op_cmp_long
    <2>3. regs' \in [Reg -> Words]
      BY <1>1, <1>7, <2>2 DEF op_mul_long_2addr, op_long_to_int, op_cmp_long, SetInt
    <2> QED BY <2>1, <2>3, AdvanceKeeps DEF Words
  <1>8. CASE op_double_to_int
    <2>1. Advances
      BY <1>8, OpAdvances DEF op_double_to_int
    <2>2. DoubleToInt(pair(vy)) \in Int
      BY <1>8, <2>1, Operands, DoublesAreNumbers, Sizes DEF Advances, DoublesAreNumbers,
        WideY, Op, At, op_double_to_int
    <2>3. regs' \in [Reg -> Words]
      BY <1>1, <1>8, <2>2 DEF op_double_to_int, SetInt
    <2> QED BY <2>1, <2>3, AdvanceKeeps DEF Words
  <1> QED BY <1>2, <1>3, <1>4, <1>5, <1>6, <1>7, <1>8 DEF IntOps

LEMMA LongOpKeeps ==
  ASSUME TypeOK, DoublesAreNumbers, LongOps
  PROVE  TypeOK'
  <1> DEFINE Words == 0 .. Word - 1
  <1> HIDE DEF Words
  <1>1. /\ regs \in [Reg -> Words]
        /\ \A v \in Int : v % Word \in Words /\ (v % DWord) \div Word \in Words
    BY Stored DEF TypeOK, Words
  <1>2. CASE op_add_long \/ op_sub_long \/ op_mul_long
    <2>1. Advances
      BY <1>2, OpAdvances DEF op_add_long, op_sub_long, op_mul_long
    <2>2. long(vy) \in Int /\ long(vz) \in Int
      BY <1>2, <2>1, Operands DEF Advances, WideY, WideZ, Op, At, op_add_long,
        op_sub_long, op_mul_long
    <2>3. regs' \in [Reg -> Words]
      BY <1>1, <1>2, <2>2 DEF op_add_long, op_sub_long, op_mul_long, SetLong, SetPair
    <2> QED BY <2>1, <2>3, AdvanceKeeps DEF Words
  <1>3. CASE op_add_long_2addr \/ op_sub_long_2addr
    <2>1. Advances
      BY <1>3, OpAdvances DEF op_add_long_2addr, op_sub_long_2addr
    <2>2. long(vx) \in Int /\ long(vy) \in Int
      BY <1>3, <2>1, Operands DEF Advances, WideX, WideY, Op, At, op_add_long_2addr,
        op_sub_long_2addr
    <2>3. regs' \in [Reg -> Words]
      BY <1>1, <1>3, <2>2 DEF op_add_long_2addr, op_sub_long_2addr, SetLong, SetPair
    <2> QED BY <2>1, <2>3, AdvanceKeeps DEF Words
  <1>4. CASE op_add_double_2addr \/ op_mul_double_2addr
    <2>1. Advances
      BY <1>4, OpAdvances DEF op_add_double_2addr, op_mul_double_2addr
    <2>2. AddDouble(pair(vx), pair(vy)) \in Int /\ MulDouble(pair(vx), pair(vy)) \in Int
      BY <1>4, <2>1, Operands, DoublesAreNumbers DEF Advances, DoublesAreNumbers, WideX,
        WideY, Op, At, op_add_double_2addr, op_mul_double_2addr
    <2>3. regs' \in [Reg -> Words]
      BY <1>1, <1>4, <2>2 DEF op_add_double_2addr, op_mul_double_2addr, SetLong, SetPair
    <2> QED BY <2>1, <2>3, AdvanceKeeps DEF Words
  <1>5. CASE op_div_long
    <2>1. Advances
      BY <1>5, OpAdvances DEF op_div_long
    <2>2. Quot(long(vy), long(vz)) \in Int
      BY <1>5, <2>1, Operands, QuotIsQuotient DEF Advances, WideY, WideZ, Traps, Op, At,
        op_div_long
    <2>3. regs' \in [Reg -> Words]
      BY <1>1, <1>5, <2>2 DEF op_div_long, SetLong, SetPair
    <2> QED BY <2>1, <2>3, AdvanceKeeps DEF Words
  <1>6. CASE op_int_to_long
    <2>1. Advances
      BY <1>6, OpAdvances DEF op_int_to_long
    <2>2. int(vy) \in Int
      BY <1>6, <2>1, Operands DEF Advances
    <2>3. regs' \in [Reg -> Words]
      BY <1>1, <1>6, <2>2 DEF op_int_to_long, SetLong, SetPair
    <2> QED BY <2>1, <2>3, AdvanceKeeps DEF Words
  <1> QED BY <1>2, <1>3, <1>4, <1>5, <1>6 DEF LongOps

LEMMA PairOpKeeps ==
  ASSUME TypeOK, PairOps
  PROVE  TypeOK'
  <1>1. Advances
    BY OpAdvances DEF PairOps, op_move_result_wide, op_const_wide_16, op_const_wide_32,
      op_const_wide_high16
  <1>2. Verified(i) /\ (PairOps => i.op # "packed-switch" \/ op_move_result_wide)
    BY <1>1, Operands DEF Advances, PairOps, Op, At, op_const_wide_16, op_const_wide_32,
      op_const_wide_high16
  <1>3. \E hi, lo \in 0 .. Word - 1 : regs' = [regs EXCEPT ![vx] = hi, ![vx + 1] = lo]
    <2>1. CASE op_move_result_wide
      BY <2>1 DEF TypeOK, op_move_result_wide, SetPair
    <2>2. CASE op_const_wide_16 \/ op_const_wide_32
      <3>1. i.lit \in 0 .. Word - 1
        BY <1>2, <2>2 DEF Verified, op_const_wide_16, op_const_wide_32, Op, At
      <3>2. 0 \in 0 .. Word - 1
        BY Sizes
      <3> QED BY <2>2, <3>1, <3>2 DEF op_const_wide_16, op_const_wide_32, SetPair
    <2>3. CASE op_const_wide_high16
      <3>1. i.lit \in 0 .. Word - 1
        BY <1>2, <2>3 DEF Verified, op_const_wide_high16, Op, At
      <3>2. \A junk \in Garbage : junk \in 0 .. Word - 1
        BY DataAssumption
      <3> QED BY <2>3, <3>1, <3>2 DEF op_const_wide_high16, SetPair
    <2> QED BY <2>1, <2>2, <2>3 DEF PairOps
  <1>4. regs' \in [Reg -> 0 .. Word - 1]
    BY <1>3 DEF TypeOK
  <1> QED BY <1>1, <1>4, AdvanceKeeps

-----------------------------------------------------------------------------
(***************************************************************************)
(* The branches.                                                           *)
(***************************************************************************)
\* The offset that the handler puts together for a key.
Assembled(key) == Signed(i.units[key + 1] * Short + i.units[key + 2], Word)

LEMMA AssembledIsInt ==
  ASSUME TypeOK, k =< Len(program), i.op = "packed-switch", NEW key \in Int,
         key >= 0, 2 * key < Len(i.units)
  PROVE  Assembled(key) \in Int
  <1>1. i.units \in Seq(0 .. Short - 1) /\ Len(i.units) % 2 = 0
    BY Operands DEF Fields, Verified
  <1>2. Len(i.units) \in Nat
    BY <1>1, LenProperties
  <1>3. key + 2 =< Len(i.units)
    <2>1. \A n \in Nat : n % 2 = 0 /\ 2 * key < n => key + 2 =< n
      OBVIOUS
    <2> QED BY <1>1, <1>2, <2>1
  <1> DEFINE hi == i.units[key + 1]
             lo == i.units[key + 2]
  <1>4. hi \in 0 .. Short - 1 /\ lo \in 0 .. Short - 1
    <2>1. key + 1 \in 1 .. Len(i.units) /\ key + 2 \in 1 .. Len(i.units)
      BY <1>2, <1>3
    <2> QED BY <1>1, <2>1, ElementOfSeq
  <1> HIDE DEF hi, lo
  <1>5. hi * Short + lo \in Int
    BY <1>4, Sizes
  <1>6. Signed(hi * Short + lo, Word) \in Int
    BY <1>5, Sizes DEF Signed
  <1> QED BY <1>6 DEF Assembled, hi, lo

\* A branch that is taken goes to an offset that is a number.
LEMMA BranchGoes ==
  ASSUME TypeOK, BranchOps
  PROVE  /\ k =< Len(program)
         /\ UNCHANGED <<program, result, mode, regs>>
         /\ k' = Len(program) + 1
         /\ pc' \in Int
  <1>1. k =< Len(program)
    BY DEF BranchOps, op_if, Branch, op_goto, op_packed_switch, At
  <1>2. pc \in Int /\ i.lit \in Int /\ int(vx) \in Int
    BY <1>1, Operands DEF TypeOK
  <1>3. CASE op_if
    BY <1>1, <1>2, <1>3 DEF op_if, Branch, Goes, At
  <1>4. CASE op_goto
    BY <1>1, <1>2, <1>4, Sizes DEF op_goto, Goes, At, Signed
  <1>5. CASE op_packed_switch
    <2> DEFINE key == int(vx) - i.lit
    <2>1. key \in Int /\ i.op = "packed-switch"
      BY <1>2, <1>5 DEF op_packed_switch, At
    <2>2. key >= 0 /\ 2 * key < Len(i.units) => Assembled(key) \in Int
      BY <1>1, <2>1, AssembledIsInt
    <2>3. \/ key >= 0 /\ 2 * key < Len(i.units) /\ Goes(2 * Assembled(key))
          \/ Goes(6)
      BY <1>5 DEF op_packed_switch, Assembled
    <2> QED BY <1>1, <1>2, <1>5, <2>2, <2>3 DEF op_packed_switch, At, Goes
  <1> QED BY <1>3, <1>4, <1>5 DEF BranchOps

LEMMA BranchOpKeeps ==
  ASSUME TypeOK, BranchOps
  PROVE  TypeOK'
  BY BranchGoes, LenProperties DEF TypeOK

-----------------------------------------------------------------------------
LEMMA InitTypeOK == Init => TypeOK
  BY DataAssumption DEF Init, TypeOK

LEMMA NextTypeOK ==
  ASSUME TypeOK, DoublesAreNumbers, [Next]_vars
  PROVE  TypeOK'
  <1>1. CASE trap
    BY <1>1 DEF trap, TypeOK
  <1>2. CASE Halted \/ UNCHANGED vars
    BY <1>2 DEF Halted, vars, TypeOK
  <1> QED BY <1>1, <1>2, NextIsGroups, IntOpKeeps, LongOpKeeps, PairOpKeeps, BranchOpKeeps

\* Registers and results hold words, whatever the handlers compute.
THEOREM DataTypeOK ==
  ASSUME DoublesAreNumbers
  PROVE  Spec => []TypeOK
  BY InitTypeOK, NextTypeOK, PTL DEF Spec

-----------------------------------------------------------------------------
(***************************************************************************)
(* The tests.                                                              *)
(***************************************************************************)
\* The sign of an int is that of its word.
LEMMA SignOfInt ==
  ASSUME TypeOK, NEW r \in Reg
  PROVE  /\ int(r) = 0 <=> regs[r] = 0
         /\ int(r) > 0 <=> regs[r] # 0 /\ 2 * regs[r] < Word
  <1>1. regs[r] \in 0 .. Word - 1 /\ Word \in Nat \ {0}
    BY IntOfRegister, Sizes
  <1> QED BY <1>1 DEF int, Signed

LEMMA TypedTestsOrderInts == TypeOK => TestsOrderInts
  <1> SUFFICES ASSUME TypeOK, NEW r \in 0 .. Nibble - 1, NEW s \in 0 .. Nibble - 1
               PROVE  /\ if_lt(r, s) \/ if_eq(r, s) \/ if_gt(r, s)
                      /\ if_lt(r, s) => ~ if_eq(r, s) /\ if_gt(s, r) /\ ~ if_lt(s, r)
                      /\ if_ge(r, s) = ~ if_lt(r, s) /\ if_le(r, s) = ~ if_gt(r, s)
                      /\ if_ne(r, s) = ~ if_eq(r, s)
                      /\ regs[s] = 0 =>
                           /\ if_eqz(r) = if_eq(r, s) /\ if_nez(r) = if_ne(r, s)
                           /\ if_ltz(r) = if_lt(r, s) /\ if_gez(r) = if_ge(r, s)
                           /\ if_gtz(r) = if_gt(r, s) /\ if_lez(r) = if_le(r, s)
                           /\ if_gtz(r) = (regs[r] # 0 /\ 2 * regs[r] < Word)
    BY DEF TestsOrderInts
  <1>1. r \in Reg /\ s \in Reg /\ r % Nibble = r
    BY DataAssumption DEF Reg
  <1>2. int(r) \in Int /\ int(s) \in Int
    BY <1>1, IntOfRegister
  <1>3. /\ if_lt(r, s) \/ if_eq(r, s) \/ if_gt(r, s)
        /\ if_lt(r, s) => ~ if_eq(r, s) /\ if_gt(s, r) /\ ~ if_lt(s, r)
        /\ if_ge(r, s) = ~ if_lt(r, s) /\ if_le(r, s) = ~ if_gt(r, s)
        /\ if_ne(r, s) = ~ if_eq(r, s)
    BY <1>2 DEF if_lt, if_eq, if_gt, if_ge, if_le, if_ne
  <1>4. ASSUME regs[s] = 0
        PROVE  /\ if_eqz(r) = if_eq(r, s) /\ if_nez(r) = if_ne(r, s)
               /\ if_ltz(r) = if_lt(r, s) /\ if_gez(r) = if_ge(r, s)
               /\ if_gtz(r) = if_gt(r, s) /\ if_lez(r) = if_le(r, s)
               /\ if_gtz(r) = (regs[r] # 0 /\ 2 * regs[r] < Word)
    <2>1. int(s) = 0 /\ (int(r) > 0 <=> regs[r] # 0 /\ 2 * regs[r] < Word)
      BY <1>1, <1>4, SignOfInt
    <2> QED BY <1>1, <1>2, <2>1 DEF if_lt, if_eq, if_gt, if_ge, if_le, if_ne,
              if_eqz, if_nez, if_ltz, if_gez, if_gtz, if_lez
  <1> QED BY <1>3, <1>4

\* The tests order the ints as Java does, also the negative ones.
THEOREM IntTestsAgree ==
  ASSUME DoublesAreNumbers
  PROVE  Spec => []TestsOrderInts
  BY InitTypeOK, NextTypeOK, TypedTestsOrderInts, PTL DEF Spec

-----------------------------------------------------------------------------
(***************************************************************************)
(* The handler of a step.                                                  *)
(***************************************************************************)
\* A handler runs its own instruction.
LEMMA Handlers ==
  /\ op_move => i.op = "move"
  /\ op_move_result => i.op = "move-result"
  /\ op_move_result_object => i.op = "move-result-object"
  /\ op_move_result_wide => i.op = "move-result-wide"
  /\ op_const_4 => i.op = "const/4"
  /\ op_const_16 => i.op = "const/16"
  /\ op_const_wide_16 => i.op = "const-wide/16"
  /\ op_const_wide_32 => i.op = "const-wide/32"
  /\ op_const_wide_high16 => i.op = "const-wide/high16"
  /\ op_add_int => i.op = "add-int"
  /\ op_sub_int => i.op = "sub-int"
  /\ op_mul_int => i.op = "mul-int"
  /\ op_add_int_2addr => i.op = "add-int/2addr"
  /\ op_sub_int_2addr => i.op = "sub-int/2addr"
  /\ op_add_int_lit8 => i.op = "add-int/lit8"
  /\ op_sub_int_lit8 => i.op = "sub-int/lit8"
  /\ op_mul_int_lit8 => i.op = "mul-int/lit8"
  /\ op_add_long => i.op = "add-long"
  /\ op_sub_long => i.op = "sub-long"
  /\ op_mul_long => i.op = "mul-long"
  /\ op_add_long_2addr => i.op = "add-long/2addr"
  /\ op_sub_long_2addr => i.op = "sub-long/2addr"
  /\ op_mul_long_2addr => i.op = "mul-long/2addr"
  /\ op_add_double_2addr => i.op = "add-double/2addr"
  /\ op_mul_double_2addr => i.op = "mul-double/2addr"
  /\ op_div_int => i.op = "div-int"
  /\ op_div_int_lit8 => i.op = "div-int/lit8"
  /\ op_div_long => i.op = "div-long"
  /\ op_int_to_long => i.op = "int-to-long"
  /\ op_long_to_int => i.op = "long-to-int"
  /\ op_int_to_char => i.op = "int-to-char"
  /\ op_double_to_int => i.op = "double-to-int"
  /\ op_cmp_long => i.op = "cmp-long"
  /\ op_goto => i.op = "goto"
  /\ op_packed_switch => i.op = "packed-switch"
  /\ op_if => i.op \in IfOps
  BY DEF op_move, op_move_result, op_move_result_object, op_move_result_wide,
     op_const_4, op_const_16, op_const_wide_16, op_const_wide_32, op_const_wide_high16,
     op_add_int, op_sub_int, op_mul_int, op_add_int_2addr, op_sub_int_2addr,
     op_add_int_lit8, op_sub_int_lit8, op_mul_int_lit8, op_add_long, op_sub_long,
     op_mul_long, op_add_long_2addr, op_sub_long_2addr, op_mul_long_2addr,
     op_add_double_2addr, op_mul_double_2addr, op_div_int, op_div_int_lit8, op_div_long,
     op_int_to_long, op_long_to_int, op_int_to_char, op_double_to_int, op_cmp_long,
     op_goto, op_packed_switch, op_if, Branch, Op, At, IfOps

LEMMA HandlerInside ==
  ASSUME Next, vars' # vars
  PROVE  k =< Len(program)
  <1>1. trap => k =< Len(program)
    BY DEF trap
  <1>2. ~ Halted
    BY DEF Halted
  <1> QED BY <1>1, <1>2 DEF Next, op_move, op_move_result, op_move_result_object,
      op_move_result_wide, op_const_4, op_const_16, op_const_wide_16, op_const_wide_32,
      op_const_wide_high16, op_add_int, op_sub_int, op_mul_int, op_add_int_2addr,
      op_sub_int_2addr, op_add_int_lit8, op_sub_int_lit8, op_mul_int_lit8, op_add_long,
      op_sub_long, op_mul_long, op_add_long_2addr, op_sub_long_2addr, op_mul_long_2addr,
      op_add_double_2addr, op_mul_double_2addr, op_div_int, op_div_int_lit8,
      op_div_long, op_int_to_long, op_long_to_int, op_int_to_char, op_double_to_int,
      op_cmp_long, op_goto, op_packed_switch, op_if, Branch, Op, At

\* The one that runs is told from the instruction.
LEMMA HandlerOf ==
  ASSUME Next, vars' # vars
  PROVE  /\ i.op = "move-result-wide" => op_move_result_wide
         /\ i.op = "add-long" => op_add_long
         /\ i.op = "sub-long" => op_sub_long
         /\ i.op = "mul-long" => op_mul_long
         /\ i.op = "add-long/2addr" => op_add_long_2addr
         /\ i.op = "sub-long/2addr" => op_sub_long_2addr
         /\ i.op = "div-int" => op_div_int \/ trap
         /\ i.op = "div-int/lit8" => op_div_int_lit8 \/ trap
         /\ i.op = "div-long" => op_div_long \/ trap
         /\ i.op = "int-to-long" => op_int_to_long
         /\ i.op = "goto" => op_goto
         /\ i.op = "packed-switch" => op_packed_switch
         /\ i.op \in IfOps => op_if
  <1>1. trap => i.op \in {"div-int", "div-int/lit8", "div-long"}
    BY DEF trap
  <1>2. ~ Halted
    BY DEF Halted
  <1> QED BY <1>1, <1>2, Handlers DEF Next, IfOps

-----------------------------------------------------------------------------
(***************************************************************************)
(* Where a packed-switch goes.                                             *)
(***************************************************************************)
LEMMA EvenHalf ==
  ASSUME NEW n \in Nat, n % 2 = 0, NEW x \in Int
  PROVE  x \in 0 .. n \div 2 - 1 <=> x >= 0 /\ 2 * x < n
  OBVIOUS

LEMMA ShortSize == Short >= 4 /\ Word = Short * Short
  <1>1. HalfByte \in Nat /\ HalfByte >= 2
    BY DataAssumption
  <1>2. Byte \in Nat /\ Byte >= 4
    <2>1. HalfByte * HalfByte >= 2 * HalfByte
      BY <1>1
    <2> QED BY <1>1, <2>1 DEF Byte
  <1>3. Byte * Byte >= 4 * Byte
    BY <1>2
  <1> QED BY <1>2, <1>3 DEF Short, Word

\* A near target has a high half of zero.
LEMMA NearHalves ==
  ASSUME NEW hi \in 0 .. Short - 1, NEW lo \in 0 .. Short - 1,
         Signed(hi * Short + lo, Word) \in 1 .. Short - 1
  PROVE  hi = 0 /\ lo \in 1 .. Short - 1
  <1>1. Short \in Nat /\ Short >= 4 /\ Word \in Nat /\ Word = Short * Short
    BY Sizes, ShortSize
  <1>2. hi >= 1 => hi * Short >= Short
    BY <1>1
  <1>3. hi * Short + lo < Word
    <2>1. hi * Short <= (Short - 1) * Short
      BY <1>1
    <2> QED BY <1>1, <2>1
  <1>4. hi = 0
    <2> DEFINE u == hi * Short
    <2>1. u \in Int
      BY <1>1
    <2> HIDE DEF u
    <2>2. Signed(u + lo, Word) \in {u + lo, u + lo - Word}
      BY <1>1, <2>1 DEF Signed
    <2>3. Signed(u + lo, Word) \in 1 .. Short - 1
      BY DEF u
    <2>4. hi >= 1 => u >= Short
      BY <1>2 DEF u
    <2>5. u + lo < Word
      BY <1>3 DEF u
    <2> QED BY <1>1, <2>1, <2>2, <2>3, <2>4, <2>5
  <1>5. hi * Short = 0
    BY <1>1, <1>4
  <1>6. Signed(lo, Word) \in 1 .. Short - 1
    BY <1>1, <1>5
  <1> QED BY <1>1, <1>4, <1>6 DEF Signed

\* A number of which the low half is zero is no near target.
LEMMA FarHalves ==
  ASSUME NEW hi \in 1 .. Short - 1
  PROVE  Signed(hi * Short + 0, Word) \notin 1 .. Short - 1
  <1>1. Short \in Nat /\ Short >= 4 /\ Word \in Nat /\ Word = Short * Short
    BY Sizes, ShortSize
  <1> DEFINE u == hi * Short
  <1>2. u \in Int /\ u >= Short
    BY <1>1
  <1>3. u < Word
    <2>1. hi * Short <= (Short - 1) * Short
      BY <1>1
    <2> QED BY <1>1, <2>1
  <1> HIDE DEF u
  <1>4. Signed(u + 0, Word) \in {u, u - Word}
    BY <1>2 DEF Signed
  <1>5. Signed(u + 0, Word) \notin 1 .. Short - 1
    BY <1>1, <1>2, <1>3, <1>4
  <1> QED BY <1>5 DEF u

\* Of a packed-switch with near targets the odd keys 1, 3, 5, .. go to the
\* targets of 1, 2, 3, .., and the even keys to no target of the switch; an int
\* without a key goes on behind the instruction.
THEOREM SwitchesGoToTheirTargets ==
  ASSUME DoublesAreNumbers
  PROVE  Spec => SwitchTargets
  <1> DEFINE key == int(vx) - i.lit
             SwitchStep ==
               /\ key \notin Keys => pc' = pc + 6
               /\ NearTargets /\ key \in Keys =>
                    IF key % 2 = 1 THEN pc' = pc + 2 * Target((key + 1) \div 2)
                    ELSE \A other \in Keys : pc' # pc + 2 * Target(other)
  <1>1. ASSUME TypeOK, Next, vars' # vars, k <= Len(program), i.op = "packed-switch"
        PROVE  SwitchStep
    <2> DEFINE n == Len(i.units)
               unit(j) == i.units[j]
    <2>1. /\ int(vx) \in Int /\ i.lit \in Int /\ i.units \in Seq(0 .. Short - 1)
          /\ n % 2 = 0 /\ pc \in Int
      BY <1>1, Operands DEF Fields, Verified, TypeOK
    <2>2. n \in Nat /\ key \in Int
      BY <2>1, LenProperties
    <2>3. \A j \in Int : j \in Keys <=> j >= 0 /\ 2 * j < n
      BY <2>1, <2>2, EvenHalf DEF Keys
    <2>4. /\ key \in Keys => pc' = pc + 2 * Assembled(key)
          /\ key \notin Keys => pc' = pc + 6
      <3>1. op_packed_switch
        BY <1>1, HandlerOf
      <3>2. key \in Keys <=> key >= 0 /\ 2 * key < n
        BY <2>2, <2>3
      <3> QED BY <3>1, <3>2 DEF op_packed_switch, Goes, Assembled
    <2>5. ASSUME NearTargets, NEW j \in Keys
          PROVE  unit(2 * j + 2) = 0 /\ unit(2 * j + 1) \in 1 .. Short - 1
      <3>1. j \in Int /\ j >= 0 /\ 2 * j < n
        <4>1. j \in Int
          BY DEF Keys
        <4> QED BY <2>3, <4>1
      <3>2. 2 * j + 1 \in 1 .. n /\ 2 * j + 2 \in 1 .. n
        <4>1. \A m \in Nat, x \in Int : x >= 0 /\ m % 2 = 0 /\ 2 * x < m =>
                2 * x + 1 \in 1 .. m /\ 2 * x + 2 \in 1 .. m
          OBVIOUS
        <4> HIDE DEF n
        <4> QED BY <2>1, <2>2, <3>1, <4>1
      <3>3. unit(2 * j + 1) \in 0 .. Short - 1 /\ unit(2 * j + 2) \in 0 .. Short - 1
        BY <2>1, <3>2, ElementOfSeq
      <3>4. Signed(unit(2 * j + 2) * Short + unit(2 * j + 1), Word) \in 1 .. Short - 1
        BY <2>5 DEF NearTargets, Target
      <3> HIDE DEF unit
      <3> QED BY <3>3, <3>4, NearHalves
    <2> HIDE DEF n
    <2>6. ASSUME NearTargets, key \in Keys, key % 2 = 1
          PROVE  pc' = pc + 2 * Target((key + 1) \div 2)
      <3>1. PICK j \in Int : key = 2 * j + 1
        BY <2>2, <2>6
      <3>2. j \in Keys /\ j + 1 \in Keys /\ (key + 1) \div 2 = j + 1
        <4>1. key >= 0 /\ 2 * key < n
          BY <2>2, <2>3, <2>6
        <4>2. j >= 0 /\ 2 * j < n /\ 2 * (j + 1) < n
          BY <2>1, <2>2, <3>1, <4>1 DEF n
        <4> HIDE DEF key
        <4> QED BY <2>3, <3>1, <4>2
      <3>3. unit(2 * j + 2) = 0 /\ unit(2 * (j + 1) + 2) = 0
        BY <2>5, <2>6, <3>2
      <3>4. key + 1 = 2 * j + 2 /\ key + 2 = 2 * (j + 1) + 1
        BY <3>1
      <3>5. Assembled(key) = Target(j + 1)
        BY <3>3, <3>4 DEF Assembled, Target
      <3> QED BY <2>4, <2>6, <3>2, <3>5
    <2>7. ASSUME NearTargets, key \in Keys, key % 2 # 1, NEW other \in Keys
          PROVE  pc' # pc + 2 * Target(other)
      <3>1. PICK j \in Int : key = 2 * j
        BY <2>2, <2>7
      <3>2. j \in Keys
        <4>1. key >= 0 /\ 2 * key < n
          BY <2>2, <2>3, <2>7
        <4>2. j >= 0 /\ 2 * j < n
          BY <2>2, <3>1, <4>1
        <4> QED BY <2>3, <4>2
      <3>3. unit(2 * j + 1) \in 1 .. Short - 1 /\ unit(2 * j + 2) = 0
        BY <2>5, <2>7, <3>2
      <3>4. key + 1 = 2 * j + 1 /\ key + 2 = 2 * j + 2
        BY <3>1
      <3>5. Assembled(key) = Signed(unit(2 * j + 1) * Short + 0, Word)
        BY <3>3, <3>4 DEF Assembled
      <3>6. Assembled(key) \notin 1 .. Short - 1
        <4> HIDE DEF unit
        <4> QED BY <3>3, <3>5, FarHalves
      <3>7. Assembled(key) \in Int
        BY <1>1, <2>2, <2>3, <2>7, AssembledIsInt DEF n
      <3>8. Target(other) \in 1 .. Short - 1 /\ Target(other) \in Int
        BY <2>7 DEF NearTargets
      <3>9. pc' = pc + 2 * Assembled(key)
        BY <2>4, <2>7
      <3> DEFINE a == Assembled(key)
                 t == Target(other)
      <3>10. a \in Int /\ t \in Int /\ a # t /\ pc' = pc + 2 * a
        BY <3>6, <3>7, <3>8, <3>9
      <3> HIDE DEF a, t
      <3>11. pc' # pc + 2 * t
        BY <2>1, <3>10
      <3> QED BY <3>11 DEF t
    <2> HIDE DEF key
    <2> QED BY <2>4, <2>6, <2>7
  <1>2. ASSUME TypeOK, [Next]_vars
        PROVE  [k <= Len(program) /\ i.op = "packed-switch" => SwitchStep]_vars
    BY <1>1, <1>2
  <1> QED BY <1>2, InitTypeOK, NextTypeOK, PTL DEF Spec, SwitchTargets

-----------------------------------------------------------------------------
(***************************************************************************)
(* Long arithmetic.                                                        *)
(***************************************************************************)
LEMMA StoredLong ==
  ASSUME TypeOK, vx \in Reg, vx + 1 \in Reg, NEW v \in Int,
         regs' = [regs EXCEPT ![vx] = (v % DWord) \div Word, ![vx + 1] = v % Word]
  PROVE  /\ (Signed(regs'[vx] * Word + regs'[vx + 1], DWord) - v) % DWord = 0
         /\ \A r \in Reg \ {vx, vx + 1} : regs'[r] = regs[r]
  <1>1. vx \in Int /\ DOMAIN regs = Reg
    BY DataAssumption DEF Reg, TypeOK
  <1> HIDE DEF vx
  <1>2. /\ regs'[vx] = (v % DWord) \div Word
        /\ regs'[vx + 1] = v % Word
        /\ \A r \in Reg \ {vx, vx + 1} : regs'[r] = regs[r]
    BY <1>1
  <1>3. regs'[vx] * Word + regs'[vx + 1] = v % DWord
    BY <1>2, Sizes, Halves
  <1> QED BY <1>2, <1>3, Sizes, SignedCongruent

\* move-result-wide stores the two words as they are.
LEMMA StoredPair ==
  ASSUME TypeOK, vx \in Reg, vx + 1 \in Reg,
         NEW hi \in 0 .. Word - 1, NEW lo \in 0 .. Word - 1,
         regs' = [regs EXCEPT ![vx] = hi, ![vx + 1] = lo]
  PROVE  /\ (Signed(regs'[vx] * Word + regs'[vx + 1], DWord) - (hi * Word + lo)) % DWord = 0
         /\ \A r \in Reg \ {vx, vx + 1} : regs'[r] = regs[r]
  <1>1. vx \in Int /\ DOMAIN regs = Reg
    BY DataAssumption DEF Reg, TypeOK
  <1> HIDE DEF vx
  <1>2. /\ regs'[vx] = hi /\ regs'[vx + 1] = lo
        /\ \A r \in Reg \ {vx, vx + 1} : regs'[r] = regs[r]
    BY <1>1
  <1> DEFINE v == hi * Word + lo
  <1>3. v \in 0 .. DWord - 1
    BY Sizes, PairOfWords
  <1>4. regs'[vx] * Word + regs'[vx + 1] = v
    BY <1>2
  <1> HIDE DEF v
  <1>5. v % DWord = v
    BY <1>3, Sizes
  <1>6. (Signed(v, DWord) - v) % DWord = 0
    <2>1. v \in Int /\ DWord \in Nat \ {0}
      BY <1>3, Sizes
    <2>2. (Signed(v % DWord, DWord) - v) % DWord = 0
      BY <2>1, SignedCongruent
    <2> QED BY <1>5, <2>2
  <1> QED BY <1>2, <1>4, <1>6 DEF v

\* Long arithmetic is arithmetic modulo the size of a long, for all overlaps of
\* the pairs, and touches no other register.
THEOREM LongsAreExact ==
  ASSUME DoublesAreNumbers
  PROVE  Spec => LongArithmetic
  <1>1. ASSUME TypeOK, [Next]_vars
        PROVE  [/\ Computes({"add-long"}) => HoldsLong(long(vy) + long(vz))
                /\ Computes({"sub-long"}) => HoldsLong(long(vy) - long(vz))
                /\ Computes({"mul-long"}) => HoldsLong(long(vy) * long(vz))
                /\ Computes({"add-long/2addr"}) => HoldsLong(long(vx) + long(vy))
                /\ Computes({"sub-long/2addr"}) => HoldsLong(long(vx) - long(vy))
                /\ Computes({"int-to-long"}) => HoldsLong(int(vy))
                /\ Computes({"move-result-wide"}) =>
                     HoldsLong(result.bottom * Word + result.top)]_vars
    <2> SUFFICES ASSUME Next, vars' # vars
                 PROVE  /\ i.op = "add-long" => HoldsLong(long(vy) + long(vz))
                        /\ i.op = "sub-long" => HoldsLong(long(vy) - long(vz))
                        /\ i.op = "mul-long" => HoldsLong(long(vy) * long(vz))
                        /\ i.op = "add-long/2addr" => HoldsLong(long(vx) + long(vy))
                        /\ i.op = "sub-long/2addr" => HoldsLong(long(vx) - long(vy))
                        /\ i.op = "int-to-long" => HoldsLong(int(vy))
                        /\ i.op = "move-result-wide" =>
                             HoldsLong(result.bottom * Word + result.top)
      BY <1>1 DEF Computes
    <2>1. k =< Len(program)
      BY HandlerInside
    <2>2. ASSUME i.op \in {"add-long", "sub-long", "mul-long"}
          PROVE  long(vy) \in Int /\ long(vz) \in Int /\ vx \in Reg /\ vx + 1 \in Reg
      BY <1>1, <2>1, <2>2, Operands DEF WideX, WideY, WideZ
    <2>3. ASSUME i.op \in {"add-long/2addr", "sub-long/2addr"}
          PROVE  long(vx) \in Int /\ long(vy) \in Int /\ vx \in Reg /\ vx + 1 \in Reg
      BY <1>1, <2>1, <2>3, Operands DEF WideX, WideY
    <2>4. ASSUME i.op \in {"int-to-long", "move-result-wide"}
          PROVE  int(vy) \in Int /\ vx \in Reg /\ vx + 1 \in Reg
      BY <1>1, <2>1, <2>4, Operands DEF WideX
    <2>5. ASSUME NEW v \in Int, vx \in Reg, vx + 1 \in Reg,
                 regs' = [regs EXCEPT ![vx] = (v % DWord) \div Word, ![vx + 1] = v % Word]
          PROVE  HoldsLong(v)
      BY <1>1, <2>5, StoredLong DEF HoldsLong
    <2>6. ASSUME i.op = "add-long" PROVE HoldsLong(long(vy) + long(vz))
      <3>1. PICK v \in Int : v = long(vy) + long(vz)
        BY <2>2, <2>6
      <3>2. regs' = [regs EXCEPT ![vx] = (v % DWord) \div Word, ![vx + 1] = v % Word]
        BY <2>6, <3>1, HandlerOf DEF op_add_long, SetLong, SetPair
      <3> QED BY <2>2, <2>5, <2>6, <3>1, <3>2 DEF HoldsLong
    <2>7. ASSUME i.op = "sub-long" PROVE HoldsLong(long(vy) - long(vz))
      <3>1. PICK v \in Int : v = long(vy) - long(vz)
        BY <2>2, <2>7
      <3>2. regs' = [regs EXCEPT ![vx] = (v % DWord) \div Word, ![vx + 1] = v % Word]
        BY <2>7, <3>1, HandlerOf DEF op_sub_long, SetLong, SetPair
      <3> QED BY <2>2, <2>5, <2>7, <3>1, <3>2 DEF HoldsLong
    <2>8. ASSUME i.op = "mul-long" PROVE HoldsLong(long(vy) * long(vz))
      <3>1. PICK v \in Int : v = long(vy) * long(vz)
        BY <2>2, <2>8
      <3>2. regs' = [regs EXCEPT ![vx] = (v % DWord) \div Word, ![vx + 1] = v % Word]
        BY <2>8, <3>1, HandlerOf DEF op_mul_long, SetLong, SetPair
      <3> QED BY <2>2, <2>5, <2>8, <3>1, <3>2 DEF HoldsLong
    <2>9. ASSUME i.op = "add-long/2addr" PROVE HoldsLong(long(vx) + long(vy))
      <3>1. PICK v \in Int : v = long(vx) + long(vy)
        BY <2>3, <2>9
      <3>2. regs' = [regs EXCEPT ![vx] = (v % DWord) \div Word, ![vx + 1] = v % Word]
        BY <2>9, <3>1, HandlerOf DEF op_add_long_2addr, SetLong, SetPair
      <3> QED BY <2>3, <2>5, <2>9, <3>1, <3>2 DEF HoldsLong
    <2>10. ASSUME i.op = "sub-long/2addr" PROVE HoldsLong(long(vx) - long(vy))
      <3>1. PICK v \in Int : v = long(vx) - long(vy)
        BY <2>3, <2>10
      <3>2. regs' = [regs EXCEPT ![vx] = (v % DWord) \div Word, ![vx + 1] = v % Word]
        BY <2>10, <3>1, HandlerOf DEF op_sub_long_2addr, SetLong, SetPair
      <3> QED BY <2>3, <2>5, <2>10, <3>1, <3>2 DEF HoldsLong
    <2>11. ASSUME i.op = "int-to-long" PROVE HoldsLong(int(vy))
      <3>1. PICK v \in Int : v = int(vy)
        BY <2>4, <2>11
      <3>2. regs' = [regs EXCEPT ![vx] = (v % DWord) \div Word, ![vx + 1] = v % Word]
        BY <2>11, <3>1, HandlerOf DEF op_int_to_long, SetLong, SetPair
      <3> QED BY <2>4, <2>5, <2>11, <3>1, <3>2 DEF HoldsLong
    <2>12. ASSUME i.op = "move-result-wide"
           PROVE  HoldsLong(result.bottom * Word + result.top)
      <3>1. PICK hi \in 0 .. Word - 1, lo \in 0 .. Word - 1 :
              hi = result.bottom /\ lo = result.top
        BY <1>1 DEF TypeOK
      <3>2. regs' = [regs EXCEPT ![vx] = hi, ![vx + 1] = lo]
        BY <2>12, <3>1, HandlerOf DEF op_move_result_wide, SetPair
      <3> QED BY <1>1, <2>4, <2>12, <3>1, <3>2, StoredPair DEF HoldsLong
    <2> QED BY <2>6, <2>7, <2>8, <2>9, <2>10, <2>11, <2>12
  <1> QED BY <1>1, InitTypeOK, NextTypeOK, PTL DEF Spec, LongArithmetic

-----------------------------------------------------------------------------
(***************************************************************************)
(* Division.                                                               *)
(***************************************************************************)
\* Where the processor traps there is no quotient of that width.
LEMMA NoQuotient ==
  ASSUME NEW S \in Nat \ {0}, S % 2 = 0, NEW a \in Int, NEW b \in Int, Traps(a, b, S),
         NEW c \in -(S \div 2) .. (S \div 2) - 1
  PROVE  ~ IsQuotient(c, a, b)
  <1>1. c \in Int /\ 2 * c < S
    OBVIOUS
  <1>2. CASE b = 0
    BY <1>1, <1>2 DEF IsQuotient
  <1>3. CASE b = -1 /\ 2 * a = -S
    <2>1. a - c * b = a + c /\ a + c # 0
      BY <1>1, <1>3
    <2>2. IsQuotient(c, a, b) => a - c * b > -1 /\ a - c * b < 1
      <3>1. b < 0 /\ -b = 1
        <4>1. b + 1 = 0
          BY <1>3
        <4>2. \A n \in Int : n + 1 = 0 => n < 0 /\ -n = 1
          OBVIOUS
        <4> QED BY <4>1, <4>2
      <3> QED BY <3>1 DEF IsQuotient
    <2> QED BY <1>1, <2>1, <2>2
  <1> QED BY <1>2, <1>3 DEF Traps

\* What is read back of a quotient that was stored.
LEMMA QuotientReadBack ==
  ASSUME NEW S \in Nat \ {0}, NEW a \in Int, NEW b \in Int,
         -S =< 2 * a, 2 * a < S, ~ Traps(a, b, S)
  PROVE  IsQuotient(Signed(Quot(a, b) % S, S), a, b)
  <1>1. b # 0 /\ -S =< 2 * Quot(a, b) /\ 2 * Quot(a, b) < S
    BY QuotFits
  <1>2. Quot(a, b) \in Int /\ IsQuotient(Quot(a, b), a, b)
    BY <1>1, QuotIsQuotient
  <1>3. Signed(Quot(a, b) % S, S) = Quot(a, b)
    BY <1>1, <1>2, SignedInverse
  <1> QED BY <1>2, <1>3

LEMMA DivInt ==
  ASSUME TypeOK, DoublesAreNumbers, k =< Len(program),
         NEW b \in Int, ~ Traps(int(vy), b, Word),
         regs' = [regs EXCEPT ![vx] = ByRemainder(int(vy), b) % Word]
  PROVE  IsQuotient(Signed(regs'[vx], Word), int(vy), b)
  <1>1. vx \in Reg /\ vx \in DOMAIN regs
    BY Operands DEF TypeOK
  <1>2. int(vy) \in Int /\ -Word =< 2 * int(vy) /\ 2 * int(vy) < Word
    BY Operands, IntOfRegister
  <1>3. regs'[vx] = ByRemainder(int(vy), b) % Word
    BY <1>1
  <1>4. b # 0
    BY DEF Traps
  <1>5. regs'[vx] = Quot(int(vy), b) % Word
    BY <1>2, <1>3, <1>4, ByRemainderIsQuot
  <1> QED BY <1>2, <1>5, Sizes, QuotientReadBack

LEMMA DivLong ==
  ASSUME TypeOK, k =< Len(program), i.op = "div-long",
         ~ Traps(long(vy), long(vz), DWord),
         SetLong(Quot(long(vy), long(vz)))
  PROVE  IsQuotient(Signed(regs'[vx] * Word + regs'[vx + 1], DWord), long(vy), long(vz))
  <1>1. vx \in Reg /\ vx + 1 \in Reg /\ vy \in Reg /\ vy + 1 \in Reg /\ long(vz) \in Int
    BY Operands DEF WideX, WideY, WideZ
  <1>2. long(vy) \in Int /\ -DWord =< 2 * long(vy) /\ 2 * long(vy) < DWord
    BY <1>1, LongOfPair
  <1>3. PICK v \in Int : v = Quot(long(vy), long(vz))
    BY <1>1, <1>2, QuotIsQuotient DEF Traps
  <1>4. regs' = [regs EXCEPT ![vx] = (v % DWord) \div Word, ![vx + 1] = v % Word]
    BY <1>3 DEF SetLong, SetPair
  <1>5. vx # vx + 1 /\ DOMAIN regs = Reg
    BY <1>1, DataAssumption DEF Reg, TypeOK
  <1>6. regs'[vx] = (v % DWord) \div Word /\ regs'[vx + 1] = v % Word
    BY <1>1, <1>4, <1>5
  <1>7. regs'[vx] * Word + regs'[vx + 1] = v % DWord
    BY <1>6, Sizes, Halves
  <1> QED BY <1>1, <1>2, <1>3, <1>7, Sizes, QuotientReadBack

\* Division gives the quotient rounded towards zero wherever it has the width
\* of the operands, and the process survives exactly those.
THEOREM DivisionIsExact ==
  ASSUME DoublesAreNumbers
  PROVE  Spec => Division
  <1>1. ASSUME TypeOK, [Next]_vars
        PROVE  [k <= Len(program) /\ i.op \in {"div-int", "div-int/lit8", "div-long"} =>
                  LET wide == i.op = "div-long"
                      size == IF wide THEN DWord ELSE Word
                      a    == IF wide THEN long(vy) ELSE int(vy)
                      b    == CASE wide -> long(vz)
                                [] i.op = "div-int" -> int(vz)
                                [] OTHER -> i.lit
                      q    == IF wide THEN Signed(regs'[vx] * Word + regs'[vx + 1], DWord)
                              ELSE Signed(regs'[vx], Word)
                  IN  IF mode' = "run" THEN IsQuotient(q, a, b)
                      ELSE \A c \in -(size \div 2) .. (size \div 2) - 1 :
                             ~ IsQuotient(c, a, b)]_vars
    <2> SUFFICES ASSUME Next, vars' # vars, k <= Len(program),
                        i.op \in {"div-int", "div-int/lit8", "div-long"}
                 PROVE  LET wide == i.op = "div-long"
                            size == IF wide THEN DWord ELSE Word
                            a    == IF wide THEN long(vy) ELSE int(vy)
                            b    == CASE wide -> long(vz)
                                      [] i.op = "div-int" -> int(vz)
                                      [] OTHER -> i.lit
                            q    == IF wide THEN Signed(regs'[vx] * Word + regs'[vx + 1], DWord)
                                    ELSE Signed(regs'[vx], Word)
                        IN  IF mode' = "run" THEN IsQuotient(q, a, b)
                            ELSE \A c \in -(size \div 2) .. (size \div 2) - 1 :
                                   ~ IsQuotient(c, a, b)
      BY <1>1
    <2>1. /\ int(vy) \in Int /\ int(vz) \in Int /\ i.lit \in Int
          /\ i.op = "div-long" => long(vy) \in Int /\ long(vz) \in Int
      BY <1>1, Operands DEF WideY, WideZ
    <2>2. /\ Word \in Nat \ {0} /\ Word % 2 = 0
          /\ DWord \in Nat \ {0} /\ DWord % 2 = 0
      BY Sizes
    <2>3. CASE i.op = "div-int"
      <3>1. ASSUME op_div_int
            PROVE  mode' = "run" /\ IsQuotient(Signed(regs'[vx], Word), int(vy), int(vz))
        BY <1>1, <2>1, <3>1, DivInt DEF op_div_int, SetInt, Op, At
      <3>2. ASSUME trap
            PROVE  /\ mode' # "run"
                   /\ \A c \in -(Word \div 2) .. (Word \div 2) - 1 :
                        ~ IsQuotient(c, int(vy), int(vz))
        BY <2>1, <2>2, <2>3, <3>2, NoQuotient DEF trap
      <3> QED BY <2>3, <3>1, <3>2, HandlerOf
    <2>4. CASE i.op = "div-int/lit8"
      <3>1. ASSUME op_div_int_lit8
            PROVE  mode' = "run" /\ IsQuotient(Signed(regs'[vx], Word), int(vy), i.lit)
        BY <1>1, <2>1, <3>1, DivInt DEF op_div_int_lit8, SetInt, Op, At
      <3>2. ASSUME trap
            PROVE  /\ mode' # "run"
                   /\ \A c \in -(Word \div 2) .. (Word \div 2) - 1 :
                        ~ IsQuotient(c, int(vy), i.lit)
        BY <2>1, <2>2, <2>4, <3>2, NoQuotient DEF trap
      <3> QED BY <2>4, <3>1, <3>2, HandlerOf
    <2>5. CASE i.op = "div-long"
      <3>1. ASSUME op_div_long
            PROVE  /\ mode' = "run"
                   /\ IsQuotient(Signed(regs'[vx] * Word + regs'[vx + 1], DWord),
                                 long(vy), long(vz))
        BY <1>1, <2>5, <3>1, DivLong DEF op_div_long, Op, At
      <3>2. ASSUME trap
            PROVE  /\ mode' # "run"
                   /\ \A c \in -(DWord \div 2) .. (DWord \div 2) - 1 :
                        ~ IsQuotient(c, long(vy), long(vz))
        BY <2>1, <2>2, <2>5, <3>2, NoQuotient DEF trap
      <3> QED BY <2>5, <3>1, <3>2, HandlerOf
    <2> QED BY <2>3, <2>4, <2>5
  <1> QED BY <1>1, InitTypeOK, NextTypeOK, PTL DEF Spec, Division
=============================================================================
