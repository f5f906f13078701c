----------------------------- MODULE MCDvmData -----------------------------
(***************************************************************************)
(* Instances of DvmData with bytes of two bits: ints have 8 bits and longs *)
(* 16.  Every handler runs on all combinations of a few words, with all    *)
(* ways in which its operands may overlap.                                 *)
(***************************************************************************)
EXTENDS DvmData, FiniteSets

In(op, x, y, z, l) == [op |-> op, vx |-> x, vy |-> y, vz |-> z, lit |-> l, units |-> <<>>]

Three == {"add-int", "sub-int", "mul-int", "div-int"}
ThreeLong == {"add-long", "sub-long", "mul-long", "div-long", "cmp-long"}
TwoLong == {"add-long/2addr", "sub-long/2addr", "mul-long/2addr",
            "add-double/2addr", "mul-double/2addr", "int-to-long", "long-to-int",
            "double-to-int"}
Lit8 == {"add-int/lit8", "sub-int/lit8", "mul-int/lit8", "div-int/lit8"}
Zero == {"if-eqz", "if-nez", "if-ltz", "if-gez", "if-gtz", "if-lez"}

\* Programs of one instruction; longs are in v0, v1 or v1, v2 or v2, v3.
Single ==
  {In(op, x, y, z, 0) : op \in Three, x \in {0, 1}, y \in {0, 1}, z \in {1, 2}}
  \cup {In(op, x, y, z, 0) : op \in ThreeLong, x \in 0 .. 2, y \in {0, 1}, z \in {1, 2}}
  \cup {In(op, x, y, 0, 0) : op \in TwoLong, x \in 0 .. 2, y \in 0 .. 2}
  \cup {In(op, x, y, 0, 0) : op \in {"add-int/2addr", "sub-int/2addr", "move", "int-to-char"},
                             x \in {0, 1}, y \in {0, 1}}
  \cup {In(op, x, 1, 0, l) : op \in Lit8, x \in {0, 1}, l \in {0, 1, 3}}
  \cup {In("const/4", 0, 0, 0, l) : l \in {0, 1}}
  \cup {In(op, 1, 0, 0, 9) : op \in {"const/16", "const-wide/16", "const-wide/high16",
                                     "move-result", "move-result-object", "move-result-wide"}}
  \cup {In("const-wide/32", 1, 0, 0, l) : l \in {9, 200}}
  \cup {In(op, 0, 1, 0, l) : op \in IfOps \ Zero, l \in {3, 7}}
  \cup {In(op, x, 0, 0, 5) : op \in Zero, x \in {0, 3}}
  \cup {In("goto", 0, 0, 0, l) : l \in {1, 3}}
  \cup {[In("packed-switch", 0, 0, 0, l) EXCEPT !.units = u] :
          l \in {1, 0, -1, -3, -4, -128},
          u \in {<<4, 0, 5, 0>>, <<4, 0, 7, 0, 9, 0, 3, 0, 11, 0>>, <<4, 1, 15, 15, 9, 0>>}}

Words == {0, 2, 127, 128, 255}

\* Banks of four registers with these in v0 .. v2 and in v3.
Banks(low, high) == {[r \in Reg |-> IF r < 3 THEN f[r] ELSE h] : f \in [0 .. 2 -> low], h \in high}

\* Two ways to compute the same int, which end in v4 and v5: with longs and
\* with ints, with a literal and with a register, in place and out of place.
TwoWays ==
  {<<In("int-to-long", 2, 0, 0, 0), In("int-to-long", 4, 1, 0, 0), In(o[1], 2, 2, 4, 0),
     In("long-to-int", 4, 2, 0, 0), In(o[2], 5, 0, 1, 0)>> :
       o \in {<<"add-long", "add-int">>, <<"sub-long", "sub-int">>, <<"mul-long", "mul-int">>}}
  \cup
  {<<In("int-to-long", 2, 0, 0, 0), In("int-to-long", 4, 1, 0, 0), In(o[1], 2, 4, 0, 0),
     In("long-to-int", 4, 2, 0, 0), In(o[2], 0, 1, 0, 0), In("move", 5, 0, 0, 0)>> :
       o \in {<<"add-long/2addr", "add-int/2addr">>, <<"sub-long/2addr", "sub-int/2addr">>}}
  \cup
  {<<In("const/16", 2, 0, 0, l), In(o[1], 4, 0, 2, 0), In(o[2], 5, 0, 0, l)>> :
       l \in 1 .. 3,
       o \in {<<"add-int", "add-int/lit8">>, <<"sub-int", "sub-int/lit8">>,
              <<"mul-int", "mul-int/lit8">>, <<"div-int", "div-int/lit8">>}}

\* They agree.
TwoWaysAgree == program \in TwoWays /\ k > Len(program) => regs[4] = regs[5]

StartSet ==
  ({<<x>> : x \in Single} \X Banks(Words, {0, 200}))
    \cup (TwoWays \X [Reg -> {0, 7}]) \cup
    (TwoWays \X {[r \in Reg |-> IF r = 0 THEN a ELSE IF r = 1 THEN b ELSE 0] :
                   a \in 0 .. 15 \cup 120 .. 135 \cup {254, 255},
                   b \in {0, 1, 2, 3, 15, 16, 127, 128, 129, 255}})
MCStarts == StartSet

\* The switch of the method Proc_6 of dhry.dex: first key 0, five targets.
DhrySwitch ==
  [In("packed-switch", 0, 0, 0, 0) EXCEPT !.units = <<4, 0, 7, 0, 19, 0, 3, 0, 23, 0>>]
SwitchStarts == {<<DhrySwitch>>} \X Banks(0 .. 4, {0})

IfStarts == {<<In("if-lt", 0, 1, 0, 11)>>} \X Banks({0, 3}, {0, 5})

MCResults == {[top |-> 200, bottom |-> 3]}

\* Stand-ins for the arithmetic of doubles on their bit patterns.
MCAddDouble(a, b) == (a + 3 * b) % DWord
MCMulDouble(a, b) == (a + 5 * b + 1) % DWord
MCDoubleToInt(a)  == (a \div 7) % Word
=============================================================================
