--------------------------- MODULE JavaStatements ---------------------------
(***************************************************************************)
(* What the main method of a Java class means, statement by statement, for *)
(* the statements that simple_jvm is made for: assignments of int          *)
(* expressions, printing, loops, Math.random and the difference of two     *)
(* times.  Each statement is one step; an operand stack, a string builder  *)
(* and byte offsets are not part of the meaning.                           *)
(***************************************************************************)
EXTENDS Integers, Sequences

CONSTANTS
  IntSize, LongSize,  \* the numbers of ints and of longs (2^32 and 2^64)
  RandomInts,         \* what (int) (Math.random() * k + 1) may be
  Clock,              \* what System.currentTimeMillis() may return
  PrintLimit          \* an implementation may give up after so many lines
                      \* that print one thing at most

VARIABLES
  source,   \* a sequence of statements
  at,       \* the number of the next statement; Thrown, or GivenUp
  ints,     \* the int variables
  longs,    \* the long variables
  printed   \* the lines printed, each a sequence of texts and ints

vars == <<source, at, ints, longs, printed>>

Thrown  == 0
GivenUp == -1

-----------------------------------------------------------------------------
Wrap(v, size) ==
  LET u == v % size IN IF 2 * u < size THEN u ELSE u - size

\* Integer division of Java rounds towards zero.
Quotient(a, b) ==
  LET q == (IF a < 0 THEN -a ELSE a) \div (IF b < 0 THEN -b ELSE b)
  IN  IF (a < 0) = (b < 0) THEN q ELSE -q

S == source[at]

Is(op) == at \in DOMAIN source /\ S.op = op

\* An operand is a variable, a constant, or a text.
Value(o) == IF o.kind = "var" THEN ints[o.n] ELSE o.n

Shown(o) == IF o.kind = "text" THEN o ELSE [kind |-> "int", n |-> Value(o)]

Result ==
  LET a == Value(S.a)
      b == Value(S.b)
  IN  CASE S.f = "id"  -> a
        [] S.f = "add" -> a + b
        [] S.f = "sub" -> a - b
        [] S.f = "mul" -> a * b
        [] S.f = "div" -> Quotient(a, b)
        [] S.f = "rem" -> a - b * Quotient(a, b)

Divides == S.f \in {"div", "rem"}

SetInt(v) == ints' = [ints EXCEPT ![S.v] = Wrap(v, IntSize)] /\ at' = at + 1

-----------------------------------------------------------------------------
Init ==
  /\ at = 1
  /\ printed = <<>>
  /\ \A v \in DOMAIN ints : ints[v] = 0
  /\ \A v \in DOMAIN longs : longs[v] = 0

Assign ==
  /\ Is("assign")
  /\ Divides => Value(S.b) # 0
  /\ SetInt(Result)
  /\ UNCHANGED <<longs, printed>>

\* ArithmeticException
Throw ==
  /\ Is("assign") /\ Divides /\ Value(S.b) = 0
  /\ at' = Thrown
  /\ UNCHANGED <<ints, longs, printed>>

Increment ==
  Is("inc") /\ SetInt(ints[S.v] + S.n) /\ UNCHANGED <<longs, printed>>

PrintLine ==
  /\ Is("print")
  /\ printed' = Append(printed, [k \in DOMAIN S.line |-> Shown(S.line[k])])
  /\ at' = at + 1
  /\ UNCHANGED <<ints, longs>>

Branch ==
  /\ Is("unless") \/ Is("goto")
  /\ at' = IF S.op = "goto" \/ Value(S.a) >= Value(S.b) THEN S.to ELSE at + 1
  /\ UNCHANGED <<ints, longs, printed>>

Now ==
  /\ Is("now")
  /\ \E t \in Clock : longs' = [longs EXCEPT ![S.v] = t]
  /\ at' = at + 1
  /\ UNCHANGED <<ints, printed>>

Elapsed ==
  Is("elapsed") /\ SetInt(longs[S.l] - longs[S.m]) /\ UNCHANGED <<longs, printed>>

Random ==
  /\ Is("random")
  /\ \E r \in RandomInts : SetInt(r)
  /\ UNCHANGED <<longs, printed>>

\* Of any other statement nothing is promised.
Other ==
  /\ Is("other")
  /\ at' \in {at, at + 1, Thrown, GivenUp}

\* Out of resources.
GiveUp ==
  /\ at \in DOMAIN source
  /\ Len(SelectSeq(printed, LAMBDA line : Len(line) <= 1)) >= PrintLimit
  /\ at' = GivenUp
  /\ UNCHANGED <<ints, longs, printed>>

Next ==
  /\ \/ Assign \/ Throw \/ Increment \/ PrintLine \/ Branch \/ Now \/ Elapsed
     \/ Random \/ Other \/ GiveUp
  /\ UNCHANGED source

Spec == Init /\ [][Next]_vars
=============================================================================
