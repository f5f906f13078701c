--------------------------- MODULE MCDvmPrograms ---------------------------
(***************************************************************************)
(* Small programs for DvmCalls.  Each has a class A with a constructor and *)
(* a virtual method f, a class B with <clinit>, main and a static method   *)
(* s, two library methods, println and now, and a class X that neither the *)
(* file nor the library defines.                                           *)
(***************************************************************************)
EXTENDS DvmCalls

In(op, vx, vy, lit, args) ==
  [op |-> op, vx |-> vx, vy |-> vy, lit |-> lit, args |-> args]

Const(v, x)     == In("const", v, 0, x, <<>>)
Move(v, w)      == In("move", v, w, 0, <<>>)
MoveResult(v)   == In("move-result", v, 0, 0, <<>>)
New(v, t)       == In("new-instance", v, 0, t, <<>>)
Sget(v)         == In("sget-object", v, 0, 0, <<>>)
Sput(v)         == In("sput-object", v, 0, 0, <<>>)
Goto(d)         == In("goto", 0, 0, d, <<>>)
IfEqz(v, d)     == In("if-eqz", v, 0, d, <<>>)
Ret(v)          == In("return", v, 0, 0, <<>>)
RetVoid         == In("return-void", 0, 0, 0, <<>>)
Static(id, as)  == In("invoke-static", 0, 0, id, as)
Direct(id, as)  == In("invoke-direct", 0, 0, id, as)
Virtual(id, as) == In("invoke-virtual", 0, 0, id, as)
Unknown         == In("unknown", 0, 0, 0, <<>>)

\* A method whose code is this sequence of instructions.
Assembled(diff, size, body) ==
  LET off[k \in 0 .. Len(body)] ==
        IF k = 0 THEN 0 ELSE off[k - 1] + Length(body[k])
  IN  [method_idx_diff |-> diff, registers_size |-> size,
       insns_size |-> off[Len(body)],
       code |-> [o \in {off[k] : k \in 0 .. Len(body) - 1} |->
                   body[CHOOSE k \in DOMAIN body : off[k - 1] = o]]]

\* Method ids, in the order of the file: by class, then by name.
Xg == 0
AInit == 1
Af == 2
BMain == 4
Bs == 5
Println == 6
Now == 7
TypeA == 1

Strings == <<"<clinit>", "<init>", "f", "g", "main", "now", "println", "s", "sort">>

MethodTable ==
  LET m(c, s) == [class_idx |-> c, name_idx |-> s]
  IN  <<m(0, 3), m(1, 1), m(1, 2), m(2, 0), m(2, 4), m(2, 7), m(3, 6), m(4, 5)>>

Program(clinit, main, s, init, f) ==
  [string    |-> IF clinit[1] = 0 THEN <<"<none>">> \o Tail(Strings) ELSE Strings,
   method_id |-> MethodTable,
   library   |-> (Println :> "void") @@ (Now :> "value"),
   class_def |->
     <<[class_idx |-> 2,
        direct  |-> <<Assembled(3, clinit[1], clinit[2]),
                      Assembled(1, main[1], main[2]), Assembled(1, s[1], s[2])>>,
        virtual |-> <<>>],
       [class_idx |-> TypeA,
        direct  |-> <<Assembled(AInit, init[1], init[2])>>,
        virtual |-> <<Assembled(Af, f[1], f[2])>>]>>]

Constructors == <<<<1, <<RetVoid>>>>,
                  <<3, <<Const(0, 9), Move(1, 2), Static(Now, <<>>), RetVoid>>>>>>

\* f(this, x) and s(x)
Virtuals == <<<<3, <<Static(Bs, <<2>>), MoveResult(0), Ret(0)>>>>,
              <<4, <<Goto(4), Ret(2), IfEqz(3, 12), Const(0, 0), Virtual(Af, <<2, 0>>),
                     MoveResult(0), Goto(-16)>>>>>>
Statics  == <<<<2, <<Const(0, 7), Ret(0)>>>>,
              <<1, <<IfEqz(0, 14), Const(0, 0), Static(Bs, <<0>>), Goto(2), RetVoid>>>>>>

\* The last one stands for a program without <clinit>.
Clinits  == <<<<1, <<Const(0, 3), Sput(0), RetVoid>>>>,
              <<2, <<Const(1, 4), Static(Bs, <<1>>), RetVoid>>>>,
              <<0, <<RetVoid>>>>>>

\* What main is put together from; v3 is its argument.
Parts ==
  <<<<New(0, TypeA), Direct(AInit, <<0>>)>>,
    <<Const(1, 2)>>,
    <<Virtual(Af, <<0, 1>>), MoveResult(2)>>,
    <<Static(Bs, <<1>>), MoveResult(1)>>,
    <<Sget(2), Virtual(Println, <<2, 1>>)>>,
    <<Static(Now, <<>>), MoveResult(2), Sput(2)>>,
    <<IfEqz(1, 12), Virtual(Af, <<2, 0>>), Move(1, 0)>>,
    <<Unknown>>,
    <<Static(Xg, <<>>)>>,
    <<New(0, 0), Virtual(Xg, <<0>>)>>,
    <<New(0, TypeA), New(0, TypeA), New(0, TypeA), New(0, TypeA), New(0, TypeA)>>,
    <<Const(0, 5), Virtual(Af, <<0, 1>>)>>,
    <<Virtual(Af, <<0, 1>>)>>,
    <<Const(5, 1)>>>>

\* 49 mains that make an object and go on with two of the first seven parts,
\* and one for each of the others.
Main(k) ==
  (IF k < 49 THEN Parts[1] \o Parts[1 + (k \div 7)] \o Parts[1 + (k % 7)]
             ELSE Parts[k - 41])
    \o <<RetVoid>>

\* Program 12 k + b has main k; b chooses the other methods.  The last main
\* has more registers than the bank.
Table ==
  [q \in 0 .. 12 * 56 - 1 |->
     Program(Clinits[1 + (q % 3)],
             <<IF q \div 12 = 55 THEN 7 ELSE 4, Main(q \div 12)>>,
             Statics[1 + ((q \div 3) % 2)], Constructors[1 + ((q \div 3) % 2)],
             Virtuals[1 + ((q \div 6) % 2)])]

\* A definition of its own, so that TLC evaluates the table once.
MCPrograms == Table

\* main keeps a value in v4, which invoke_virtual_method does not save, while
\* it calls an f that uses as many registers.
WideTable ==
  [q \in {0} |->
     Program(Clinits[1],
             <<6, <<New(0, TypeA), Direct(AInit, <<0>>), Const(4, 5),
                    Virtual(Af, <<0, 1>>), RetVoid>>>>,
             Statics[1], Constructors[1], <<6, <<RetVoid>>>>)]
WidePrograms == WideTable

\* Two classes with a constructor: main of class B makes an object of class C.
TwoClasses ==
  LET m(c, s) == [class_idx |-> c, name_idx |-> s]
      class(c, direct) == [class_idx |-> c, direct |-> direct, virtual |-> <<>>]
  IN  [q \in {0} |->
         [string    |-> <<"<init>", "main">>,
          method_id |-> <<m(0, 0), m(0, 1), m(1, 0)>>,
          library   |-> <<>>,
          class_def |->
            <<class(0, <<Assembled(0, 1, <<RetVoid>>),
                         Assembled(1, 2, <<New(0, 1), Direct(2, <<0>>), RetVoid>>)>>),
              class(1, <<Assembled(2, 1, <<RetVoid>>)>>)>>]]
TwoClassPrograms == TwoClasses

MCPairs == {<<"s", "sort">>}
MCGarbage == {-9}
=============================================================================
