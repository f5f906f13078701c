------------------------- MODULE MCDvmNonconforming -------------------------
(***************************************************************************)
(* The instance of DvmCalls whose programs each break one of the           *)
(* conditions of DvmConforming: what the interpreter does with the others. *)
(***************************************************************************)
EXTENDS MCDvmPrograms, DvmConforming

Clinit == Clinits[1]
Static2 == Statics[1]
Init1 == Constructors[1]
Virtual3 == <<3, <<Ret(2)>>>>

With(main) == Program(Clinit, main, Static2, Init1, Virtual3)

\* A loop whose test is at its end, in main and in a method that main calls.
DoWhile(v) == <<Const(0, v), Move(1, 0), IfEqz(1, -2), Ret(1)>>
CallS      == <<3, <<Const(1, 2), Static(Bs, <<1>>), MoveResult(1), Sput(1), RetVoid>>>>

\* A method that goes past the pc of a return-void, which is inside one of its
\* instructions.
Long == <<3, <<Const(1, 3)>> \o [k \in 1 .. 16 |-> Sget(1)] \o <<RetVoid>>>>

\* A class C that inherits f from A: the table has a method id for C.f, which
\* no class lists.
Cf == 3
Inheriting ==
  LET d == With(<<4, <<New(0, 2), Const(1, 2), Virtual(Cf, <<0, 1>>), RetVoid>>>>)
      B == [d.class_def[1] EXCEPT
              !.direct = [Tail(@) EXCEPT ![1].method_idx_diff = BMain]]
      C == [class_idx |-> 9, direct |-> <<>>, virtual |-> <<>>]
  IN  [d EXCEPT !.method_id[Cf + 1] = [class_idx |-> 9, name_idx |-> 2],
                !.class_def = <<B, d.class_def[2], C>>]

\* 258 method ids: println has the last one, which is decoded as 17, the id of
\* a method with the name of s.
Far == 257
ManyIds ==
  LET d == With(<<3, <<Const(1, 2), Static(Far, <<1>>), RetVoid>>>>)
      other == [class_idx |-> 0, name_idx |-> 7]
  IN  [d EXCEPT !.method_id = @ \o [k \in 1 .. 249 |-> other]
                                \o <<[class_idx |-> 3, name_idx |-> 6]>>,
                !.library = (Far :> "void") @@ @]

\* The method that main would be is called mains.
Misnamed ==
  [With(<<2, <<Const(1, 2), RetVoid>>>>) EXCEPT !.string[5] = "mains"]

\* Three arguments of a call whose callee has two registers.
TooMany == <<4, <<Static(Bs, <<0, 1, 2>>), RetVoid>>>>

Nonconforming ==
  <<Program(Clinit, <<2, DoWhile(0)>>, Static2, Init1, Virtual3),
    Program(Clinit, <<2, DoWhile(1)>>, Static2, Init1, Virtual3),
    Program(Clinit, CallS, <<2, DoWhile(0)>>, Init1, Virtual3),
    Program(Clinit, CallS, <<2, DoWhile(1)>>, Init1, Virtual3),
    Program(<<2, <<New(0, TypeA), Const(1, 4), Virtual(Af, <<0, 1>>),
                   MoveResult(1), Sput(1), RetVoid>>>>,
            CallS, Static2, Init1, Virtual3),
    With(<<6, <<New(0, TypeA), Const(4, 5), Virtual(Af, <<0, 1>>), Move(1, 3), RetVoid>>>>),
    With(<<6, <<Const(0, 1), IfEqz(4, 4), RetVoid>>>>),
    With(Long),
    With(TooMany),
    Inheriting,
    ManyIds,
    Misnamed>>
  \o <<TwoClasses[0], WideTable[0]>>

NonconformingPrograms == Nonconforming
NonconformingPairs == {<<"main", "mains">>}

ASSUME NoneConforms ==
  \A f \in DOMAIN Programs :
    \/ ~ Conforms(Programs[f])
    \/ \E ref \in MethodsOf(Programs[f]) :
         Method(Programs[f], ref).insns_size > ReturnVoidPc
=============================================================================
