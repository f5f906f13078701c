----------------------------- MODULE MCDvmHeap -----------------------------
(***************************************************************************)
(* Instances of DvmHeap: five objects and eight arrays at most.  Type 1 is  *)
(* a class with two fields, type 2 one that the file does not define, type *)
(* 3 int[], type 4 int[][], type 5 a class with one field; type 0 is int.  *)
(***************************************************************************)
EXTENDS DvmHeap

In(op, x, y, z, l) == [op |-> op, vx |-> x, vy |-> y, vz |-> z, lit |-> l]

MCInstanceFields == [t \in 0 .. 5 |-> CASE t = 1 -> 2 [] t = 5 -> 1 [] OTHER -> -1]
MCArrayOf == [t \in 0 .. 5 |-> CASE t = 3 -> 4 [] t = 0 -> 3 [] OTHER -> -1]

\* v0, v1 hold what is stored, v2 and v3 two references, v5, v6 what is loaded
\* and v4 and v8 an index and a length; v7 is for everything else.
Bank == [r \in Reg |-> CASE r = 0 -> 11 [] r = 1 -> 12 [] r = 4 -> 1 [] r = 8 -> 2 [] OTHER -> 0]

\* Two objects, two arrays, or two rows of one array of arrays.
Objects == <<In("new-instance", 2, 0, 0, 1), In("new-instance", 3, 0, 0, 1)>>
Arrays  == <<In("new-array", 2, 8, 0, 3), In("new-array", 3, 8, 0, 3)>>
Rows    == <<In("filled-new-array", 8, 0, 0, 3), In("move-result-object", 3, 0, 0, 0),
             In("newInstance", 0, 3, 0, 0), In("move-result-object", 7, 0, 0, 0),
             In("aget", 2, 7, 5, 0), In("aget", 3, 7, 4, 0)>>

\* Instructions that store nothing in field 1, or in element 1, of v2.
Others(elements) ==
  {In("new-instance", 7, 0, 0, t) : t \in {1, 2, 5}}
  \cup {In("new-array", 7, y, 0, 3) : y \in {4, 8}}
  \cup {In("filled-new-array", 4, 0, 0, 3), In("move-result-object", 7, 0, 0, 0),
        In("sput-object", 7, 0, 0, 0), In("sget-object", 7, 0, 0, 0),
        In("const-string", 7, 0, 0, 2)}
  \cup IF elements
       THEN {In("aput", 7, 3, z, 0) : z \in {4, 5}}
            \cup {In("aput", 7, 2, 5, 0), In("newInstance", 0, 3, 0, 0)}
       ELSE {In(op, 7, 3, 0, f) : op \in {"iput", "iput-wide"}, f \in 0 .. 1}
              \cup {In(op, 7, 2, 0, 0) : op \in {"iput", "iput-wide"}}

\* Programs that store v0 (and v1), do three other things and load v5 (and v6)
\* from the same place.
LoadStore(prologue, elements, store, load) ==
  {prologue \o <<store, x, y, z, load>> : x, y, z \in Others(elements)}

Wide   == LoadStore(Objects, FALSE, In("iput-wide", 0, 2, 0, 1), In("iget-wide", 5, 2, 0, 1))
Narrow ==
  LoadStore(Objects, FALSE, In("iput", 0, 2, 0, 1), In("iget", 5, 2, 0, 1))
  \cup LoadStore(Objects, FALSE, In("sput-object", 0, 0, 0, 1), In("sget-object", 5, 0, 0, 1))
  \cup LoadStore(Arrays, TRUE, In("aput", 0, 2, 4, 0), In("aget", 5, 2, 4, 0))
  \cup LoadStore(Rows, TRUE, In("aput", 0, 2, 4, 0), In("aget", 5, 2, 4, 0))

\* Programs that run into the limits, out of bounds, or into a failing cast.
Many == {[n \in 1 .. m |-> In("new-instance", 2, 0, 0, 1)] \o <<x>> :
           m \in 1 .. 13,
           x \in {In("new-array", 3, 8, 0, 3), In("check-cast", 2, 0, 0, 1),
                  In("check-cast", 2, 0, 0, 0), In("new-instance", 2, 0, 0, 1)}}
Wild == {Arrays \o <<In(op, 7, y, z, 1)>> :
           op \in {"iput", "iget", "aput", "aget", "check-cast"}, y \in {2, 3, 4}, z \in {0, 4, 8}}
        \cup {Arrays \o <<In("check-cast", 2, 0, 0, t)>> : t \in 3 .. 4}
        \cup {<<In("new-instance", 2, 0, 0, 1), In("iput", 0, 2, 0, 2)>>}
        \cup {Arrays \o [n \in 1 .. 6 |-> In("new-instance", 7, 0, 0, 1)] \o <<x>> :
                x \in {In("aget", 7, 2, 4, 0), In("check-cast", 2, 0, 0, 1),
                       In("new-array", 3, 8, 0, 3), In("newInstance", 0, 2, 0, 0)}}

StartSet == (Wide \cup Narrow \cup Many \cup Wild) \X {Bank}
MCStarts == StartSet

\* The program is one of Wide or Narrow: only those load v5.
Tested == program[Len(program)].vx = 5

\* What was stored in a field, in an element or in a row is what is loaded,
\* whatever is allocated in between and stored elsewhere.
LoadsReturnStores ==
  k > Len(program) /\ ObjectsFit /\ Tested =>
    /\ regs[5] = regs[0]
    /\ program[Len(program)].op = "iget-wide" => regs[6] = regs[1]

\* Those programs leave what C defines only when they allocate too many arrays.
LimitsOnly ==
  mode = "undefined" /\ Tested =>
    /\ ins.op \in {"new-array", "filled-new-array", "newInstance"}
    /\ array_number + (IF ins.op = "newInstance" THEN 1 + cell[regs[vy]].size ELSE 1) > ArrayMax
=============================================================================
