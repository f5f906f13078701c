---------------------------- MODULE DvmHeapProofs ----------------------------
(***************************************************************************)
(* Theorems about DvmHeap, for all programs, classes and table sizes.      *)
(*                                                                         *)
(* TypeOK is inductive as it stands: the two lengths say which cells are   *)
(* taken, so that an allocation takes one that is free or, once the        *)
(* objects run over the arrays, one that may hold a chunk of either kind.  *)
(* ReferencesStay follows from it: until then the cell is free.            *)
(***************************************************************************)
EXTENDS DvmHeap, SequenceTheorems, TLAPS

-----------------------------------------------------------------------------
(***************************************************************************)
(* Facts about chunks.                                                     *)
(***************************************************************************)
LEMMA MallocedIsPair == Malloced \subseteq Pair
  BY HeapAssumption DEF Malloced, Pair

\* A slot, where there is one, holds a pair.
LEMMA SlotIsPair ==
  ASSUME NEW c, IsObject(c) \/ IsArray(c), NEW n \in DOMAIN c.slots
  PROVE  c.slots[n] \in Pair /\ c.slots[n].lo \in Int /\ c.slots[n].hi \in Int
  <1>1. c.slots[n] \in Pair
    BY DEF IsObject, IsArray, Slots
  <1> QED BY <1>1 DEF Pair

\* The kind of a cell says what is in it.
LEMMA KindOfCell ==
  ASSUME TypeOK, NEW r \in Ref
  PROVE  /\ cell[r] = Null \/ IsObject(cell[r]) \/ IsArray(cell[r])
         /\ cell[r].kind = "object" => IsObject(cell[r])
         /\ cell[r].kind = "array" => IsArray(cell[r])
  <1>1. cell[r] = Null \/ IsObject(cell[r]) \/ IsArray(cell[r])
    BY DEF TypeOK
  <1>2. Null.kind = "null"
    BY DEF Null
  <1> QED BY <1>1, <1>2 DEF IsObject, IsArray

\* A store into a slot leaves a chunk of the same kind, type and size.
LEMMA StoreKeepsChunk ==
  ASSUME NEW c, IsObject(c) \/ IsArray(c), NEW n \in DOMAIN c.slots, NEW pair \in Pair
  PROVE  LET d == [c EXCEPT !.slots[n] = pair]
         IN  /\ IsObject(c) => IsObject(d)
             /\ IsArray(c) => IsArray(d)
             /\ d.kind = c.kind /\ d.type = c.type
             /\ DOMAIN d.slots = DOMAIN c.slots
  <1> DEFINE d == [c EXCEPT !.slots[n] = pair]
             s == [c.slots EXCEPT ![n] = pair]
  <1>1. DOMAIN s = DOMAIN c.slots
    OBVIOUS
  <1>2. CASE IsObject(c)
    <2>1. d = Object(c.type, s)
      BY <1>2 DEF IsObject, Object
    <2>2. s \in Slots(InstanceFields[c.type])
      BY <1>2 DEF IsObject, Slots
    <2>3. d.kind = "object" /\ d.type = c.type /\ d.slots = s
      BY <2>1 DEF Object
    <2> QED BY <1>1, <1>2, <2>1, <2>2, <2>3 DEF IsObject, IsArray
  <1>3. CASE IsArray(c)
    <2>1. d = Array(c.type, c.size, s)
      BY <1>3 DEF IsArray, Array
    <2>2. s \in Slots(c.size)
      BY <1>3 DEF IsArray, Slots
    <2>3. d.kind = "array" /\ d.type = c.type /\ d.size = c.size /\ d.slots = s
      BY <2>1 DEF Array
    <2> QED BY <1>1, <1>3, <2>1, <2>2, <2>3 DEF IsObject, IsArray
  <1> QED BY <1>2, <1>3

\* What the allocations put in a cell.
LEMMA NewObject ==
  ASSUME NEW t \in Types, InstanceFields[t] # -1, NEW slots \in Fresh(InstanceFields[t])
  PROVE  IsObject(Object(t, slots))
  <1>1. slots \in Slots(InstanceFields[t])
    BY MallocedIsPair DEF Fresh, Slots
  <1> QED BY <1>1 DEF IsObject, Object

LEMMA NewArray ==
  ASSUME NEW t \in Types \cup {-1}, NEW size \in Int, NEW slots \in [0 .. size - 1 -> Pair]
  PROVE  IsArray(Array(t, size, slots))
  BY DEF IsArray, Array, Slots

-----------------------------------------------------------------------------
(***************************************************************************)
(* The cells.                                                              *)
(***************************************************************************)

\* What TypeOK says of one cell.
CellOK(r) ==
  LET isObject == r < object_length
      isArray  == r >= ObjectMax /\ r - ObjectMax < array_number
  IN  /\ isObject /\ ~ isArray => IsObject(cell[r])
      /\ isArray /\ ~ isObject => IsArray(cell[r])
      /\ isArray /\ isObject => IsObject(cell[r]) \/ IsArray(cell[r])
      /\ ~ isArray /\ ~ isObject => cell[r] = Null

\* The variables that no allocation and no store changes.
Machine ==
  /\ program \in Seq(Instr)
  /\ k \in 1 .. Len(program) + 1
  /\ mode \in {"run", "exit", "undefined"}
  /\ regs \in [Reg -> Int]
  /\ result \in Int
  /\ static_field_value \in [StaticFields -> Pair]

Heap ==
  /\ object_length \in 0 .. ObjectMax + ArrayMax
  /\ array_number \in 0 .. ArrayMax
  /\ DOMAIN cell = Ref
  /\ \A r \in Ref : CellOK(r)

LEMMA TypeParts == TypeOK <=> Machine /\ Heap
  BY DEF TypeOK, Machine, Heap, CellOK

\* What a step may do to references: nothing, or it takes cells that are free
\* or overrun and leaves the kind, the type and the slots of all others.
SameChunk(r) ==
  /\ cell'[r].kind = cell[r].kind /\ cell'[r].type = cell[r].type
  /\ DOMAIN cell'[r].slots = DOMAIN cell[r].slots

Keeps == ObjectsFit' => \A r \in Ref : cell[r] # Null => SameChunk(r)

\* The instruction that runs, and its operands.
LEMMA Operands ==
  ASSUME Machine, NEW op, At(op)
  PROVE  /\ ins \in Instr /\ ins.op = op /\ mode = "run"
         /\ vx \in Reg /\ vy \in Reg /\ vz \in Reg /\ ins.lit \in Nat
         /\ regs[vx] \in Int /\ regs[vy] \in Int /\ regs[vz] \in Int
         /\ k + 1 \in 1 .. Len(program) + 1
  <1>1. program \in Seq(Instr) /\ k \in 1 .. Len(program) /\ Len(program) \in Nat
    BY LenProperties DEF Machine, At
  <1>2. ins \in Instr
    BY <1>1, ElementOfSeq DEF ins
  <1> QED BY <1>1, <1>2 DEF Instr, Machine, At, vx, vy, vz

\* A step that leaves the heap alone.
LEMMA SameHeap ==
  ASSUME Heap, UNCHANGED heap
  PROVE  Heap' /\ Keeps
  BY DEF Heap, heap, CellOK, Keeps, SameChunk

\* Going on to the next instruction, with registers, a result and static fields
\* of their types.
LEMMA Goes ==
  ASSUME Machine, NEW op, At(op), Go, regs' \in [Reg -> Int], result' \in Int,
         static_field_value' \in [StaticFields -> Pair]
  PROVE  Machine'
  BY Operands DEF Machine, Go

LEMMA SetRegType ==
  ASSUME Machine, NEW r, NEW v \in Int, SetReg(r, v)
  PROVE  regs' \in [Reg -> Int]
  BY DEF Machine, SetReg

LEMMA Stops ==
  ASSUME TypeOK, NEW m \in {"exit", "undefined"}, Stop(m)
  PROVE  TypeOK' /\ Keeps
  <1>1. Machine' /\ UNCHANGED heap
    BY TypeParts DEF Stop, Machine
  <1>2. Heap' /\ Keeps
    BY <1>1, SameHeap, TypeParts
  <1> QED BY <1>1, <1>2, TypeParts DEF TypeOK, Machine, Heap, CellOK

-----------------------------------------------------------------------------
(***************************************************************************)
(* Allocation.                                                             *)
(***************************************************************************)
\* A new object takes the cell behind the last one.
LEMMA ObjectPlaced ==
  ASSUME Heap, object_length \in Ref, NEW t \in Types, InstanceFields[t] # -1,
         NEW slots \in Fresh(InstanceFields[t]), create_instance(t, slots)
  PROVE  Heap' /\ Keeps
  <1>1. IsObject(Object(t, slots))
    BY NewObject
  <1>2. /\ object_length' = object_length + 1 /\ array_number' = array_number
        /\ cell' = [cell EXCEPT ![object_length] = Object(t, slots)]
        /\ object_length \in Nat /\ array_number \in 0 .. ArrayMax /\ DOMAIN cell = Ref
        /\ {ObjectMax, ArrayMax} \subseteq Nat
    BY HeapAssumption DEF create_instance, Heap, Ref
  <1>3. DOMAIN cell' = Ref /\ object_length' \in 0 .. ObjectMax + ArrayMax
    BY <1>2 DEF Ref
  <1>4. ASSUME NEW r \in Ref
        PROVE  CellOK(r)' /\ (ObjectsFit' /\ cell[r] # Null => SameChunk(r))
    <2>1. CellOK(r) /\ r \in Nat
      BY <1>2 DEF Heap, Ref
    <2>2. CASE r = object_length
      <3>1. cell'[r] = Object(t, slots)
        BY <1>2, <2>2
      <3>2. ObjectsFit' => cell[r] = Null
        BY <1>2, <2>1, <2>2 DEF ObjectsFit, CellOK
      <3> QED BY <1>1, <1>2, <2>1, <2>2, <3>1, <3>2 DEF CellOK
    <2>3. CASE r # object_length
      <3>1. cell'[r] = cell[r]
        BY <1>2, <2>3
      <3>2. r < object_length' <=> r < object_length
        BY <1>2, <2>1, <2>3
      <3> QED BY <1>2, <2>1, <3>1, <3>2 DEF CellOK, SameChunk
    <2> QED BY <2>2, <2>3
  <1> QED BY <1>2, <1>3, <1>4 DEF Heap, Keeps

\* New arrays take the cells behind the last one of vm->array; all other cells
\* keep what they hold.
LEMMA ArraysPlaced ==
  ASSUME Heap, NEW count \in Nat, array_number + count <= ArrayMax,
         array_number' = array_number + count, object_length' = object_length,
         DOMAIN cell' = Ref,
         \A r \in Ref :
           IF r - ObjectMax \in array_number .. array_number + count - 1
           THEN IsArray(cell'[r]) ELSE cell'[r] = cell[r]
  PROVE  Heap' /\ Keeps
  <1>1. /\ object_length \in Nat /\ array_number \in 0 .. ArrayMax
        /\ {ObjectMax, ArrayMax} \subseteq Nat
    BY HeapAssumption DEF Heap
  <1>2. ASSUME NEW r \in Ref
        PROVE  CellOK(r)' /\ (ObjectsFit' /\ cell[r] # Null => SameChunk(r))
    <2>1. CellOK(r) /\ r \in Nat
      BY <1>1 DEF Heap, Ref
    <2>2. CASE r - ObjectMax \in array_number .. array_number + count - 1
      <3>1. IsArray(cell'[r]) /\ r >= ObjectMax /\ ~ r - ObjectMax < array_number
        BY <1>1, <2>1, <2>2
      <3>2. ObjectsFit' => ~ r < object_length
        BY <1>1, <2>1, <3>1 DEF ObjectsFit
      <3>3. ObjectsFit' => cell[r] = Null
        BY <2>1, <3>1, <3>2 DEF CellOK
      <3> QED BY <1>1, <2>1, <2>2, <3>1, <3>3 DEF CellOK
    <2>3. CASE r - ObjectMax \notin array_number .. array_number + count - 1
      <3>1. cell'[r] = cell[r]
        BY <2>3
      <3>2. r >= ObjectMax =>
              (r - ObjectMax < array_number' <=> r - ObjectMax < array_number)
        BY <1>1, <2>1, <2>3
      <3> QED BY <2>1, <3>1, <3>2 DEF CellOK, SameChunk
    <2> QED BY <2>2, <2>3
  <1> QED BY <1>1, <1>2 DEF Heap, Keeps

LEMMA ArrayPlaced ==
  ASSUME Heap, array_number < ArrayMax, NEW t \in Types \cup {-1}, NEW size \in Int,
         NEW slots \in [0 .. size - 1 -> Pair], create_array(t, size, slots)
  PROVE  Heap' /\ Keeps
  <1>1. /\ array_number \in Nat /\ DOMAIN cell = Ref
        /\ {ObjectMax, ArrayMax} \subseteq Nat
    BY HeapAssumption DEF Heap
  <1>2. /\ cell' = [cell EXCEPT ![ObjectMax + array_number] = Array(t, size, slots)]
        /\ array_number' = array_number + 1 /\ object_length' = object_length
    BY DEF create_array
  <1>3. IsArray(Array(t, size, slots))
    BY NewArray
  <1>4. ASSUME NEW r \in Ref
        PROVE  IF r - ObjectMax \in array_number .. array_number + 1 - 1
               THEN IsArray(cell'[r]) ELSE cell'[r] = cell[r]
    <2>1. r \in Nat
      BY <1>1 DEF Ref
    <2>2. r - ObjectMax \in array_number .. array_number + 1 - 1
            <=> r = ObjectMax + array_number
      BY <1>1, <2>1
    <2> QED BY <1>1, <1>2, <1>3, <2>2
  <1> QED BY <1>1, <1>2, <1>4, ArraysPlaced

LEMMA RowsPlaced ==
  ASSUME Heap, NEW dims, IsArray(dims), dims.type \in Types, dims.size >= 0,
         array_number + 1 + dims.size <= ArrayMax, NewInstance(dims),
         object_length' = object_length
  PROVE  Heap' /\ Keeps /\ result' \in Int
  <1> DEFINE size == dims.size
             outer == array_number
             rows == {Row(outer, n) : n \in 0 .. size - 1}
  <1>1. /\ array_number \in Nat /\ size \in Nat
        /\ {ObjectMax, ArrayMax} \subseteq Nat
    BY HeapAssumption DEF Heap, IsArray
  <1>2. /\ array_number' = array_number + 1 + size
        /\ result' = ObjectMax + outer
    BY DEF NewInstance
  <1>3. PICK list \in Fresh(size), elements \in [rows -> Fresh(size)] :
          cell' = [r \in Ref |->
             CASE r = ObjectMax + outer ->
                    Array(ArrayOf[dims.type], size,
                          [n \in 0 .. size - 1 |-> [list[n] EXCEPT !.lo = ObjectMax + Row(outer, n)]])
               [] r - ObjectMax \in rows -> Array(dims.type, size, elements[r - ObjectMax])
               [] OTHER -> cell[r]]
    BY DEF NewInstance
  <1> DEFINE heads == [n \in 0 .. size - 1 |-> [list[n] EXCEPT !.lo = ObjectMax + Row(outer, n)]]
             new   == Array(ArrayOf[dims.type], size, heads)
             row(q) == Array(dims.type, size, elements[q])
  <1>4. heads \in [0 .. size - 1 -> Pair]
    <2> SUFFICES ASSUME NEW n \in 0 .. size - 1
                 PROVE  [list[n] EXCEPT !.lo = ObjectMax + Row(outer, n)] \in Pair
      OBVIOUS
    <2>1. list[n] \in Pair
      BY <1>3, MallocedIsPair DEF Fresh
    <2>2. ObjectMax + Row(outer, n) \in Int
      BY <1>1 DEF Row
    <2> QED BY <2>1, <2>2 DEF Pair
  <1>5. cell' = [r \in Ref |-> CASE r = ObjectMax + outer -> new
                                [] r - ObjectMax \in rows -> row(r - ObjectMax)
                                [] OTHER -> cell[r]]
    BY <1>3
  <1>6. IsArray(new)
    <2>1. ArrayOf[dims.type] \in Types \cup {-1}
      BY HeapAssumption
    <2> HIDE DEF heads, size
    <2> QED BY <1>1, <1>4, <2>1, NewArray
  <1>7. ASSUME NEW q \in rows
        PROVE  IsArray(row(q))
    <2>1. elements[q] \in [0 .. size - 1 -> Pair]
      BY <1>3, MallocedIsPair DEF Fresh
    <2> HIDE DEF rows, size
    <2> QED BY <1>1, <2>1, NewArray
  <1> HIDE DEF new, row, heads
  <1>8. ASSUME NEW r \in Ref
        PROVE  IF r - ObjectMax \in array_number .. array_number + (1 + size) - 1
               THEN IsArray(cell'[r]) ELSE cell'[r] = cell[r]
    <2>1. r \in Nat
      BY <1>1 DEF Ref
    <2>2. CASE r = ObjectMax + outer
      <3>1. IsArray(cell'[r])
        <4>1. r - ObjectMax \notin rows
          BY <1>1, <2>2 DEF Row
        <4> HIDE DEF rows
        <4> QED BY <1>5, <1>6, <2>2, <4>1
      <3>2. r - ObjectMax \in array_number .. array_number + (1 + size) - 1
        BY <1>1, <2>2
      <3> QED BY <3>1, <3>2
    <2>3. CASE r # ObjectMax + outer /\ r - ObjectMax \in rows
      <3>1. IsArray(cell'[r])
        BY <1>5, <1>7, <2>3
      <3>2. r - ObjectMax \in array_number .. array_number + (1 + size) - 1
        BY <1>1, <2>3 DEF Row
      <3> QED BY <3>1, <3>2
    <2>4. CASE r # ObjectMax + outer /\ r - ObjectMax \notin rows
      <3>1. cell'[r] = cell[r]
        BY <1>5, <2>4
      <3>2. r - ObjectMax \notin array_number .. array_number + (1 + size) - 1
        <4> SUFFICES ASSUME r - ObjectMax \in array_number .. array_number + (1 + size) - 1
                     PROVE  r - ObjectMax \in rows
          BY <2>4
        <4> DEFINE n == r - ObjectMax - outer - 1
        <4>1. n \in 0 .. size - 1 /\ r - ObjectMax = outer + 1 + n
          BY <1>1, <2>1, <2>4
        <4> QED BY <4>1 DEF Row
      <3> QED BY <3>1, <3>2
    <2> QED BY <2>2, <2>3, <2>4
  <1>9. Heap' /\ Keeps
    <2>1. DOMAIN cell' = Ref
      BY <1>5
    <2>2. 1 + size \in Nat /\ array_number + (1 + size) <= ArrayMax
          /\ array_number' = array_number + (1 + size)
      BY <1>1, <1>2
    <2> HIDE DEF size
    <2> QED BY <1>8, <2>1, <2>2, ArraysPlaced
  <1> QED BY <1>1, <1>2, <1>9

-----------------------------------------------------------------------------
(***************************************************************************)
(* The steps.                                                              *)
(***************************************************************************)
Result == TypeOK' /\ Keeps

LEMMA Both ==
  ASSUME Machine', Heap', Keeps
  PROVE  Result
  BY DEF Result, Heap, CellOK, Machine, TypeOK

LEMMA AllocationsKeep ==
  ASSUME TypeOK, op_new_instance \/ op_new_array \/ op_filled_new_array
  PROVE  Result
  <1>1. Machine /\ Heap
    BY TypeParts
  <1>2. /\ object_length \in Int /\ ObjectMax + array_number \in Int
        /\ result \in Int /\ regs \in [Reg -> Int]
        /\ static_field_value \in [StaticFields -> Pair]
    BY <1>1, HeapAssumption DEF Heap, Machine
  <1>3. CASE op_new_instance
    <2>1. At("new-instance") /\ ins.lit \in Types
      BY <1>1, <1>3, Operands DEF op_new_instance, Instr, Verified
    <2>2. CASE SetReg(vx, -1) /\ Go /\ UNCHANGED <<result, heap, static_field_value>>
      <3>1. Machine'
        BY <1>1, <1>2, <2>1, <2>2, SetRegType, Goes
      <3> QED BY <1>1, <2>2, <3>1, SameHeap, Both
    <2>3. CASE /\ InstanceFields[ins.lit] # -1 /\ object_length \in Ref
               /\ \E slots \in Fresh(InstanceFields[ins.lit]) : create_instance(ins.lit, slots)
               /\ SetReg(vx, object_length)
               /\ Go /\ UNCHANGED <<result, static_field_value>>
      <3>1. Machine'
        BY <1>1, <1>2, <2>1, <2>3, SetRegType, Goes
      <3>2. Heap' /\ Keeps
        BY <1>1, <2>1, <2>3, ObjectPlaced
      <3> QED BY <3>1, <3>2, Both
    <2> QED BY <1>3, <2>2, <2>3, Stops DEF op_new_instance, Result
  <1>4. CASE op_new_array
    <2>1. At("new-array") /\ ins.lit \in Types /\ regs[vy] \in Int
      BY <1>1, <1>4, Operands DEF op_new_array, Instr, Verified
    <2>2. CASE array_number < ArrayMax
      <3>1. PICK slots \in Fresh(regs[vy]) : create_array(ins.lit, regs[vy], slots)
        BY <1>4, <2>2 DEF op_new_array
      <3>2. slots \in [0 .. regs[vy] - 1 -> Pair]
        BY MallocedIsPair DEF Fresh
      <3>3. Heap' /\ Keeps
        BY <1>1, <2>1, <2>2, <3>1, <3>2, ArrayPlaced
      <3>4. Machine'
        BY <1>1, <1>2, <1>4, <2>1, <2>2, SetRegType, Goes DEF op_new_array
      <3> QED BY <3>3, <3>4, Both
    <2> QED BY <1>4, <2>2, Stops DEF op_new_array, Result
  <1>5. CASE op_filled_new_array
    <2>1. At("filled-new-array") /\ ins.lit \in Types /\ regs[vx] \in Int
      BY <1>1, <1>5, Operands DEF op_filled_new_array, Instr, Verified
    <2>2. CASE array_number < ArrayMax
      <3>1. PICK slots \in Fresh(regs[vx]) :
              create_array(ins.lit, regs[vx],
                           [n \in DOMAIN slots |-> [slots[n] EXCEPT !.lo = 0]])
        BY <1>5, <2>2 DEF op_filled_new_array
      <3> DEFINE zeroed == [n \in DOMAIN slots |-> [slots[n] EXCEPT !.lo = 0]]
      <3>2. zeroed \in [0 .. regs[vx] - 1 -> Pair]
        <4>1. slots \in [0 .. regs[vx] - 1 -> Pair]
          BY MallocedIsPair DEF Fresh
        <4>2. ASSUME NEW n \in 0 .. regs[vx] - 1
              PROVE  [slots[n] EXCEPT !.lo = 0] \in Pair
          <5>1. slots[n] \in Pair
            BY <4>1
          <5> QED BY <5>1 DEF Pair
        <4> QED BY <4>1, <4>2
      <3>3. create_array(ins.lit, regs[vx], zeroed)
        BY <3>1
      <3> HIDE DEF zeroed
      <3>4. Heap' /\ Keeps
        BY <1>1, <2>1, <2>2, <3>2, <3>3, ArrayPlaced
      <3>5. Machine'
        BY <1>1, <1>2, <1>5, <2>1, <2>2, Goes DEF op_filled_new_array
      <3> QED BY <3>4, <3>5, Both
    <2> QED BY <1>5, <2>2, Stops DEF op_filled_new_array, Result
  <1> QED BY <1>3, <1>4, <1>5

LEMMA NewInstanceKeeps ==
  ASSUME TypeOK, java_lang_reflect_Array_newInstance
  PROVE  Result
  <1> DEFINE ref == regs[vy]
             dims == cell[ref]
  <1>1. Machine /\ Heap
    BY TypeParts
  <1>2. CASE Stop("undefined")
    BY <1>2, Stops DEF Result
  <1>3. CASE ~ Stop("undefined")
    <2>1. /\ At("newInstance") /\ ref \in Ref
          /\ dims.kind = "array" /\ dims.type \in Types
          /\ dims.size >= 0 /\ array_number + 1 + dims.size <= ArrayMax
          /\ NewInstance(dims)
          /\ Go /\ UNCHANGED <<regs, object_length, static_field_value>>
      BY <1>3 DEF java_lang_reflect_Array_newInstance
    <2>2. IsArray(dims)
      BY <2>1, KindOfCell
    <2>3. Heap' /\ Keeps /\ result' \in Int
      BY <1>1, <2>1, <2>2, RowsPlaced
    <2>4. Machine'
      BY <1>1, <2>1, <2>3, Goes DEF Machine
    <2> QED BY <2>3, <2>4, Both
  <1> QED BY <1>2, <1>3

\* The handlers that leave the heap alone.
LEMMA OthersKeep ==
  ASSUME TypeOK,
         \/ op_check_cast \/ op_const_string \/ op_move_result_object
         \/ op_sput_object \/ op_sget_object
  PROVE  Result
  <1>1. Machine /\ Heap
    BY TypeParts
  <1>2. /\ result \in Int /\ regs \in [Reg -> Int]
        /\ static_field_value \in [StaticFields -> Pair]
    BY <1>1 DEF Machine
  <1>3. CASE op_check_cast
    <2>1. CASE Go /\ UNCHANGED <<regs, result, heap, static_field_value>>
      <3>1. Machine'
        BY <1>1, <1>2, <1>3, <2>1, Goes DEF op_check_cast
      <3> QED BY <1>1, <2>1, <3>1, SameHeap, Both
    <2> QED BY <1>3, <2>1, Stops DEF op_check_cast, Result
  <1>4. CASE op_const_string
    <2>1. At("const-string") /\ SetReg(vx, ins.lit) /\ ins.lit \in Int
      BY <1>1, <1>4, Operands DEF op_const_string
    <2>2. Machine'
      BY <1>1, <1>2, <1>4, <2>1, SetRegType, Goes DEF op_const_string
    <2> QED BY <1>1, <1>4, <2>2, SameHeap, Both DEF op_const_string
  <1>5. CASE op_move_result_object
    <2>1. Machine'
      BY <1>1, <1>2, <1>5, SetRegType, Goes DEF op_move_result_object
    <2> QED BY <1>1, <1>5, <2>1, SameHeap, Both DEF op_move_result_object
  <1>6. CASE op_sput_object
    <2>1. ins.lit \in StaticFields /\ regs[vx] \in Int
      BY <1>1, <1>6, Operands DEF op_sput_object, Instr, Verified
    <2>2. static_field_value' \in [StaticFields -> Pair]
      <3>1. [static_field_value[ins.lit] EXCEPT !.lo = regs[vx]] \in Pair
        <4>1. static_field_value[ins.lit] \in Pair
          BY <1>2, <2>1
        <4> QED BY <2>1, <4>1 DEF Pair
      <3>2. static_field_value' =
              [static_field_value EXCEPT
                 ![ins.lit] = [static_field_value[ins.lit] EXCEPT !.lo = regs[vx]]]
        BY <1>6 DEF op_sput_object
      <3> QED BY <1>2, <3>1, <3>2
    <2>3. Machine'
      BY <1>1, <1>2, <1>6, <2>2, Goes DEF op_sput_object
    <2> QED BY <1>1, <1>6, <2>3, SameHeap, Both DEF op_sput_object
  <1>7. CASE op_sget_object
    <2>1. ins.lit \in StaticFields
      BY <1>1, <1>7, Operands DEF op_sget_object, Instr, Verified
    <2>2. static_field_value[ins.lit].lo \in Int
      BY <1>2, <2>1 DEF Pair
    <2>3. Machine'
      BY <1>1, <1>2, <1>7, <2>2, SetRegType, Goes DEF op_sget_object
    <2> QED BY <1>1, <1>7, <2>3, SameHeap, Both DEF op_sget_object
  <1> QED BY <1>3, <1>4, <1>5, <1>6, <1>7

\* A store into a slot of a chunk.
LEMMA SlotStored ==
  ASSUME TypeOK, NEW r \in Ref, cell[r].kind \in {"object", "array"},
         NEW n \in DOMAIN cell[r].slots, NEW pair \in Pair,
         cell' = [cell EXCEPT ![r].slots[n] = pair],
         UNCHANGED <<object_length, array_number>>
  PROVE  Heap' /\ Keeps
  <1> DEFINE d == [cell[r] EXCEPT !.slots[n] = pair]
  <1>1. Heap
    BY TypeParts
  <1>2. cell' = [cell EXCEPT ![r] = d]
    OBVIOUS
  <1>3. IsObject(cell[r]) \/ IsArray(cell[r])
    BY KindOfCell
  <1>4. /\ IsObject(cell[r]) => IsObject(d)
        /\ IsArray(cell[r]) => IsArray(d)
        /\ d.kind = cell[r].kind /\ d.type = cell[r].type
        /\ DOMAIN d.slots = DOMAIN cell[r].slots
    BY <1>3, StoreKeepsChunk
  <1> HIDE DEF d
  <1>5. cell[r] # Null
    BY <1>3 DEF IsObject, IsArray, Null
  <1>6. ASSUME NEW q \in Ref
        PROVE  CellOK(q)' /\ SameChunk(q)
    <2>1. CellOK(q)
      BY <1>1 DEF Heap
    <2>2. CASE q = r
      <3>1. cell'[q] = d
        BY <1>1, <1>2, <2>2 DEF Heap
      <3> QED BY <1>4, <1>5, <2>1, <2>2, <3>1 DEF CellOK, SameChunk
    <2>3. CASE q # r
      <3>1. cell'[q] = cell[q]
        BY <1>1, <1>2, <2>3 DEF Heap
      <3> QED BY <2>1, <3>1 DEF CellOK, SameChunk
    <2> QED BY <2>2, <2>3
  <1> QED BY <1>1, <1>2, <1>6 DEF Heap, Keeps

LEMMA FieldHandlersKeep ==
  ASSUME TypeOK, op_iput \/ op_iget \/ op_iput_wide \/ op_iget_wide
  PROVE  Result
  <1> DEFINE ref == regs[vy]
             n   == ins.lit
  <1>1. Machine /\ Heap
    BY TypeParts
  <1>2. /\ result \in Int /\ regs \in [Reg -> Int]
        /\ static_field_value \in [StaticFields -> Pair]
    BY <1>1 DEF Machine
  <1>3. PICK op \in {"iput", "iget", "iput-wide", "iget-wide"} : OnField(op) /\ Go
    BY DEF op_iput, op_iget, op_iput_wide, op_iget_wide
  <1>4. /\ At(op) /\ ref \in Ref /\ cell[ref].kind = "object"
        /\ n \in DOMAIN cell[ref].slots
    BY <1>3 DEF OnField, FieldAt
  <1>5. /\ vx \in Reg /\ regs[vx] \in Int
        /\ op_iput_wide \/ op_iget_wide => vx + 1 \in Reg
    BY <1>1, <1>4, Operands DEF op_iput_wide, op_iget_wide, OnField, At, Instr, Verified, vx
  <1>6. field \in Pair /\ field.lo \in Int /\ field.hi \in Int
    <2>1. IsObject(cell[ref])
      BY <1>4, KindOfCell
    <2> QED BY <1>4, <2>1, SlotIsPair DEF field
  <1>7. ASSUME NEW pair \in Pair, PutField(pair),
               UNCHANGED <<regs, result, object_length, array_number, static_field_value>>
        PROVE  Result
    <2>1. cell' = [cell EXCEPT ![ref].slots[n] = pair]
      BY <1>7 DEF PutField
    <2>2. Heap' /\ Keeps
      BY <1>4, <1>7, <2>1, SlotStored
    <2>3. Machine'
      BY <1>1, <1>2, <1>3, <1>4, <1>7, Goes
    <2> QED BY <2>2, <2>3, Both
  <1>8. ASSUME regs' \in [Reg -> Int], UNCHANGED <<result, heap, static_field_value>>
        PROVE  Result
    <2>1. Machine'
      BY <1>1, <1>2, <1>3, <1>4, <1>8, Goes
    <2> QED BY <1>1, <1>8, <2>1, SameHeap, Both
  <1>9. CASE op_iput
    <2>1. [field EXCEPT !.lo = regs[vx]] \in Pair
      BY <1>5, <1>6 DEF Pair
    <2> QED BY <1>7, <1>9, <2>1 DEF op_iput
  <1>10. CASE op_iget
    BY <1>1, <1>6, <1>8, <1>10, SetRegType DEF op_iget
  <1>11. CASE op_iput_wide
    <2>1. [lo |-> regs[vx + 1], hi |-> regs[vx]] \in Pair
      BY <1>2, <1>5, <1>11 DEF Pair
    <2> QED BY <1>7, <1>11, <2>1 DEF op_iput_wide
  <1>12. CASE op_iget_wide
    <2>1. regs' = [regs EXCEPT ![vx] = field.hi, ![vx + 1] = field.lo]
      BY <1>12 DEF op_iget_wide
    <2>2. regs' \in [Reg -> Int]
      <3> HIDE DEF field
      <3> QED BY <1>2, <1>5, <1>6, <2>1
    <2> QED BY <1>8, <1>12, <2>2 DEF op_iget_wide
  <1> QED BY <1>9, <1>10, <1>11, <1>12

LEMMA ElementHandlersKeep ==
  ASSUME TypeOK, op_aput \/ op_aget
  PROVE  Result
  <1>1. Machine /\ Heap
    BY TypeParts
  <1>2. /\ result \in Int /\ regs \in [Reg -> Int]
        /\ static_field_value \in [StaticFields -> Pair]
    BY <1>1 DEF Machine
  <1>3. PICK op \in {"aput", "aget"} : OnElement(op) /\ Go
    BY DEF op_aput, op_aget
  <1>4. /\ At(op) /\ array \in Ref /\ cell[array].kind = "array"
        /\ index \in DOMAIN cell[array].slots
    BY <1>3 DEF OnElement
  <1>5. vx \in Reg /\ regs[vx] \in Int
    BY <1>1, <1>4, Operands
  <1>6. cell[array].slots[index] \in Pair /\ cell[array].slots[index].lo \in Int
    <2>1. IsArray(cell[array])
      BY <1>4, KindOfCell
    <2> QED BY <1>4, <2>1, SlotIsPair
  <1>7. CASE op_aput
    <2> DEFINE pair == [cell[array].slots[index] EXCEPT !.lo = regs[vx]]
    <2>1. pair \in Pair
      BY <1>5, <1>6 DEF Pair
    <2>2. cell' = [cell EXCEPT ![array].slots[index] = pair]
      BY <1>7 DEF op_aput
    <2>3. Heap' /\ Keeps
      <3>1. UNCHANGED <<object_length, array_number>>
        BY <1>7 DEF op_aput
      <3> HIDE DEF pair
      <3> QED BY <1>4, <2>1, <2>2, <3>1, SlotStored
    <2>4. Machine'
      BY <1>1, <1>2, <1>3, <1>4, <1>7, Goes DEF op_aput
    <2> QED BY <2>3, <2>4, Both
  <1>8. CASE op_aget
    <2>1. Machine'
      BY <1>1, <1>2, <1>3, <1>4, <1>6, <1>8, SetRegType, Goes DEF op_aget
    <2> QED BY <1>1, <1>8, <2>1, SameHeap, Both DEF op_aget
  <1> QED BY <1>7, <1>8

LEMMA NextKeeps ==
  ASSUME TypeOK, [Next]_vars
  PROVE  Result
  <1>1. CASE op_new_instance \/ op_new_array \/ op_filled_new_array
    BY <1>1, AllocationsKeep
  <1>2. CASE java_lang_reflect_Array_newInstance
    BY <1>2, NewInstanceKeeps
  <1>3. CASE \/ op_check_cast \/ op_const_string \/ op_move_result_object
             \/ op_sput_object \/ op_sget_object
    BY <1>3, OthersKeep
  <1>4. CASE op_iput \/ op_iget \/ op_iput_wide \/ op_iget_wide
    BY <1>4, FieldHandlersKeep
  <1>5. CASE op_aput \/ op_aget
    BY <1>5, ElementHandlersKeep
  <1>6. CASE stray
    BY <1>6, Stops DEF stray, Result
  <1>7. CASE UNCHANGED vars
    <2>1. Machine' /\ UNCHANGED heap
      BY <1>7, TypeParts DEF vars, Machine
    <2> QED BY <2>1, TypeParts, SameHeap, Both
  <1> QED BY <1>1, <1>2, <1>3, <1>4, <1>5, <1>6, <1>7 DEF Next, Halted

LEMMA InitType == Init => TypeOK
  <1> SUFFICES ASSUME Init PROVE TypeOK
    OBVIOUS
  <1>1. PICK start \in Starts : program = start[1] /\ regs = start[2]
    BY DEF Init
  <1>2. program \in Seq(Instr) /\ regs \in [Reg -> Int] /\ Len(program) \in Nat
    BY <1>1, HeapAssumption, LenProperties
  <1>3. static_field_value \in [StaticFields -> Pair]
    BY MallocedIsPair DEF Init
  <1>4. Machine
    BY <1>2, <1>3 DEF Init, Machine
  <1>5. Heap
    <2>1. \A r \in Ref : r >= 0
      BY DEF Ref
    <2> QED BY <2>1, HeapAssumption DEF Init, Heap, CellOK, Ref
  <1> QED BY <1>4, <1>5, TypeParts

-----------------------------------------------------------------------------
\* The heap of simple_dvm is well formed, for every program: vm->object_length and
\* vm->array_number say which cells point to a chunk, and each chunk is an
\* object with as many fields as its class or an array of its length, whose
\* slots hold words; where the objects have run over the arrays, it is either.
THEOREM HeapTypeOK == Spec => []TypeOK
  BY InitType, NextKeeps, PTL DEF Spec, Result

\* Nothing that a program does changes the kind, the type or the number of the
\* slots of what a reference denotes, as long as the objects fit in vm->object.
THEOREM ReferencesDenoteTheSame == Spec => ReferencesStay
  <1>1. TypeOK /\ [Next]_vars =>
          [ObjectsFit' => \A r \in Ref :
             cell[r] # Null =>
               /\ cell'[r].kind = cell[r].kind /\ cell'[r].type = cell[r].type
               /\ DOMAIN cell'[r].slots = DOMAIN cell[r].slots]_vars
    BY NextKeeps DEF Result, Keeps, SameChunk
  <1> QED BY HeapTypeOK, <1>1, PTL DEF Spec, ReferencesStay
=============================================================================
