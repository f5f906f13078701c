------------------------------ MODULE DvmHeap ------------------------------
(***************************************************************************)
(* The heap of simple_dvm: vm->object, vm->array and the static fields,    *)
(* with the handlers that allocate, cast, load and store.                  *)
(*                                                                         *)
(* simple_dalvik_vm places vm->array right behind vm->object, and an array *)
(* reference is the array's number plus the length of vm->object: so both  *)
(* kinds of reference index one table of pointers, here cell.  Nothing is  *)
(* ever freed or moved, and no access checks a reference, a field or an    *)
(* index: where C has no defined outcome the mode becomes "undefined".     *)
(***************************************************************************)
EXTENDS Integers, Sequences

CONSTANTS
  NRegs,           \* registers of the bank (32)
  ObjectMax,       \* entries of vm->object (8192)
  ArrayMax,        \* entries of vm->array (512)
  InstanceFields,  \* for each type, its class's number of instance fields, or
                   \* -1 when the file does not define the class
  ArrayOf,         \* for each type, the type of arrays of it, or -1
  StaticFields,    \* the field ids of the file
  Starts,          \* pairs of a straight-line program and an initial bank
  Garbage          \* words that malloc'ed memory may hold

Reg == 0 .. NRegs - 1
Types == DOMAIN InstanceFields
Ref == 0 .. ObjectMax + ArrayMax - 1

\* Instructions that the verifier of the Dalvik tools lets pass: their types
\* and static fields are in the file, and a pair of registers in the bank.
Verified(i) ==
  /\ i.op \in {"new-instance", "new-array", "filled-new-array"} => i.lit \in Types
  /\ i.op \in {"sput-object", "sget-object"} => i.lit \in StaticFields
  /\ i.op \in {"iput-wide", "iget-wide"} => i.vx + 1 \in Reg

Instr == {i \in [op : STRING, vx : Reg, vy : Reg, vz : Reg, lit : Nat] : Verified(i)}

ASSUME HeapAssumption ==
  /\ {NRegs, ObjectMax, ArrayMax} \subseteq Nat \ {0}
  /\ Types \subseteq Nat
  /\ InstanceFields \in [Types -> Nat \cup {-1}]
  /\ ArrayOf \in [Types -> Types \cup {-1}]
  /\ StaticFields \subseteq Nat
  /\ Garbage \subseteq Int /\ Garbage # {}
  /\ Starts \subseteq Seq(Instr) \X [Reg -> Int]

VARIABLES
  program, k,          \* a sequence of instructions, the index of the next one
  mode,                \* "run", or "exit" or "undefined" at the end
  regs,                \* vm->regs
  result,              \* the half of vm->result that move-result reads
  cell,                \* vm->object and, behind it, vm->array
  object_length,       \* vm->object_length
  array_number,        \* vm->array_number
  static_field_value   \* vm->static_field_value

heap == <<cell, object_length, array_number>>
vars == <<program, k, mode, regs, result, heap, static_field_value>>

-----------------------------------------------------------------------------
\* The eight bytes of a field_value.
Pair == [lo : Int, hi : Int]
Malloced == [lo : Garbage, hi : Garbage]

Null == [kind |-> "null"]
Object(type, slots) == [kind |-> "object", type |-> type, slots |-> slots]
Array(type, size, slots) ==
  [kind |-> "array", type |-> type, size |-> size, slots |-> slots]

ins == program[k]
vx == ins.vx
vy == ins.vy
vz == ins.vz

At(op) == mode = "run" /\ k <= Len(program) /\ ins.op = op

Go == k' = k + 1 /\ UNCHANGED <<program, mode>>

Stop(m) ==
  mode' = m /\ UNCHANGED <<program, k, regs, result, heap, static_field_value>>

SetReg(r, v) == regs' = [regs EXCEPT ![r] = v]

-----------------------------------------------------------------------------
(***************************************************************************)
(* Allocation.                                                             *)
(***************************************************************************)
create_instance_InPlace(type, slots) ==
  /\ cell' = [cell EXCEPT ![object_length] = Object(type, slots)]
  /\ UNCHANGED <<object_length, array_number>>

\* Past the entries of vm->object, the pointer goes over one of an array.
create_instance(type, slots) ==
  /\ cell' = [cell EXCEPT ![object_length] = Object(type, slots)]
  /\ object_length' = object_length + 1
  /\ UNCHANGED array_number

create_array(type, size, slots) ==
  /\ cell' = [cell EXCEPT ![ObjectMax + array_number] = Array(type, size, slots)]
  /\ array_number' = array_number + 1
  /\ UNCHANGED object_length

Fresh_OneShort(n) == [0 .. n - 2 -> Malloced]

\* The slots of n fields or elements as malloc returns them; none when n is
\* negative, and malloc fails.
Fresh(n) == [0 .. n - 1 -> Malloced]

op_new_instance ==
  /\ At("new-instance")
  /\ \/ /\ InstanceFields[ins.lit] = -1
        /\ SetReg(vx, -1)
        /\ Go /\ UNCHANGED <<result, heap, static_field_value>>
     \/ /\ InstanceFields[ins.lit] # -1
        /\ object_length \in Ref
        /\ \E slots \in Fresh(InstanceFields[ins.lit]) : create_instance(ins.lit, slots)
        /\ SetReg(vx, object_length)
        /\ Go /\ UNCHANGED <<result, static_field_value>>
     \/ /\ InstanceFields[ins.lit] # -1
        /\ object_length \notin Ref
        /\ Stop("undefined")

op_new_array ==
  /\ At("new-array")
  /\ IF array_number < ArrayMax
     THEN /\ \E slots \in Fresh(regs[vy]) : create_array(ins.lit, regs[vy], slots)
          /\ SetReg(vx, ObjectMax + array_number)
          /\ Go /\ UNCHANGED <<result, static_field_value>>
     ELSE Stop("undefined")

\* create_array_filled: the size comes from the register that should hold the
\* first element, and all elements are zero.
op_filled_new_array ==
  /\ At("filled-new-array")
  /\ IF array_number < ArrayMax
     THEN /\ \E slots \in Fresh(regs[vx]) :
               create_array(ins.lit, regs[vx],
                            [n \in DOMAIN slots |-> [slots[n] EXCEPT !.lo = 0]])
          /\ result' = ObjectMax + array_number
          /\ Go /\ UNCHANGED <<regs, static_field_value>>
     ELSE Stop("undefined")

\* The number of row n, when the array that holds the rows has number outer.
Row_Shared(outer, n) == outer + 1
Row(outer, n) == outer + 1 + n

\* An array of arrays, each of the type and of the length of the array of
\* dimensions.
NewInstance(dims) ==
  LET size  == dims.size
      outer == array_number
      rows  == {Row(outer, n) : n \in 0 .. size - 1}
  IN  /\ \E list \in Fresh(size), elements \in [rows -> Fresh(size)] :
           cell' = [r \in Ref |->
             CASE r = ObjectMax + outer ->
                    Array(ArrayOf[dims.type], size,
                          [n \in 0 .. size - 1 |-> [list[n] EXCEPT !.lo = ObjectMax + Row(outer, n)]])
               [] r - ObjectMax \in rows -> Array(dims.type, size, elements[r - ObjectMax])
               [] OTHER -> cell[r]]
      /\ array_number' = array_number + 1 + size
      /\ result' = ObjectMax + outer

\* java.lang.reflect.Array.newInstance, called through its library entry.
java_lang_reflect_Array_newInstance ==
  /\ At("newInstance")
  /\ LET ref == regs[vy]
     IN  IF /\ ref \in Ref /\ ref >= ObjectMax
            /\ cell[ref].kind = "array" /\ cell[ref].type \in Types
            /\ cell[ref].size >= 0 /\ array_number + 1 + cell[ref].size <= ArrayMax
         THEN /\ NewInstance(cell[ref])
              /\ Go /\ UNCHANGED <<regs, object_length, static_field_value>>
         ELSE Stop("undefined")

-----------------------------------------------------------------------------
(***************************************************************************)
(* Casts, and registers that hold references.                              *)
(***************************************************************************)

\* The type of the reference in vx: 0 for whatever is below the references of
\* arrays, and the first word of the chunk otherwise.
check_cast_type == IF regs[vx] < ObjectMax THEN 0 ELSE cell[regs[vx]].type

op_check_cast ==
  /\ At("check-cast")
  /\ IF regs[vx] >= ObjectMax /\ (regs[vx] \notin Ref \/ cell[regs[vx]] = Null)
     THEN Stop("undefined")
     ELSE IF check_cast_type = ins.lit
          THEN Go /\ UNCHANGED <<regs, result, heap, static_field_value>>
          ELSE Stop("exit")

\* The reference of a string is its number in the file.
op_const_string ==
  At("const-string") /\ SetReg(vx, ins.lit) /\ Go
  /\ UNCHANGED <<result, heap, static_field_value>>

op_move_result_object ==
  At("move-result-object") /\ SetReg(vx, result) /\ Go
  /\ UNCHANGED <<result, heap, static_field_value>>

-----------------------------------------------------------------------------
(***************************************************************************)
(* Static fields.                                                          *)
(***************************************************************************)
op_sput_object ==
  /\ At("sput-object")
  /\ static_field_value' = [static_field_value EXCEPT ![ins.lit].lo = regs[vx]]
  /\ Go /\ UNCHANGED <<regs, result, heap>>

op_sget_object ==
  /\ At("sget-object")
  /\ SetReg(vx, static_field_value[ins.lit].lo)
  /\ Go /\ UNCHANGED <<result, heap, static_field_value>>

-----------------------------------------------------------------------------
(***************************************************************************)
(* Instance fields.  The field's number in the file, and not its number in *)
(* its class, indexes the fields of the object; vy is any word.            *)
(***************************************************************************)
FieldAt(ref, field) ==
  /\ ref \in Ref /\ cell[ref].kind = "object"
  /\ field \in DOMAIN cell[ref].slots

OnField(op) == At(op) /\ FieldAt(regs[vy], ins.lit)
field == cell[regs[vy]].slots[ins.lit]
PutField(pair) == cell' = [cell EXCEPT ![regs[vy]].slots[ins.lit] = pair]

op_iput ==
  OnField("iput") /\ PutField([field EXCEPT !.lo = regs[vx]]) /\ Go
  /\ UNCHANGED <<regs, result, object_length, array_number, static_field_value>>

op_iget ==
  OnField("iget") /\ SetReg(vx, field.lo) /\ Go
  /\ UNCHANGED <<result, heap, static_field_value>>

\* The high word is in vx and the low one in vx + 1.
op_iput_wide ==
  OnField("iput-wide") /\ PutField([lo |-> regs[vx + 1], hi |-> regs[vx]]) /\ Go
  /\ UNCHANGED <<regs, result, object_length, array_number, static_field_value>>

op_iget_wide ==
  OnField("iget-wide") /\ regs' = [regs EXCEPT ![vx] = field.hi, ![vx + 1] = field.lo]
  /\ Go /\ UNCHANGED <<result, heap, static_field_value>>

-----------------------------------------------------------------------------
(***************************************************************************)
(* Arrays.  Both the reference and the index lose ObjectMax when they are  *)
(* not below it.                                                           *)
(***************************************************************************)
Unbased(v) == IF v >= ObjectMax THEN v - ObjectMax ELSE v

array == ObjectMax + Unbased(regs[vy])
index == Unbased(regs[vz])

OnElement(op) ==
  /\ At(op)
  /\ array \in Ref /\ cell[array].kind = "array"
  /\ index \in DOMAIN cell[array].slots

op_aput ==
  /\ OnElement("aput")
  /\ cell' = [cell EXCEPT ![array].slots[index].lo = regs[vx]]
  /\ Go /\ UNCHANGED <<regs, result, object_length, array_number, static_field_value>>

op_aget ==
  /\ OnElement("aget")
  /\ SetReg(vx, cell[array].slots[index].lo)
  /\ Go /\ UNCHANGED <<result, heap, static_field_value>>

\* A load or a store outside the object or the array that it should be in.
stray ==
  /\ \/ \E op \in {"iput", "iget", "iput-wide", "iget-wide"} : At(op) /\ ~ OnField(op)
     \/ \E op \in {"aput", "aget"} : At(op) /\ ~ OnElement(op)
  /\ Stop("undefined")

-----------------------------------------------------------------------------
Init ==
  /\ \E start \in Starts : program = start[1] /\ regs = start[2]
  /\ k = 1 /\ mode = "run"
  /\ result = 0
  /\ cell = [r \in Ref |-> Null]
  /\ object_length = 0 /\ array_number = 0
  /\ static_field_value \in [StaticFields -> Malloced]

Halted == (mode # "run" \/ k > Len(program)) /\ UNCHANGED vars

Next ==
  \/ op_new_instance \/ op_new_array \/ op_filled_new_array
  \/ java_lang_reflect_Array_newInstance
  \/ op_check_cast \/ op_const_string \/ op_move_result_object
  \/ op_sput_object \/ op_sget_object
  \/ op_iput \/ op_iget \/ op_iput_wide \/ op_iget_wide
  \/ op_aput \/ op_aget \/ stray
  \/ Halted

Spec == Init /\ [][Next]_vars

-----------------------------------------------------------------------------
\* The negative numbers of elements have no slots.
Slots(size) == [0 .. size - 1 -> Pair]
IsObject(c) ==
  /\ c.kind = "object" /\ c = Object(c.type, c.slots)
  /\ c.type \in Types /\ InstanceFields[c.type] # -1
  /\ c.slots \in Slots(InstanceFields[c.type])
IsArray(c) ==
  /\ c.kind = "array" /\ c = Array(c.type, c.size, c.slots)
  /\ c.type \in Types \cup {-1} /\ c.size \in Int /\ c.slots \in Slots(c.size)

\* Every variable keeps its type; the two lengths say which entries point to a
\* chunk, and as long as the objects stay in their part of the table each part
\* holds chunks of its kind.
TypeOK ==
  /\ program \in Seq(Instr)
  /\ k \in 1 .. Len(program) + 1
  /\ mode \in {"run", "exit", "undefined"}
  /\ regs \in [Reg -> Int]
  /\ result \in Int
  /\ object_length \in 0 .. ObjectMax + ArrayMax
  /\ array_number \in 0 .. ArrayMax
  /\ static_field_value \in [StaticFields -> Pair]
  /\ DOMAIN cell = Ref
  /\ \A r \in Ref :
       LET isObject == r < object_length
           isArray  == r >= ObjectMax /\ r - ObjectMax < array_number
       IN  /\ isObject /\ ~ isArray => IsObject(cell[r])
           /\ isArray /\ ~ isObject => IsArray(cell[r])
           /\ isArray /\ isObject => IsObject(cell[r]) \/ IsArray(cell[r])
           /\ ~ isArray /\ ~ isObject => cell[r] = Null

\* The objects have not yet run over the arrays.
ObjectsFit == object_length <= ObjectMax

\* A reference once given out keeps denoting the same object or array, with
\* its type and its number of fields or elements, however many others are
\* allocated and wherever copies of it are stored: until there are more objects
\* than vm->object has entries.
ReferencesStay ==
  [][ObjectsFit' => \A r \in Ref :
       cell[r] # Null =>
         /\ cell'[r].kind = cell[r].kind /\ cell'[r].type = cell[r].type
         /\ DOMAIN cell'[r].slots = DOMAIN cell[r].slots]_vars
=============================================================================
