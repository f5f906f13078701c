----------------------------- MODULE DvmProgram -----------------------------
(***************************************************************************)
(* The tables of a parsed .dex file (DexFileFormat of simple_dvm.h) as far *)
(* as calls depend on them, and the lookups that turn the operand of an    *)
(* invoke instruction into the encoded_method that runMethod executes.     *)
(* A C table is a sequence: the C index i is element i + 1.                *)
(***************************************************************************)
EXTENDS Integers, SequencesExt

CONSTANTS
  NRegs,        \* registers of the bank, vm->regs (32)
  Nibble,       \* registers that a field of four bits can name (16)
  VTableSize,   \* entries of vm->virtual_table (32)
  BranchSpan,   \* bytes that a branch offset of 16 bits spans (2 * 65536)
  Fields,       \* indices into vm->static_field_value
  PrefixPairs   \* the pairs <<s, t>> of distinct names with s a prefix of t

ASSUME NRegsAssumption == NRegs \in Nat \ {0} /\ Nibble \in 1 .. NRegs
ASSUME VTableAssumption == VTableSize \in Nat
ASSUME BranchSpanAssumption == BranchSpan \in Nat \ {0}

Reg == 0 .. NRegs - 1

(***************************************************************************)
(* Instructions.  One record type for all formats: vx and vy are register  *)
(* operands, lit is a literal, a branch offset in bytes, or an index into  *)
(* a table, args the registers C..G of an invoke.                          *)
(***************************************************************************)
Branches == {"goto", "if-eqz"}
Returns  == {"return", "return-void"}
Invokes  == {"invoke-static", "invoke-direct", "invoke-virtual"}
OneReg   == {"const", "move-result", "new-instance", "sget-object", "sput-object"}
Ops      == Branches \cup Returns \cup Invokes \cup OneReg \cup {"move", "unknown"}

Instr == [op : Ops, vx : Reg, vy : Reg, lit : Int, args : Seq(Reg)]

\* The bytes of an instruction, the amount its handler adds to *pc.
Length(i) ==
  CASE i.op \in Invokes -> 6
    [] i.op \in {"if-eqz", "new-instance", "sget-object", "sput-object"} -> 4
    [] OTHER -> 2

(***************************************************************************)
(* An encoded_method is a record of method_idx_diff, registers_size,       *)
(* insns_size (here in bytes) and code, the instruction at each byte       *)
(* offset where one starts.                                                *)
(***************************************************************************)

\* The registers that an instruction names.
Operands(i) ==
  CASE i.op \in Invokes -> ToSet(i.args)
    [] i.op \in OneReg \cup {"if-eqz", "return"} -> {i.vx}
    [] i.op = "move" -> {i.vx, i.vy}
    [] OTHER -> {}

\* What the verifier of the Dalvik tools guarantees of a method: it keeps to
\* its registers, it ends in a return or a goto, and branches to instructions.
Verified(m) ==
  /\ {m.method_idx_diff, m.registers_size, m.insns_size} \subseteq Nat
  /\ 0 \in DOMAIN m.code
  /\ DOMAIN m.code \subseteq 0 .. m.insns_size - 1
  /\ \A o \in DOMAIN m.code :
       LET i == m.code[o]
       IN  /\ i \in Instr
           /\ \A r \in Operands(i) : r < m.registers_size
           /\ i.op \in Invokes \cup {"move"} => \A r \in Operands(i) : r < Nibble
           /\ i.op \notin Returns \cup {"goto", "unknown"} =>
                o + Length(i) \in DOMAIN m.code
           /\ i.op \in Branches => o + i.lit \in DOMAIN m.code
           /\ i.op = "if-eqz" =>
                i.lit \in -(BranchSpan \div 2) .. BranchSpan \div 2 - 1
           /\ i.op \notin Branches \cup {"const"} => i.lit \in Nat
           /\ i.op \in {"sget-object", "sput-object"} => i.lit \in Fields
           /\ i.op = "invoke-virtual" => i.args # <<>>

Kinds == {"direct", "virtual"}

\* A pointer to an encoded_method: the class_data_item, the array, the index.
\* cls = -1 and an index past the array are pointers that C can form too.
Ref == [cls : Int, kind : Kinds, idx : Int]
NoMethod == [cls |-> -1, kind |-> "direct", idx |-> -1]

Methods(dex, ref) == dex.class_def[ref.cls + 1][ref.kind]

\* Does the pointer point to a method of the file?
InTable(dex, ref) ==
  /\ ref \in Ref
  /\ ref.cls \in 0 .. Len(dex.class_def) - 1
  /\ ref.idx \in 0 .. Len(Methods(dex, ref)) - 1

Method(dex, ref) == Methods(dex, ref)[ref.idx + 1]
Code(dex, ref)   == Method(dex, ref).code

IsSeq(s) == s \in Seq(ToSet(s))

\* The tables of a parsed file: sequences, with verified methods and with
\* method ids that have a name.
IsProgram(dex) ==
  /\ IsSeq(dex.string) /\ IsSeq(dex.method_id) /\ IsSeq(dex.class_def)
  /\ \A m \in DOMAIN dex.method_id :
       dex.method_id[m].name_idx + 1 \in DOMAIN dex.string
  /\ \A c \in DOMAIN dex.class_def, kind \in Kinds :
       /\ IsSeq(dex.class_def[c][kind])
       /\ \A k \in DOMAIN dex.class_def[c][kind] : Verified(dex.class_def[c][kind][k])

-----------------------------------------------------------------------------
(***************************************************************************)
(* Lookups.                                                                *)
(***************************************************************************)

\* memcmp over strlen(entry) bytes: entry is a prefix of the table's string.
find_const_string(dex, entry) ==
  SelectInSeq(dex.string, LAMBDA s : s = entry \/ <<entry, s>> \in PrefixPairs) - 1

\* The class_def_item of a type, -1 when the file does not define the class.
class_def_of(dex, class_idx) ==
  SelectInSeq(dex.class_def, LAMBDA c : c.class_idx = class_idx) - 1

\* The method id that each element of an array encodes: the sum of the
\* differences up to and with its own.
IdsUpTo(m_Arr) ==
  LET acc[k \in 0 .. Len(m_Arr)] ==
        IF k = 0 THEN 0 ELSE acc[k - 1] + m_Arr[k].method_idx_diff
  IN  acc

MethodIds(m_Arr) == [k \in 1 .. Len(m_Arr) |-> IdsUpTo(m_Arr)[k]]

\* The index in m_Arr of a method id.  When no element has that id the id
\* itself is left in method_idx and used as the index.
index_of_Assigns(m_Arr, method_idx) == 0   \* = for == in the test

index_of_OffByOne(m_Arr, method_idx) ==
  LET k == SelectInSeq(MethodIds(m_Arr), LAMBDA id : id = method_idx)
  IN  IF k = 0 THEN method_idx ELSE k

index_of(m_Arr, method_idx) ==
  LET ids == MethodIds(m_Arr)
      k   == SelectInSeq(ids, LAMBDA id : id = method_idx)
  IN  IF k = 0 THEN method_idx ELSE k - 1

RefOf(dex, cls, kind, method_idx) ==
  [cls  |-> cls,
   kind |-> kind,
   idx  |-> IF cls \in 0 .. Len(dex.class_def) - 1
            THEN index_of(dex.class_def[cls + 1][kind], method_idx)
            ELSE method_idx]

\* The method id that invoke_method_entry runs for a name: the first one of
\* the method table with that name, of whatever class and prototype.
EntryId(dex, entry) ==
  LET name_idx == find_const_string(dex, entry)
  IN  SelectInSeq(dex.method_id, LAMBDA m : m.name_idx = name_idx) - 1

\* The method that invoke_method_entry runs, NoMethod when it prints
\* "no method" and returns.
invoke_method_entry(dex, entry, kind) ==
  LET id == EntryId(dex, entry)
  IN  IF id = -1 THEN NoMethod
      ELSE RefOf(dex, class_def_of(dex, dex.method_id[id + 1].class_idx), kind, id)

\* The names that it may be called with: the ones that simple_dvm_startup looks
\* for, and the ones of the file's methods.
Entries(dex) == {"<clinit>", "main"} \cup ToSet(dex.string)

\* vm->virtual_table after virtural_table_lookup: by method id, for the
\* methods of the classes that the file defines.
virtural_table_lookup(dex) ==
  [i \in 0 .. VTableSize - 1 |->
     IF i < Len(dex.method_id) /\ class_def_of(dex, dex.method_id[i + 1].class_idx) # -1
     THEN RefOf(dex, class_def_of(dex, dex.method_id[i + 1].class_idx), "virtual", i)
     ELSE NoMethod]

\* Does virtural_table_lookup write past the table?
TableOverrun(dex) ==
  \E i \in 1 .. Len(dex.method_id) :
    i > VTableSize /\ class_def_of(dex, dex.method_id[i].class_idx) # -1

\* The method id that op_utils_invoke_35c_parse decodes from the two bytes of
\* an operand: the high byte is shifted by 4, and or-ed to the low one.
Bit(n, i) == (n \div 2^i) % 2

ParsedId(method_id) ==
  LET low  == method_id % 256
      high == (method_id \div 256) * 16
  IN  IF method_id < 256 THEN method_id
      ELSE MapThenSumSet(LAMBDA i : 2^i * (IF Bit(low, i) = 1 \/ Bit(high, i) = 1
                                           THEN 1 ELSE 0), 0 .. 11)

\* What the library does with a method: "none" when its class and name are not
\* in method_table of java_lib.c, "value" when its function writes vm->result.
library(dex, method_id) ==
  IF method_id \in DOMAIN dex.library THEN dex.library[method_id] ELSE "none"

\* The name that an invoke passes on to invoke_method_entry.
NameOf(dex, method_id) ==
  dex.string[dex.method_id[method_id + 1].name_idx + 1]
=============================================================================
