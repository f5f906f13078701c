# simple_dvm and simple_jvm: models, model checking and proofs

The repository holds two small virtual machines in C, both single-threaded
command-line programs:

* `src/simple_dvm` parses a Dalvik `.dex` file and interprets `<clinit>` and
  `main`. It has two interpreters: one calls handlers through a look-up table
  (`bytecodes.c`), the other is direct-threaded (`bytecode_thread.c`);
  `threaded_code` in `simple_dvm.h` selects one at compile time.
* `src/simple_jvm` parses a Java `.class` file and interprets it on an operand
  stack.

They share no code. Nothing runs concurrently, nothing is persisted and nothing
is retried. What is hard here is **sequence and state**: one register bank, one
result and one pc are shared by all activations and saved by hand; references
are bare numbers that index unchecked tables; 64-bit values live in register
pairs; and both loops end only when a handler says so.

## 1. Inventory

| component | state | operations | what makes it correct | status |
|---|---|---|---|---|
| dvm call machinery: `dvm.c`, invoke/return handlers | `vm->regs`, `result`, `pc`, `p`, `virtual_table`; saved registers and pcs on the C stack | `simple_dvm_startup`, `invoke_method_entry`, `invoke_method`, `invoke_virtual_method`, `virtural_table_lookup`, `copy_parameter`, `runMethod`, invokes, returns | a call runs the method that its operand names, gets its arguments, and leaves the caller's registers alone; the loop ends by returns only; every program ends | modelled |
| dvm computing handlers: `bytecode_thread.c`, `bytecodes.c`, `utils.c` | `vm->regs`, `pc` | moves, constants, int/long/double arithmetic, conversions, comparisons, branches, packed-switch | two's-complement results, also for overlapping pairs; the tests order the ints; a branch goes forwards by its offset, an int without a key past its switch | modelled |
| dvm heap: `type_ids_parser.c` 41-93 and the object, array, field and cast handlers | `vm->object`, `vm->array`, their counters, `static_field_value` | `create_instance`, `create_array`, `create_array_filled`, `Array.newInstance`, new, put, get, cast | a reference denotes the same thing for ever; loads return stores; limits only at the limits | modelled |
| dvm library: `java_lib.c` | one static string buffer, its length and a flag | `random`, `currentTimeMillis`, `newInstance`, string builder, `println` | a program that uses one builder at a time prints what Java prints; only a long text overruns the buffer | modelled; the values of `random` and the clock are inputs |
| dex parsers: `dex_parser.c`, `*_ids_parser.c`, `class_def_parser.c`, `map_list_parser.c`, `leb128.c` | `DexFileFormat` | one parser per section, table look-ups | tables, classes and code are read back as written; look-ups find them | modelled |
| dvm main: `main.c` | `DexFileFormat` | clear, parse, start | starts with the tables of the file; of a file that is not whole, a table that was counted and not filled is all that can end it | modelled, without the profiler and printing |
| jvm interpreter: `simple_jvm/bytecodes.c`, `stack.c`, `main.c` | operand stack, ten global locals, pc | `executeMethod`, push/pop, the handlers, invokes | statements of Java mean what Java says; the stack is as deep as the statements before it left it; the loop ends | modelled |
| jvm pools: `class_parser.c`, `*_pool_parser.c`, `free_pool.c` | constant, method, field and interface pools | parse, find by constant-pool index | the parser keeps its place; a look-up returns the entry with that index; the code of `<init>` is what runs | modelled |
| jvm library: `simple_jvm/java_lib.c` | - | `random`, `currentTimeMillis` | pushes exactly one entry | modelled |
| tests and build | - | Java programs, make targets | - | not modelled |

How they interact: `main.c` parses the file into `DexFileFormat`, which is never
written again, and calls `simple_dvm_startup`. That runs `<clinit>`, fills the
virtual table and runs `main`. `runMethod` loops over handlers; a handler of an
invoke parses its operand into the shared `vm->p`, tries the library by class and
name, and otherwise calls back into `invoke_method_entry` or
`invoke_virtual_method`, which call `runMethod` again on the C stack. Heap
handlers reach the tables through references in registers. The only channel
between a callee and its caller is `vm->result`, besides the heap and the static
fields.

In `simple_jvm`, `main` parses the file into four global pools and passes the
method `<init>` to `executeMethod`, which loops over handlers. All its activations
share one operand stack, one set of locals and one string buffer; a handler finds
what it names in the constant pool, by index; `invokespecial` calls
`executeMethod` again on the C stack, and that is also how `main` of the Java class
is reached.

The hazards, each at its line with the properties that would catch it, are in
`PROJECT.json`.

## 2. The modules

```
DvmProgram        tables of a parsed file and the method look-ups (no state)
  Activations     abstract: what calls promise
  DvmCalls        detailed: start-up, runMethod's loop, calls and returns
    MCDvmPrograms programs and constants for TLC
    DvmConforming the programs for which the code keeps the promises of Activations
      MCDvmCalls  those of the run, which conform
      MCDvmNonconforming  programs that each break one of its conditions
    DvmCallsProofs      theorems: types, the ends of the loop, targets of calls,
                        registers of callers, limits; DvmCalls implements Activations
DvmData           the handlers that compute
  MCDvmData
  DvmDataProofs   theorems
DvmHeap           allocation, casts, fields and arrays
  MCDvmHeap
  DvmHeapProofs   theorems
JavaStatements    abstract: what the statements of a Java main mean
JvmInterp         detailed: executeMethod, the operand stack, the handlers
  MCJvmInterp     programs, their compilation, and the mapping between the two
  JvmInterpProofs theorem
JavaStrings       abstract: builders, strings and println as Java has them
DvmStrings        the buffer of java_lib.c, step by step with JavaStrings
  MCDvmStrings
  DvmStringsProofs  theorems
ClassFile         abstract: what a class file says, and its bytes
JvmPools          the parsers of simple_jvm, look-ups, code attributes, free_pools
  MCJvmPools      class files
  JvmPoolsProofs  theorems
DexFile           abstract: what a dex file says, and its bytes
DexParser         the parsers of simple_dvm, look-ups, main
  MCDexParser     dex files
  DexParserProofs theorems
SequenceFacts     lemmas about numbers and sequences that the proofs share
```

`DvmCalls`, `DvmData` and `DvmHeap` split the handlers between them. They share only the
register bank: `DvmCalls` keeps of the others' handlers what calls can see of
them (a constant, a move, a branch, a static field, the number of objects);
`DvmData` and `DvmHeap` run straight-line programs, because the properties they
have concern values and references and not the activation that holds them.

Both interpreters are covered by one model: the handlers in `bytecodes.c` and in
`bytecode_thread.c` were compared and do the same to the state. They differ in
how they go on: the look-up-table interpreter goes back to the test of
`runMethod`'s loop after each handler, the threaded one jumps to the next handler
without that test, except after a return and a packed-switch; and in what an
opcode without handler does. `build` in `DvmCalls` is that choice. `map` cites
`bytecodes.c` for the handlers in `DvmCalls` and `bytecode_thread.c` for those
in `DvmData` and `DvmHeap`.

### DvmProgram

The tables (`string`, `method_id`, `class_def`) as sequences, an instruction as a
record, and the look-ups that turn an operand into an `encoded_method`: the
prefix comparison of strings, the search of a method id in an array of
differences (`index_of`), the first method id with a name (`EntryId`), the
decoding of a 35c operand (`ParsedId`), and the virtual table. A method pointer
is a `Ref`: class data, kind of array, index; it may point outside its array, as
a C pointer can. `Verified` states what the Dalvik tools guarantee of a
method: operands within its registers, branches to instructions, an end in a
return or goto. It is the precondition on the inputs: the code checks none of it.
`BranchSpan` is how many bytes the 16 bits of a branch offset span.

### DvmCalls and Activations

`mode` is the C control: the three points of `simple_dvm_startup`, `check` (the
test of the loop), `exec` (a handler is about to run), and the ends. `frames`
holds what each nested `runMethod` leaves on the C stack: the method, the saved
registers, how many of them are put back (32 or 16), `pc_current`, and where
the call came from. `Activate` and `LeaveMethod` are the two halves of
`invoke_method` around `runMethod`. `undefined` is where C has no defined
outcome: a pointer outside a table, more registers than the bank has, a pc that
is at no instruction (`Stray`). The handler of `if-eqz` puts its offset together
without the sign (`Unsigned`): a branch that should lead back goes on
`BranchSpan` further, out of the method.

`Activations` is what a reader expects of calls: a stack of activations with
registers and a pc each. `DvmCalls` implements it under the mapping `Stack`,
which takes a caller's registers from the copies its callee will put back.
Nothing is promised of a virtual call on something that is not an object.

### DvmConforming

The refinement does not hold of every verified program. `Conforms` has one condition
for each thing that the Dalvik format allows and the code gets wrong:

* an invoke names a method that is the first one of its name, since
  `invoke_method_entry` and `find_method` go by names; `<clinit>` and `main` too,
  where a missing method is another matter than one that a longer name hides;
* the class of the method lists it (`Listed`): methods are not inherited;
* its id is one that `op_utils_invoke_35c_parse` decodes (`ParsedId(i.lit) = i.lit`);
* the arguments are no more than the registers of the method;
* a method with a virtual call has at most as many registers as such a call saves;
* `if-eqz` tests a register that four bits can name, and its offset leads forwards,
  since the handler drops the sign (`bytecodes.c:1190`); only `goto` leads back;
* nothing that runs from `<clinit>` makes a virtual call (`IsInitializers`): the
  virtual table is still empty then and the call does nothing (`dvm.c:222-223`).

`ShortMethods` adds that no method is longer than the pcs that a return leaves.
The programs of `dvm_calls` satisfy all of this (TLC evaluates `ProgramsConform`), those of
`dvm_nonconforming` each break one condition (`NoneConforms`), and
those of the violation runs, in `MCDvmPrograms`, need not satisfy any. Apart from what it
gets wrong, the code has limits, which `AtALimit` names: methods past the virtual
table, registers past the bank, one object too many, the receiver one past the objects
(`bytecodes.c:586` compares with `>`), a class that the file does not define and an opcode
without a handler. `UndefinedByLimitsOnly` says that a conforming program gets to
`undefined` only there: no look-up of a listed method leaves its array, and no branch,
return or end of a call leaves the code.

### DvmData

One action per handler. Half a byte has `HalfByte` values (16 in the code), so an int
is a number below `Word = Byte^4` and a long is two registers, the high word first.
`Verified` is what the Dalvik tools guarantee of operands: pairs within the bank, a
literal of the width of its format. Literals are
sign-extended only where the code does (const/4 and goto); `const-wide/high16`
takes its high half from 16 bytes past the value, since the macro casts before
it adds; `cmp-long` yields 1 or 0 only; `packed-switch` reads its targets 2 bytes
apart; `mul-long/2addr` stores both halves of its product in vx, so that vx + 1 keeps what it
held; division goes by the detour of the code and traps as the processor does.
Arithmetic on doubles is a constant function: the model covers how the pairs are
put together, not IEEE arithmetic. Overflow of signed ints wraps, and char is
signed, as gcc does on x86 for this code.

### DvmHeap

`vm->array` follows `vm->object` in `simple_dalvik_vm`, and an array reference is
its number plus the 8192 entries of `vm->object`: one table `cell` holds both,
and the model shows what happens where they meet. Memory from malloc holds any
word of `Garbage`. A check-cast of an object, also to its own class, ends the program: only arrays have
a type for it. Accesses outside a chunk end in `undefined`. A class that the
file does not define gives the reference -1, as `create_instance` does.

### JvmInterp and JavaStatements

One action per handler, and two for the loop over the attributes of a method
(`NextAttribute`, `EndMethod`). `class` holds the constant pool and the method
pool as the parsers leave them; a code is a function from byte offsets to
instructions, so that jumps are offsets as in the code. An entry of the stack is
eight bytes, a number, with a type; `local` is the ten ints and the ten longs as
consecutive words, since an int index of 10 or more reaches the longs. `Short` and `Word` are how many values a short and an int
have. `IsClass` says that the numbers of a class file are numbers and
that no jump goes to before the first instruction, where the C code would read
outside of the memory of the code. A piece of
text stands for its bytes and has their number, which the buffer of 1024
bytes and the one of 255 are checked against. Arithmetic on doubles is a constant
function on patterns. The model keeps what is unlike a JVM: `main` runs because
`<init>` executes `invokespecial #1` and the second method of the class is `main`;
`new` pushes nothing and `dup` copies the stream below it; every call on a string
builder pops one entry and pushes none; `println` leaves its stream; bytes of
`bipush` and `iinc` have no sign; a reference that no pool entry resolves ends
the method; an unknown opcode turns for ever. Where C has no defined outcome
(a pop from the empty stack, a push to the full one, a local past the longs, a
full buffer, a pc at no instruction) `stray` ends the model's run in `undefined`.

`JavaStatements` is the meaning of a `main` as Java has it, one step per
statement, without stack or offsets. `MCJvmInterp` compiles statements to code as
javac does and maps the interpreter to the statements: `at` is the statement
whose code contains the pc of the second activation. Every statement takes
effect in its last instruction. An implementation may give up after more
one-piece lines than the stack has room for; of the statement `other`, whose
code the program brings along, nothing is promised.

### DvmStrings and JavaStrings

All builders of `simple_dvm` are one static buffer. `toString` returns nothing: it
sets a flag, the `move-result-object` behind it loads whatever `vm->result` holds,
and `println` prints the buffer when the flag is set, whatever is in its register.
`DvmStrings` has the registers, `vm->result`, the buffer as a function from its
bytes, `buf_ptr` and `use_buf`, and an action per handler or library function.
`JavaStrings` has builders with texts of their own and variables that hold ints,
literals, builders or strings. Each action of `Next` is a step of both, so the
variables of Java are a history of what the program means: two things are compared
that have no common representation, since a string has no counterpart in the
machine's registers. `orderly` says that the program has kept to one builder at a
time so far: nothing else is built or printed between a `toString` and the `println`
of its string, only literals and ints are appended. That is what javac makes of
`println("a" + n)`. After the first disorderly step nothing is compared any more:
builders that interleave do mix, and a string that is appended after `toString`
is read from a stale register. `snprintf` is given the size of the whole buffer at
any position, so it never cuts a text off, and what does not fit ends in
`undefined`, as does the text of a number that is no string. A `println` of an
int, a double or nothing is outside of both modules: the code takes the int for
the number of a string.

### JvmPools and ClassFile

`ClassFile` is a class as the Java specification has it: constants known by an
index, of which longs and doubles take two, members with attributes; and its
bytes. `JvmPools` starts with such a class and its file and parses the bytes, one
action per entry that the code reads: `stage`, `i`, `count` and `todo` are the
control of the nested loops, `pos` the position of the file, and the pools are
sequences. A value in a pool is its bytes, so that the order in which the code puts
them together is visible: a long is copied as it lies in the file (its bytes are
reversed on the machines that this is built for), a double is turned round, the bits
of a float are taken for an int and converted. Versions, access flags and the class
and superclass indices are read over: nothing uses them. Printing is left out.
`findMethodInPool`, `executeMethod` (the loop over attributes: what the interpreter
does with the code is `JvmInterp`) and `free_pools` follow. `ReadsAstray` is every
way to leave C's defined behaviour: a read past the end of the file (the code does
not look at `fread`'s result), an entry past the end of a pool. `Readable` names what
of a class the parser can read: tags it knows, pools that are large enough,
**no interfaces** (its loop starts at 1, so the first is not read), and **field
attributes whose length ends as it begins** (the byte `integer_tmp[0]` is used
twice), which a ConstantValue attribute has not. The classes of the run that are
not readable show that the parser still ends. `OneCodeName` is one more condition, of
`RunsWrittenCode` only: the interpreter compares four bytes of an attribute's name with
"Code" and would run any attribute whose name begins so.

### DexParser and DexFile

`DexFile` is a dex file as the tables, classes, members and code that it says, and
its bytes: header, tables of ids, string items, type lists, code and class data
with differences and uleb128, the map at the end. The classes lie one behind the other, each
its code first, so `Starts` says where each begins, and `OffsetOf` where an item is, which is 0 for
an item that the file does not have (no parameters, no code). `IsDex` is what the Dalvik tools
guarantee: members ascend by id, no string, type or class occurs twice, a type names a
string and a method a prototype, numbers have the width of their places.
`DexParser` starts with the
bytes behind the header, as `parseDexFile` does, with one action per table, since
their loops do not depend on each other, and one per class, field and method of the class
data, whose place in the file depends on everything before it (`at`, `left`). The
header's checksum, signature and tags and the fields of a class definition that
nothing uses are not kept. `damage` is the file that cannot be opened, ends in its
header or ends behind it: `parseDexFile` returns early with tables that are still
null and `main` starts all the same. Of a header of which the file has `n` bytes, any
number, `fread` stores these (`UpTo`, as the C library that this is built with does), so a
count may be there, or its lower bytes, while the table that it counts is null:
`simple_dvm_startup` then reads the null table of strings or methods (`NullTable`). Of a file
of 56 bytes or less all counts are 0, and the machine finds no method to run. `lost` stands for a read outside the buffer
(a class without data, a method without code), a string past its array, the copy
of the ids into a block of the size of the data, and a null table. The look-ups are
operators over the tables. `DexParser` hands the tables to the modules of the machine
in the form that `DvmProgram` takes as given; `StartUp` is the first thing that
`simple_dvm_startup` does with them.

## 3. The runs

Bounds are named constants, and smaller than the code's.

| run | bounds | what it shows |
|---|---|---|
| `dvm_calls` (43056 states) | 6 registers (32), 4 nameable by four bits (16), 4 saved by virtual calls (16), 8 table entries (32), 4 objects (8192), return pcs 60 and 90 (100000, 1000000), offsets that span 200 (131072); 672 programs, both interpreters | types; every call runs the method its operand names and leaves its caller's registers alone; the loop ends by returns and never runs off the code; refinement of `Activations`; only named limits lead to an undefined outcome; every program ends |
| `dvm_nonconforming` (579 states) | those of `dvm_calls`; 14 programs, both interpreters | a program that breaks a condition of `DvmConforming` ends too, most often without a defined outcome |
| `dvm_data` (133831 states) | bytes of 2 bits: ints of 8, longs of 16; 6 registers (32), 3 nameable by four bits for the tests against zero (16); one instruction on all combinations of edge words with every overlap of operands, and programs that compute an int in two ways | the tests order the ints; long arithmetic modulo 2^64 without touching other registers; division; where a packed-switch goes; ways that must agree do |
| `dvm_heap` (153792 states) | 5 objects (8192), 8 arrays (512), 9 registers; a store, any three other instructions, a load; programs that run into the limits | a reference keeps its meaning until the objects overflow their part of the table; loads return stores, also through rows of an array of arrays; programs within bounds get stuck at the array limit only |
| `jvm_interp` (3463 states) | ints of 12 bits, shorts of 8, 6 ints and longs (10), a stack of 10 (500), buffers of 16 and 12 bytes (1024, 255); 118 class files | types and bounds; the stack and the builder between statements; refinement of `JavaStatements`; every program ends, unless it meets an unknown opcode |
| `dvm_strings` (227612 states) | a buffer of 3 bytes (1024), 2 registers, 2 literals of which one has the number of an int, 1 int, 3 parameter types, 2 builders, 2 lines | prints the lines of Java; only a long text overruns the buffer; types |
| `jvm_pools` (1337 states) | pools of 3 strings and 2 or 3 other entries (200 and 100); 78 class files | the parser keeps its place; look-ups find what the class says; the code of the first `<init>` runs; only named limits lose the program; parsing ends |
| `dex_parser` (3484 states) | string arrays of 3 bytes (255); 91 dex files, each whole, absent, cut at each byte of its header and behind it | tables, classes and code are as the file says; look-ups find them; only named limits lose the program |

`dvm_strings` has all programs over those statements, not a list of them. Three
appends fill the buffer, two builders show what the first leaves to the second, and two
lines what a `println` leaves to the next statement. The int with the number of a literal is what a
`println` or an `append` with the wrong type would print.

The class files of `jvm_pools` have all pairs of seven kinds of constants (one of
them with a tag that the parser does not know) and some triples, none to three
interfaces, fields with no attribute, an empty one or one of two bytes, methods
with no `<init>`, with several, with no name, with short attributes, with one whose name
only begins as that of a code attribute, and more
entries than each pool has room for. A parser of bytes in sequence has no memory but its position
and counters, so a mistake shows with one entry behind the one that is misread.
The dex files have every combination of three field lists (twice), three lists
of direct and three of virtual methods, with ids and flags of one, two and three
bytes of uleb128, followed by a second class; strings of one- and two-byte characters,
of full and of excessive length; prototypes with and without parameters; and files
with more bytes of ids than of data. Each table is copied entry by entry, so its
length matters only for where the next one is.

The programs of `dvm_calls` have a class with `<clinit>`, `main` and a static
method and a class with a constructor and a virtual method; they nest static,
direct and virtual calls three deep, recurse, call the library for a value,
call methods that nobody defines, allocate past the limit, use a number as a
receiver, run an unknown opcode, and pass arguments from `<clinit>` on to `main`
by the stale `vm->p`, and take the number of objects for a receiver. 672 programs are all combinations of two middle parts of
`main` with two variants of each other method. Calls interfere only through the
bank, the result and the pc, whose every reuse happens within three activations;
and two callers' registers already differ with 4 of 6 saved. The domains of
`dvm_data` are complete for ints and longs of that width around the edges (zero,
the largest and the least int, all bits set), and no handler treats a width
other than by carry and sign. In `dvm_heap` three instructions between store and
load are enough to allocate over, store beside and move a copy.

The class files of `jvm_interp` are five operations on all pairs of four operands
(with results that overflow, a zero divisor and mixed signs), counting loops of which
one prints more lines than the stack has room for, nested loops, the pattern of
`tests/Foo1.java` with a random number, the timing of the benchmarks, and 29 pieces
of code that javac would not write or that `simple_jvm` is not made for, each
reaching another limit. The handlers use widths only by wrapping, and the limits
only by reaching them, so small ones are enough. `RunsLikeJava` is restricted to
what javac makes of those statements with constants that `simple_jvm` can
load: not negative ones of one byte (`bipush` has no sign), no int from the
constant pool, no quotient of the least int by -1 (the processor traps), lines
within the buffer, no printed long, no call of a method of the class (it does
nothing), at most as many methods as leave index 4 of the constant pool alone.
The code says nothing else of these, so they are limits of what is promised and
no findings. `Math.random` includes 1.0 and the clock is what the library returns.

Four runs expect a violation. Each checks what a comment or the README of the
repository says of the code against what the code does; `findings` quotes the
lines.

| run | what the code does |
|---|---|
| `dvm_wide_caller` | a virtual call puts back 16 of 32 registers: the upper ones of its caller are overwritten |
| `dvm_direct_target` | invoke-direct of a constructor runs the first constructor of the file |
| `dvm_backward` | a conditional branch backwards goes forwards: its offset has no sign |
| `dvm_switch` | of the switch in `Proc_6` of `dhry.dex`, keys 0, 2 and 4 leave the method and key 3 goes to the target of key 2 |

`dvm_calls` restricts itself accordingly, to conforming programs. `LongArithmetic`
leaves mul-long/2addr out. `SwitchTargets` says where a packed-switch does go, which for most keys is not
their target: it reads targets of 4 bytes 2 bytes apart, the lower half first. An int without a key goes
on behind the instruction; and if all targets are ahead and fewer units away than 16 bits count, as javac's are, an odd
key `2 * n - 1` goes to the target of key `n`, and an even one to no target of the switch. Key 1 alone is right.

The programs of `dvm_nonconforming` have a test at the end of a loop, in `main` and in a method that it calls;
a virtual call in `<clinit>`, on an object; one in a method with more registers than it saves; a test of a register past four bits;
a method that the pc of a return-void is inside of; more arguments than the callee has registers; a method id of an
inherited method; 258 method ids, of which 257 is decoded as 17; a method `mains` in place of `main`; two classes with
constructors; and more methods than the virtual table holds. Little is promised of them, but they end. A method so long that the pc
of a return-void, 100000, is an *instruction* of it is not among them: it would go on there, and may turn for ever.

**Fairness.** `EveryProgramEnds`, in both machines, needs weak fairness of `Step`, and
`ParsingEnds` of `Next` in `JvmPools`. Each interpreter, and the parser, is one thread that blocks on nothing and has exactly one continuation,
so an enabled step is taken. The property holds because the programs
have bounded recursion and loops that end; it would fail if a handler repeated
its instruction or if the loop did not see a return. `ParsingEnds` holds of all files,
readable or not, because every turn of a loop uses up an index, a member or
an attribute; it would fail if an unknown tag did not. Deadlock is checked in
all runs: the ends of a program are an explicit stuttering action, `Halted` or `Stopped`.

## 4. The proofs

`DvmCallsProofs` proves, for every set of programs that satisfy `IsProgram`,
every size of the bank and of the tables, and both interpreters:

* `CallsTypeOK`: `Spec => []TypeOK`, which is not
  inductive alone: a handler's operands are typed because the running method is a
  method of the file, and the C stack has this shape (`StackShape`) because a call
  checks its target and the frames are typed (`TypeOK`). `Inv` is their
  conjunction. The argument has one lemma per group of actions; `CallKeeps`, on
  the way into a method, and `LeaveMethodKeeps`, on the way out, carry it.
* `ReturnEndsLoop`: if every method is shorter than the pcs that returns leave
  (`ShortMethods`, which holds of every file whose methods are below 100000
  bytes, and without which the claim is false) and no test leads back (`ForwardTests`: the offset
  loses its sign, and such a test leaves the method), then
  `Spec => []LoopEndsByReturn`. The invariant must be strengthened by
  `CallSites`: every frame remembers a pc at an invoke, so that what is behind
  it is an instruction again when the call ends.

It also proves, for all conforming programs of short methods
(`Conforming`, `ShortMethods`), every bank and both interpreters:

* `CallsRunTheirTarget`: `Spec => []CallTarget`. The code finds a method in three
  steps: the first id with the name, the class of that id, the element of the array
  whose differences add up to the id. The lemmas follow them: `IndexOf` (an id that
  an array lists is found at an element with it), then the one method that
  look-up and virtual table agree on.
* `CallersKeepTheirRegisters`: `Spec => CallerRegistersKept`, an action property: the
  step that ends a call leaves every register of the caller as its frame has it. It
  needs `SavedEnough`: each frame on the C stack has saved all the registers of its
  method, 32 of them or, behind a virtual call, 16.

The inductive invariant of these two, `TargetInv`, is that of `ReturnEndsLoop` with `CallTarget` and
`SavedEnough`.

* `UndefinedAtLimits`: `Spec => []UndefinedByLimitsOnly`. Each action that may end in `undefined` is
  taken in turn: `ListedInTable` says that the virtual table has the element of a listed id, and
  `TableTarget` that it is inside its array; that `Stray` is never taken follows from `LoopEndsByReturn`.

Last it proves `CallsImplementActivations`: under the same hypotheses
`Spec => ImplementsActivations`, that is, the initial states of `DvmCalls` are initial
states of `Activations` under the mapping `Stack`, and each step is one of its steps or a
stutter. `RInv` strengthens `TargetInv` by `Linked` (the virtual
table is that of the file from `main` on) and `Initializing` (before that, every
activation is of a method of `IsInitializers`). There is one
lemma per kind of step: start-up and look-ups are stutters; a call pushes an
activation, whose registers are the bank after `copy_parameter`; a return pops
one, and the caller below finds its own registers in the copies that are put back.

`DvmStringsProofs` proves, for all texts, literals, buffer sizes and numbers of
builders and lines, `StringsTypeOK`, `StringsRight` and `StringsWithinBuffer`: the
three invariants of `dvm_strings`. `PrintsLikeJava` is not inductive, because it
says nothing of the state between an append and the println. `Agree` does: while
the program is orderly, what the buffer shows is the text of the newest builder,
unless the last one was printed and the buffer is clear; the flag is set exactly
when that builder has been made a string; and each register holds the number or
the literal that the variable of Java holds (a builder has nothing in common with its
register), and a string of the newest builder, once it is built, has its text. `Inv` is `TypeOK`, `Agree` and `OverrunByLongTextOnly`; there is a lemma
per statement, and those about `snprintf` (the buffer shows its text with the new one
appended) and `Shown` (the least NUL is at `buf_ptr`) carry the argument.

`DvmHeapProofs` proves, for all programs, classes and sizes of the tables,
`HeapTypeOK` (`Spec => []TypeOK`, inductive as it stands: the two lengths say which
cells hold a chunk) and `ReferencesDenoteTheSame` (`Spec => ReferencesStay`): an
allocation takes a cell that is free as long as the objects fit in their part of the
table, and a store changes one slot of a chunk and nothing else of it.

`DvmDataProofs` proves, for all programs, ints of any width and every bank,
`DataTypeOK`, `IntTestsAgree`, `LongsAreExact`, `DivisionIsExact` and
`SwitchesGoToTheirTargets`: the type invariant, `TestsOrderInts`, and the action
properties `LongArithmetic`, `Division` and `SwitchTargets`. `TypeOK` is inductive, and
each of the others is about one step from a typed state. The lemmas are about two's
complement: a pair of registers holds exactly the long whose halves they are, also when
the operands overlap, and the detour of the divisions, through signs and absolute
values, gives the quotient that rounds towards zero. `NearHalves` and `FarHalves` say what two halves of
neighbouring targets make when they are read as one.

`JvmInterpProofs` proves `InterpTypeOK`: `Spec => []TypeOK` of the interpreter of
`simple_jvm`, for all class files and sizes: the operand stack stays within its
size, an int of the locals within its width although ints and longs share
words, and activations are of methods of the class. `TypeOK` is not inductive: a
handler has typed operands only because its activation is in the code of an attribute of its
method. `Inv` says so of every activation on the C stack (`Located`).

`JvmPoolsProofs` proves every safety property of `jvm_pools`, for all classes and all sizes
of the pools: `PoolsTypeOK`, `PoolsInStep`, `PoolsFoundAsWritten`, `PoolsRunWrittenCode` and
`PoolsLostByLimitsOnly`. Each rests on the ones before it:

* `Inv` adds to `TypeOK` that an attribute is only awaited for a member that is there
  (`LoopsStarted`): `parseAttr` writes into the last member of the pool.
* `Tracked` is `InStep` in the middle of things too. It relates the loops to the class:
  `i` is the index of the next constant, `count` the number of members, and what is left of the
  file is what is left of the present member's attributes, of the members behind it and of
  the class behind these. The lemmas `ConstantIsRead`, `NextMember` and `NextAttribute` say that
  such a rest begins with the entry that the step reads.
* `Contents`: the pools hold the constants that have been parsed, with index and value,
  and no others. As indices grow, no two entries of a tag have the same one, so the first
  entry that a look-up meets is the only one; as there are as many entries as constants of the
  tag, a readable class fits in the pools.
* `MethodsWritten`: each method of the pool is the class's, the last one with the attributes that have
  been read.
* `Executed`: what has run, and the code of the attributes that are left, are together the code of
  the first `<init>`.

`DexParserProofs` proves every safety property of `dex_parser`, for all dex files, whole or
damaged, of any length: `DexTypeOK`, `DexTablesAsWritten`, `DexClassesAsWritten`, `DexLookUps` and
`DexLostByLimitsOnly`. None is inductive alone. `ClassesAsWritten` does not say where the parser is, and
a member is read right only at the right place; `TablesAsWritten` does not say which tables are filled.
They all follow from one inductive invariant, `Inv`:

* `InvFile`: once the file was read, the header is that of the file, or counts no strings and no methods of a file
  that has none if it was cut (`CutHeader`); and the parsers run only on a whole one.
* `InvTables` and `Filled`: each table is null or what the file says, and not null at the stages
  behind its own.
* `InvClasses`: for some `n` and `read`, the first `n` classes are parsed (`Parsed`), all members of those
  before the last and `read[l]` of list `l` of the last; a list is begun when the ones before it are
  done, and `at` is where the next member lies (`ReadTo`). Every class so far has data and every method so
  far code, which is why a read outside the buffer can only come from one that has not.

Reading by offsets needs another argument than reading in sequence. `Lies(buf, o, s)` says that the
bytes `s` are in the buffer at `o`. `Layout` cuts the file into its parts, and `ItemLies` a
part into its items: each entry, string, type list, code and member lies at the offset that the file
itself gives for it. Then there is a lemma for what is read there: `u2` and `u4` and uleb128 of
one to five bytes invert `U2`, `U4` and `Uleb`, `MemberRead` gives the numbers of a
member and `CodeRead` its code. `NextMember` goes from a member to the next, in the same list or in
the next one that is not empty. That the differences add up to the ids is a telescoping sum over
a list (`IdOfIs`), and look-ups by name and by type are unique because no string and no class occurs
twice.

The files are concatenations over sequences of any length, so the proofs about parsers need induction. A
theorem of induction cannot take a predicate here, but it can take a set: `Induction` in
`SequenceFacts` says that a set of numbers that has 0 and with each number the next one has them
all. With it that module proves what `FlattenSeq` does to a rest of a sequence, and that a function
that is defined by recursion over numbers exists (`RecursionExists`), so that it has the values its
definition says: `Starts` of `DexFile`, `UlebAt` of `DexParser`, and likewise `IndexIn` of
`JvmPools`.

The assumptions are the named ones of the modules: sizes are natural numbers, the
bank is not empty, programs are parsed tables with verified methods, values from
outside are ints; each single text fits in the buffer, as `string_data_item` and the length of an int
guarantee. A class file has numbers of the width of its tags, the names "<init>" and "Code" are strings, and
the null pointer is none. A dex file is one that the Dalvik tools write (`IsDex`), and null is no table.
TLC evaluates the assumptions in `dvm_calls`, `dvm_data`, `dvm_heap`,
`dvm_strings`, `jvm_interp`, `jvm_pools` and `dex_parser`, and `Conforming` and
`ShortMethods` in `dvm_calls`. Two hypotheses are stated in the theorems that need
them: `DoublesAreNumbers` of `DvmDataProofs` and `DoublesAreTyped` of
`JvmInterpProofs` say that adding, multiplying and converting bit patterns of
doubles yields patterns and ints, as the instructions of the processor do. They range
over all pairs of patterns, which are too many for TLC to evaluate.

Model-checked only:

* `EveryProgramEnds`, in both machines, and `ParsingEnds`: liveness is out of the
  prover's reach.
* `TwoWaysAgree`, `LoadsReturnStores`, `LimitsOnly`, `BetweenStatements` and `RunsLikeJava`, which
  speak of the programs of their MC modules and of how those are made.

The recursive function `MethodIds` of `DvmProgram` is not unfolded in any proof.

## 5. Not modelled

* Printing (`printConstantPool`, `printMethodPool`, `printDexHeader`, ...), verbosity, the
  profiler, usage messages: nothing depends on them. A debug build of `simple_jvm` would also
  stop at an unknown opcode when it dumps the code; the models are of the release build.
* `get_method_name`, which computes three local variables and returns 0.
* The values of `random` and `currentTimeMillis`. In both machines `random` divides by
  RAND_MAX and may be 1.0, which `Math.random` never is; `JvmInterp` includes it, and what a program
  makes of it is not judged.
* Exceptions, monitors and the instructions that neither interpreter has: the
  code has none of them.
* The depth of the C stack, in both machines, and a failing `malloc`.
* What C does after an access outside its object: the models end there, in `undefined`,
  `lost` or `stray`, and say which programs and files come to it.
* In `DvmCalls`, bytes of a method that the Dalvik tools would not produce. In
  `DexParser`, header fields and offsets that do not belong to the file.
* `tests/`: Java programs for the two machines.

## 6. What is left

Every safety and action property of the runs that is stated of all programs or files is proved for
all of them. What is left is liveness, which the prover does not reach, and the properties of single
programs. Two of these could be given a general form. `LimitsOnly` and `LoadsReturnStores` of the heap would
need a condition on programs as `DvmConforming` has for calls: which registers hold which types. `RunsLikeJava` would need
the compilation of `MCJvmInterp` over statements of any length, and that the code of each statement leaves the
stack as `BetweenStatements` says; the offsets of its jumps then need the lemmas
that `DexParserProofs` has about where items lie.

## 7. Running

`tlc -workers 2 -config MCDvmCalls.cfg MCDvmCalls`, and so on with the modules and
configurations listed under `runs` in `PROJECT.json`; and `tlapm` with each of
`SequenceFacts.tla`, `DvmCallsProofs.tla`, `DvmDataProofs.tla`, `DvmHeapProofs.tla`,
`DvmStringsProofs.tla`, `JvmInterpProofs.tla`, `JvmPoolsProofs.tla` and `DexParserProofs.tla`. The last takes ten minutes.
