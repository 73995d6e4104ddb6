# A RISC-V simulator with protected registers: models, checks and proofs

The repository is a C++ simulator of a RISC-V machine (RV64 IMFD, with SIMD
and bfloat16 extensions) whose registers can carry a Hamming code, an assembler
for it, and a command loop that a user or an editor drives through standard
input. This directory holds TLA+ modules of its core, the TLC configurations
that check them, and proofs that TLAPS checks.

## Inventory

| part | where | state | operations |
|---|---|---|---|
| command loop and vm thread | `src/main.cpp`, `include/vm/rvss/rvss_vm.h`, `include/vm/vm_base.h` | `vm_thread`, `vm_running`, `stop_requested_`, `input_queue_` | RUN, DEBUG_RUN, STEP, STOP, UNDO, REDO, RESET, VM_STDIN, EXIT, LOAD, MODIFY_* |
| debugger | `src/vm/rvss/rvss_vm.cpp`, `src/vm/vm_base.cpp` | pc, registers, memory, `undo_stack_`, `redo_stack_`, `current_delta_`, `breakpoints_`, counters | Run, DebugRun, Step, Undo, Redo, Reset, LoadProgram, AddBreakpoint, RemoveBreakpoint |
| register protection | `src/ecc/ecc_utils.cpp`, `include/ecc/ecc_metadata.h`, part of `src/vm/alu.cpp` | bits 32-59 of a general register | compute_ecc, checkError, adaptive_check_error, injectFlip, setSig, LWPD, the links of JAL and JALR |
| main memory | `src/vm/main_memory.cpp`, `include/vm/main_memory.h` | a map of blocks, their size | reads and writes of 1, 2, 4 and 8 bytes, Reset |
| instruction execution | `src/vm/rvss/rvss_vm.cpp`, `src/vm/registers.cpp` | registers, CSRs, sample streams, and the latches `execution_result_`, `memory_result_`, `next_pc_`, `branch_flag_`, `csr_*` | Fetch, Decode, Execute, WriteMemory, WriteBack, HandleSyscall |
| ALU | `src/vm/alu.cpp` | none of its own; the host's rounding mode | integer, SIMD, float, bfloat16 operations |
| decoder and control unit | `src/vm/rvss/rvss_control_unit.cpp`, `src/vm/vm_base.cpp`, `src/common/instructions.cpp` | control signals | ImmGenerator, SetControlSignals, GetAluSignal |
| assembler | `src/assembler/` | symbol table, intermediate code, pending labels | parse, expand pseudo-instructions, back-patch |
| code generator | `src/assembler/code_generator.cpp`, `src/common/instructions.cpp` | none | one generate function per format, over the tables of encodings |
| lexer, errors, configuration, dumps, devices, cache | | | see the last section |

How they interact. The main thread reads a command at a time. RUN, DEBUG_RUN
and STEP start the vm thread, after a join with the one before; everything else
the main thread does itself, on the same machine, guarded by `vm_running` only
for STEP, UNDO and REDO. The two threads also meet in the stdin queue: the
program's SYSCALL_READ waits for a line that the command VM_STDIN brings. LOAD
runs the assembler, which turns a source into instructions, values for the data
section and the table of lines that breakpoints use, and `LoadProgram` writes
them to memory. The
vm thread executes an instruction by Fetch, Decode, Execute, WriteMemory and
WriteBack; the ALU and WriteBack put codes on what they write to a register,
WriteMemory and WriteBack note the old and new values in `current_delta_`.

What is hard. The interleaving of the two threads (join, stop, wake-up); the
undo and redo history, which must stay aligned with the machine over any
sequence of commands; the bit-level properties of the code, which is stored next
to metadata in one word and lost or kept by different instructions; the two
passes of the assembler, which know a label's address before or after the
instructions that use it and find the sections each in its own way; and the path
of one instruction, on which five tables by opcode and `funct7` (encodings,
control signals, ALU operations, units, register files) have to agree, while
latches, the operands' upper halves and the host's rounding mode carry something
over from one instruction to the next. Nothing is persisted, and there are no
messages to lose.

What makes the parts correct:

* threads: no lost wake-up, no overlap of undo and the thread, a stop acts
  promptly, every join returns;
* debugger: undo and redo pass exactly through the states seen before, counters
  do not underflow, breakpoints are honoured, loops halt;
* protection: single errors are corrected, double ones detected, a check is
  idempotent, the history of repairs is right;
* memory: blocks made on demand are indistinguishable from a flat memory, an
  access out of range changes nothing, and no access overruns a block;
* assembler: labels lead to what stands after them, in the text and in the data,
  a breakpoint's line to an instruction of that line, nothing is lost between the
  passes, and assembly ends;
* code generator and decoder: what is encoded is decoded, at every width and sign;
* instruction execution: the five stages do what the line of the program says and
  nothing else, the delta they leave describes all of it, and codes, lanes and
  divisions behave as the ALU's casts intend.

The hazards of each part, with the lines where they bite and the properties that
would catch them, are listed in `PROJECT.json`.

## Modules

```
Session         SessionProofs            two threads, one at a time below:
Timeline <----- Debugger <- MCDebugger   one instruction, one command
                Debugger <- DebuggerProofs
EccCodec <----- EccRegister <- MCEccRegister, EccProofs
FlatMemory <--- BlockMemory <- MemoryProofs
                Assembler <--- MCAssembler, AssemblerProofs
Words <-------- Alu, FloatUnit, Machine
Machine <------ Isa, Datapath
Isa <---------- Datapath
CodeGenerator, ControlUnit <-- Datapath
                Datapath, Alu, FloatUnit <-- Simulator <- MCDatapath
                Alu, FloatUnit <------------ AluProofs
                Simulator, AluProofs <------ DatapathProofs <- IsaProofs
```

An arrow points to a module that is extended, or, for `Timeline`,
`FlatMemory` and `Isa`, instantiated as the abstract specification that the other
module implements.

### Session: the two threads

State: `thread` is where the vm thread is (`absent`, `born`, at the loop test, in
an instruction, about to read stdin, asleep on `input_cv_`, pushing its delta, on
its way out, `done`), `main` where the command loop is (reading, joining for a
launch, joining for EXIT); `running` is `vm_running`, `stop` is
`stop_requested_`, `input` the length of `input_queue_`, `undo` and `redo` the
heights of the two stacks. What an instruction does to the threads is one of the
five `Outcomes`; one of them, a fault, can also end the process in SYSCALL_READ after the line
is popped, when its buffer is not in memory. Two history variables are about a requested stop:
`asked` says whether one was asked for and whether `ClearStop` has since erased it,
`late` counts the instructions begun after it. A step is what the code does between two points at which the
other thread can see a difference: the test of a loop, the system call, the
critical section of the reader, the push, the return.

| action | code |
|---|---|
| `Run`, `DebugRun`, `Step`, `JoinForLaunch` | the branches of `main` and `launch_vm_thread`: stop, join if joinable, start |
| `Stop`, `Undo`, `Redo`, `Reset`, `PushInput`, `Exit`, `JoinForExit` | the other branches of `main` |
| `Enter`, `Loop`, `Execute`, `Commit`, `Return` | `RVSSVM::Run`, `DebugRun`, `Step` and the end of the thread's lambda |
| `ReadStdin`, `SpuriousWakeup`, `FinishRead` | SYSCALL_READ in `HandleSyscall` |

### Debugger: execution and its history

State: `pc`, the locations of the machine (`store`), program size, the two
stacks of deltas, `current_delta_`, the counters, breakpoints, the loop that
executes, and history variables: `past` and `future`, which hold the states a
user has seen, and `spoiled`, set when RUN executes an instruction, or LOAD or an edit
changes the machine under a history, and cleared by RESET. Locations are those whose writes the code records in a delta and
those it does not (CSRs). An instruction writes a partial function from
`Writes`, leaves any pc, and records every recorded location it changes and
possibly others it wrote. `Undo`, `Redo`, `Reset`, `Step`, `LoadProgram`,
`AddBreakpoint`, `RemoveBreakpoint` are the functions of those names; `Begin`,
`RunInstruction`, `DebugInstruction` and `Halt` are the head, the bodies and the
end of the loops; `Edit` is MODIFY_REGISTER and MODIFY_MEMORY.

`Timeline` is what a user expects of undo and redo: a current state, a sequence
of states behind it and one before it.

### EccCodec and EccRegister: one protected register

`EccCodec` translates the code as operators on a record with the fields of
the word (data, six check bits, parity, mode, history, frequency, significance);
sets of bit positions stand for bit strings, so that the code is at its real
width. `EccRegister` is the life of one register: `Arithmetic` (an ALU result),
`LoadProtected` (LWPD), `Link` (JAL, JALR), `LoadWord` (LW, which sign-extends
over every field), `injectFlip`, `setSig`, `CheckError`, `JumpRegister` (JALR,
which checks a copy of its base), `ModifyRegister` (the debugger flips a check
bit). Histories remember what was intended and how often a check repaired.

### BlockMemory: main memory

State: the partial function from block index to block, the configured block
size, what the last access returned, and whether a vector has been overrun.
`ReadGeneric` and `WriteGeneric` stand for all the access functions: the test
against `memory_size_ - (n - 1)` in wrapping arithmetic, then a byte at a time,
each with its own test. `modifyConfig` changes the size new blocks get.
`FlatMemory` is a function from address to byte whose accesses are carried out
whole or not at all.

### Assembler: from source to memory

State: the source, the place in it (`pos`) and the loop that reads it (`section`:
the outer loop of a pass, or the loop of a data, bss, text or skipped section),
and the parser's own `symbol_table`, `data_buffer`, `data_index`,
`intermediate_code`, `instruction_index`, `back_patch` and error count; then the
map of lines, and the data section as `LoadProgram` fills it. A source is a
sequence of lines with one item each: a directive, a label, a data directive with
its operands, an instruction. A step is one turn of a loop of the code.

| action | code |
|---|---|
| `FirstOuter`, `LeaveSection`, `SkipSection`, `EndFirst` | the first pass of `parse`, `parseBSSDirective` |
| `DataLabel`, `DataValues`, `DataJunk` | the branches of `parseDataDirective` |
| `SecondOuter`, `SkipToText`, `LeaveText`, `EndSecond` | the second pass and the loop of `parseTextDirective` |
| `TextLabel`, `Instruction` | its branches: `Branch` is beq and jal to labels, `DataReference` la and the loads of data labels, `LoadImmediate` li, `Plain` every format without a label |
| `Patch`, `Conclude` | the loop over `back_patch_`, and `assemble`'s test for errors |
| `MapLines`, `EndLines`, `LoadData`, `EndLoad` | the map in `assemble`, the data loop of `LoadProgram` |

Abstracted: the registers and numbers in operands; a `.string` is so many bytes;
labels and values on one line are two lines. An instruction of a format without
labels is right or wrong (`bad`), and needs the M extension or does not
(`mul`). The unit of upper immediates (4096) and the reaches of branches and jumps are
constants.

### Words, Alu and FloatUnit: numbers

`Words` gives registers a width: a byte has one, two, four or eight bits, a
register eight bytes, so that TLC can use bytes of one bit and the proofs eight. The
width is a power of two because shifts take the low bits of their amount. `Alu` is
`Alu::execute`, a case for each operation, with the casts between 32 and 64 bits
that decide whether the code in the upper half of an operand matters; a result
is a set, which holds `Trap` where the host's division faults. C's `&`, `|` and `^`
are products and sums of bits (`BitByBit`), which the provers can reason about, and
which `MCBits`, an assumption of `MCDatapath` that TLC evaluates for all pairs of
registers, compares with the library's `Bitwise`. The codec is an operator given as
a constant. `FloatUnit` is the control of the four
floating-point functions: which operation, in which rounding mode, with which
flags, and which mode they leave the process in. What an addition of floats
yields is the host's, and a constant.

### CodeGenerator and ControlUnit: the two ends of an instruction word

`CodeGenerator` holds the tables of encodings of `instructions.cpp` by mnemonic, the generate
functions of `code_generator.cpp`, and the tests of the parser on operands
(`Encodable`). `ControlUnit` reads such a word back: `ImmGenerator`,
`SetControlSignals`, `GetAluSignal`, and the tests that choose a unit (`Unit`).
A word is a record of the six fields at the places of an R-type; the other
formats put the pieces of their immediates into these fields.

### Machine, Datapath and Isa: an instruction through the stages

`Machine` holds what both share: widths, x0, the devices behind four addresses,
the system calls. `Datapath` is the code: `phase` is the stage that comes next;
`execution_result`, `memory_result`, `next_pc`, `branch_flag`, `csr_latch` and
`control` are the members of the machine that carry values from stage to stage
and from one instruction to the next; `delta` is `current_delta_`.

| action | code |
|---|---|
| `Fetch`, `Decode` | the functions of those names, at the head of `Step` and of a turn of `DebugRun` |
| `ExecuteInteger`, `DivisionFaults`, `ExecuteFloatingPoint`, `ExecuteCsr` | `Execute` and what it dispatches to |
| `SyscallQuiet`, `SyscallExit`, `SyscallRead`, `SyscallWrite`, `SyscallFaults` | the branches of `HandleSyscall` |
| `NoAccess`, `Load`, `LoadSample`, `Store`, `StoreToLog`, `AccessFaults` | `WriteMemory`, `WriteMemoryFloat`, `WriteMemoryDouble` |
| `WriteBackInteger`, `WriteBackFloat`, `WriteBackCsr`, `WriteBackNothing` | `WriteBack` and the functions it calls |

`Isa` says by mnemonic and in one step what a line of a program does to the
machine. It knows no word, field, signal or stage. It says what the tables of the
sources together make of a mnemonic, and is no claim that this is what the mnemonic stands for.
Where the tables disagree it says what comes of it: results that are lost
(`Lost`, `LostOps`), conversions that yield 0.0 (the operations `kNone` and `FCVT_D_LU`),
loads whose offset sends the address to a general register (`Misdirected`), the rounding
mode that accesses leave behind (`Addressed`); and the sum of `add` has a code. So
`ImplementsIsa` is about what passes from stage to stage and from instruction to
instruction: latches, devices, forms of `WriteMemory` and `WriteBack`, routing,
faults. It passes on a result that the tables lose; that those results do not arrive is what
the run `lost_results` shows.

`Datapath` has the units and the code as constants; `Simulator` puts those of the
sources in (`Built`), and states what they are to do for the machine: codes, lanes
and divisions (`CodesTransparent`, `LanesIndependent`, `DivisionNeverTraps`).

Abstracted: the text is kept apart from the data, so no program overwrites
itself; `pc` is a multiple of four within the program; output of system calls is
dropped. The loops around the stages and the thread are in `Session`, the
stacks of deltas in `Debugger`. Run executes the same stages and pushes no
delta, which is `Debugger`'s matter.

## Runs

| run | what it shows |
|---|---|
| `session` | in every interleaving: undo and redo never overlap the vm thread (`RewindExcludesThread`, because of `RunningCoversFunction`), no thread object is overwritten (`OneVmThread`), while a requested stop stands at most one more instruction begins, and at most limit + 1 do when `ClearStop` at the head of the loop has erased it (`PromptStop`), no line is slept over (`NoLostWakeup`), joins return unless the program waits for input (`JoinReturns`) |
| `exit_blocked` | finding: EXIT joins a thread that waits for a line only the joining thread could bring |
| `ecc` | every single data flip is repaired, every double one detected and left alone, checks are idempotent, protected words are always checked, the history counts repairs, JALR uses the repaired address |
| `ecc_check_bit` | finding: a flipped check bit makes `checkError` change good data |
| `debugger` | all commands in any order: undo and redo implement `Timeline` until the history is spoiled, and again after RESET (`ImplementsTimeline`), counters do not underflow, breakpoints the user set hold, loops end |
| `undo_csr` | finding: UNDO does not revert a CSR instruction |
| `memory` | blocks implement a flat memory, no overrun |
| `assembler` | of every source within the bounds: accepted branches and jumps to labels of text lead to the first instruction after the label, forward and backward, over lines that became two instructions (`LabelsLead`); every line has the breakpoint of its first instruction (`BreakpointLines`); the labels of data and the loader agree on where values are, as long as directives have operands (`DataLabelsAgree`); wide operands add up (`WideOperands`); the two passes lose nothing between them (`NothingLost`); every assembly ends unless a label is named like a section (`Halts`) |
| `datapath` | every mnemonic of the tables, encoded, decoded and carried through the stages, followed by one of five instructions on what it left: the stages do what `Isa` says the tables make of the line (`ImplementsIsa`), immediates survive (`ImmediatesSurvive`), the delta of an instruction undoes and redoes it (`DeltaComplete`), the code of an operand changes no data of a sum, product, quotient, bitwise result or left shift, and no branch on equality (`CodesTransparent`), 16-bit lanes do not disturb each other (`LanesIndependent`), and which divisions cannot fault (`DivisionNeverTraps`) |
| `rounding` | finding: an addition after a floating-point load rounds as the load's width says |
| `protected_base` | finding: a load through an address with a code reaches another place |
| `lost_results` | finding: the results of word operations, fused multiply-adds, three conversions and some floating-point loads do not reach the register the line names (`ResultsDelivered`) |

Bounds, and why they are enough.

* `session`: two queued lines, stacks of height two, a limit of one. Guards look
  at "empty or not" only; two of each distinguishes a lost element from an empty
  container; a limit of one lets a loop execute twice, enough to be late once.
* `ecc`: two data words, raw words with and without the sign bit, significances
  on both sides of critical, flips at both ends of the data (the proofs cover
  all), the frequency saturating at 2 instead of 1023. At most two flips matter:
  three are beyond the code.
* `debugger`: a program of two instructions, one location, which instructions set and
  RESET and edits clear. Two instructions may be stepped since a reset, or one and then a
  loop, whose limit of one lets two execute: stacks of up to three deltas, so both
  orders of undo, redo and new steps occur, before and after RUN, LOAD, RESET and edits.
  The program can be loaded again over its history and its breakpoints.
* `memory`: three blocks of two bytes, the last one partly beyond the end of
  memory, accesses of one byte and of four, which straddle two or three blocks.
  Six addresses, five bytes: as in the code, where memory_size is the largest
  64-bit number by default, one address is beyond the memory.
* `assembler`: all sources of up to four lines of text (labels, branches,
  jumps, li, instructions right and wrong), all of up to four lines with sections,
  values of two sizes and references to them, all of up to three lines of any kind, with two
  labels. Four lines hold a reference, a label on either side of it and an
  expansion between them; or a section, a value, a label and a value that has to
  be aligned; or a reference, a section, a label and its value, since text may come before
  the data it names. A page of 8 and reaches of 8 and 16 put a branch out of reach within
  such a source, and let li need one or two instructions or be out of range.
  Whether a loop advances depends on the item at hand and the loop only. The M
  extension is off, so that there is an instruction that is refused for it.

* `datapath`: bytes of one bit, so registers of eight bits, data of four and
  16-bit lanes of two. That is enough for each width to have both signs, a
  smallest number, and bits above it that a cast keeps or drops; the codec is one
  of the same shape (a bit of parity, a mode, a mark for pointers) in the upper half.
  Immediates have their real widths. The first instruction is any of the
  encodable ones, with immediates at both signs and at each piece that is moved
  on its own (bit 11 of a branch and a jump, 2^19 of a jump), on two operands out of
  nine: zero, small, coded, pointers, sign-extended, smallest. The second
  is one that shows what the first left behind: the rounding mode, a coded
  comparison, a load and a jump through the result. A thread's rounding mode is
  that of a new thread, or what the instruction before it left (`Fetch`). 48
  bytes of memory let an access of eight bytes be inside, at the end of and beyond
  the memory and on the devices' addresses.

`CHECK_DEADLOCK FALSE` is set where the process may end (`Session`, `Assembler`,
`Datapath`, which also ends with the bound on instructions observed), and where the
bound on retired instructions or a small set of commands leaves nothing to do
(`Debugger`).

Fairness. `Session` assumes weak fairness of the vm thread's steps and of the
main thread's joins: the operating system schedules both threads. No command is
owed by the user, nor a spurious wake-up by the library. `Debugger` assumes weak
fairness of the loop's steps, for the same reason. `Assembler` assumes that the
assembler, which is sequential and waits for nothing, keeps running.

## Proofs

TLAPS proves, for every value of the constants:

* `SessionProofs`: type correctness (an empty queue is never popped), and each
  safety property of `Session`. `TypeOK` is inductive together
  with the assumption on bounds; `RunningCoversFunction`, and with it
  `RewindExcludesThread`, is inductive by itself once types are known;
  `PromptStop` needs `LateInv`: while a request stands, `stop_requested_` is set, so
  the test of the loop lets in no instruction but the one that was past the test; once
  it is erased, every late instruction is one of the loop's turns, of which there are at
  most limit + 1.
* `EccProofs`: all seven properties of `ecc`. The argument: the columns of the
  parity-check matrix are distinct and not empty (`ColumnInjective`,
  `ColumnNotEmpty`), a flip of bit i changes the syndrome by column i and the
  overall parity (`HammingFlip`, `OverallFlip`), hence one flip is located and
  two are seen as an even number. The invariant `EccTypeOK` keeps fields in
  range; `CodedIsChecked` and `HistoryCounts` are inductive on top of it.
* `DebuggerProofs`: types, `NoUnderflow` (inductive with the types),
  `BreakpointHonoured` (from `ChosenAreSet`: what the user chose is set), and
  that `Debugger` implements `Timeline`, for all commands in any order, if no CSR is
  written (`Unrecorded = {}`). While the history is `spoiled`, by an instruction of RUN or by LOAD
  or an edit over a history, `Timeline` is shown an empty one and nothing is said of UNDO
  and REDO: these are the ways in which the code does lose the history. RESET ends it.
  The invariant (`Exact`, `Honest`) says that the stacks of a history not spoiled are chains: `Link(s, d, t)` holds of neighbouring states and the delta between
  them, from the far end of `past` to the far end of `future`.
* `MemoryProofs`: types, `InBounds`, and that `BlockMemory` implements
  `FlatMemory`, under `Room` (the widest access is not longer than the memory, so
  the bounds test does not wrap) and `Wide` (no configured block size is below
  the one at construction). Index and offset determine the address (`Split`), so
  `Written` changes exactly the bytes of the access (`WrittenStores`).
* `AssemblerProofs`: types and all five safety properties of `assembler`, for
  sources of any length and any names of labels. The invariant `LInv`: instructions stand in the order of
  their lines (`Ordered`), behind the place the second pass has reached (`Behind`);
  the address of a label of text is four times the number of instructions on lines
  before it (`Addressed`), which a new instruction cannot change, because it comes
  after every label there is; what is resolved adds up to that address (`Linked`);
  what is not waits in `back_patch` (`Pending`), so that an accepted source has
  nothing unresolved. `Mapped` says as much of the part of the line map that is
  done. `HighLow` is the arithmetic of wide operands. `Wide` says of every
  `auipc` and `lui` that it and the instruction after it, if that is of the same
  line, add up to what the line meant, that a label it needs is defined, and that
  its partner is no branch. The last two make it inductive: labels are defined
  once, and back-patching rewrites branches only. Lines only grow (`Behind`), so
  an instruction of a later line never becomes a partner (`WideEmit`).
  `DataLabelsAgree`: `DInv` says that there is one `Layout` of the values, each
  aligned behind the one before (`Laid`), which the parser counts and the loader fills.
  The parser is ahead of it by a gap when a label has aligned its index for the line
  to come (`Reserved`), and that gap is what a directive without operands makes lasting:
  `DInv`, like the property, supposes `OperandsGiven`. A line's values
  have gaps before the first one only (`AlignRun`).
  `NothingLost`: `NInv` says what each pass has done with the lines behind it
  (`Entered`, `Assembled`), by whether text is open there (`Opened`), and which
  loop a pass is in on entering a line (`InData`, `InText`). `Opened` is wider than
  the section: for a parser that compares the text of a token, a label named
  "text" opens text as the directive does, also within a data section.
* `AluProofs`: what `Alu` and `FloatUnit` return, for all operands and every
  width of a byte. `UnitReturnsWords` and `FloatUnitReturnsWords`: words, a rounding
  mode of the host, and a fault for the divisions in `CanFault` only. The lemmas
  below them split words into digits (`Digits`, `Remainders`), follow the signs
  through the casts, and show of the eight operations of `CodesTransparent` that the
  data of the result is that of the operands' data (`DataOfResults`,
  `DataDifference`), and of the 16-bit SIMD operations that lanes joined by `|` stay
  what they were (`LanesOfResults`).
* `DatapathProofs`, at first about words alone: `ImmediateRoundTrip`, for every format
  and every immediate the parser accepts. `TwelveBits`, `ThirteenBits`, `TwentyBits` and
  `TwentyOneBits` say that a number is the sum of the pieces it is cut into, with
  its sign; `ShortWords` to `UpperWords` that each format's function and
  `ImmGenerator` cut and join at the same places. `WordsDecodable`: the word of
  every accepted line has fields of their widths, an opcode that `SetControlSignals`
  knows, and a signal of the unit it is sent to.
  Then `ImmediatesCorrect`, from the invariant `Found` (the word at
  hand is the code of an accepted line) and the round trip; `DeltasComplete` and
  `BanksKept`, from the invariant `Inv`: register files and memory keep their
  domains (`Shape`), and what a stage has changed since the fetch is what the
  delta says (`Untouched`, `AfterExecute`, `AfterMemory`). The invariant is
  needed because an instruction can change the memory in one stage and a register
  in another. Nothing is assumed of the ALU, the units and the codec in these
  three, where they are any operators: the delta depends on none of them.
  `TypesCorrect` is about what they return, and says so: it assumes `UnitsFor`, for
  all words and rounding modes. The invariant is `Typed`, with `Found` for the
  forms of the word: a CSR instruction's latch is read two stages after it is
  filled (`Latched`). `SourceUnits` shows that the units of the sources satisfy
  `UnitsFor`, and `SourceTypes` is the type theorem for them.
* `IsaProofs`: `InstructionsCorrect`, that `Datapath` implements `Isa`, that is, does what the
  tables of the sources make of each mnemonic, their lost results included, under
  `UnitsFor`, for every program, memory, CSR file, unit and code. What an
  instruction has done is hidden until `WriteBack`, so the invariant `Progress` follows
  it through the stages: until it executes, only `pc` has moved (`Carried`); then the
  latches hold the result of the unit its opcode chose, on the operands the
  machine had at the fetch (`Executed`); then memory or the loaded datum is what the
  address asked for (`Accessed`). `Recalled` types the snapshot of the fetch.
  `WordOf` relates a word to its line: one lemma for each class of mnemonics of
  `Isa` says what the decoder makes of it (`RegisterDecoded` to `FloatDecoded`,
  `CsrDecoded`), and `Decoded` that an opcode belongs to no other class. One lemma
  for each class then commits it (`CommitRegisterRegister` to `CommitEcall`):
  under `Progress`, what `WriteBack` makes visible is what `Isa` says of the line.
  The steps that end a program are `DivisionFaulted`, `SyscallEnded` and
  `AccessFaulted`; every other step shows nothing (`EveryStep`).

  The same decoding gives the three properties of results. Where an instruction ends,
  its operands are two stages and a latch away, so the invariant `Results` keeps, from
  one fetch to the next, that the register written holds what the unit returned for
  the operands of the fetch (`Computed`), and that a branch went where that
  difference sent it (`Compared`). `CodesKeptOut` and `LanesKeptApart` follow from it
  and the lemmas of `AluProofs`. `DivisionsSafe` is inductive with `Progress`:
  the operation that faults is one of `Faulting` (`FaultFound`), which the six
  mnemonics are not decoded to, and no other step aborts on them. `Remembered` is the
  conjunction.

`UnitsFor` is what `TypesCorrect` and `InstructionsCorrect` assume: the units and the
code return words, of the integer operations only divisions fault, `kAddrAdd` adds,
the lower bits alone of a shift amount count, and an operation of one operand ignores
the other, which the machine fills with whatever register the word's bits name. `Isa`
uses the same units, so `InstructionsCorrect` is about the decoding, the routing, the
latches and the write-back, and not about what an operation should yield. That the sources' units are such is `SourceUnits`, and
`SourceTypes`, `SourceInstructions`, `CodesKeptOut`, `LanesKeptApart` and
`DivisionsSafe` are about the machine with them. They assume three things.
`Built`: the units are `execute`, `FloatOutcome` and the bit operators.
`HostFor`: what the host's floating point yields, for whatever value, is a word.
`CodeFor`: the code is systematic, that is, protecting data leaves the data in the
lower half of a word, and stays within a word. What an addition of floats yields, and
which code it is, stays open. The real code is proved by itself in `EccProofs`, on
records. `MCDatapath`'s configurations give the constants the units that `Built`
names, and `MCUnits`, an assumption that TLC evaluates, tries `UnitsFor` and `HostFor`
on some operands, and `CodeFor` on all, with the host and the code of the runs: the
assumptions can be met together.

Only model-checked: the liveness properties (`JoinReturns`, `LoopsHalt`, `Halts`),
which are out of the prover's reach, and of course the findings.

## Findings

Six, each a violation run with the line it contradicts in `PROJECT.json`: the
blocked EXIT, the check bits, CSR instructions and UNDO, the rounding mode that
floating-point accesses leave behind, addresses that carry a code, and lost results.
The last has several forms, each a conjunct of `ResultsDelivered` that fails by itself:

* SetControlSignals has no case for the opcodes of the word forms, `addw` to `sraw`
  (`WordDelivered`) and `addiw` to `sraiw` (`WordImmediateDelivered`), nor for the fused
  multiply-adds (`FusedDelivered`): nothing is written;
* `fcvt.s.d` and `fcvt.d.s` find no operation and `fcvt.d.lu` one that
  `dfpexecute` has no case for: they write 0.0 (`Converted`);
* `flw` and `fld` with some negative offsets put their address into a general register
  instead of the data into a floating-point one (`rvss_vm.cpp:865`, `FloatLoaded`).

More things are in the models and have no run of their own:

* one RUN executes `instruction_execution_limit + 1` instructions, and one with a
  limit of 0, which `COMMANDS.md:42` calls no limit;
* a block takes its size from the live configuration and its offsets from the one
  at construction (`main_memory.h:23`): after MODIFY_CONFIG to a smaller size a new
  block is too short, which is why `MemoryInBounds` is proved under `Wide`;
* a label of text named like a section makes the first pass loop for ever
  (`parser.cpp:536`), which is why `Halts` excludes it;
* the breakpoint that LOAD sets behind a program stays when a longer one is loaded, and
  DEBUG_RUN stops there; `BreakpointHonoured` is about breakpoints the user set, and no
  property forbids a stop too many;
* a STOP given after the thread is started and before it is in its loop is erased by
  `ClearStop` (`rvss_vm.cpp:1018`, `1054`): the second bound of `PromptStop`;
* `add` returns a word with a code, where `test/test_vm.cpp:66` and `test/test_alu.cpp:7`
  expect the plain 30 of 10 + 20 (the two tests include headers from where they no
  longer are, and `CMakeLists.txt:42` leaves them out of the build);
* `rem`, `slt`, `blt`, `srl` and their kin look at the whole word, code included,
  where `add`, `sub`, `mul`, `div` and `beq` look at the data;
* a negative lower lane of the 32-bit SIMD operations overwrites the upper one
  (`alu.cpp:188`), where the lanes of 16 bits are masked;
* `divuw`, `remw`, `remuw`, `rem` and the 32-bit SIMD divisions fault on the host for some
  operands (`DivisionNeverTraps` lists those that cannot);
* `vdotp.bf16` always accumulates into what f4 holds, the register that the bits of
  `funct7` name;
* shifts by more than 31 are refused by the parser (`i_m_formats.cpp:92`), though
  registers have 64 bits and `examples/test1.s:3` uses one;
* the mask of the history test is four bits short of the "[0:38]" its comment
  names (`ecc_metadata.h:16`): repairs of the check bits 3 to 5 and of the parity
  are not counted, which is why `HistoryCounts` gives two bounds and not one number;
* of two data labels with one name the first is silently replaced
  (`parser.cpp:109`), where two labels of text are an error;
* a data label before a directive without operands gets an address that its data does
  not have: the parser aligns for the directive, the loader does not.
  `DataLabelsAgree` assumes `OperandsGiven` for this reason.

## Not modelled, and plan

Left out for good: lexing and messages, dumps, ini parsing, the audio and image
files, IEEE arithmetic (the host's), the empty five-stage vm and cache.

Left out of the models above:

* the index of a sample stream, which `Datapath` has and which no delta records:
  UNDO does not rewind it, and `DeltaComplete` does not ask for it;
* programs that overwrite their own text, or jump to a place that is no multiple of four;
* LOAD, RESET and MODIFY_* while the vm thread runs: data races on library
  containers have no outcomes to enumerate;
* the thread's lambda captures `fn` by reference to a parameter that may be gone;
* the end of standard input, on which the command loop spins;
* two items on one line of a source, except a data directive's operands; JAL to a
  data label, which the parser accepts, and text after a bare `.section`, are in
  the model but no property speaks of them.

The JavaScript under `docs/html` is Doxygen's search box, menus and index data,
generated or third-party code that is not part of the simulator, and no module models it.

Next, in this order:

1. `Datapath`'s deltas in `Debugger`: its abstract `Writes` and `Records` replaced
   by those of `Isa`, so that `UndoReverts` is checked of programs.
2. `bfloat16.cpp`: the rounding of a float to its upper half, at a small width.
