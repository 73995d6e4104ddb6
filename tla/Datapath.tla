------------------------------ MODULE Datapath ------------------------------
(***************************************************************************)
(* One instruction after the other through the five stages of              *)
(* src/vm/rvss/rvss_vm.cpp, as Step and DebugRun execute them: Fetch,      *)
(* Decode, Execute, WriteMemory and WriteBack, with the delta that is      *)
(* pushed on the undo stack at the end.                                    *)
(*                                                                         *)
(* A stage reads what an earlier one left in a member of the machine, and  *)
(* several of those outlive their instruction.  A program is found as it   *)
(* is executed: the line at an address is chosen at its first fetch.       *)
(*                                                                         *)
(* The stop flag, the queue of stdin lines and the loops around these      *)
(* stages are in Session, the undo and redo stacks in Debugger.            *)
(***************************************************************************)
EXTENDS Machine, ControlUnit, CodeGenerator

CONSTANTS
  Starts,      (* machines an execution is observed from                   *)
  MaxSteps     (* bound: instructions observed                             *)

VARIABLES
  pc,                   (* program_counter_                                *)
  gpr, fpr, csr, mem,   (* registers_ and the memory                       *)
  index,                (* audio_sample_index_ and image_sample_index_     *)
  host,                 (* the rounding mode of the process                *)
  phase,                (* the stage that comes next, or how it ended      *)
  current_instruction, control, execution_result, memory_result, next_pc,
  branch_flag,
  csr_latch,            (* csr_target_address_, csr_old_value_,            *)
                        (* csr_write_val_ and csr_uimm_                    *)
  delta,                (* current_delta_, then the delta pushed           *)
  text,                 (* the lines of the program found so far           *)
  line, before, steps   (* history: the line being executed, the machine   *)
                        (* when it was fetched, the lines executed         *)

machine  == <<pc, gpr, fpr, csr, mem, index, host>>
latches  == <<execution_result, memory_result, next_pc, branch_flag, csr_latch>>
fetched  == <<current_instruction, text, line, before>>
vars     == <<machine, phase, latches, fetched, control, delta, steps>>

Snapshot == [ pc |-> pc, gpr |-> gpr, fpr |-> fpr, csr |-> csr, mem |-> mem,
              index |-> index, host |-> host, line |-> line ]

Machines ==
  [ pc : Registers, gpr : {g \in [Gprs -> Registers] : g[0] = 0}, fpr : [Fprs -> Registers],
    csr : [Csrs -> Registers], mem : Memories, index : Indices, host : 0 .. 3 ]

Phases == {"fetch", "decode", "execute", "memory", "writeback"}
Ended  == {"aborted", "exited"}

(* A line that the parser leaves: a CSR has a name that is known.          *)
Accepted(l) ==
  /\ l.op \in Mnemonics /\ Encodable(l) /\ Numbered(l)
  /\ l.op \in DOMAIN CSR_R_type_instruction_encoding_map \cup DOMAIN CSR_I_type_instruction_encoding_map
       => l.imm \in Csrs

(* The lines of a program, and the machines it may start on.               *)
ASSUME DatapathAssumption ==
  /\ Starts \subseteq Machines
  /\ \A a \in 0 .. ProgramSize - 1 : \A l \in Lines(a) : Accepted(l)

NoLatch == [target |-> 0, old |-> 0, value |-> 0, uimm |-> 0]

(* Changes as functions from what changed to its old and new value.        *)
NoDelta == [gpr |-> <<>>, fpr |-> <<>>, mem |-> <<>>]

Recorded(old, new, touched) == [r \in touched |-> [old |-> old[r], new |-> new[r]]]
Changes(old, new, touched)  == Recorded(old, new, {r \in touched : old[r] # new[r]})
Change(r, old, new)         == [i \in {j \in {r} : old # new} |-> [old |-> old, new |-> new]]

Init ==
  /\ \E s \in Starts :
       /\ pc = s.pc /\ gpr = s.gpr /\ fpr = s.fpr /\ csr = s.csr
       /\ mem = s.mem /\ index = s.index /\ host = s.host
  /\ phase = "fetch"
  /\ current_instruction = Word(0, 0, 0, 0, 0, 0)
  /\ control = SetControlSignals(current_instruction)
  /\ execution_result = 0
  /\ memory_result = 0
  /\ next_pc = 0
  /\ branch_flag = FALSE
  /\ csr_latch = NoLatch
  /\ delta = NoDelta
  /\ text = <<>>
  /\ line = [op |-> "none"]
  /\ before = Snapshot
  /\ steps = 0

----------------------------------------------------------------------------
(* Fetch and Decode.  A STEP is carried out by a thread of its own, which  *)
(* has the rounding mode of the main thread, to nearest; within a RUN or   *)
(* a DEBUG_RUN the thread stays, and so does what became of its mode.      *)

Fetch ==
  /\ phase = "fetch"
  /\ pc \in 0 .. ProgramSize - 1 /\ pc % 4 = 0
  /\ steps < MaxSteps
  /\ \E l \in (IF pc \in DOMAIN text THEN {text[pc]} ELSE Lines(pc)) :
       /\ line' = l
       /\ text' = [a \in DOMAIN text \cup {pc} |-> IF a = pc THEN l ELSE text[a]]
       /\ current_instruction' = generateMachineCode(l)
  /\ pc' = pc + 4
  /\ host' \in {host, 0}
  /\ before' = Snapshot
  /\ delta' = NoDelta
  /\ phase' = "decode"
  /\ UNCHANGED <<gpr, fpr, csr, mem, index, latches, control, steps>>

Decode ==
  /\ phase = "decode"
  /\ control' = SetControlSignals(current_instruction)
  /\ phase' = "execute"
  /\ UNCHANGED <<machine, latches, fetched, delta, steps>>

----------------------------------------------------------------------------
(* Execute.                                                                *)

w == current_instruction

Gpr(r) == Register(gpr, r)
Fpr(r) == Register(fpr, r)

Executing == phase = "execute" /\ UNCHANGED <<index, fetched, control, steps>>

Abort == phase' = "aborted" /\ UNCHANGED <<machine, latches, delta>>

Operand2 == IF control.alu_src THEN ImmGenerator(w) % Full ELSE Gpr(w.rs2)

IntegerOutcomes ==
  LET op == GetAluSignal(w)
  IN  IF w.opcode = kjalr THEN Execute("kAddrAdd", S32(Checked(Gpr(w.rs1))) % Full, Operand2)
      ELSE IF (control.mem_read \/ control.mem_write) /\ op = "kAdd"
           THEN Execute("kAddrAdd", Gpr(w.rs1), Operand2)
           ELSE Execute(op, Gpr(w.rs1), Operand2)

(* Only the data of the comparison is looked at.                           *)
Taken(result) ==
  CASE w.funct3 \in {0, 5, 7} -> result % Data = 0
    [] w.funct3 = 1           -> result % Data # 0
    [] w.funct3 \in {4, 6}    -> result % Data = 1
    [] OTHER                  -> branch_flag

Target(result) ==
  CASE w.opcode = kjalr                 -> result % Data
    [] w.opcode = kjal                  -> (pc - 4 + ImmGenerator(w)) % Full
    [] w.opcode = kBtype /\ branch_flag' -> (pc - 4 + ImmGenerator(w)) % Full
    [] OTHER                            -> pc

ExecuteInteger ==
  /\ Executing
  /\ Unit(w) = "none" /\ w.opcode # kSystem
  /\ \E result \in IntegerOutcomes \ {Trap} :
       /\ branch_flag' = IF w.opcode = kBtype THEN Taken(result) ELSE branch_flag
       /\ pc' = Target(result)
       /\ execution_result' = IF w.opcode = kauipc
                              THEN (pc - 4 + Signed(Page * ImmGenerator(w), Data)) % Full ELSE result
  /\ next_pc' = IF w.opcode \in {kjal, kjalr} THEN pc ELSE next_pc
  /\ phase' = "memory"
  /\ UNCHANGED <<gpr, fpr, csr, mem, host, memory_result, csr_latch, delta>>

DivisionFaults ==
  /\ Executing
  /\ Unit(w) = "none" /\ w.opcode # kSystem
  /\ Trap \in IntegerOutcomes
  /\ Abort

(* ExecuteFloat, ExecuteDouble, ExecuteBFloat16 and ExecuteSIMDF32.        *)

FromGpr ==
  \/ w.opcode \in {kflw, kfsw}
  \/ w.funct7 \in (IF Unit(w) = "double" THEN {105, 121} ELSE {104, 120})

FloatOperand1 == IF FromGpr THEN Gpr(w.rs1) ELSE Fpr(w.rs1)
FloatOperand2 == IF control.alu_src THEN ImmGenerator(w) % Full ELSE Fpr(w.rs2)

(* ExecuteDouble does not resolve the dynamic mode.                        *)
RoundingMode == IF w.funct3 = 7 /\ Unit(w) # "double" THEN csr[kFrm] % 256 ELSE w.funct3

ExecuteFloatingPoint ==
  /\ Executing
  /\ Unit(w) # "none"
  /\ LET f == FpExecute(Unit(w), GetAluSignal(w), FloatOperand1, FloatOperand2,
                        Fpr(w.funct7 \div 4), RoundingMode, host)
     IN /\ execution_result' = f.value
        /\ host' = f.host
        /\ csr' = IF Unit(w) = "double" THEN csr ELSE [csr EXCEPT ![kFcsr] = f.flags]
  /\ phase' = "memory"
  /\ UNCHANGED <<pc, gpr, fpr, mem, memory_result, next_pc, branch_flag, csr_latch, delta>>

ExecuteCsr ==
  /\ Executing
  /\ w.opcode = kSystem /\ ~Ecall(w)
  /\ LET number == w.rs2 + 32 * w.funct7
     IN  csr_latch' = [target |-> number, old |-> csr[number], value |-> Gpr(w.rs1), uimm |-> w.rs1]
  /\ phase' = "memory"
  /\ UNCHANGED <<machine, execution_result, memory_result, next_pc, branch_flag, delta>>

----------------------------------------------------------------------------
(* HandleSyscall.  What it prints is not kept.                             *)

Syscall(kind) ==
  /\ Executing
  /\ Ecall(w) /\ SyscallKind(gpr, mem) = kind
  /\ UNCHANGED <<pc, fpr, csr, host, latches>>

SyscallQuiet ==
  /\ Syscall("quiet")
  /\ phase' = "memory"
  /\ UNCHANGED <<gpr, mem, delta>>

SyscallExit ==
  /\ Syscall("exit")
  /\ phase' = "exited"
  /\ UNCHANGED <<gpr, mem, delta>>

SyscallFaults ==
  /\ Syscall("fault")
  /\ phase' = "aborted"
  /\ UNCHANGED <<gpr, mem, delta>>

(* All bytes of the buffer are recorded, changed or not.                   *)
SyscallRead ==
  /\ Syscall("read")
  /\ \E input \in Inputs :
       /\ mem' = Received(mem, gpr[11], gpr[12], input)
       /\ gpr' = [gpr EXCEPT ![10] = IF Len(input) < gpr[12] THEN Len(input) ELSE gpr[12]]
  /\ delta' = [delta EXCEPT !.gpr = Changes(gpr, gpr', {10}),
                            !.mem = Recorded(mem, mem', gpr[11] .. gpr[11] + gpr[12] - 1)]
  /\ phase' = "memory"

SyscallWrite ==
  /\ Syscall("write")
  /\ gpr' = [gpr EXCEPT ![10] = gpr[12]]
  /\ delta' = [delta EXCEPT !.gpr = Changes(gpr, gpr', {10})]
  /\ phase' = "memory"
  /\ UNCHANGED mem

----------------------------------------------------------------------------
(* WriteMemory.                                                            *)

AtMemory == phase = "memory" /\ UNCHANGED <<host, fetched, control, steps, execution_result>>

ToWriteBack ==
  /\ phase' = "writeback"
  /\ UNCHANGED <<pc, gpr, fpr, csr, next_pc, branch_flag, csr_latch>>

address == execution_result

(* Which of the three forms of WriteMemory and WriteBack carries it out.   *)
Form == IF isFInstruction(w) THEN "float" ELSE IF isDInstruction(w) THEN "double" ELSE "integer"

Accesses == ~Ecall(w) /\ (control.mem_read \/ control.mem_write)

Width ==
  CASE Form = "float"   -> 4
    [] Form = "double"  -> 8
    [] Form = "integer" -> <<1, 2, 4, 8, 1, 2, 4, 8>>[w.funct3 + 1]

FromStream == Form = "integer" /\ control.mem_read /\ w.funct3 = 7 /\ address \in {AudioIn, ImageIn}
ToLog      == Form = "integer" /\ control.mem_write /\ w.funct3 = 2 /\ address \in {AudioOut, ImageOut}

Loaded ==
  CASE Form = "float"  -> ReadWord(mem, address)
    [] Form = "double" -> ReadDoubleWord(mem, address)
    [] Form = "integer" /\ w.funct3 = 0 -> Signed(mem[address], Radix) % Full
    [] Form = "integer" /\ w.funct3 = 1 -> Signed(ReadHalfWord(mem, address), Half) % Full
    [] Form = "integer" /\ w.funct3 = 2 -> Signed(ReadWord(mem, address), Data) % Full
    [] Form = "integer" /\ w.funct3 \in {3, 7} -> ReadDoubleWord(mem, address)
    [] Form = "integer" /\ w.funct3 = 4 -> mem[address]
    [] Form = "integer" /\ w.funct3 = 5 -> ReadHalfWord(mem, address)
    [] Form = "integer" /\ w.funct3 = 6 -> ReadWord(mem, address)

NoAccess ==
  /\ AtMemory
  /\ ~Accesses
  /\ ToWriteBack
  /\ UNCHANGED <<mem, index, memory_result, delta>>

Load ==
  /\ AtMemory
  /\ Accesses /\ control.mem_read /\ ~FromStream
  /\ InRange(address, Width)
  /\ memory_result' = Loaded
  /\ ToWriteBack
  /\ UNCHANGED <<mem, index, delta>>

LoadSample ==
  /\ AtMemory
  /\ Accesses /\ FromStream
  /\ IF address = AudioIn
     THEN /\ memory_result' = Sample(audio_samples, index.audio)
          /\ index' = [index EXCEPT !.audio = NextIndex(audio_samples, @)]
     ELSE /\ memory_result' = Sample(image_samples, index.image)
          /\ index' = [index EXCEPT !.image = NextIndex(image_samples, @)]
  /\ ToWriteBack
  /\ UNCHANGED <<mem, delta>>

Store ==
  /\ AtMemory
  /\ Accesses /\ control.mem_write /\ ~ToLog
  /\ InRange(address, Width)
  /\ mem' = Stored(mem, address, Width, IF Form = "integer" THEN Gpr(w.rs2) ELSE Fpr(w.rs2))
  /\ delta' = [delta EXCEPT !.mem = IF mem' = mem THEN @
                                    ELSE Recorded(mem, mem', address .. address + Width - 1)]
  /\ ToWriteBack
  /\ UNCHANGED <<index, memory_result>>

(* The word goes to audio_out.log or image_out.log.                        *)
StoreToLog ==
  /\ AtMemory
  /\ Accesses /\ ToLog
  /\ ToWriteBack
  /\ UNCHANGED <<mem, index, memory_result, delta>>

AccessFaults ==
  /\ AtMemory
  /\ Accesses /\ ~FromStream /\ ~ToLog
  /\ ~InRange(address, Width)
  /\ Abort

----------------------------------------------------------------------------
(* WriteBack.                                                              *)

AtWriteBack ==
  /\ phase = "writeback"
  /\ phase' = "fetch"
  /\ steps' = steps + 1
  /\ UNCHANGED <<pc, mem, index, host, latches, fetched, control>>

(* The link is a pointer with a code.                                      *)
WrittenBack ==
  CASE w.opcode \in {kRtype, kItype, kauipc}   -> execution_result
    [] w.opcode = kLoadType /\ control.is_load_protected
                                  -> Protected(memory_result % Data, 0, SIG_LOW)
    [] w.opcode = kLoadType /\ ~control.is_load_protected -> memory_result
    [] w.opcode \in {kjal, kjalr} -> Protected(next_pc % Data, 1, SIG_POINTER)
    [] w.opcode = klui            -> Signed(Page * ImmGenerator(w), Data) % Full

WriteBackInteger ==
  /\ AtWriteBack
  /\ Form = "integer" /\ w.opcode # kSystem
  /\ gpr' = IF control.reg_write THEN Written(gpr, w.rd, WrittenBack) ELSE gpr
  /\ delta' = [delta EXCEPT !.gpr = Changes(gpr, gpr', Gprs)]
  /\ UNCHANGED <<fpr, csr>>

(* WriteBackFloat and WriteBackDouble: these values of funct7 select a     *)
(* general register, whatever the opcode.  In flw and fld they are bits of *)
(* the offset.                                                             *)
GprResults == IF Form = "float" THEN {80, 96, 112} ELSE {81, 97, 113}

ResultToGpr == control.reg_write /\ w.funct7 \in GprResults
ResultToFpr == control.reg_write /\ w.funct7 \notin GprResults

FloatWrittenBack == IF ResultToFpr /\ w.opcode = kflw THEN memory_result ELSE execution_result

(* Mutant: the type of the register stays that of a floating-point one.    *)
FloatDeltaUntyped ==
  [delta EXCEPT !.fpr = IF ResultToGpr THEN Change(w.rd, Gpr(w.rd), FloatWrittenBack)
                        ELSE IF ResultToFpr THEN Change(w.rd, Fpr(w.rd), FloatWrittenBack) ELSE @]

FloatDelta ==
  [delta EXCEPT !.gpr = IF ResultToGpr THEN Change(w.rd, Gpr(w.rd), FloatWrittenBack) ELSE @,
                !.fpr = IF ResultToFpr THEN Change(w.rd, Fpr(w.rd), FloatWrittenBack) ELSE @]

WriteBackFloat ==
  /\ AtWriteBack
  /\ Form # "integer"
  /\ gpr' = IF ResultToGpr THEN Written(gpr, w.rd, FloatWrittenBack) ELSE gpr
  /\ fpr' = IF ResultToFpr THEN [fpr EXCEPT ![w.rd] = FloatWrittenBack] ELSE fpr
  /\ delta' = FloatDelta
  /\ UNCHANGED csr

(* Nothing of this is in the delta.                                        *)
WriteBackCsr ==
  /\ AtWriteBack
  /\ w.opcode = kSystem /\ ~Ecall(w)
  /\ LET operand == IF w.funct3 > 4 THEN csr_latch.uimm ELSE csr_latch.value
         written == CASE w.funct3 \in {1, 5} -> operand
                      [] w.funct3 \in {2, 6} /\ operand # 0 -> SetBits(csr_latch.old, operand)
                      [] w.funct3 \in {3, 7} /\ operand # 0 -> ClearBits(csr_latch.old, operand)
                      [] OTHER -> csr_latch.old
     IN  csr' = [csr EXCEPT ![csr_latch.target] = written]
  /\ gpr' = IF w.funct3 # 4 THEN Written(gpr, w.rd, csr_latch.old) ELSE gpr
  /\ UNCHANGED <<fpr, delta>>

WriteBackNothing ==
  /\ AtWriteBack
  /\ Ecall(w)
  /\ UNCHANGED <<gpr, fpr, csr, delta>>

----------------------------------------------------------------------------

Next ==
  \/ Fetch \/ Decode
  \/ ExecuteInteger \/ DivisionFaults \/ ExecuteFloatingPoint \/ ExecuteCsr
  \/ SyscallQuiet \/ SyscallExit \/ SyscallRead \/ SyscallWrite \/ SyscallFaults
  \/ NoAccess \/ Load \/ LoadSample \/ Store \/ StoreToLog \/ AccessFaults
  \/ WriteBackInteger \/ WriteBackFloat \/ WriteBackCsr \/ WriteBackNothing

Spec == Init /\ [][Next]_vars

----------------------------------------------------------------------------

(* The machine keeps its shape: registers and memory hold words and bytes, *)
(* and x0 is 0 whatever was written to it.                                 *)
TypeOK ==
  /\ pc \in Registers
  /\ gpr \in [Gprs -> Registers] /\ gpr[0] = 0
  /\ fpr \in [Fprs -> Registers] /\ csr \in [Csrs -> Registers]
  /\ mem \in Memories
  /\ index \in Indices
  /\ host \in 0 .. 3
  /\ phase \in Phases \cup Ended
  /\ current_instruction \in Instructions
  /\ control \in Signals
  /\ execution_result \in Registers /\ memory_result \in Registers /\ next_pc \in Registers
  /\ branch_flag \in BOOLEAN

(* Between two instructions the machine is seen as it is, in the middle of *)
(* one as it was when that was fetched.                                    *)

Between == phase \in {"fetch"} \cup Ended

Seen == IF phase = "fetch" THEN Snapshot ELSE before

Abstract == INSTANCE Isa WITH
  pc <- Seen.pc, gpr <- Seen.gpr, fpr <- Seen.fpr, csr <- Seen.csr, mem <- Seen.mem,
  index <- Seen.index, host <- Seen.host, line <- IF Between THEN line ELSE before.line,
  status <- IF phase \in Ended THEN phase ELSE "up"

(* What the proofs assume of the units and the code, with operands and     *)
(* rounding modes from the given sets; those of the sources are tried on   *)
(* some in MCDatapath.  Results are words; some divisions may fault, and   *)
(* nothing else; addresses are sums; of a shift amount the low bits count. *)
IntegerWords ==
  [opcode : (0 .. 127) \ {kFtype}, rd : {0}, funct3 : 0 .. 7, rs1 : {0}, rs2 : {0}, funct7 : 0 .. 127]

IntegerOps == {GetAluSignal(x) : x \in IntegerWords}

Faulting == {"kRem", "kDivuw", "kRemw", "kRemuw", "kSIMD_div32", "kSIMD_rem32"}

FormatWords ==
  [opcode : {kFtype}, rd : {0}, funct3 : 0 .. 7, rs1 : {0}, rs2 : 0 .. 31, funct7 : 0 .. 127]

AccessWords ==
  [opcode : {kflw, kfsw}, rd : {0}, funct3 : {2, 3}, rs1 : {0}, rs2 : {0}, funct7 : {0}]

FloatingOps == {<<Unit(x), GetAluSignal(x)>> : x \in FormatWords \cup AccessWords}

(* The second operand is not read by ..., the third by all but one.        *)
OneOperand ==
  { "kNone", "FSQRT_S", "FSQRT_D", "FMV_X_W", "FMV_W_X", "FMV_X_D", "FMV_D_X", "FCLASS_S", "FCLASS_D",
    "FCVT_W_S", "FCVT_WU_S", "FCVT_L_S", "FCVT_LU_S", "FCVT_W_D", "FCVT_WU_D", "FCVT_L_D", "FCVT_LU_D",
    "FCVT_S_W", "FCVT_S_WU", "FCVT_S_L", "FCVT_S_LU", "FCVT_D_W", "FCVT_D_WU", "FCVT_D_L", "FCVT_D_LU" }

IntegerUnitFor(words) ==
  \A a, b \in words :
    /\ \A op \in IntegerOps : Execute(op, a, b) \subseteq Registers \cup {Trap}
    /\ \A op \in IntegerOps \ Faulting : Trap \notin Execute(op, a, b)
    /\ Execute("kAddrAdd", a, b) = {(a + b) % Full}
    /\ \A n \in Shifts : Execute("kSra", a, (1024 + n) % Full) = Execute("kSra", a, n % Full)

FloatUnitsFor(words, modes) ==
  \A u \in FloatingOps, a, b, c \in words, rm \in modes, h \in 0 .. 3 :
    LET f == FpExecute(u[1], u[2], a, b, c, rm, h)
    IN  /\ f.value \in Registers /\ f.flags \in Registers /\ f.host \in 0 .. 3
        /\ u[2] = "kAdd" => f.value = (a + b) % Full
        /\ u[2] # "VDOTP_BF16" => f = FpExecute(u[1], u[2], a, b, 0, rm, h)
        /\ u[2] \in OneOperand => f = FpExecute(u[1], u[2], a, 0, c, rm, h)

CodesFor(words) ==
  \A a, b \in words :
    {Checked(a), SetBits(a, b), ClearBits(a, b),
     Protected(a % Data, 0, SIG_LOW), Protected(a % Data, 1, SIG_POINTER)} \subseteq Registers

UnitsFor(words, modes) ==
  IntegerUnitFor(words) /\ FloatUnitsFor(words, modes) /\ CodesFor(words)

(* Each instruction does, as one step, what Isa says of its line, and a    *)
(* step in between shows nothing: no latch, signal, form of WriteMemory or *)
(* WriteBack, device or undo record of one instruction reaches another.    *)
(* Isa says what the tables of the sources together make of a mnemonic,    *)
(* the results they lose or misdirect included: that those are right is    *)
(* not said here (ResultsDelivered in MCDatapath).                         *)
ImplementsIsa == Abstract!Spec

(* An immediate comes through the word it is spread over, at every width   *)
(* and sign (code_generator.cpp against ImmGenerator in vm_base.cpp); of   *)
(* an upper one the machine sees 20 bits.                                  *)
ImmediatesSurvive ==
  (phase = "decode" /\ current_instruction.opcode \in Gathered)
  => \/ line.op \in DOMAIN I2_type_instruction_encoding_map
     \/ ImmGenerator(current_instruction) =
          IF current_instruction.opcode \in {klui, kauipc} THEN line.imm % 1048576 ELSE line.imm

(* Undo of the delta that an instruction leaves gives the machine back     *)
(* that it was fetched on, and redo of it the machine it led to, except    *)
(* for CSR instructions and for what no delta has a place for.             *)
Undone(f, changes) == [r \in DOMAIN f |-> IF r \in DOMAIN changes THEN changes[r].old ELSE f[r]]
Redone(f, changes) == [r \in DOMAIN f |-> IF r \in DOMAIN changes THEN changes[r].new ELSE f[r]]

DeltaComplete ==
  (phase = "fetch" /\ steps > 0 /\ (current_instruction.opcode = kSystem => Ecall(current_instruction)))
  => /\ Undone(gpr, delta.gpr) = before.gpr
     /\ Undone(fpr, delta.fpr) = before.fpr
     /\ Undone(mem, delta.mem) = before.mem
     /\ [Redone(before.gpr, delta.gpr) EXCEPT ![0] = 0] = gpr
     /\ Redone(before.fpr, delta.fpr) = fpr
     /\ Redone(before.mem, delta.mem) = mem

=============================================================================
