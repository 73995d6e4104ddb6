----------------------------- MODULE IsaProofs -----------------------------
(***************************************************************************)
(* The five stages of Datapath implement Isa, which says what the tables   *)
(* of the sources make of each mnemonic, for every program, machine, ALU,  *)
(* floating-point unit and code of which UnitsFor holds.                   *)
(*                                                                         *)
(* The proof follows an instruction through the stages: what the decoder   *)
(* makes of the word of its line, by the classes of Isa (WordOf); how far   *)
(* it has come since it was fetched (Progress, an invariant); and that     *)
(* what WriteBack then makes visible is what Isa says of the line.  Each   *)
(* other step shows nothing, or is an instruction that ends the program.   *)
(* At the end, what this and the lemmas about the units say of Datapath    *)
(* with the units of the sources.                                          *)
(***************************************************************************)
EXTENDS DatapathProofs

----------------------------------------------------------------------------
(* Isa reads the same machine with operators of its own instance.          *)

LEMMA SameNumbers ==
  /\ Abstract!Half = Half /\ Abstract!Data = Data /\ Abstract!Full = Full /\ Abstract!Trap = Trap
  /\ Abstract!SIG_LOW = SIG_LOW /\ Abstract!SIG_POINTER = SIG_POINTER
  /\ Abstract!kFrm = kFrm /\ Abstract!kFcsr = kFcsr
  /\ \A n, values : Abstract!Signed(n, values) = Signed(n, values)
  /\ \A n : Abstract!S32(n) = S32(n)
BY DEF Half, Abstract!Half, Data, Abstract!Data, Full, Abstract!Full, Trap, Abstract!Trap, SIG_LOW, Abstract!SIG_LOW,
  SIG_POINTER, Abstract!SIG_POINTER, kFrm, Abstract!kFrm, kFcsr, Abstract!kFcsr, Signed, Abstract!Signed,
  S32, Abstract!S32

LEMMA SameMemory ==
  /\ \A m, a : Abstract!ReadHalfWord(m, a) = ReadHalfWord(m, a)
  /\ \A m, a : Abstract!ReadWord(m, a) = ReadWord(m, a)
  /\ \A m, a : Abstract!ReadDoubleWord(m, a) = ReadDoubleWord(m, a)
  /\ \A a, n : Abstract!InRange(a, n) = InRange(a, n)
  /\ \A m, a, n, x : Abstract!Stored(m, a, n, x) = Stored(m, a, n, x)
  /\ \A s, i : Abstract!Sample(s, i) = Sample(s, i)
  /\ \A s, i : Abstract!NextIndex(s, i) = NextIndex(s, i)
  /\ \A m, b, n, input : Abstract!Received(m, b, n, input) = Received(m, b, n, input)
<1>1. \A m, a, n, x : Abstract!Stored(m, a, n, x) = Stored(m, a, n, x)
  BY DEF Stored, Abstract!Stored, Place, Abstract!Place, Half, Abstract!Half, Data, Abstract!Data
<1> QED
  BY SameNumbers, <1>1 DEF ReadHalfWord, Abstract!ReadHalfWord, ReadWord, Abstract!ReadWord,
    ReadDoubleWord, Abstract!ReadDoubleWord, InRange, Abstract!InRange, Sample, Abstract!Sample,
    NextIndex, Abstract!NextIndex, Received, Abstract!Received

LEMMA SameRegisters ==
  /\ \A f, r : Abstract!Register(f, r) = Register(f, r)
  /\ \A f, r, x : Abstract!Written(f, r, x) = Written(f, r, x)
  /\ \A g, m : Abstract!SyscallKind(g, m) = SyscallKind(g, m)
BY DEF Register, Abstract!Register, Written, Abstract!Written, SyscallKind, Abstract!SyscallKind,
  Buffered, Abstract!Buffered, InRange, Abstract!InRange,
  SYSCALL_PRINT_STRING, Abstract!SYSCALL_PRINT_STRING, SYSCALL_EXIT, Abstract!SYSCALL_EXIT,
  SYSCALL_READ, Abstract!SYSCALL_READ, SYSCALL_WRITE, Abstract!SYSCALL_WRITE

----------------------------------------------------------------------------
(* What the decoder makes of the word of a line, one lemma for each class  *)
(* of lines that Isa tells apart.                                          *)

WordOf(l, word) == Accepted(l) /\ word = generateMachineCode(l)

LEMMA RegisterRow ==
  ASSUME NEW l, NEW word, WordOf(l, word), l.op \in DOMAIN R_type_instruction_encoding_map
  PROVE  /\ word.opcode = R_type_instruction_encoding_map[l.op][1]
         /\ word.funct3 = R_type_instruction_encoding_map[l.op][2]
         /\ word.funct7 = R_type_instruction_encoding_map[l.op][3]
         /\ word.rd = l.rd /\ word.rs1 = l.rs1 /\ word.rs2 = l.rs2
<1>1. word = generateRTypeMachineCode(l)
  BY Generated DEF WordOf
<1> QED  BY <1>1 DEF generateRTypeMachineCode, Word

LEMMA RegisterDecoded ==
  ASSUME NEW l, NEW word, WordOf(l, word), l.op \in DOMAIN Abstract!RegisterOps
  PROVE  /\ word.opcode = kRtype /\ word.rd = l.rd /\ word.rs1 = l.rs1 /\ word.rs2 = l.rs2
         /\ GetAluSignal(word) = Abstract!RegisterOps[l.op]
<1>1. l.op \in DOMAIN R_type_instruction_encoding_map
  BY DEF Abstract!RegisterOps, R_type_instruction_encoding_map
<1>2. R_type_instruction_encoding_map[l.op][1] = kRtype
  BY DEF Abstract!RegisterOps, R_type_instruction_encoding_map, kRtype
<1>3. SignalR(word) = Abstract!RegisterOps[l.op]
  BY <1>1, RegisterRow DEF Abstract!RegisterOps, R_type_instruction_encoding_map, SignalR, Entry
<1> QED  BY <1>1, <1>2, <1>3, RegisterRow, SignalOf

LEMMA LostOpsDecoded ==
  ASSUME NEW l, NEW word, WordOf(l, word), l.op \in DOMAIN Abstract!LostOps
  PROVE  /\ word.opcode = kOp32 /\ word.rs1 = l.rs1 /\ word.rs2 = l.rs2
         /\ GetAluSignal(word) = Abstract!LostOps[l.op]
<1>1. l.op \in DOMAIN R_type_instruction_encoding_map
  BY DEF Abstract!LostOps, R_type_instruction_encoding_map
<1>2. R_type_instruction_encoding_map[l.op][1] = kOp32
  BY DEF Abstract!LostOps, R_type_instruction_encoding_map, kOp32
<1>3. SignalOp32(word) = Abstract!LostOps[l.op]
  BY <1>1, RegisterRow DEF Abstract!LostOps, R_type_instruction_encoding_map, SignalOp32, Entry
<1> QED  BY <1>1, <1>2, <1>3, RegisterRow, SignalOf

LEMMA LostDecoded ==
  ASSUME NEW l, NEW word, WordOf(l, word), l.op \in Abstract!Lost
  PROVE  /\ word.opcode \in {kOpImm32, kfmadd, kfmsub, kfnmsub, kfnmadd}
         /\ GetAluSignal(word) \notin Faulting
<1>1. word.opcode \in {kOpImm32, kfmadd, kfmsub, kfnmsub, kfnmadd}
  <2>1. CASE l.op = "addiw"
    <3>1. word = generateI1TypeMachineCode(l)
      BY <2>1, Generated DEF WordOf, I1_type_instruction_encoding_map
    <3> QED  BY <2>1, <3>1 DEF generateI1TypeMachineCode, IWord, Word, I1_type_instruction_encoding_map, kOpImm32
  <2>2. CASE l.op \in {"slliw", "srliw", "sraiw"}
    <3>1. word = generateI2TypeMachineCode(l)
      BY <2>2, Generated DEF WordOf, I2_type_instruction_encoding_map
    <3> QED  BY <2>2, <3>1 DEF generateI2TypeMachineCode, IWord, Word, I2_type_instruction_encoding_map, kOpImm32
  <2>3. CASE l.op \in DOMAIN F_D_R4_type_instruction_encoding_map
    <3>1. word = generateFDR4TypeMachineCode(l)
      BY <2>3, Generated DEF WordOf
    <3> QED  BY <2>3, <3>1 DEF generateFDR4TypeMachineCode, Word, F_D_R4_type_instruction_encoding_map,
                               kfmadd, kfmsub, kfnmsub, kfnmadd
  <2> QED  BY <2>1, <2>2, <2>3 DEF Abstract!Lost, F_D_R4_type_instruction_encoding_map
<1>2. CASE word.opcode = kOpImm32
  BY <1>2, SignalOf DEF SignalOpImm32, Faulting
<1>3. CASE word.opcode # kOpImm32
  BY <1>1, <1>3, SignalOf DEF Faulting
<1> QED  BY <1>1, <1>2, <1>3

LEMMA ShortDecoded ==
  ASSUME NEW l, NEW word, WordOf(l, word), l.op \in DOMAIN I1_type_instruction_encoding_map, l.op # "addiw"
  PROVE  /\ word.opcode = I1_type_instruction_encoding_map[l.op][1]
         /\ word.funct3 = I1_type_instruction_encoding_map[l.op][2]
         /\ word.rd = l.rd /\ word.rs1 = l.rs1 /\ ImmGenerator(word) = l.imm
<1>1. word = generateI1TypeMachineCode(l)
  BY Generated DEF WordOf
<1>2. word.opcode = I1_type_instruction_encoding_map[l.op][1]
  BY <1>1 DEF generateI1TypeMachineCode, IWord, Word
<1>3. word.opcode \in {kItype, kLoadType, kjalr}
  BY <1>2 DEF I1_type_instruction_encoding_map, kItype, kLoadType, kjalr
<1>4. Survives(l, word) /\ l.op \notin DOMAIN I2_type_instruction_encoding_map
  BY ImmediateRoundTrip DEF WordOf, Accepted, I1_type_instruction_encoding_map, I2_type_instruction_encoding_map
<1>5. word.opcode \in Gathered /\ word.opcode \notin {klui, kauipc}
  BY <1>3 DEF Gathered, kItype, kLoadType, kjalr, klui, kauipc
<1>6. ImmGenerator(word) = l.imm
  BY <1>4, <1>5 DEF Survives, Kept
<1> QED  BY <1>1, <1>2, <1>6 DEF generateI1TypeMachineCode, IWord, Word

LEMMA ShiftPieces ==
  ASSUME NEW n, n \in Shifts
  PROVE  /\ Bits(64 * 0 + n, 1, 32) = n /\ Bits(64 * 0 + n, 32, 128) = 0
         /\ Bits(64 * 16 + n, 1, 32) = n /\ Bits(64 * 16 + n, 32, 128) = 32
BY DEF Shifts, Bits

LEMMA ShiftDecoded ==
  ASSUME NEW l, NEW word, WordOf(l, word), l.op \in {"slli", "srli", "srai"}
  PROVE  /\ word.opcode = kItype /\ word.rd = l.rd /\ word.rs1 = l.rs1 /\ l.imm \in Shifts
         /\ word.funct3 = I2_type_instruction_encoding_map[l.op][2]
         /\ word.funct7 = IF l.op = "srai" THEN 32 ELSE 0
         /\ ImmGenerator(word) = IF l.op = "srai" THEN 1024 + l.imm ELSE l.imm
<1>1. word = generateI2TypeMachineCode(l) /\ l.imm \in Shifts
  BY Generated DEF WordOf, Accepted, Encodable, I2_type_instruction_encoding_map
<1> DEFINE e == I2_type_instruction_encoding_map[l.op]
<1>2. e[1] = kItype /\ e[3] = IF l.op = "srai" THEN 16 ELSE 0
  BY DEF I2_type_instruction_encoding_map, kItype
<1>3. word = IWord(e[1], l.rd, e[2], l.rs1, 64 * e[3] + l.imm)
  BY <1>1 DEF generateI2TypeMachineCode
<1> HIDE DEF e
<1>4. /\ word.opcode = kItype /\ word.rd = l.rd /\ word.rs1 = l.rs1 /\ word.funct3 = e[2]
      /\ word.rs2 = Bits(64 * e[3] + l.imm, 1, 32) /\ word.funct7 = Bits(64 * e[3] + l.imm, 32, 128)
  BY <1>2, <1>3 DEF IWord, Word
<1>5. word.rs2 = l.imm /\ word.funct7 = IF l.op = "srai" THEN 32 ELSE 0
  BY <1>1, <1>2, <1>4, ShiftPieces
<1>6. ImmGenerator(word) = ImmediateI(word)
  BY <1>4 DEF ImmGenerator, Gathered, kItype, kLoadType, kjalr, kflw, kStoreType, kfsw, kBtype, klui, kauipc, kjal
<1>7. ImmediateI(word) = IF l.op = "srai" THEN 1024 + l.imm ELSE l.imm
  BY <1>1, <1>5 DEF ImmediateI, sign_extend, Shifts
<1> QED  BY <1>1, <1>4, <1>5, <1>6, <1>7 DEF e

LEMMA ImmediateDecoded ==
  ASSUME NEW l, NEW word, WordOf(l, word), l.op \in DOMAIN Abstract!ImmediateOps
  PROVE  /\ word.opcode = kItype /\ word.rd = l.rd /\ word.rs1 = l.rs1
         /\ GetAluSignal(word) = Abstract!ImmediateOps[l.op]
         /\ l.op # "srai" => ImmGenerator(word) = l.imm
         /\ l.op = "srai" => ImmGenerator(word) = 1024 + l.imm /\ l.imm \in Shifts
<1>1. CASE l.op \in {"slli", "srli", "srai"}
  <2>1. SignalI(word) = Abstract!ImmediateOps[l.op]
    BY <1>1, ShiftDecoded DEF SignalI, Entry, Abstract!ImmediateOps, I2_type_instruction_encoding_map
  <2> QED  BY <1>1, <2>1, ShiftDecoded, SignalOf
<1>2. CASE l.op \in {"addi", "xori", "ori", "andi", "slti", "sltiu"}
  <2>1. /\ l.op \in DOMAIN I1_type_instruction_encoding_map /\ l.op # "addiw"
        /\ I1_type_instruction_encoding_map[l.op][1] = kItype
    BY <1>2 DEF I1_type_instruction_encoding_map, kItype
  <2>2. SignalI(word) = Abstract!ImmediateOps[l.op]
    BY <1>2, <2>1, ShortDecoded DEF SignalI, Entry, Abstract!ImmediateOps, I1_type_instruction_encoding_map
  <2>3. l.op # "srai"
    BY <1>2
  <2> QED  BY <2>1, <2>2, <2>3, ShortDecoded, SignalOf
<1> QED  BY <1>1, <1>2 DEF Abstract!ImmediateOps

LEMMA UpperDecoded ==
  ASSUME NEW l, NEW word, WordOf(l, word), l.op \in {"lui", "auipc"}
  PROVE  /\ word.opcode = IF l.op = "lui" THEN klui ELSE kauipc
         /\ word.rd = l.rd /\ l.imm \in Int
         /\ ImmGenerator(word) = l.imm % 1048576
<1>1. word = generateUTypeMachineCode(l) /\ l.imm \in UpperOperands
  BY Generated DEF WordOf, Accepted, Encodable, U_type_instruction_encoding_map
<1>2. /\ word.opcode = IF l.op = "lui" THEN klui ELSE kauipc
      /\ word.rd = l.rd
  BY <1>1, SMT DEF generateUTypeMachineCode, Word, U_type_instruction_encoding_map, klui, kauipc
<1>3. Survives(l, word) /\ l.op \notin DOMAIN I2_type_instruction_encoding_map
  BY ImmediateRoundTrip DEF WordOf, Accepted, I2_type_instruction_encoding_map
<1>4. word.opcode \in Gathered /\ word.opcode \in {klui, kauipc}
  BY <1>2 DEF Gathered
<1>5. ImmGenerator(word) = l.imm % 1048576
  BY <1>3, <1>4, SMT DEF Survives, Kept
<1>6. l.imm \in Int
  BY <1>1, SMT DEF UpperOperands
<1> QED  BY <1>2, <1>5, <1>6, SMT

LEMMA JumpDecoded ==
  ASSUME NEW l, NEW word, WordOf(l, word), l.op \in {"jal", "jalr"}
  PROVE  /\ word.opcode = IF l.op = "jal" THEN kjal ELSE kjalr
         /\ word.rd = l.rd /\ ImmGenerator(word) = l.imm
         /\ l.op = "jalr" => word.rs1 = l.rs1
<1>1. CASE l.op = "jalr"
  <2>1. /\ l.op \in DOMAIN I1_type_instruction_encoding_map /\ l.op # "addiw" /\ l.op # "jal"
        /\ I1_type_instruction_encoding_map[l.op][1] = kjalr
    BY <1>1 DEF I1_type_instruction_encoding_map, kjalr
  <2> QED  BY <1>1, <2>1, ShortDecoded
<1>2. CASE l.op = "jal"
  <2>1. word = generateJTypeMachineCode(l)
    BY <1>2, Generated DEF WordOf, J_type_instruction_encoding_map
  <2>2. word.opcode = kjal /\ word.rd = l.rd
    BY <1>2, <2>1, SMT DEF generateJTypeMachineCode, Word, J_type_instruction_encoding_map, kjal
  <2>3. Survives(l, word) /\ l.op \notin DOMAIN I2_type_instruction_encoding_map
    BY <1>2, ImmediateRoundTrip DEF WordOf, Accepted, I2_type_instruction_encoding_map
  <2>4. word.opcode \in Gathered /\ word.opcode \notin {klui, kauipc}
    BY <2>2 DEF Gathered, kjal, klui, kauipc
  <2>5. ImmGenerator(word) = l.imm
    BY <2>3, <2>4 DEF Survives, Kept
  <2> QED  BY <1>2, <2>2, <2>5
<1> QED  BY <1>1, <1>2

LEMMA BranchDecoded ==
  ASSUME NEW l, NEW word, WordOf(l, word), l.op \in DOMAIN Abstract!BranchOps
  PROVE  /\ word.opcode = kBtype /\ word.rs1 = l.rs1 /\ word.rs2 = l.rs2
         /\ word.funct3 = B_type_instruction_encoding_map[l.op][2]
         /\ GetAluSignal(word) = Abstract!BranchOps[l.op]
         /\ ImmGenerator(word) = l.imm
<1>1. l.op \in DOMAIN B_type_instruction_encoding_map
  BY DEF Abstract!BranchOps, B_type_instruction_encoding_map
<1>2. word = generateBTypeMachineCode(l)
  BY <1>1, Generated DEF WordOf
<1>3. B_type_instruction_encoding_map[l.op][1] = kBtype
  BY <1>1 DEF B_type_instruction_encoding_map, kBtype
<1>4. /\ word.opcode = kBtype /\ word.rs1 = l.rs1 /\ word.rs2 = l.rs2
      /\ word.funct3 = B_type_instruction_encoding_map[l.op][2]
  BY <1>2, <1>3 DEF generateBTypeMachineCode, Word
<1>5. SignalB(word) = Abstract!BranchOps[l.op]
  BY <1>1, <1>4 DEF SignalB, Entry, Abstract!BranchOps, B_type_instruction_encoding_map
<1>6. Survives(l, word) /\ l.op \notin DOMAIN I2_type_instruction_encoding_map
  BY <1>1, ImmediateRoundTrip DEF WordOf, Accepted, B_type_instruction_encoding_map, I2_type_instruction_encoding_map
<1>7. word.opcode \in Gathered /\ word.opcode \notin {klui, kauipc}
  BY <1>4 DEF Gathered, kBtype, klui, kauipc
<1>8. ImmGenerator(word) = l.imm
  BY <1>6, <1>7 DEF Survives, Kept
<1> QED  BY <1>4, <1>5, <1>8, SignalOf

LEMMA LoadDecoded ==
  ASSUME NEW l, NEW word, WordOf(l, word), l.op \in DOMAIN Abstract!Loads \ DOMAIN Abstract!FloatLoads
  PROVE  /\ word.opcode = kLoadType /\ word.rd = l.rd /\ word.rs1 = l.rs1 /\ ImmGenerator(word) = l.imm
         /\ word.funct3 = I1_type_instruction_encoding_map[l.op][2]
<1>1. /\ l.op \in DOMAIN I1_type_instruction_encoding_map /\ l.op # "addiw"
      /\ I1_type_instruction_encoding_map[l.op][1] = kLoadType
  BY DEF Abstract!Loads, Abstract!FloatLoads, I1_type_instruction_encoding_map, kLoadType
<1> QED  BY <1>1, ShortDecoded

LEMMA StoreDecoded ==
  ASSUME NEW l, NEW word, WordOf(l, word), l.op \in DOMAIN S_type_instruction_encoding_map
  PROVE  /\ word.opcode = kStoreType /\ word.rs1 = l.rs1 /\ word.rs2 = l.rs2 /\ ImmGenerator(word) = l.imm
         /\ word.funct3 = S_type_instruction_encoding_map[l.op][2]
<1>1. word = generateSTypeMachineCode(l)
  BY Generated DEF WordOf
<1>2. S_type_instruction_encoding_map[l.op][1] = kStoreType
  BY DEF S_type_instruction_encoding_map, kStoreType
<1>3. /\ word.opcode = kStoreType /\ word.rs1 = l.rs1 /\ word.rs2 = l.rs2
      /\ word.funct3 = S_type_instruction_encoding_map[l.op][2]
  BY <1>1, <1>2 DEF generateSTypeMachineCode, SWord, Word
<1>4. Survives(l, word) /\ l.op \notin DOMAIN I2_type_instruction_encoding_map
  BY ImmediateRoundTrip DEF WordOf, Accepted, S_type_instruction_encoding_map, I2_type_instruction_encoding_map
<1>5. word.opcode \in Gathered /\ word.opcode \notin {klui, kauipc}
  BY <1>3 DEF Gathered, kStoreType, klui, kauipc
<1>6. ImmGenerator(word) = l.imm
  BY <1>4, <1>5 DEF Survives, Kept
<1> QED  BY <1>3, <1>6

(* Bits 5 to 11 of an offset, where a word has its funct7.                 *)
LEMMA UpperBits ==
  ASSUME NEW n, n \in ShortOffsets
  PROVE  Bits(n, 32, 128) = (n % 4096) \div 32
<1>1. n \in Int /\ n >= -2048 /\ n =< 2047
  BY DEF ShortOffsets
<1> DEFINE q == n \div 32
           r == n % 32
<1>2. q \in Int /\ r \in 0 .. 31 /\ n = 32 * q + r
  BY <1>1
<1>3. Bits(n, 32, 128) = q % 128
  BY DEF Bits
<1>4. n % 4096 = IF n < 0 THEN n + 4096 ELSE n
  BY <1>1
<1> HIDE DEF q, r
<1>5. q >= -64 /\ q =< 63
  BY <1>1, <1>2
<1>6. q % 128 = IF q < 0 THEN q + 128 ELSE q
  BY <1>2, <1>5
<1>7. (n < 0) <=> (q < 0)
  BY <1>2
<1>8. n % 4096 = 32 * (IF q < 0 THEN q + 128 ELSE q) + r
  BY <1>2, <1>4, <1>7
<1> DEFINE t == IF q < 0 THEN q + 128 ELSE q
<1>9. t \in 0 .. 127
  BY <1>2, <1>5
<1>10. n % 4096 = 32 * t + r
  BY <1>8
<1> HIDE DEF t
<1>11. (32 * t + r) \div 32 = t
  BY <1>2, <1>9
<1> QED  BY <1>3, <1>6, <1>10, <1>11 DEF t

LEMMA FloatLoadDecoded ==
  ASSUME NEW l, NEW word, WordOf(l, word), l.op \in DOMAIN Abstract!FloatLoads
  PROVE  /\ word.opcode = kflw /\ word.rd = l.rd /\ word.rs1 = l.rs1 /\ ImmGenerator(word) = l.imm
         /\ word.funct3 = IF l.op = "flw" THEN 2 ELSE 3
         /\ word.funct7 = (l.imm % 4096) \div 32
<1>1. l.op \in DOMAIN F_D_I_type_instruction_encoding_map
  BY DEF Abstract!FloatLoads, F_D_I_type_instruction_encoding_map
<1>2. word = generateFDITypeMachineCode(l) /\ l.imm \in ShortOffsets
  BY <1>1, Generated DEF WordOf, Accepted, Encodable, ShortOps
<1>3. F_D_I_type_instruction_encoding_map[l.op] = IF l.op = "flw" THEN <<kflw, 2>> ELSE <<kflw, 3>>
  BY <1>1 DEF F_D_I_type_instruction_encoding_map, kflw
<1>4. /\ word.opcode = kflw /\ word.rd = l.rd /\ word.rs1 = l.rs1
      /\ word.funct3 = IF l.op = "flw" THEN 2 ELSE 3
      /\ word.funct7 = Bits(l.imm, 32, 128)
  BY <1>2, <1>3 DEF generateFDITypeMachineCode, IWord, Word
<1>5. Survives(l, word) /\ l.op \notin DOMAIN I2_type_instruction_encoding_map
  BY <1>1, ImmediateRoundTrip DEF WordOf, Accepted, F_D_I_type_instruction_encoding_map, I2_type_instruction_encoding_map
<1>6. word.opcode \in Gathered /\ word.opcode \notin {klui, kauipc}
  BY <1>4 DEF Gathered, kflw, klui, kauipc
<1>7. ImmGenerator(word) = l.imm
  BY <1>5, <1>6 DEF Survives, Kept
<1>8. Bits(l.imm, 32, 128) = (l.imm % 4096) \div 32
  BY <1>2, UpperBits
<1> QED  BY <1>4, <1>7, <1>8

LEMMA FloatStoreDecoded ==
  ASSUME NEW l, NEW word, WordOf(l, word), l.op \in DOMAIN Abstract!FloatStores
  PROVE  /\ word.opcode = kfsw /\ word.rs1 = l.rs1 /\ word.rs2 = l.rs2 /\ ImmGenerator(word) = l.imm
         /\ word.funct3 = IF l.op = "fsw" THEN 2 ELSE 3
<1>1. l.op \in DOMAIN F_D_S_type_instruction_encoding_map
  BY DEF Abstract!FloatStores, F_D_S_type_instruction_encoding_map
<1>2. word = generateFDSTypeMachineCode(l)
  BY <1>1, Generated DEF WordOf
<1>3. F_D_S_type_instruction_encoding_map[l.op] = IF l.op = "fsw" THEN <<kfsw, 2>> ELSE <<kfsw, 3>>
  BY <1>1 DEF F_D_S_type_instruction_encoding_map, kfsw
<1>4. /\ word.opcode = kfsw /\ word.rs1 = l.rs1 /\ word.rs2 = l.rs2
      /\ word.funct3 = IF l.op = "fsw" THEN 2 ELSE 3
  BY <1>2, <1>3 DEF generateFDSTypeMachineCode, SWord, Word
<1>5. Survives(l, word) /\ l.op \notin DOMAIN I2_type_instruction_encoding_map
  BY <1>1, ImmediateRoundTrip DEF WordOf, Accepted, F_D_S_type_instruction_encoding_map, I2_type_instruction_encoding_map
<1>6. word.opcode \in Gathered /\ word.opcode \notin {klui, kauipc}
  BY <1>4 DEF Gathered, kfsw, klui, kauipc
<1>7. ImmGenerator(word) = l.imm
  BY <1>5, <1>6 DEF Survives, Kept
<1> QED  BY <1>4, <1>7

(* Floating point: the values of funct7 that send a word to each unit.     *)
FloatGroups ==
  [ float    |-> {0, 4, 8, 12, 16, 20, 44, 80, 96, 104, 112, 120},
    double   |-> {1, 5, 9, 13, 17, 21, 32, 33, 45, 81, 97, 105, 113, 121},
    bfloat16 |-> {2, 6, 10, 14, 18},
    simdf32  |-> {3, 7, 11, 15, 19, 23} ]

FloatWord(l, word) ==
  /\ l.op \in DOMAIN Abstract!FloatOps
  /\ word.opcode = kFtype /\ word.rd = l.rd /\ word.rs1 = l.rs1
  /\ GetAluSignal(word) = Abstract!FloatOps[l.op][2]
  /\ word.funct7 \in FloatGroups[Abstract!FloatOps[l.op][1]]
  /\ word.rs2 = l.rs2 \/ Abstract!FloatOps[l.op][2] \in OneOperand
  /\ word.funct3 = IF Abstract!FloatOps[l.op][3] = Abstract!Dynamic THEN l.rm ELSE Abstract!FloatOps[l.op][3]
  /\ l.op \in Abstract!FromX <=> word.funct7 \in {104, 105, 120, 121}
  /\ l.op \in Abstract!ToX <=> word.funct7 \in {80, 81, 96, 97, 112, 113}
  /\ Abstract!FloatOps[l.op][2] = "VDOTP_BF16" => word.funct7 = 18

LEMMA FloatSigns ==
  ASSUME NEW l, NEW word, WordOf(l, word), l.op \in DOMAIN F_D_R_type_instruction_encoding_map
  PROVE  FloatWord(l, word)
<1>1. word = generateFDRTypeMachineCode(l)
  BY Generated DEF WordOf
<1>2. F_D_R_type_instruction_encoding_map[l.op][1] = kFtype
  BY DEF F_D_R_type_instruction_encoding_map, kFtype
<1> DEFINE e == F_D_R_type_instruction_encoding_map[l.op]
<1>3. /\ word.opcode = kFtype /\ word.rd = l.rd /\ word.rs1 = l.rs1
      /\ word.funct3 = e[2] /\ word.rs2 = l.rs2 /\ word.funct7 = e[3]
  BY <1>1, <1>2 DEF generateFDRTypeMachineCode, Word
<1>4. l.op \in DOMAIN Abstract!FloatOps
  BY DEF F_D_R_type_instruction_encoding_map, Abstract!FloatOps
<1>5. /\ SignalF(word) = Abstract!FloatOps[l.op][2]
       /\ word.funct7 \in FloatGroups[Abstract!FloatOps[l.op][1]]
       /\ word.funct3 = IF Abstract!FloatOps[l.op][3] = Abstract!Dynamic THEN l.rm ELSE Abstract!FloatOps[l.op][3]
  <2>1. CASE l.op \in {"fsgnj_s", "fsgnjn_s", "fsgnjx_s"}
    <3>0. \/ word.funct7 = 16 /\ word.funct3 = 0 /\ Abstract!FloatOps[l.op][2] = "FSGNJ_S"
          \/ word.funct7 = 16 /\ word.funct3 = 1 /\ Abstract!FloatOps[l.op][2] = "FSGNJN_S"
          \/ word.funct7 = 16 /\ word.funct3 = 2 /\ Abstract!FloatOps[l.op][2] = "FSGNJX_S"
      BY <2>1, <1>3, SMTT(60) DEF F_D_R_type_instruction_encoding_map, Abstract!FloatOps, Abstract!Arith
    <3>1. SignalF(word) = Abstract!FloatOps[l.op][2]
      BY <3>0, SignsSelected
    <3>2. word.funct7 \in FloatGroups[Abstract!FloatOps[l.op][1]]
      <4>1. Abstract!FloatOps[l.op][1] = "float"
        BY <2>1 DEF Abstract!FloatOps, Abstract!Arith
      <4>2. word.funct7 \in {16}
        BY <2>1, <1>3 DEF F_D_R_type_instruction_encoding_map
      <4> QED  BY <4>1, <4>2 DEF FloatGroups
    <3>3. word.funct3 = IF Abstract!FloatOps[l.op][3] = Abstract!Dynamic THEN l.rm ELSE Abstract!FloatOps[l.op][3]
      BY <2>1, <1>3, SMTT(60) DEF F_D_R_type_instruction_encoding_map, Abstract!FloatOps, Abstract!Arith, Abstract!Dynamic
    <3> QED  BY <3>1, <3>2, <3>3
  <2>2. CASE l.op \in {"fsgnj_d", "fsgnjn_d", "fsgnjx_d"}
    <3>0. \/ word.funct7 = 17 /\ word.funct3 = 0 /\ Abstract!FloatOps[l.op][2] = "FSGNJ_D"
          \/ word.funct7 = 17 /\ word.funct3 = 1 /\ Abstract!FloatOps[l.op][2] = "FSGNJN_D"
          \/ word.funct7 = 17 /\ word.funct3 = 2 /\ Abstract!FloatOps[l.op][2] = "FSGNJX_D"
      BY <2>2, <1>3, SMTT(60) DEF F_D_R_type_instruction_encoding_map, Abstract!FloatOps, Abstract!Arith
    <3>1. SignalF(word) = Abstract!FloatOps[l.op][2]
      BY <3>0, SignsSelected
    <3>2. word.funct7 \in FloatGroups[Abstract!FloatOps[l.op][1]]
      <4>1. Abstract!FloatOps[l.op][1] = "double"
        BY <2>2 DEF Abstract!FloatOps, Abstract!Arith
      <4>2. word.funct7 \in {17}
        BY <2>2, <1>3 DEF F_D_R_type_instruction_encoding_map
      <4> QED  BY <4>1, <4>2 DEF FloatGroups
    <3>3. word.funct3 = IF Abstract!FloatOps[l.op][3] = Abstract!Dynamic THEN l.rm ELSE Abstract!FloatOps[l.op][3]
      BY <2>2, <1>3, SMTT(60) DEF F_D_R_type_instruction_encoding_map, Abstract!FloatOps, Abstract!Arith, Abstract!Dynamic
    <3> QED  BY <3>1, <3>2, <3>3
  <2>3. CASE l.op \in {"fmin_s", "fmax_s"}
    <3>0. \/ word.funct7 = 20 /\ word.funct3 = 0 /\ Abstract!FloatOps[l.op][2] = "FMIN_S"
          \/ word.funct7 = 20 /\ word.funct3 = 1 /\ Abstract!FloatOps[l.op][2] = "FMAX_S"
      BY <2>3, <1>3, SMTT(60) DEF F_D_R_type_instruction_encoding_map, Abstract!FloatOps, Abstract!Arith
    <3>1. SignalF(word) = Abstract!FloatOps[l.op][2]
      BY <3>0, SignsSelected
    <3>2. word.funct7 \in FloatGroups[Abstract!FloatOps[l.op][1]]
      <4>1. Abstract!FloatOps[l.op][1] = "float"
        BY <2>3 DEF Abstract!FloatOps, Abstract!Arith
      <4>2. word.funct7 \in {20}
        BY <2>3, <1>3 DEF F_D_R_type_instruction_encoding_map
      <4> QED  BY <4>1, <4>2 DEF FloatGroups
    <3>3. word.funct3 = IF Abstract!FloatOps[l.op][3] = Abstract!Dynamic THEN l.rm ELSE Abstract!FloatOps[l.op][3]
      BY <2>3, <1>3, SMTT(60) DEF F_D_R_type_instruction_encoding_map, Abstract!FloatOps, Abstract!Arith, Abstract!Dynamic
    <3> QED  BY <3>1, <3>2, <3>3
  <2>4. CASE l.op \in {"fmin_d", "fmax_d"}
    <3>0. \/ word.funct7 = 21 /\ word.funct3 = 0 /\ Abstract!FloatOps[l.op][2] = "FMIN_D"
          \/ word.funct7 = 21 /\ word.funct3 = 1 /\ Abstract!FloatOps[l.op][2] = "FMAX_D"
      BY <2>4, <1>3, SMTT(60) DEF F_D_R_type_instruction_encoding_map, Abstract!FloatOps, Abstract!Arith
    <3>1. SignalF(word) = Abstract!FloatOps[l.op][2]
      BY <3>0, SignsSelected
    <3>2. word.funct7 \in FloatGroups[Abstract!FloatOps[l.op][1]]
      <4>1. Abstract!FloatOps[l.op][1] = "double"
        BY <2>4, SMTT(60) DEF Abstract!FloatOps, Abstract!Arith
      <4>2. word.funct7 \in {21}
        BY <2>4, <1>3 DEF F_D_R_type_instruction_encoding_map
      <4> QED  BY <4>1, <4>2 DEF FloatGroups
    <3>3. word.funct3 = IF Abstract!FloatOps[l.op][3] = Abstract!Dynamic THEN l.rm ELSE Abstract!FloatOps[l.op][3]
      BY <2>4, <1>3, SMTT(60) DEF F_D_R_type_instruction_encoding_map, Abstract!FloatOps, Abstract!Arith, Abstract!Dynamic
    <3> QED  BY <3>1, <3>2, <3>3
  <2>5. CASE l.op \in {"feq_s", "flt_s", "fle_s"}
    <3>0. \/ word.funct7 = 80 /\ word.funct3 = 2 /\ Abstract!FloatOps[l.op][2] = "FEQ_S"
          \/ word.funct7 = 80 /\ word.funct3 = 1 /\ Abstract!FloatOps[l.op][2] = "FLT_S"
          \/ word.funct7 = 80 /\ word.funct3 = 0 /\ Abstract!FloatOps[l.op][2] = "FLE_S"
      BY <2>5, <1>3, SMTT(60) DEF F_D_R_type_instruction_encoding_map, Abstract!FloatOps, Abstract!Arith
    <3>1. SignalF(word) = Abstract!FloatOps[l.op][2]
      BY <3>0, SignsSelected
    <3>2. word.funct7 \in FloatGroups[Abstract!FloatOps[l.op][1]]
      <4>1. Abstract!FloatOps[l.op][1] = "float"
        BY <2>5 DEF Abstract!FloatOps, Abstract!Arith
      <4>2. word.funct7 \in {80}
        BY <2>5, <1>3 DEF F_D_R_type_instruction_encoding_map
      <4> QED  BY <4>1, <4>2 DEF FloatGroups
    <3>3. word.funct3 = IF Abstract!FloatOps[l.op][3] = Abstract!Dynamic THEN l.rm ELSE Abstract!FloatOps[l.op][3]
      BY <2>5, <1>3, SMTT(60) DEF F_D_R_type_instruction_encoding_map, Abstract!FloatOps, Abstract!Arith, Abstract!Dynamic
    <3> QED  BY <3>1, <3>2, <3>3
  <2>6. CASE l.op \in {"feq_d", "flt_d", "fle_d"}
    <3>0. \/ word.funct7 = 81 /\ word.funct3 = 2 /\ Abstract!FloatOps[l.op][2] = "FEQ_D"
          \/ word.funct7 = 81 /\ word.funct3 = 1 /\ Abstract!FloatOps[l.op][2] = "FLT_D"
          \/ word.funct7 = 81 /\ word.funct3 = 0 /\ Abstract!FloatOps[l.op][2] = "FLE_D"
      BY <2>6, <1>3, SMTT(60) DEF F_D_R_type_instruction_encoding_map, Abstract!FloatOps, Abstract!Arith
    <3>1. SignalF(word) = Abstract!FloatOps[l.op][2]
      BY <3>0, SignsSelected
    <3>2. word.funct7 \in FloatGroups[Abstract!FloatOps[l.op][1]]
      <4>1. Abstract!FloatOps[l.op][1] = "double"
        BY <2>6, SMTT(60) DEF Abstract!FloatOps, Abstract!Arith
      <4>2. word.funct7 \in {81}
        BY <2>6, <1>3 DEF F_D_R_type_instruction_encoding_map
      <4> QED  BY <4>1, <4>2 DEF FloatGroups
    <3>3. word.funct3 = IF Abstract!FloatOps[l.op][3] = Abstract!Dynamic THEN l.rm ELSE Abstract!FloatOps[l.op][3]
      BY <2>6, <1>3, SMTT(60) DEF F_D_R_type_instruction_encoding_map, Abstract!FloatOps, Abstract!Arith, Abstract!Dynamic
    <3> QED  BY <3>1, <3>2, <3>3
  <2> QED  BY <2>1, <2>2, <2>3, <2>4, <2>5, <2>6 DEF F_D_R_type_instruction_encoding_map
<1>7. word.rs2 = l.rs2 \/ Abstract!FloatOps[l.op][2] \in OneOperand
  BY <1>3 DEF F_D_R_type_instruction_encoding_map, Abstract!FloatOps, Abstract!Arith, OneOperand
<1>9. l.op \in Abstract!FromX <=> word.funct7 \in {104, 105, 120, 121}
  BY <1>3 DEF F_D_R_type_instruction_encoding_map, Abstract!FromX
<1>10. l.op \in Abstract!ToX <=> word.funct7 \in {80, 81, 96, 97, 112, 113}
  BY <1>3 DEF F_D_R_type_instruction_encoding_map, Abstract!ToX
<1>11. Abstract!FloatOps[l.op][2] = "VDOTP_BF16" => word.funct7 = 18
  BY <1>3, SMTT(60) DEF F_D_R_type_instruction_encoding_map, Abstract!FloatOps, Abstract!Arith
<1> HIDE DEF e
<1> QED  BY <1>3, <1>4, <1>5, <1>7, <1>9, <1>10, <1>11, SignalOf DEF FloatWord

LEMMA FloatArithmetic ==
  ASSUME NEW l, NEW word, WordOf(l, word), l.op \in DOMAIN F_D_R1_type_instruction_encoding_map
  PROVE  FloatWord(l, word)
<1>1. word = generateFDR1TypeMachineCode(l)
  BY Generated DEF WordOf
<1>2. F_D_R1_type_instruction_encoding_map[l.op][1] = kFtype
  BY DEF F_D_R1_type_instruction_encoding_map, kFtype
<1> DEFINE e == F_D_R1_type_instruction_encoding_map[l.op]
<1>3. /\ word.opcode = kFtype /\ word.rd = l.rd /\ word.rs1 = l.rs1
      /\ word.funct3 = l.rm /\ word.rs2 = l.rs2 /\ word.funct7 = e[2]
  BY <1>1, <1>2 DEF generateFDR1TypeMachineCode, Word
<1>4. l.op \in DOMAIN Abstract!FloatOps
  BY DEF F_D_R1_type_instruction_encoding_map, Abstract!FloatOps
<1>5. /\ SignalF(word) = Abstract!FloatOps[l.op][2]
       /\ word.funct7 \in FloatGroups[Abstract!FloatOps[l.op][1]]
       /\ word.funct3 = IF Abstract!FloatOps[l.op][3] = Abstract!Dynamic THEN l.rm ELSE Abstract!FloatOps[l.op][3]
  <2>1. CASE l.op \in {"fadd_s", "fsub_s", "fmul_s", "fdiv_s"}
    <3>0. \/ word.funct7 = 0 /\ Abstract!FloatOps[l.op][2] = "FADD_S"
          \/ word.funct7 = 4 /\ Abstract!FloatOps[l.op][2] = "FSUB_S"
          \/ word.funct7 = 8 /\ Abstract!FloatOps[l.op][2] = "FMUL_S"
          \/ word.funct7 = 12 /\ Abstract!FloatOps[l.op][2] = "FDIV_S"
      BY <2>1, <1>3, SMTT(60) DEF F_D_R1_type_instruction_encoding_map, Abstract!FloatOps, Abstract!Arith
    <3>1. SignalF(word) = Abstract!FloatOps[l.op][2]
      BY <3>0, ArithmeticSelected, ProductsSelected
    <3>2. word.funct7 \in FloatGroups[Abstract!FloatOps[l.op][1]]
      <4>1. Abstract!FloatOps[l.op][1] = "float"
        BY <2>1 DEF Abstract!FloatOps, Abstract!Arith
      <4>2. word.funct7 \in {0, 4, 8, 12}
        BY <2>1, <1>3 DEF F_D_R1_type_instruction_encoding_map
      <4> QED  BY <4>1, <4>2 DEF FloatGroups
    <3>3. word.funct3 = IF Abstract!FloatOps[l.op][3] = Abstract!Dynamic THEN l.rm ELSE Abstract!FloatOps[l.op][3]
      BY <2>1, <1>3, SMTT(60) DEF F_D_R1_type_instruction_encoding_map, Abstract!FloatOps, Abstract!Arith, Abstract!Dynamic
    <3> QED  BY <3>1, <3>2, <3>3
  <2>2. CASE l.op \in {"fadd_d", "fsub_d", "fmul_d", "fdiv_d"}
    <3>0. \/ word.funct7 = 1 /\ Abstract!FloatOps[l.op][2] = "FADD_D"
          \/ word.funct7 = 5 /\ Abstract!FloatOps[l.op][2] = "FSUB_D"
          \/ word.funct7 = 9 /\ Abstract!FloatOps[l.op][2] = "FMUL_D"
          \/ word.funct7 = 13 /\ Abstract!FloatOps[l.op][2] = "FDIV_D"
      BY <2>2, <1>3, SMTT(60) DEF F_D_R1_type_instruction_encoding_map, Abstract!FloatOps, Abstract!Arith
    <3>1. SignalF(word) = Abstract!FloatOps[l.op][2]
      BY <3>0, ArithmeticSelected, ProductsSelected
    <3>2. word.funct7 \in FloatGroups[Abstract!FloatOps[l.op][1]]
      <4>1. Abstract!FloatOps[l.op][1] = "double"
        BY <2>2 DEF Abstract!FloatOps, Abstract!Arith
      <4>2. word.funct7 \in {1, 5, 9, 13}
        BY <2>2, <1>3 DEF F_D_R1_type_instruction_encoding_map
      <4> QED  BY <4>1, <4>2 DEF FloatGroups
    <3>3. word.funct3 = IF Abstract!FloatOps[l.op][3] = Abstract!Dynamic THEN l.rm ELSE Abstract!FloatOps[l.op][3]
      BY <2>2, <1>3, SMTT(60) DEF F_D_R1_type_instruction_encoding_map, Abstract!FloatOps, Abstract!Arith, Abstract!Dynamic
    <3> QED  BY <3>1, <3>2, <3>3
  <2>3. CASE l.op \in {"fadd_bf16", "fsub_bf16", "fmul_bf16", "fdiv_bf16", "vdotp_bf16"}
    <3>0. \/ word.funct7 = 2 /\ Abstract!FloatOps[l.op][2] = "FADD_BF16"
          \/ word.funct7 = 6 /\ Abstract!FloatOps[l.op][2] = "FSUB_BF16"
          \/ word.funct7 = 10 /\ Abstract!FloatOps[l.op][2] = "FMUL_BF16"
          \/ word.funct7 = 14 /\ Abstract!FloatOps[l.op][2] = "FDIV_BF16"
          \/ word.funct7 = 18 /\ Abstract!FloatOps[l.op][2] = "VDOTP_BF16"
      BY <2>3, <1>3, SMTT(60) DEF F_D_R1_type_instruction_encoding_map, Abstract!FloatOps, Abstract!Arith
    <3>1. SignalF(word) = Abstract!FloatOps[l.op][2]
      BY <3>0, ArithmeticSelected, ProductsSelected
    <3>2. word.funct7 \in FloatGroups[Abstract!FloatOps[l.op][1]]
      <4>1. Abstract!FloatOps[l.op][1] = "bfloat16"
        BY <2>3, SMTT(60) DEF Abstract!FloatOps, Abstract!Arith
      <4>2. word.funct7 \in {2, 6, 10, 14, 18}
        BY <2>3, <1>3 DEF F_D_R1_type_instruction_encoding_map
      <4> QED  BY <4>1, <4>2 DEF FloatGroups
    <3>3. word.funct3 = IF Abstract!FloatOps[l.op][3] = Abstract!Dynamic THEN l.rm ELSE Abstract!FloatOps[l.op][3]
      BY <2>3, <1>3, SMTT(60) DEF F_D_R1_type_instruction_encoding_map, Abstract!FloatOps, Abstract!Arith, Abstract!Dynamic
    <3> QED  BY <3>1, <3>2, <3>3
  <2>4. CASE l.op \in {"SIMDF_add32", "SIMDF_sub32", "SIMDF_mul32"}
    <3>0. \/ word.funct7 = 3 /\ Abstract!FloatOps[l.op][2] = "SIMDF_ADD32"
          \/ word.funct7 = 7 /\ Abstract!FloatOps[l.op][2] = "SIMDF_SUB32"
          \/ word.funct7 = 11 /\ Abstract!FloatOps[l.op][2] = "SIMDF_MUL32"
      BY <2>4, <1>3, SMTT(60) DEF F_D_R1_type_instruction_encoding_map, Abstract!FloatOps, Abstract!Arith
    <3>1. SignalF(word) = Abstract!FloatOps[l.op][2]
      BY <3>0, ArithmeticSelected, ProductsSelected
    <3>2. word.funct7 \in FloatGroups[Abstract!FloatOps[l.op][1]]
      <4>1. Abstract!FloatOps[l.op][1] = "simdf32"
        BY <2>4 DEF Abstract!FloatOps, Abstract!Arith
      <4>2. word.funct7 \in {3, 7, 11}
        BY <2>4, <1>3 DEF F_D_R1_type_instruction_encoding_map
      <4> QED  BY <4>1, <4>2 DEF FloatGroups
    <3>3. word.funct3 = IF Abstract!FloatOps[l.op][3] = Abstract!Dynamic THEN l.rm ELSE Abstract!FloatOps[l.op][3]
      BY <2>4, <1>3, SMTT(60) DEF F_D_R1_type_instruction_encoding_map, Abstract!FloatOps, Abstract!Arith, Abstract!Dynamic
    <3> QED  BY <3>1, <3>2, <3>3
  <2>5. CASE l.op \in {"SIMDF_div32", "SIMDF_rem32", "SIMDF_ld32"}
    <3>0. \/ word.funct7 = 15 /\ Abstract!FloatOps[l.op][2] = "SIMDF_DIV32"
          \/ word.funct7 = 19 /\ Abstract!FloatOps[l.op][2] = "SIMDF_REM32"
          \/ word.funct7 = 23 /\ Abstract!FloatOps[l.op][2] = "SIMDF_LD32"
      BY <2>5, <1>3, SMTT(60) DEF F_D_R1_type_instruction_encoding_map, Abstract!FloatOps, Abstract!Arith
    <3>1. SignalF(word) = Abstract!FloatOps[l.op][2]
      BY <3>0, ArithmeticSelected, ProductsSelected
    <3>2. word.funct7 \in FloatGroups[Abstract!FloatOps[l.op][1]]
      <4>1. Abstract!FloatOps[l.op][1] = "simdf32"
        BY <2>5, SMTT(60) DEF Abstract!FloatOps, Abstract!Arith
      <4>2. word.funct7 \in {15, 19, 23}
        BY <2>5, <1>3 DEF F_D_R1_type_instruction_encoding_map
      <4> QED  BY <4>1, <4>2 DEF FloatGroups
    <3>3. word.funct3 = IF Abstract!FloatOps[l.op][3] = Abstract!Dynamic THEN l.rm ELSE Abstract!FloatOps[l.op][3]
      BY <2>5, <1>3, SMTT(60) DEF F_D_R1_type_instruction_encoding_map, Abstract!FloatOps, Abstract!Arith, Abstract!Dynamic
    <3> QED  BY <3>1, <3>2, <3>3
  <2> QED  BY <2>1, <2>2, <2>3, <2>4, <2>5 DEF F_D_R1_type_instruction_encoding_map
<1>7. word.rs2 = l.rs2 \/ Abstract!FloatOps[l.op][2] \in OneOperand
  BY <1>3 DEF F_D_R1_type_instruction_encoding_map, Abstract!FloatOps, Abstract!Arith, OneOperand
<1>9. l.op \in Abstract!FromX <=> word.funct7 \in {104, 105, 120, 121}
  BY <1>3 DEF F_D_R1_type_instruction_encoding_map, Abstract!FromX
<1>10. l.op \in Abstract!ToX <=> word.funct7 \in {80, 81, 96, 97, 112, 113}
  BY <1>3 DEF F_D_R1_type_instruction_encoding_map, Abstract!ToX
<1>11. Abstract!FloatOps[l.op][2] = "VDOTP_BF16" => word.funct7 = 18
  BY <1>3, SMTT(60) DEF F_D_R1_type_instruction_encoding_map, Abstract!FloatOps, Abstract!Arith
<1> HIDE DEF e
<1> QED  BY <1>3, <1>4, <1>5, <1>7, <1>9, <1>10, <1>11, SignalOf DEF FloatWord

LEMMA FloatConversions ==
  ASSUME NEW l, NEW word, WordOf(l, word), l.op \in DOMAIN F_D_R2_type_instruction_encoding_map
  PROVE  FloatWord(l, word)
<1>1. word = generateFDR2TypeMachineCode(l)
  BY Generated DEF WordOf
<1>2. F_D_R2_type_instruction_encoding_map[l.op][1] = kFtype
  BY DEF F_D_R2_type_instruction_encoding_map, kFtype
<1> DEFINE e == F_D_R2_type_instruction_encoding_map[l.op]
<1>3. /\ word.opcode = kFtype /\ word.rd = l.rd /\ word.rs1 = l.rs1
      /\ word.funct3 = l.rm /\ word.rs2 = e[2] /\ word.funct7 = e[3]
  BY <1>1, <1>2 DEF generateFDR2TypeMachineCode, Word
<1>4. l.op \in DOMAIN Abstract!FloatOps
  BY DEF F_D_R2_type_instruction_encoding_map, Abstract!FloatOps
<1>5. /\ SignalF(word) = Abstract!FloatOps[l.op][2]
       /\ word.funct7 \in FloatGroups[Abstract!FloatOps[l.op][1]]
       /\ word.funct3 = IF Abstract!FloatOps[l.op][3] = Abstract!Dynamic THEN l.rm ELSE Abstract!FloatOps[l.op][3]
  <2>1. CASE l.op \in {"fsqrt_s", "fsqrt_d", "fcvt_s_d", "fcvt_d_s"}
    <3>0. \/ word.funct7 = 44 /\ Abstract!FloatOps[l.op][2] = "FSQRT_S"
          \/ word.funct7 = 45 /\ Abstract!FloatOps[l.op][2] = "FSQRT_D"
          \/ word.funct7 \in {32, 33} /\ Abstract!FloatOps[l.op][2] = "kNone"
      BY <2>1, <1>3, SMTT(60) DEF F_D_R2_type_instruction_encoding_map, Abstract!FloatOps, Abstract!Arith
    <3>1. SignalF(word) = Abstract!FloatOps[l.op][2]
      BY <3>0, MovesSelected
    <3>2. word.funct7 \in FloatGroups[Abstract!FloatOps[l.op][1]]
      BY <2>1, <1>3, SMTT(60) DEF F_D_R2_type_instruction_encoding_map, Abstract!FloatOps, Abstract!Arith, FloatGroups
    <3>3. word.funct3 = IF Abstract!FloatOps[l.op][3] = Abstract!Dynamic THEN l.rm ELSE Abstract!FloatOps[l.op][3]
      BY <2>1, <1>3, SMTT(60) DEF F_D_R2_type_instruction_encoding_map, Abstract!FloatOps, Abstract!Arith, Abstract!Dynamic
    <3> QED  BY <3>1, <3>2, <3>3
  <2>2. CASE l.op \in {"fcvt_w_s", "fcvt_wu_s", "fcvt_l_s", "fcvt_lu_s"}
    <3>0. /\ word.funct7 = 96
          /\ \/ word.rs2 = 0 /\ Abstract!FloatOps[l.op][2] = "FCVT_W_S"
             \/ word.rs2 = 1 /\ Abstract!FloatOps[l.op][2] = "FCVT_WU_S"
             \/ word.rs2 = 2 /\ Abstract!FloatOps[l.op][2] = "FCVT_L_S"
             \/ word.rs2 = 3 /\ Abstract!FloatOps[l.op][2] = "FCVT_LU_S"
      BY <2>2, <1>3, SMTT(60) DEF F_D_R2_type_instruction_encoding_map, Abstract!FloatOps, Abstract!Arith
    <3>1. SignalF(word) = Abstract!FloatOps[l.op][2]
      BY <3>0, ConversionsSelected
    <3>2. word.funct7 \in FloatGroups[Abstract!FloatOps[l.op][1]]
      <4>1. Abstract!FloatOps[l.op][1] = "float"
        BY <2>2 DEF Abstract!FloatOps, Abstract!Arith
      <4>2. word.funct7 \in {96}
        BY <2>2, <1>3 DEF F_D_R2_type_instruction_encoding_map
      <4> QED  BY <4>1, <4>2 DEF FloatGroups
    <3>3. word.funct3 = IF Abstract!FloatOps[l.op][3] = Abstract!Dynamic THEN l.rm ELSE Abstract!FloatOps[l.op][3]
      BY <2>2, <1>3, SMTT(60) DEF F_D_R2_type_instruction_encoding_map, Abstract!FloatOps, Abstract!Arith, Abstract!Dynamic
    <3> QED  BY <3>1, <3>2, <3>3
  <2>3. CASE l.op \in {"fcvt_w_d", "fcvt_wu_d", "fcvt_l_d", "fcvt_lu_d"}
    <3>0. /\ word.funct7 = 97
          /\ \/ word.rs2 = 0 /\ Abstract!FloatOps[l.op][2] = "FCVT_W_D"
             \/ word.rs2 = 1 /\ Abstract!FloatOps[l.op][2] = "FCVT_WU_D"
             \/ word.rs2 = 2 /\ Abstract!FloatOps[l.op][2] = "FCVT_L_D"
             \/ word.rs2 = 3 /\ Abstract!FloatOps[l.op][2] = "FCVT_LU_D"
      BY <2>3, <1>3, SMTT(60) DEF F_D_R2_type_instruction_encoding_map, Abstract!FloatOps, Abstract!Arith
    <3>1. SignalF(word) = Abstract!FloatOps[l.op][2]
      BY <3>0, ConversionsSelected
    <3>2. word.funct7 \in FloatGroups[Abstract!FloatOps[l.op][1]]
      <4>1. Abstract!FloatOps[l.op][1] = "double"
        BY <2>3 DEF Abstract!FloatOps, Abstract!Arith
      <4>2. word.funct7 \in {97}
        BY <2>3, <1>3 DEF F_D_R2_type_instruction_encoding_map
      <4> QED  BY <4>1, <4>2 DEF FloatGroups
    <3>3. word.funct3 = IF Abstract!FloatOps[l.op][3] = Abstract!Dynamic THEN l.rm ELSE Abstract!FloatOps[l.op][3]
      BY <2>3, <1>3, SMTT(60) DEF F_D_R2_type_instruction_encoding_map, Abstract!FloatOps, Abstract!Arith, Abstract!Dynamic
    <3> QED  BY <3>1, <3>2, <3>3
  <2>4. CASE l.op \in {"fcvt_s_w", "fcvt_s_wu", "fcvt_s_l", "fcvt_s_lu"}
    <3>0. /\ word.funct7 = 104
          /\ \/ word.rs2 = 0 /\ Abstract!FloatOps[l.op][2] = "FCVT_S_W"
             \/ word.rs2 = 1 /\ Abstract!FloatOps[l.op][2] = "FCVT_S_WU"
             \/ word.rs2 = 2 /\ Abstract!FloatOps[l.op][2] = "FCVT_S_L"
             \/ word.rs2 = 3 /\ Abstract!FloatOps[l.op][2] = "FCVT_S_LU"
      BY <2>4, <1>3, SMTT(60) DEF F_D_R2_type_instruction_encoding_map, Abstract!FloatOps, Abstract!Arith
    <3>1. SignalF(word) = Abstract!FloatOps[l.op][2]
      BY <3>0, ConversionsSelected
    <3>2. word.funct7 \in FloatGroups[Abstract!FloatOps[l.op][1]]
      <4>1. Abstract!FloatOps[l.op][1] = "float"
        BY <2>4 DEF Abstract!FloatOps, Abstract!Arith
      <4>2. word.funct7 \in {104}
        BY <2>4, <1>3 DEF F_D_R2_type_instruction_encoding_map
      <4> QED  BY <4>1, <4>2 DEF FloatGroups
    <3>3. word.funct3 = IF Abstract!FloatOps[l.op][3] = Abstract!Dynamic THEN l.rm ELSE Abstract!FloatOps[l.op][3]
      BY <2>4, <1>3, SMTT(60) DEF F_D_R2_type_instruction_encoding_map, Abstract!FloatOps, Abstract!Arith, Abstract!Dynamic
    <3> QED  BY <3>1, <3>2, <3>3
  <2>5. CASE l.op \in {"fcvt_d_w", "fcvt_d_wu", "fcvt_d_l", "fcvt_d_lu"}
    <3>0. /\ word.funct7 = 105
          /\ \/ word.rs2 = 0 /\ Abstract!FloatOps[l.op][2] = "FCVT_D_W"
             \/ word.rs2 = 1 /\ Abstract!FloatOps[l.op][2] = "FCVT_D_WU"
             \/ word.rs2 = 2 /\ Abstract!FloatOps[l.op][2] = "FCVT_D_L"
             \/ word.rs2 = 3 /\ Abstract!FloatOps[l.op][2] = "FCVT_D_LU"
      BY <2>5, <1>3, SMTT(60) DEF F_D_R2_type_instruction_encoding_map, Abstract!FloatOps, Abstract!Arith
    <3>1. SignalF(word) = Abstract!FloatOps[l.op][2]
      BY <3>0, ConversionsSelected
    <3>2. word.funct7 \in FloatGroups[Abstract!FloatOps[l.op][1]]
      <4>1. Abstract!FloatOps[l.op][1] = "double"
        BY <2>5 DEF Abstract!FloatOps, Abstract!Arith
      <4>2. word.funct7 \in {105}
        BY <2>5, <1>3 DEF F_D_R2_type_instruction_encoding_map
      <4> QED  BY <4>1, <4>2 DEF FloatGroups
    <3>3. word.funct3 = IF Abstract!FloatOps[l.op][3] = Abstract!Dynamic THEN l.rm ELSE Abstract!FloatOps[l.op][3]
      BY <2>5, <1>3, SMTT(60) DEF F_D_R2_type_instruction_encoding_map, Abstract!FloatOps, Abstract!Arith, Abstract!Dynamic
    <3> QED  BY <3>1, <3>2, <3>3
  <2> QED  BY <2>1, <2>2, <2>3, <2>4, <2>5 DEF F_D_R2_type_instruction_encoding_map
<1>7. word.rs2 = l.rs2 \/ Abstract!FloatOps[l.op][2] \in OneOperand
  BY <1>3, SMTT(60) DEF F_D_R2_type_instruction_encoding_map, Abstract!FloatOps, Abstract!Arith, OneOperand
<1>9. l.op \in Abstract!FromX <=> word.funct7 \in {104, 105, 120, 121}
  BY <1>3 DEF F_D_R2_type_instruction_encoding_map, Abstract!FromX
<1>10. l.op \in Abstract!ToX <=> word.funct7 \in {80, 81, 96, 97, 112, 113}
  BY <1>3 DEF F_D_R2_type_instruction_encoding_map, Abstract!ToX
<1>11. Abstract!FloatOps[l.op][2] = "VDOTP_BF16" => word.funct7 = 18
  BY <1>3, SMTT(60) DEF F_D_R2_type_instruction_encoding_map, Abstract!FloatOps, Abstract!Arith
<1> HIDE DEF e
<1> QED  BY <1>3, <1>4, <1>5, <1>7, <1>9, <1>10, <1>11, SignalOf DEF FloatWord

LEMMA FloatMoves ==
  ASSUME NEW l, NEW word, WordOf(l, word), l.op \in DOMAIN F_D_R3_type_instruction_encoding_map
  PROVE  FloatWord(l, word)
<1>1. word = generateFDR3TypeMachineCode(l)
  BY Generated DEF WordOf
<1>2. F_D_R3_type_instruction_encoding_map[l.op][1] = kFtype
  BY DEF F_D_R3_type_instruction_encoding_map, kFtype
<1> DEFINE e == F_D_R3_type_instruction_encoding_map[l.op]
<1>3. /\ word.opcode = kFtype /\ word.rd = l.rd /\ word.rs1 = l.rs1
      /\ word.funct3 = e[2] /\ word.rs2 = e[3] /\ word.funct7 = e[4]
  BY <1>1, <1>2 DEF generateFDR3TypeMachineCode, Word
<1>4. l.op \in DOMAIN Abstract!FloatOps
  BY DEF F_D_R3_type_instruction_encoding_map, Abstract!FloatOps
<1>5. SignalF(word) = Abstract!FloatOps[l.op][2]
  BY <1>3, MovesSelected, SMTT(60) DEF F_D_R3_type_instruction_encoding_map, Abstract!FloatOps, Abstract!Arith
<1>6. word.funct7 \in FloatGroups[Abstract!FloatOps[l.op][1]]
  BY <1>3, SMTT(60) DEF F_D_R3_type_instruction_encoding_map, Abstract!FloatOps, Abstract!Arith, FloatGroups
<1>7. word.rs2 = l.rs2 \/ Abstract!FloatOps[l.op][2] \in OneOperand
  BY <1>3, SMTT(60) DEF F_D_R3_type_instruction_encoding_map, Abstract!FloatOps, Abstract!Arith, OneOperand
<1>8. word.funct3 = IF Abstract!FloatOps[l.op][3] = Abstract!Dynamic THEN l.rm ELSE Abstract!FloatOps[l.op][3]
  BY <1>3, SMTT(60) DEF F_D_R3_type_instruction_encoding_map, Abstract!FloatOps, Abstract!Arith, Abstract!Dynamic
<1>9. l.op \in Abstract!FromX <=> word.funct7 \in {104, 105, 120, 121}
  BY <1>3 DEF F_D_R3_type_instruction_encoding_map, Abstract!FromX
<1>10. l.op \in Abstract!ToX <=> word.funct7 \in {80, 81, 96, 97, 112, 113}
  BY <1>3 DEF F_D_R3_type_instruction_encoding_map, Abstract!ToX
<1>11. Abstract!FloatOps[l.op][2] = "VDOTP_BF16" => word.funct7 = 18
  BY <1>3 DEF F_D_R3_type_instruction_encoding_map, Abstract!FloatOps, Abstract!Arith
<1> HIDE DEF e
<1> QED  BY <1>3, <1>4, <1>5, <1>6, <1>7, <1>8, <1>9, <1>10, <1>11, SignalOf DEF FloatWord

LEMMA FloatDecoded ==
  ASSUME NEW l, NEW word, WordOf(l, word), l.op \in DOMAIN Abstract!FloatOps
  PROVE  FloatWord(l, word)
<1>1. \/ l.op \in DOMAIN F_D_R_type_instruction_encoding_map \/ l.op \in DOMAIN F_D_R1_type_instruction_encoding_map
      \/ l.op \in DOMAIN F_D_R2_type_instruction_encoding_map \/ l.op \in DOMAIN F_D_R3_type_instruction_encoding_map
  BY DEF Abstract!FloatOps, F_D_R_type_instruction_encoding_map, F_D_R1_type_instruction_encoding_map,
         F_D_R2_type_instruction_encoding_map, F_D_R3_type_instruction_encoding_map
<1> QED  BY <1>1, FloatSigns, FloatArithmetic, FloatConversions, FloatMoves

----------------------------------------------------------------------------
(* Of an upper immediate the 20 bits that its word has are enough.         *)
LEMMA UpperSigned ==
  ASSUME NEW n, n \in Int
  PROVE  Signed(Page * (n % 1048576), Data) = Signed(Page * n, Data)
<1> DEFINE e == 1048576
<1>1. e \in Nat \ {0}
  BY SMT
<1>2. (Page * e) % Data = 0 /\ Page \in Nat
  BY MachineAssumption
<1> HIDE DEF e
<1>3. PICK k \in Int, r \in Int : n = k * e + r /\ r = n % e
  BY <1>1, Division
<1> DEFINE p == Page * r
<1>4. p \in Int
  BY <1>2
<1>5. Page * n = p + k * (Page * e)
  BY <1>1, <1>2, <1>3
<1>6. PICK j \in Int : Page * e = j * Data
  <2>1. Page * e \in Int
    BY <1>1, <1>2
  <2>2. PICK j \in Int, s \in Int : Page * e = j * Data + s /\ s = (Page * e) % Data
    BY <2>1, Sizes, Division
  <2>3. j * Data \in Int
    BY Sizes
  <2> QED  BY <1>2, <2>2, <2>3
<1> DEFINE m == k * j
<1>7. k * (Page * e) = m * Data /\ m \in Int
  BY <1>6, Sizes
<1> HIDE DEF m, p
<1>8. (p + m * Data) % Data = p % Data
  BY <1>4, <1>7, Sizes, SameRemainder
<1>9. (Page * n) % Data = p % Data
  BY <1>5, <1>7, <1>8
<1>10. Signed(p, Data) = Signed(Page * n, Data)
  BY <1>9 DEF Signed
<1>11. p = Page * (n % e)
  BY <1>3 DEF p
<1> QED  BY <1>10, <1>11, SMT DEF e

(* The ALU adds addresses modulo Full; of the code of a word only a number *)
(* is known.                                                               *)
LEMMA Sums ==
  ASSUME NEW x \in Int, NEW y \in Int
  PROVE  /\ ((x % Full) + (y % Full)) % Full = (x + y) % Full
         /\ (x + (y % Full)) % Full = (x + y) % Full
BY Sizes, SumOfRemainders

LEMMA CheckedInt ==
  ASSUME Units, NEW a \in Registers
  PROVE  Checked(a) \in Int
<1>1. {Checked(a), SetBits(a, a), ClearBits(a, a), Protected(a % Data, 0, SIG_LOW),
       Protected(a % Data, 1, SIG_POINTER)} \subseteq Registers
  BY DEF Units, UnitsFor, CodesFor
<1>2. Checked(a) \in Registers
  BY <1>1, Zenon
<1> QED  BY <1>2, Sizes DEF Registers

----------------------------------------------------------------------------
(* Every mnemonic belongs to one of the classes of Isa.                    *)

LEMMA Classes ==
  ASSUME NEW op \in Mnemonics
  PROVE  \/ op \in DOMAIN Abstract!RegisterOps \/ op \in DOMAIN Abstract!ImmediateOps
         \/ op \in DOMAIN Abstract!LostOps \/ op \in Abstract!Lost
         \/ op \in {"lui", "auipc"} \/ op \in {"jal", "jalr"} \/ op \in DOMAIN Abstract!BranchOps
         \/ op \in DOMAIN Abstract!Loads \/ op \in DOMAIN Abstract!Stores
         \/ op \in DOMAIN Abstract!FloatOps \/ op \in Abstract!CsrOps \/ op = "ecall"
<1>1. op \in DOMAIN R_type_instruction_encoding_map
        => op \in DOMAIN Abstract!RegisterOps \/ op \in DOMAIN Abstract!LostOps
  BY DEF R_type_instruction_encoding_map, Abstract!RegisterOps, Abstract!LostOps
<1>2. op \in DOMAIN I1_type_instruction_encoding_map
        => op \in DOMAIN Abstract!ImmediateOps \/ op \in Abstract!Lost \/ op \in {"jal", "jalr"}
           \/ op \in DOMAIN Abstract!Loads
  BY DEF I1_type_instruction_encoding_map, Abstract!ImmediateOps, Abstract!Lost, Abstract!Loads
<1>3. op \in DOMAIN I2_type_instruction_encoding_map => op \in DOMAIN Abstract!ImmediateOps \/ op \in Abstract!Lost
  BY DEF I2_type_instruction_encoding_map, Abstract!ImmediateOps, Abstract!Lost
<1>4. op \in DOMAIN S_type_instruction_encoding_map \cup DOMAIN F_D_S_type_instruction_encoding_map
        => op \in DOMAIN Abstract!Stores
  BY DEF S_type_instruction_encoding_map, F_D_S_type_instruction_encoding_map, Abstract!Stores
<1>5. op \in DOMAIN F_D_I_type_instruction_encoding_map => op \in DOMAIN Abstract!Loads
  BY DEF F_D_I_type_instruction_encoding_map, Abstract!Loads
<1>6. op \in DOMAIN I3_type_instruction_encoding_map => op = "ecall"
  BY DEF I3_type_instruction_encoding_map
<1>7. op \in DOMAIN B_type_instruction_encoding_map => op \in DOMAIN Abstract!BranchOps
  BY DEF B_type_instruction_encoding_map, Abstract!BranchOps
<1>8. op \in DOMAIN U_type_instruction_encoding_map => op \in {"lui", "auipc"}
  BY DEF U_type_instruction_encoding_map
<1>9. op \in DOMAIN J_type_instruction_encoding_map => op \in {"jal", "jalr"}
  BY DEF J_type_instruction_encoding_map
<1>10. op \in DOMAIN CSR_R_type_instruction_encoding_map \cup DOMAIN CSR_I_type_instruction_encoding_map
         => op \in Abstract!CsrOps
  BY DEF CSR_R_type_instruction_encoding_map, CSR_I_type_instruction_encoding_map, Abstract!CsrOps
<1>11. op \in DOMAIN F_D_R_type_instruction_encoding_map => op \in DOMAIN Abstract!FloatOps
  BY DEF F_D_R_type_instruction_encoding_map, Abstract!FloatOps
<1>12. op \in DOMAIN F_D_R1_type_instruction_encoding_map => op \in DOMAIN Abstract!FloatOps
  BY DEF F_D_R1_type_instruction_encoding_map, Abstract!FloatOps
<1>13. op \in DOMAIN F_D_R2_type_instruction_encoding_map => op \in DOMAIN Abstract!FloatOps
  BY DEF F_D_R2_type_instruction_encoding_map, Abstract!FloatOps
<1>14. op \in DOMAIN F_D_R3_type_instruction_encoding_map => op \in DOMAIN Abstract!FloatOps
  BY DEF F_D_R3_type_instruction_encoding_map, Abstract!FloatOps
<1>15. op \in DOMAIN F_D_R4_type_instruction_encoding_map => op \in Abstract!Lost
  BY DEF F_D_R4_type_instruction_encoding_map, Abstract!Lost
<1> QED  BY <1>1, <1>2, <1>3, <1>4, <1>5, <1>6, <1>7, <1>8, <1>9, <1>10, <1>11, <1>12, <1>13, <1>14, <1>15
         DEF Mnemonics, ShortOps

----------------------------------------------------------------------------
(* How far an instruction has come, told from the machine it was fetched   *)
(* on: what the stages behind it have changed and what they have left in   *)
(* the latches for those to come.                                          *)

Advanced == pc = before.pc + 4 /\ host \in {before.host, 0}

Carried ==
  phase \in {"decode", "execute"} =>
    /\ Advanced
    /\ gpr = before.gpr /\ fpr = before.fpr /\ csr = before.csr
    /\ mem = before.mem /\ index = before.index

Destination(result) ==
  CASE w.opcode = kjalr                -> result % Data
    [] w.opcode = kjal                 -> (before.pc + ImmGenerator(w)) % Full
    [] w.opcode = kBtype /\ branch_flag -> (before.pc + ImmGenerator(w)) % Full
    [] OTHER                           -> before.pc + 4

IntegerDone ==
  /\ Unit(w) = "none" /\ w.opcode # kSystem
  /\ csr = before.csr /\ host \in {before.host, 0}
  /\ \E result \in IntegerOutcomes \ {Trap} :
       /\ w.opcode = kBtype => branch_flag = Taken(result)
       /\ pc = Destination(result)
       /\ execution_result = IF w.opcode = kauipc
                             THEN (before.pc + Signed(Page * ImmGenerator(w), Data)) % Full ELSE result
  /\ w.opcode \in {kjal, kjalr} => next_pc = before.pc + 4

ModeBefore == IF w.funct3 = 7 /\ Unit(w) # "double" THEN before.csr[kFrm] % 256 ELSE w.funct3

Outcome(h) ==
  FpExecute(Unit(w), GetAluSignal(w), FloatOperand1, FloatOperand2, Fpr(w.funct7 \div 4), ModeBefore, h)

FloatDone ==
  /\ Unit(w) # "none"
  /\ pc = before.pc + 4
  /\ \E h \in {before.host, 0} :
       /\ execution_result = Outcome(h).value
       /\ host = Outcome(h).host
       /\ csr = IF Unit(w) = "double" THEN before.csr
                ELSE [before.csr EXCEPT ![kFcsr] = Outcome(h).flags]

CsrDone ==
  /\ w.opcode = kSystem
  /\ Advanced /\ csr = before.csr
  /\ LET number == w.rs2 + 32 * w.funct7
     IN  csr_latch = [target |-> number, old |-> before.csr[number], value |-> Gpr(w.rs1), uimm |-> w.rs1]

EcallDone ==
  /\ Advanced /\ fpr = before.fpr /\ csr = before.csr /\ index = before.index
  /\ \/ /\ SyscallKind(before.gpr, before.mem) = "quiet"
        /\ gpr = before.gpr /\ mem = before.mem
     \/ /\ SyscallKind(before.gpr, before.mem) = "write"
        /\ gpr = [before.gpr EXCEPT ![10] = before.gpr[12]] /\ mem = before.mem
     \/ /\ SyscallKind(before.gpr, before.mem) = "read"
        /\ \E input \in Inputs :
             /\ mem = Received(before.mem, before.gpr[11], before.gpr[12], input)
             /\ gpr = [before.gpr EXCEPT ![10] = IF Len(input) < before.gpr[12] THEN Len(input)
                                                                                 ELSE before.gpr[12]]

Executed ==
  phase \in {"memory", "writeback"} =>
    /\ Ecall(w) => EcallDone
    /\ ~Ecall(w) => /\ gpr = before.gpr /\ fpr = before.fpr
                    /\ IntegerDone \/ FloatDone \/ CsrDone

MemoryKept == mem = before.mem /\ index = before.index

LoadDone == control.mem_read /\ ~FromStream /\ InRange(address, Width) /\ memory_result = Loaded /\ MemoryKept

SampleDone ==
  /\ FromStream /\ mem = before.mem
  /\ IF address = AudioIn
     THEN /\ memory_result = Sample(audio_samples, before.index.audio)
          /\ index = [before.index EXCEPT !.audio = NextIndex(audio_samples, @)]
     ELSE /\ memory_result = Sample(image_samples, before.index.image)
          /\ index = [before.index EXCEPT !.image = NextIndex(image_samples, @)]

StoreDone ==
  /\ control.mem_write /\ ~ToLog /\ InRange(address, Width) /\ index = before.index
  /\ mem = Stored(before.mem, address, Width, IF Form = "integer" THEN Gpr(w.rs2) ELSE Fpr(w.rs2))

Accessed ==
  /\ phase = "memory" /\ ~Ecall(w) => MemoryKept
  /\ phase = "writeback" /\ ~Ecall(w) =>
       \/ ~Accesses /\ MemoryKept
       \/ Accesses /\ (LoadDone \/ SampleDone \/ StoreDone \/ (ToLog /\ MemoryKept))

Progress == Carried /\ Executed /\ Accessed

LEMMA ProgressInit == Init => Progress
BY DEF Init, Progress, Carried, Executed, Accessed

LEMMA ProgressFetch == Fetch => Progress'
<1> SUFFICES ASSUME Fetch PROVE Progress'
  OBVIOUS
<1>1. /\ phase' = "decode" /\ pc' = pc + 4 /\ host' \in {host, 0} /\ before' = Snapshot
      /\ UNCHANGED <<gpr, fpr, csr, mem, index>>
  BY DEF Fetch
<1> QED  BY <1>1 DEF Progress, Carried, Executed, Accessed, Advanced, Snapshot

LEMMA ProgressDecode == Progress /\ Decode => Progress'
<1> SUFFICES ASSUME Progress, Decode PROVE Progress'
  OBVIOUS
<1>1. /\ phase = "decode" /\ phase' = "execute"
      /\ UNCHANGED <<pc, gpr, fpr, csr, mem, index, host, before>>
  BY DEF Decode, machine, fetched
<1> QED  BY <1>1 DEF Progress, Carried, Executed, Accessed, Advanced

(* The operands do not change once they are there.                         *)
LEMMA Stable ==
  ASSUME UNCHANGED <<gpr, fpr, current_instruction, control>>
  PROVE  /\ w' = w
         /\ IntegerOutcomes' = IntegerOutcomes
         /\ FloatOperand1' = FloatOperand1 /\ FloatOperand2' = FloatOperand2
         /\ Gpr(w.rs1)' = Gpr(w.rs1) /\ Gpr(w.rs2)' = Gpr(w.rs2) /\ Fpr(w.rs2)' = Fpr(w.rs2)
         /\ Fpr(w.funct7 \div 4)' = Fpr(w.funct7 \div 4)
<1>1. w' = w
  BY DEF w
<1>2. /\ Gpr(w.rs1)' = Gpr(w.rs1) /\ Gpr(w.rs2)' = Gpr(w.rs2) /\ Fpr(w.rs2)' = Fpr(w.rs2)
      /\ Fpr(w.rs1)' = Fpr(w.rs1) /\ Fpr(w.funct7 \div 4)' = Fpr(w.funct7 \div 4)
  BY <1>1 DEF Gpr, Fpr
<1>3. Operand2' = Operand2 /\ FloatOperand2' = FloatOperand2 /\ FloatOperand1' = FloatOperand1
  BY <1>1, <1>2 DEF Operand2, FloatOperand2, FloatOperand1, FromGpr
<1>4. IntegerOutcomes' = IntegerOutcomes
  BY <1>1, <1>2, <1>3 DEF IntegerOutcomes
<1> QED  BY <1>1, <1>2, <1>3, <1>4

LEMMA ProgressInteger == Progress /\ Found /\ ExecuteInteger => Progress'
<1> SUFFICES ASSUME Progress, Found, ExecuteInteger PROVE Progress'
  OBVIOUS
<1>1. /\ phase = "execute" /\ phase' = "memory" /\ Unit(w) = "none" /\ w.opcode # kSystem
      /\ UNCHANGED <<gpr, fpr, csr, mem, index, host, before, current_instruction, control>>
  BY DEF ExecuteInteger, Executing, fetched
<1>2. /\ Advanced /\ gpr = before.gpr /\ fpr = before.fpr /\ csr = before.csr
      /\ mem = before.mem /\ index = before.index
  BY <1>1 DEF Progress, Carried
<1>3. PICK result \in IntegerOutcomes \ {Trap} :
        /\ branch_flag' = IF w.opcode = kBtype THEN Taken(result) ELSE branch_flag
        /\ pc' = Target(result)
        /\ execution_result' = IF w.opcode = kauipc
                               THEN (pc - 4 + Signed(Page * ImmGenerator(w), Data)) % Full ELSE result
  BY DEF ExecuteInteger
<1>4. w' = w /\ IntegerOutcomes' = IntegerOutcomes
  BY <1>1, Stable
<1>5. before.pc \in Int /\ pc = before.pc + 4 /\ pc - 4 = before.pc
  <2>1. before.pc \in 0 .. ProgramSize - 1
    BY <1>1 DEF Found, InFlight
  <2>2. before.pc \in Int
    BY <2>1, MachineAssumption
  <2> QED  BY <1>2, <2>2 DEF Advanced
<1>6. w.opcode = kBtype => branch_flag' = Taken(result)'
  BY <1>3, <1>4 DEF Taken
<1>7. pc' = Destination(result)'
  BY <1>1, <1>3, <1>4, <1>5 DEF Destination, Target
<1>8. execution_result' = IF w.opcode = kauipc
                          THEN (before.pc + Signed(Page * ImmGenerator(w), Data)) % Full ELSE result
  BY <1>3, <1>5
<1>9. w.opcode \in {kjal, kjalr} => next_pc' = before.pc + 4
  BY <1>5 DEF ExecuteInteger
<1>10. IntegerDone'
  BY <1>1, <1>2, <1>3, <1>4, <1>6, <1>7, <1>8, <1>9 DEF IntegerDone, Advanced
<1>11. ~Ecall(w)
  BY <1>1 DEF Ecall
<1> QED  BY <1>1, <1>2, <1>4, <1>10, <1>11 DEF Progress, Carried, Executed, Accessed, MemoryKept

LEMMA ProgressFloatingPoint == Progress /\ Found /\ ExecuteFloatingPoint => Progress'
<1> SUFFICES ASSUME Progress, Found, ExecuteFloatingPoint PROVE Progress'
  OBVIOUS
<1>1. /\ phase = "execute" /\ phase' = "memory" /\ Unit(w) # "none"
      /\ UNCHANGED <<pc, gpr, fpr, mem, index, before, current_instruction, control>>
  BY DEF ExecuteFloatingPoint, Executing, fetched
<1>2. /\ Advanced /\ gpr = before.gpr /\ fpr = before.fpr /\ csr = before.csr
      /\ mem = before.mem /\ index = before.index
  BY <1>1 DEF Progress, Carried
<1>3. RoundingMode = ModeBefore
  BY <1>2 DEF RoundingMode, ModeBefore
<1>4. /\ execution_result' = Outcome(host).value /\ host' = Outcome(host).host
      /\ csr' = IF Unit(w) = "double" THEN csr ELSE [csr EXCEPT ![kFcsr] = Outcome(host).flags]
  BY <1>3 DEF ExecuteFloatingPoint, Outcome
<1>5. w' = w /\ \A h : Outcome(h)' = Outcome(h)
  BY <1>1, Stable DEF Outcome, ModeBefore
<1>6. FloatDone'
  BY <1>1, <1>2, <1>4, <1>5 DEF FloatDone, Advanced
<1>7. ~Ecall(w)
  BY <1>1, IntegerUnit DEF Ecall, kSystem, kFtype, kflw, kfsw
<1>8. Ecall(w)' = Ecall(w)
  BY <1>5 DEF Ecall
<1> QED  BY <1>1, <1>2, <1>5, <1>6, <1>7, <1>8 DEF Progress, Carried, Executed, Accessed, MemoryKept

LEMMA ProgressCsr == Progress /\ ExecuteCsr => Progress'
<1> SUFFICES ASSUME Progress, ExecuteCsr PROVE Progress'
  OBVIOUS
<1>1. /\ phase = "execute" /\ phase' = "memory" /\ w.opcode = kSystem /\ ~Ecall(w)
      /\ UNCHANGED <<pc, gpr, fpr, csr, mem, index, host, before, current_instruction, control>>
  BY DEF ExecuteCsr, Executing, fetched, machine
<1>2. /\ Advanced /\ gpr = before.gpr /\ fpr = before.fpr /\ csr = before.csr
      /\ mem = before.mem /\ index = before.index
  BY <1>1 DEF Progress, Carried
<1>3. csr_latch' = [target |-> w.rs2 + 32 * w.funct7, old |-> csr[w.rs2 + 32 * w.funct7],
                    value |-> Gpr(w.rs1), uimm |-> w.rs1]
  BY DEF ExecuteCsr
<1>4. w' = w /\ Gpr(w.rs1)' = Gpr(w.rs1) /\ Ecall(w)' = Ecall(w)
  BY <1>1, Stable DEF Ecall
<1>5. Advanced'
  BY <1>1, <1>2 DEF Advanced
<1>6. CsrDone'
  BY <1>1, <1>2, <1>3, <1>4, <1>5 DEF CsrDone
<1> QED  BY <1>1, <1>2, <1>4, <1>6 DEF Progress, Carried, Executed, Accessed, MemoryKept

LEMMA ProgressSyscall == Progress /\ (SyscallQuiet \/ SyscallRead \/ SyscallWrite) => Progress'
<1> SUFFICES ASSUME Progress, SyscallQuiet \/ SyscallRead \/ SyscallWrite PROVE Progress'
  OBVIOUS
<1>1. /\ phase = "execute" /\ phase' = "memory" /\ Ecall(w)
      /\ UNCHANGED <<pc, fpr, csr, index, host, before, current_instruction, control>>
  BY DEF SyscallQuiet, SyscallRead, SyscallWrite, Syscall, Executing, fetched
<1>2. /\ Advanced /\ gpr = before.gpr /\ fpr = before.fpr /\ csr = before.csr
      /\ mem = before.mem /\ index = before.index
  BY <1>1 DEF Progress, Carried
<1>3. Ecall(w)' /\ Advanced'
  BY <1>1, <1>2 DEF Advanced, Ecall, w
<1>4. CASE SyscallQuiet
  <2>1. SyscallKind(before.gpr, before.mem) = "quiet" /\ gpr' = gpr /\ mem' = mem
    BY <1>2, <1>4 DEF SyscallQuiet, Syscall
  <2>2. EcallDone'
    BY <1>1, <1>2, <1>3, <2>1 DEF EcallDone
  <2> QED  BY <1>1, <1>3, <2>2 DEF Progress, Carried, Executed, Accessed
<1>5. CASE SyscallWrite
  <2>1. /\ SyscallKind(before.gpr, before.mem) = "write"
        /\ gpr' = [before.gpr EXCEPT ![10] = before.gpr[12]] /\ mem' = mem
    BY <1>2, <1>5 DEF SyscallWrite, Syscall
  <2>2. EcallDone'
    BY <1>1, <1>2, <1>3, <2>1 DEF EcallDone
  <2> QED  BY <1>1, <1>3, <2>2 DEF Progress, Carried, Executed, Accessed
<1>6. CASE SyscallRead
  <2>1. /\ SyscallKind(before.gpr, before.mem) = "read"
        /\ \E input \in Inputs :
             /\ mem' = Received(before.mem, before.gpr[11], before.gpr[12], input)
             /\ gpr' = [before.gpr EXCEPT ![10] = IF Len(input) < before.gpr[12] THEN Len(input)
                                                                                  ELSE before.gpr[12]]
    BY <1>2, <1>6 DEF SyscallRead, Syscall
  <2>2. EcallDone'
    BY <1>1, <1>2, <1>3, <2>1 DEF EcallDone
  <2> QED  BY <1>1, <1>3, <2>2 DEF Progress, Carried, Executed, Accessed
<1> QED  BY <1>4, <1>5, <1>6

LEMMA ProgressMemory == Progress /\ (NoAccess \/ Load \/ LoadSample \/ Store \/ StoreToLog) => Progress'
<1> SUFFICES ASSUME Progress, NoAccess \/ Load \/ LoadSample \/ Store \/ StoreToLog PROVE Progress'
  OBVIOUS
<1>1. /\ phase = "memory" /\ phase' = "writeback"
      /\ UNCHANGED <<pc, gpr, fpr, csr, host, before, current_instruction, control>>
      /\ UNCHANGED <<execution_result, next_pc, branch_flag, csr_latch>>
  BY DEF NoAccess, Load, LoadSample, Store, StoreToLog, AtMemory, ToWriteBack, fetched
<1>2. /\ w' = w /\ Ecall(w)' = Ecall(w) /\ IntegerOutcomes' = IntegerOutcomes
      /\ FloatOperand1' = FloatOperand1 /\ FloatOperand2' = FloatOperand2
      /\ Gpr(w.rs1)' = Gpr(w.rs1) /\ Gpr(w.rs2)' = Gpr(w.rs2) /\ Fpr(w.rs2)' = Fpr(w.rs2)
      /\ Fpr(w.funct7 \div 4)' = Fpr(w.funct7 \div 4)
  BY <1>1, Stable DEF Ecall
<1>3. /\ address' = address /\ Form' = Form /\ Width' = Width /\ Accesses' = Accesses
      /\ FromStream' = FromStream /\ ToLog' = ToLog
  BY <1>1, <1>2 DEF address, Form, Width, Accesses, FromStream, ToLog
<1>4. CASE Ecall(w)
  <2>1. EcallDone
    BY <1>1, <1>4 DEF Progress, Executed
  <2>2. mem' = mem /\ index' = index
    BY <1>4 DEF NoAccess, Load, LoadSample, Store, StoreToLog, Accesses
  <2>3. EcallDone'
    BY <1>1, <2>1, <2>2 DEF EcallDone, Advanced
  <2> QED  BY <1>1, <1>2, <1>4, <2>3 DEF Progress, Carried, Executed, Accessed
<1>5. CASE ~Ecall(w)
  <2>1. mem = before.mem /\ index = before.index
    BY <1>1, <1>5 DEF Progress, Accessed, MemoryKept
  <2>2. gpr = before.gpr /\ fpr = before.fpr /\ (IntegerDone \/ FloatDone \/ CsrDone)
    BY <1>1, <1>5 DEF Progress, Executed
  <2>3. IntegerDone => IntegerDone'
    BY <1>1, <1>2 DEF IntegerDone, Destination, Taken
  <2>4. FloatDone => FloatDone'
    <3>1. \A h : Outcome(h)' = Outcome(h)
      BY <1>1, <1>2 DEF Outcome, ModeBefore
    <3> QED  BY <1>1, <1>2, <3>1 DEF FloatDone
  <2>5. CsrDone => CsrDone'
    BY <1>1, <1>2 DEF CsrDone, Advanced
  <2>6. Executed'
    BY <1>1, <1>2, <1>5, <2>2, <2>3, <2>4, <2>5 DEF Executed
  <2>7. \/ ~Accesses' /\ MemoryKept'
        \/ Accesses' /\ (LoadDone' \/ SampleDone' \/ StoreDone' \/ (ToLog' /\ MemoryKept'))
    <3>1. CASE NoAccess
      BY <1>1, <1>3, <2>1, <3>1 DEF NoAccess, MemoryKept
    <3>2. CASE Load
      <4>1. Loaded' = Loaded
        BY <1>1, <1>2, <1>3, <3>2 DEF Load, Loaded
      <4> QED  BY <1>1, <1>3, <2>1, <3>2, <4>1 DEF Load, LoadDone, MemoryKept
    <3>3. CASE LoadSample
      BY <1>1, <1>3, <2>1, <3>3 DEF LoadSample, SampleDone
    <3>4. CASE Store
      BY <1>1, <1>2, <1>3, <2>1, <3>4 DEF Store, StoreDone
    <3>5. CASE StoreToLog
      BY <1>1, <1>3, <2>1, <3>5 DEF StoreToLog, MemoryKept
    <3> QED  BY <3>1, <3>2, <3>3, <3>4, <3>5
  <2> QED  BY <1>1, <1>2, <1>5, <2>6, <2>7 DEF Progress, Carried, Accessed
<1> QED  BY <1>4, <1>5

LEMMA ProgressNext == Progress /\ Found /\ [Next]_vars => Progress'
<1> SUFFICES ASSUME Progress, Found, [Next]_vars PROVE Progress'
  OBVIOUS
<1>1. CASE UNCHANGED vars
  <2>1. /\ UNCHANGED <<pc, gpr, fpr, csr, mem, index, host, phase, before, current_instruction, control>>
        /\ UNCHANGED <<execution_result, memory_result, next_pc, branch_flag, csr_latch>>
    BY <1>1 DEF vars, machine, latches, fetched
  <2>2. /\ w' = w /\ Ecall(w)' = Ecall(w) /\ IntegerOutcomes' = IntegerOutcomes
        /\ FloatOperand1' = FloatOperand1 /\ FloatOperand2' = FloatOperand2
        /\ Gpr(w.rs1)' = Gpr(w.rs1) /\ Gpr(w.rs2)' = Gpr(w.rs2) /\ Fpr(w.rs2)' = Fpr(w.rs2)
        /\ Fpr(w.funct7 \div 4)' = Fpr(w.funct7 \div 4)
    BY <2>1, Stable DEF Ecall
  <2>3. IntegerDone' = IntegerDone /\ CsrDone' = CsrDone
    BY <2>1, <2>2 DEF IntegerDone, CsrDone, Destination, Taken, Advanced
  <2>4. FloatDone' = FloatDone
    <3>1. \A h : Outcome(h)' = Outcome(h)
      BY <2>1, <2>2 DEF Outcome, ModeBefore
    <3> QED  BY <2>1, <2>2, <3>1 DEF FloatDone
  <2>5. EcallDone' = EcallDone
    BY <2>1 DEF EcallDone, Advanced
  <2>6. /\ address' = address /\ Form' = Form /\ Width' = Width /\ Accesses' = Accesses
        /\ FromStream' = FromStream /\ ToLog' = ToLog /\ Loaded' = Loaded /\ MemoryKept' = MemoryKept
    BY <2>1, <2>2 DEF address, Form, Width, Accesses, FromStream, ToLog, Loaded, MemoryKept
  <2>7. LoadDone' = LoadDone /\ SampleDone' = SampleDone /\ StoreDone' = StoreDone
    BY <2>1, <2>2, <2>6 DEF LoadDone, SampleDone, StoreDone
  <2>8. Carried' /\ Executed' /\ Accessed'
    BY <2>1, <2>2, <2>3, <2>4, <2>5, <2>6, <2>7 DEF Progress, Carried, Executed, Accessed, Advanced
  <2> QED  BY <2>8 DEF Progress
<1>2. CASE phase' \in Ended \cup {"fetch"}
  BY <1>2 DEF Ended, Progress, Carried, Executed, Accessed
<1>3. DivisionFaults \/ SyscallExit \/ SyscallFaults \/ AccessFaults
        \/ WriteBackInteger \/ WriteBackFloat \/ WriteBackCsr \/ WriteBackNothing => phase' \in Ended \cup {"fetch"}
  BY DEF DivisionFaults, SyscallExit, SyscallFaults, AccessFaults, Abort, Ended,
         WriteBackInteger, WriteBackFloat, WriteBackCsr, WriteBackNothing, AtWriteBack
<1> QED  BY <1>1, <1>2, <1>3, ProgressFetch, ProgressDecode, ProgressInteger, ProgressFloatingPoint, ProgressCsr,
         ProgressSyscall, ProgressMemory DEF Next

----------------------------------------------------------------------------
(* What WriteBack makes visible: the machine is the one the stages have    *)
(* left, with one register or CSR written.                                 *)

WritesBack == WriteBackInteger \/ WriteBackFloat \/ WriteBackCsr \/ WriteBackNothing

(* The mode and the CSRs an instruction was fetched on have their types.   *)
Recalled == InFlight => before.host \in 0 .. 3 /\ before.csr \in [Csrs -> Registers]

LEMMA RecalledNext == Recalled /\ Typed /\ [Next]_vars => Recalled'
<1> SUFFICES ASSUME Recalled, Typed, [Next]_vars PROVE Recalled'
  OBVIOUS
<1>1. CASE Fetch
  <2>1. host \in 0 .. 3 /\ csr \in [Csrs -> Registers]
    BY DEF Typed, TypeOK
  <2> QED  BY <1>1, <2>1 DEF Fetch, Snapshot, Recalled
<1>2. CASE Decode
  BY <1>2 DEF Decode, fetched, Recalled, InFlight
<1>3. CASE UNCHANGED vars
  BY <1>3 DEF vars, fetched, Recalled, InFlight
<1>4. ASSUME Next, ~Fetch, ~Decode PROVE Recalled'
  BY <1>4, LaterSteps DEF Recalled, InFlight
<1> QED  BY <1>1, <1>2, <1>3, <1>4

Before == Progress /\ Found /\ Typed /\ Recalled /\ Units

LEMMA SignalsOf ==
  ASSUME NEW word, NEW s, s = SetControlSignals(word)
  PROVE  /\ word.opcode \in {kRtype, kFtype} => s.reg_write /\ ~s.alu_src /\ ~s.mem_read /\ ~s.mem_write
         /\ word.opcode \in {kItype, klui, kauipc, kjalr}
              => s.reg_write /\ s.alu_src /\ ~s.mem_read /\ ~s.mem_write
         /\ word.opcode = kjal => s.reg_write /\ ~s.mem_read /\ ~s.mem_write
         /\ word.opcode \in {kLoadType, kflw} => s.reg_write /\ s.alu_src /\ s.mem_read /\ ~s.mem_write
         /\ word.opcode \in {kStoreType, kfsw} => ~s.reg_write /\ s.alu_src /\ ~s.mem_read /\ s.mem_write
         /\ word.opcode \in {kBtype, kOp32, kOpImm32, kfmadd, kfmsub, kfnmsub, kfnmadd, kSystem}
              => ~s.reg_write /\ ~s.alu_src /\ ~s.mem_read /\ ~s.mem_write
         /\ s.is_load_protected = (word.opcode = kLoadType /\ word.funct3 = 7)
<1> DEFINE A == word.opcode \in {kLoadType, kStoreType, kItype, klui, kauipc, kjalr, kflw, kfsw}
           R == word.opcode \in {kRtype, kLoadType, kItype, klui, kauipc, kjal, kjalr, 1, kflw, kFtype}
           M == word.opcode \in {kLoadType, kflw}
           W == word.opcode \in {kStoreType, kfsw}
<1>1. /\ s.alu_src = A /\ s.reg_write = R /\ s.mem_read = M /\ s.mem_write = W
      /\ s.is_load_protected = (word.opcode = kLoadType /\ word.funct3 = 7)
  BY DEF SetControlSignals
<1>2. word.opcode \in {kRtype, kFtype} => R /\ ~A /\ ~M /\ ~W
  BY DEF kRtype, kItype, kLoadType, kStoreType, kBtype, kjal, kjalr, klui, kauipc, kSystem, kOp32,
         kOpImm32, kflw, kfsw, kFtype, kfmadd, kfmsub, kfnmsub, kfnmadd
<1>3. word.opcode \in {kItype, klui, kauipc, kjalr} => R /\ A /\ ~M /\ ~W
  BY DEF kRtype, kItype, kLoadType, kStoreType, kBtype, kjal, kjalr, klui, kauipc, kSystem, kOp32,
         kOpImm32, kflw, kfsw, kFtype, kfmadd, kfmsub, kfnmsub, kfnmadd
<1>4. word.opcode = kjal => R /\ ~M /\ ~W
  BY DEF kRtype, kItype, kLoadType, kStoreType, kBtype, kjal, kjalr, klui, kauipc, kSystem, kOp32,
         kOpImm32, kflw, kfsw, kFtype, kfmadd, kfmsub, kfnmsub, kfnmadd
<1>5. word.opcode \in {kLoadType, kflw} => R /\ A /\ M /\ ~W
  BY DEF kRtype, kItype, kLoadType, kStoreType, kBtype, kjal, kjalr, klui, kauipc, kSystem, kOp32,
         kOpImm32, kflw, kfsw, kFtype, kfmadd, kfmsub, kfnmsub, kfnmadd
<1>6. word.opcode \in {kStoreType, kfsw} => ~R /\ A /\ ~M /\ W
  BY DEF kRtype, kItype, kLoadType, kStoreType, kBtype, kjal, kjalr, klui, kauipc, kSystem, kOp32,
         kOpImm32, kflw, kfsw, kFtype, kfmadd, kfmsub, kfnmsub, kfnmadd
<1>7. word.opcode \in {kBtype, kOp32, kOpImm32, kfmadd, kfmsub, kfnmsub, kfnmadd, kSystem}
        => ~R /\ ~A /\ ~M /\ ~W
  BY DEF kRtype, kItype, kLoadType, kStoreType, kBtype, kjal, kjalr, klui, kauipc, kSystem, kOp32,
         kOpImm32, kflw, kfsw, kFtype, kfmadd, kfmsub, kfnmsub, kfnmadd
<1> HIDE DEF A, R, M, W
<1> QED  BY <1>1, <1>2, <1>3, <1>4, <1>5, <1>6, <1>7, Zenon

(* The line in flight, its word and its signals.                           *)
LEMMA Flying ==
  ASSUME Found, InFlight
  PROVE  /\ WordOf(line, w) /\ line.op \in Mnemonics /\ w \in Instructions
         /\ before.pc \in Int /\ before.pc \in Registers /\ line \in Lines(before.pc)
         /\ phase # "decode" => control = SetControlSignals(w)
<1>1. before.pc \in 0 .. ProgramSize - 1 /\ line \in Lines(before.pc)
  BY DEF Found
<1>2. before.pc \in Int /\ before.pc \in Registers
  BY <1>1, MachineAssumption, Sizes, SMTT(60) DEF Registers
<1> QED  BY <1>1, <1>2, LineFound, WordFound DEF WordOf, Accepted, Found, w

LEMMA Commits ==
  ASSUME Before, WritesBack
  PROVE  /\ phase = "writeback" /\ phase' = "fetch" /\ InFlight
         /\ UNCHANGED <<pc, mem, index, host, line, before>>
         /\ Seen = before
         /\ Seen'.pc = pc' /\ Seen'.gpr = gpr' /\ Seen'.fpr = fpr' /\ Seen'.csr = csr'
         /\ Seen'.mem = mem' /\ Seen'.index = index' /\ Seen'.host = host'
<1>1. /\ phase = "writeback" /\ phase' = "fetch"
      /\ UNCHANGED <<pc, mem, index, host, line, before>>
  BY DEF WritesBack, WriteBackInteger, WriteBackFloat, WriteBackCsr, WriteBackNothing, AtWriteBack, fetched
<1>2. Seen = before /\ Seen' = Snapshot'
  BY <1>1 DEF Seen
<1> QED  BY <1>1, <1>2 DEF Snapshot, InFlight

LEMMA IntegerCommits ==
  ASSUME Before, WritesBack, w.opcode \notin {kFtype, kflw, kfsw, kSystem}
  PROVE  /\ ~Ecall(w) /\ Form = "integer" /\ IntegerDone
         /\ gpr = before.gpr /\ fpr = before.fpr
         /\ gpr' = IF control.reg_write THEN Written(before.gpr, w.rd, WrittenBack) ELSE before.gpr
         /\ fpr' = before.fpr /\ csr' = before.csr /\ host' \in {before.host, 0}
<1>1. Unit(w) = "none" /\ Form = "integer" /\ ~Ecall(w)
  BY IntegerUnit DEF Form, Ecall
<1>2. WriteBackInteger
  BY <1>1 DEF WritesBack, WriteBackFloat, WriteBackCsr, WriteBackNothing
<1>3. gpr = before.gpr /\ fpr = before.fpr /\ IntegerDone
  BY <1>1, Commits DEF Before, Progress, Executed, FloatDone, CsrDone
<1> QED  BY <1>1, <1>2, <1>3, Commits DEF WriteBackInteger, IntegerDone

LEMMA NothingAccessed ==
  ASSUME Before, WritesBack, ~Ecall(w), ~control.mem_read, ~control.mem_write
  PROVE  mem' = before.mem /\ index' = before.index
BY Commits DEF Before, Progress, Accessed, Accesses, MemoryKept

----------------------------------------------------------------------------
(* Integer instructions, class by class.                                   *)

LEMMA CommitRegisterRegister ==
  ASSUME Before, WritesBack, line.op \in DOMAIN Abstract!RegisterOps
  PROVE  Abstract!RegisterRegister(line)
<1>1. /\ w.opcode = kRtype /\ w.rd = line.rd /\ w.rs1 = line.rs1 /\ w.rs2 = line.rs2
      /\ GetAluSignal(w) = Abstract!RegisterOps[line.op]
  BY Commits, Flying, RegisterDecoded DEF Before
<1>2. control.reg_write /\ ~control.alu_src /\ ~control.mem_read /\ ~control.mem_write
  BY <1>1, Commits, Flying, SignalsOf DEF Before
<1>3. w.opcode \notin {kFtype, kflw, kfsw, kSystem, kjalr, kjal, kBtype, kauipc}
  BY <1>1 DEF kRtype, kFtype, kflw, kfsw, kSystem, kjalr, kjal, kBtype, kauipc
<1>4. PICK result \in IntegerOutcomes \ {Trap} : pc = Destination(result) /\ execution_result = result
  BY <1>3, IntegerCommits DEF IntegerDone
<1>5. pc = before.pc + 4
  BY <1>3, <1>4 DEF Destination
<1>6. IntegerOutcomes = Execute(Abstract!RegisterOps[line.op], Register(before.gpr, line.rs1),
                                Register(before.gpr, line.rs2))
  BY <1>1, <1>2, <1>3, IntegerCommits DEF IntegerOutcomes, Operand2, Gpr
<1>7. WrittenBack = execution_result
  BY <1>1 DEF WrittenBack, kRtype, kItype, kauipc, kLoadType, kjal, kjalr, klui
<1>8. gpr' = Written(before.gpr, line.rd, execution_result)
  BY <1>1, <1>2, <1>3, <1>7, IntegerCommits
<1>9. fpr' = before.fpr /\ csr' = before.csr /\ host' \in {before.host, 0}
  BY <1>3, IntegerCommits
<1>10. mem' = before.mem /\ index' = before.index /\ pc' = before.pc + 4
  BY <1>2, <1>3, <1>5, IntegerCommits, NothingAccessed, Commits
<1> QED  BY <1>4, <1>6, <1>8, <1>9, <1>10, Commits, SameNumbers, SameRegisters
         DEF Abstract!RegisterRegister, Abstract!Sets, Abstract!X, Abstract!Sequel, Abstract!Mode

LEMMA OldRegister ==
  ASSUME Before, InFlight, gpr = before.gpr, NEW r
  PROVE  Gpr(r) = Register(before.gpr, r) /\ Gpr(r) \in Registers
<1>1. gpr \in [Gprs -> Registers]
  BY DEF Before, Typed, TypeOK
<1> QED  BY <1>1, RegisterType DEF Gpr

(* Only the five low bits of the amount of srai count, and the word has    *)
(* one more.                                                               *)
LEMMA CommitRegisterImmediate ==
  ASSUME Before, WritesBack, line.op \in DOMAIN Abstract!ImmediateOps
  PROVE  Abstract!RegisterImmediate(line)
<1>1. /\ w.opcode = kItype /\ w.rd = line.rd /\ w.rs1 = line.rs1
      /\ GetAluSignal(w) = Abstract!ImmediateOps[line.op]
      /\ line.op # "srai" => ImmGenerator(w) = line.imm
      /\ line.op = "srai" => ImmGenerator(w) = 1024 + line.imm /\ line.imm \in Shifts
  BY Commits, Flying, ImmediateDecoded DEF Before
<1>2. control.reg_write /\ control.alu_src /\ ~control.mem_read /\ ~control.mem_write
  BY <1>1, Commits, Flying, SignalsOf DEF Before
<1>3. w.opcode \notin {kFtype, kflw, kfsw, kSystem, kjalr, kjal, kBtype, kauipc}
  BY <1>1 DEF kItype, kFtype, kflw, kfsw, kSystem, kjalr, kjal, kBtype, kauipc
<1>4. PICK result \in IntegerOutcomes \ {Trap} : pc = Destination(result) /\ execution_result = result
  BY <1>3, IntegerCommits DEF IntegerDone
<1>5. pc = before.pc + 4
  BY <1>3, <1>4 DEF Destination
<1> DEFINE x == Register(before.gpr, line.rs1)
<1>6. x \in Registers /\ Gpr(w.rs1) = x
  BY <1>1, <1>3, IntegerCommits, Commits, OldRegister
<1>7. IntegerOutcomes = Execute(Abstract!ImmediateOps[line.op], x, ImmGenerator(w) % Full)
  BY <1>1, <1>2, <1>3, <1>6 DEF IntegerOutcomes, Operand2
<1>8. IntegerOutcomes = Execute(Abstract!ImmediateOps[line.op], x, line.imm % Full)
  <2>1. CASE line.op # "srai"
    BY <1>1, <1>7, <2>1
  <2>2. CASE line.op = "srai"
    <3>1. Abstract!ImmediateOps[line.op] = "kSra"
      BY <2>2 DEF Abstract!ImmediateOps
    <3>2. Execute("kSra", x, (1024 + line.imm) % Full) = Execute("kSra", x, line.imm % Full)
      BY <1>1, <1>6, <2>2 DEF Before, Units, UnitsFor, IntegerUnitFor
    <3> QED  BY <1>1, <1>7, <2>2, <3>1, <3>2
  <2> QED  BY <2>1, <2>2
<1>9. WrittenBack = execution_result
  BY <1>1 DEF WrittenBack, kRtype, kItype, kauipc, kLoadType, kjal, kjalr, klui
<1>10. gpr' = Written(before.gpr, line.rd, execution_result)
  BY <1>1, <1>2, <1>3, <1>9, IntegerCommits
<1>11. fpr' = before.fpr /\ csr' = before.csr /\ host' \in {before.host, 0}
  BY <1>3, IntegerCommits
<1>12. mem' = before.mem /\ index' = before.index /\ pc' = before.pc + 4
  BY <1>2, <1>3, <1>5, IntegerCommits, NothingAccessed, Commits
<1> QED  BY <1>4, <1>8, <1>10, <1>11, <1>12, Commits, SameNumbers, SameRegisters
         DEF Abstract!RegisterImmediate, Abstract!Sets, Abstract!X, Abstract!Sequel, Abstract!Mode

LEMMA CommitLost ==
  ASSUME Before, WritesBack, line.op \in DOMAIN Abstract!LostOps \/ line.op \in Abstract!Lost
  PROVE  Abstract!LostResult(line)
<1>1. w.opcode \in {kOp32, kOpImm32, kfmadd, kfmsub, kfnmsub, kfnmadd}
  BY Commits, Flying, LostOpsDecoded, LostDecoded DEF Before
<1>2. ~control.reg_write /\ ~control.alu_src /\ ~control.mem_read /\ ~control.mem_write
  BY <1>1, Commits, Flying, SignalsOf DEF Before
<1>3. w.opcode \notin {kFtype, kflw, kfsw, kSystem, kjalr, kjal, kBtype, kauipc}
  BY <1>1 DEF kOp32, kOpImm32, kfmadd, kfmsub, kfnmsub, kfnmadd,
              kFtype, kflw, kfsw, kSystem, kjalr, kjal, kBtype, kauipc
<1>4. PICK result \in IntegerOutcomes \ {Trap} : pc = Destination(result) /\ execution_result = result
  BY <1>3, IntegerCommits DEF IntegerDone
<1>5. pc = before.pc + 4
  BY <1>3, <1>4 DEF Destination
<1>6. gpr' = before.gpr /\ fpr' = before.fpr /\ csr' = before.csr /\ host' \in {before.host, 0}
  BY <1>2, <1>3, IntegerCommits
<1>7. mem' = before.mem /\ index' = before.index /\ pc' = before.pc + 4
  BY <1>2, <1>3, <1>5, IntegerCommits, NothingAccessed, Commits
<1>8. line.op \notin Abstract!Lost
        => Execute(Abstract!LostOps[line.op], Register(before.gpr, line.rs1), Register(before.gpr, line.rs2)) # {Trap}
  <2> SUFFICES ASSUME line.op \in DOMAIN Abstract!LostOps
               PROVE  Execute(Abstract!LostOps[line.op], Register(before.gpr, line.rs1),
                              Register(before.gpr, line.rs2)) # {Trap}
    OBVIOUS
  <2>1. /\ w.rs1 = line.rs1 /\ w.rs2 = line.rs2
        /\ GetAluSignal(w) = Abstract!LostOps[line.op]
    BY Commits, Flying, LostOpsDecoded DEF Before
  <2>2. IntegerOutcomes = Execute(Abstract!LostOps[line.op], Register(before.gpr, line.rs1),
                                  Register(before.gpr, line.rs2))
    BY <1>2, <1>3, <2>1, IntegerCommits DEF IntegerOutcomes, Operand2, Gpr
  <2> QED  BY <1>4, <2>2
<1> QED  BY <1>6, <1>7, <1>8, Commits, SameNumbers, SameRegisters
         DEF Abstract!LostResult, Abstract!X, Abstract!Sequel, Abstract!Mode

LEMMA CommitUpperImmediate ==
  ASSUME Before, WritesBack, line.op \in {"lui", "auipc"}
  PROVE  Abstract!UpperImmediate(line)
<1> DEFINE upper == Signed(Page * line.imm, Data)
<1>1. /\ w.opcode = IF line.op = "lui" THEN klui ELSE kauipc
      /\ w.rd = line.rd /\ line.imm \in Int
      /\ Signed(Page * ImmGenerator(w), Data) = upper
  <2>1. WordOf(line, w)
    BY Commits, Flying DEF Before
  <2>2. /\ w.opcode = IF line.op = "lui" THEN klui ELSE kauipc
        /\ w.rd = line.rd /\ line.imm \in Int
        /\ ImmGenerator(w) = line.imm % 1048576
    BY <2>1, UpperDecoded, SMT
  <2>3. Signed(Page * (line.imm % 1048576), Data) = upper
    BY <2>2, UpperSigned, SMT
  <2> QED  BY <2>2, <2>3, SMT
<1>2. control.reg_write /\ control.alu_src /\ ~control.mem_read /\ ~control.mem_write
  BY <1>1, Commits, Flying, SignalsOf DEF Before
<1>3. w.opcode \notin {kFtype, kflw, kfsw, kSystem, kjalr, kjal, kBtype}
  BY <1>1 DEF klui, kauipc, kFtype, kflw, kfsw, kSystem, kjalr, kjal, kBtype
<1>4. PICK result \in IntegerOutcomes \ {Trap} :
        /\ pc = Destination(result)
        /\ execution_result = IF w.opcode = kauipc
                              THEN (before.pc + Signed(Page * ImmGenerator(w), Data)) % Full ELSE result
  BY <1>3, IntegerCommits DEF IntegerDone
<1>5. pc = before.pc + 4
  BY <1>3, <1>4 DEF Destination
<1>6. upper \in Int /\ before.pc \in Int
  <2>1. Page * line.imm \in Int
    <3>1. Page \in Int
      BY MachineAssumption, SMT
    <3> QED  BY <1>1, <3>1
  <2>2. before.pc \in Int
    BY Commits, Flying DEF Before
  <2> QED  BY <2>1, <2>2, SignedInt, Sizes
<1> HIDE DEF upper
<1>7. WrittenBack = (upper + (IF line.op = "auipc" THEN before.pc ELSE 0)) % Full
  <2>1. CASE line.op = "lui"
    <3>1. WrittenBack = upper % Full
      BY <1>1, <2>1 DEF WrittenBack, kRtype, kItype, kauipc, kLoadType, kjal, kjalr, klui
    <3> QED  BY <1>6, <2>1, <3>1
  <2>2. CASE line.op = "auipc"
    <3>1. w.opcode = kauipc
      BY <1>1, <2>2
    <3>2. WrittenBack = execution_result
      BY <3>1 DEF WrittenBack, kRtype, kItype, kauipc, kLoadType, kjal, kjalr, klui
    <3>3. execution_result = (before.pc + upper) % Full
      BY <1>1, <1>4, <3>1
    <3>4. before.pc + upper = upper + before.pc
      BY <1>6
    <3> QED  BY <2>2, <3>2, <3>3, <3>4
  <2> QED  BY <2>1, <2>2
<1>8. gpr' = Written(before.gpr, line.rd, (upper + (IF line.op = "auipc" THEN before.pc ELSE 0)) % Full)
  BY <1>1, <1>2, <1>3, <1>7, IntegerCommits
<1>9. fpr' = before.fpr /\ csr' = before.csr /\ host' \in {before.host, 0}
  BY <1>3, IntegerCommits
<1>10. mem' = before.mem /\ index' = before.index /\ pc' = before.pc + 4
  BY <1>2, <1>3, <1>5, IntegerCommits, NothingAccessed, Commits
<1>11. upper = Abstract!Signed(Page * line.imm, Abstract!Data)
  BY SameNumbers DEF upper
<1> QED  BY <1>8, <1>9, <1>10, <1>11, Commits, SameNumbers, SameRegisters
         DEF Abstract!UpperImmediate, Abstract!Sets, Abstract!Sequel, Abstract!Mode

LEMMA CommitJump ==
  ASSUME Before, WritesBack, line.op \in {"jal", "jalr"}
  PROVE  Abstract!Jump(line)
<1>1. /\ w.opcode = IF line.op = "jal" THEN kjal ELSE kjalr
      /\ w.rd = line.rd /\ ImmGenerator(w) = line.imm
      /\ line.op = "jalr" => w.rs1 = line.rs1
  BY Commits, Flying, JumpDecoded DEF Before
<1>2. /\ control.reg_write /\ ~control.mem_read /\ ~control.mem_write
      /\ line.op = "jalr" => control.alu_src
  BY <1>1, Commits, Flying, SignalsOf DEF Before
<1>3. w.opcode \notin {kFtype, kflw, kfsw, kSystem, kBtype, kauipc}
  BY <1>1 DEF kjal, kjalr, kFtype, kflw, kfsw, kSystem, kBtype, kauipc
<1>4. PICK result \in IntegerOutcomes \ {Trap} : pc = Destination(result)
  BY <1>3, IntegerCommits DEF IntegerDone
<1>5. next_pc = before.pc + 4
  BY <1>1, <1>3, IntegerCommits DEF IntegerDone
<1>6. WrittenBack = Protected((before.pc + 4) % Data, 1, SIG_POINTER)
  BY <1>1, <1>5 DEF WrittenBack, kRtype, kItype, kauipc, kLoadType, kjal, kjalr, klui
<1>7. pc = IF line.op = "jal" THEN (before.pc + line.imm) % Full
           ELSE (S32(Checked(Register(before.gpr, line.rs1))) + line.imm) % Data
  <2>1. CASE line.op = "jal"
    <3>1. w.opcode = kjal /\ w.opcode # kjalr
      BY <1>1, <2>1 DEF kjal, kjalr
    <3> QED  BY <1>1, <1>4, <2>1, <3>1 DEF Destination
  <2>2. CASE line.op = "jalr"
    <3> DEFINE a == S32(Checked(Register(before.gpr, line.rs1)))
               b == line.imm
    <3>1. w.opcode = kjalr /\ line.op # "jal"
      BY <1>1, <2>2
    <3>2. pc = result % Data
      BY <1>4, <3>1 DEF Destination, kjalr, kjal, kBtype
    <3>3. Gpr(w.rs1) = Register(before.gpr, line.rs1) /\ Gpr(w.rs1) \in Registers
      BY <1>1, <1>3, <2>2, IntegerCommits, Commits, OldRegister
    <3>4. a \in Int
      <4>1. Checked(Gpr(w.rs1)) \in Int
        BY <3>3, CheckedInt DEF Before
      <4> QED  BY <3>3, <4>1, SignedInt, Sizes DEF S32
    <3>5. b \in Int
      BY <1>1, Commits, Flying, ImmediateInt DEF Before
    <3>6. IntegerOutcomes = Execute("kAddrAdd", a % Full, b % Full)
      BY <1>1, <1>2, <3>1, <3>3, <2>2 DEF IntegerOutcomes, Operand2
    <3> HIDE DEF a, b
    <3>7. a % Full \in Registers /\ b % Full \in Registers
      BY <3>4, <3>5, RegisterOf
    <3>8. result = ((a % Full) + (b % Full)) % Full
      BY <3>6, <3>7, <1>4 DEF Before, Units, UnitsFor, IntegerUnitFor
    <3>9. ((a % Full) + (b % Full)) % Full = (a + b) % Full
      BY <3>4, <3>5, Sums
    <3> DEFINE s == a + b
    <3>10. s \in Int /\ (s % Full) % Data = s % Data
      <4>1. s \in Int
        BY <3>4, <3>5
      <4> HIDE DEF s
      <4> QED  BY <4>1, Sizes, RemainderOfRemainder DEF Full
    <3>11. pc = s % Data
      BY <3>2, <3>8, <3>9, <3>10
    <3> QED  BY <2>2, <3>1, <3>11 DEF a, b
  <2> QED  BY <2>1, <2>2
<1>8. gpr' = Written(before.gpr, line.rd, Protected((before.pc + 4) % Data, 1, SIG_POINTER))
  BY <1>1, <1>2, <1>3, <1>6, IntegerCommits
<1>9. fpr' = before.fpr /\ csr' = before.csr /\ host' \in {before.host, 0}
  BY <1>3, IntegerCommits
<1>10. mem' = before.mem /\ index' = before.index /\ pc' = pc
  BY <1>2, <1>3, IntegerCommits, NothingAccessed, Commits
<1> QED  BY <1>7, <1>8, <1>9, <1>10, Commits, SameNumbers, SameRegisters
         DEF Abstract!Jump, Abstract!Sets, Abstract!X, Abstract!Mode

LEMMA CommitBranch ==
  ASSUME Before, WritesBack, line.op \in DOMAIN Abstract!BranchOps
  PROVE  Abstract!Branch(line)
<1>1. /\ w.opcode = kBtype /\ w.rs1 = line.rs1 /\ w.rs2 = line.rs2
      /\ w.funct3 = B_type_instruction_encoding_map[line.op][2]
      /\ GetAluSignal(w) = Abstract!BranchOps[line.op] /\ ImmGenerator(w) = line.imm
  BY Commits, Flying, BranchDecoded DEF Before
<1>2. ~control.reg_write /\ ~control.alu_src /\ ~control.mem_read /\ ~control.mem_write
  BY <1>1, Commits, Flying, SignalsOf DEF Before
<1>3. w.opcode \notin {kFtype, kflw, kfsw, kSystem, kjalr, kjal, kauipc}
  BY <1>1 DEF kBtype, kFtype, kflw, kfsw, kSystem, kjalr, kjal, kauipc
<1>4. PICK result \in IntegerOutcomes \ {Trap} : branch_flag = Taken(result) /\ pc = Destination(result)
  BY <1>1, <1>3, IntegerCommits DEF IntegerDone
<1>5. pc = IF branch_flag THEN (before.pc + line.imm) % Full ELSE before.pc + 4
  BY <1>1, <1>3, <1>4 DEF Destination
<1>6. IntegerOutcomes = Execute(Abstract!BranchOps[line.op], Register(before.gpr, line.rs1),
                                Register(before.gpr, line.rs2))
  BY <1>1, <1>2, <1>3, IntegerCommits DEF IntegerOutcomes, Operand2, Gpr
<1> DEFINE d == result % Data
<1>7. Taken(result) = CASE line.op = "beq" -> d = 0
                        [] line.op = "bne" -> d # 0
                        [] line.op \in {"blt", "bltu"} -> d = 1
                        [] line.op \in {"bge", "bgeu"} -> d = 0
  <2>1. Taken(result) = CASE w.funct3 \in {0, 5, 7} -> d = 0
                          [] w.funct3 = 1           -> d # 0
                          [] w.funct3 \in {4, 6}    -> d = 1
                          [] OTHER                  -> branch_flag
    BY DEF Taken
  <2> HIDE DEF d
  <2>2. CASE line.op = "beq"
    <3>1. w.funct3 = 0
      BY <1>1, <2>2 DEF B_type_instruction_encoding_map
    <3> QED  BY <2>1, <2>2, <3>1
  <2>3. CASE line.op = "bne"
    <3>1. w.funct3 = 1
      BY <1>1, <2>3 DEF B_type_instruction_encoding_map
    <3> QED  BY <2>1, <2>3, <3>1
  <2>4. CASE line.op \in {"blt", "bltu"}
    <3>1. w.funct3 \in {4, 6}
      BY <1>1, <2>4 DEF B_type_instruction_encoding_map
    <3> QED  BY <2>1, <2>4, <3>1
  <2>5. CASE line.op \in {"bge", "bgeu"}
    <3>1. w.funct3 \in {5, 7}
      BY <1>1, <2>5 DEF B_type_instruction_encoding_map
    <3> QED  BY <2>1, <2>5, <3>1
  <2> QED  BY <2>2, <2>3, <2>4, <2>5 DEF Abstract!BranchOps
<1>8. gpr' = before.gpr /\ fpr' = before.fpr /\ csr' = before.csr /\ host' \in {before.host, 0}
  BY <1>2, <1>3, IntegerCommits
<1>9. mem' = before.mem /\ index' = before.index /\ pc' = pc
  BY <1>2, <1>3, IntegerCommits, NothingAccessed, Commits
<1>10. /\ UNCHANGED <<Seen.gpr, Seen.fpr, Seen.csr, Seen.mem, Seen.index>>
       /\ Seen'.host \in Abstract!Mode /\ Seen'.pc = pc /\ Seen = before
  BY <1>8, <1>9, Commits DEF Abstract!Mode
<1>11. Abstract!X(line.rs1) = Register(before.gpr, line.rs1) /\ Abstract!X(line.rs2) = Register(before.gpr, line.rs2)
  BY <1>10, SameRegisters DEF Abstract!X
<1> DEFINE taken(r) == CASE line.op = "beq" -> r % Data = 0
                         [] line.op = "bne" -> r % Data # 0
                         [] line.op \in {"blt", "bltu"} -> r % Data = 1
                         [] line.op \in {"bge", "bgeu"} -> r % Data = 0
<1>12. Seen'.pc = IF taken(result) THEN (Seen.pc + line.imm) % Full ELSE Seen.pc + 4
  BY <1>4, <1>5, <1>7, <1>10
<1>13. \E r \in Execute(Abstract!BranchOps[line.op], Abstract!X(line.rs1), Abstract!X(line.rs2)) :
         Seen'.pc = IF taken(r) THEN (Seen.pc + line.imm) % Full ELSE Seen.pc + 4
  BY <1>4, <1>6, <1>11, <1>12
<1> QED  BY <1>10, <1>13, SameNumbers DEF Abstract!Branch

----------------------------------------------------------------------------
(* Memory.                                                                 *)

LEMMA Accessing ==
  ASSUME Before, phase \in {"memory", "writeback"}, w.opcode \in {kLoadType, kStoreType}
  PROVE  /\ InFlight /\ ~Ecall(w) /\ Form = "integer" /\ Accesses
         /\ gpr = before.gpr /\ fpr = before.fpr
         /\ address = (Register(before.gpr, w.rs1) + ImmGenerator(w)) % Full
         /\ address \in Nat
<1>1. InFlight /\ w.opcode \notin {kFtype, kflw, kfsw, kSystem, kjalr, kauipc}
  BY DEF InFlight, kLoadType, kStoreType, kFtype, kflw, kfsw, kSystem, kjalr, kauipc
<1>2. Form = "integer" /\ Unit(w) = "none" /\ ~Ecall(w)
  BY <1>1, IntegerUnit DEF Form, Ecall
<1>3. control = SetControlSignals(w)
  BY <1>1, Flying DEF Before
<1>4. control.alu_src /\ (control.mem_read \/ control.mem_write)
  BY <1>3, SignalsOf
<1>5. gpr = before.gpr /\ fpr = before.fpr /\ IntegerDone
  BY <1>1, <1>2 DEF Before, Progress, Executed, FloatDone, CsrDone
<1>6. PICK result \in IntegerOutcomes \ {Trap} : execution_result = result
  BY <1>1, <1>5 DEF IntegerDone
<1>7. Gpr(w.rs1) = Register(before.gpr, w.rs1) /\ Gpr(w.rs1) \in Registers
  BY <1>1, <1>5, OldRegister
<1>8. IntegerOutcomes = Execute("kAddrAdd", Gpr(w.rs1), ImmGenerator(w) % Full)
  BY <1>1, <1>4, SignalOf DEF IntegerOutcomes, Operand2
<1>9. ImmGenerator(w) \in Int /\ ImmGenerator(w) % Full \in Registers
  BY <1>1, Flying, ImmediateInt, RegisterOf DEF Before
<1>10. execution_result = (Gpr(w.rs1) + (ImmGenerator(w) % Full)) % Full
  BY <1>6, <1>7, <1>8, <1>9 DEF Before, Units, UnitsFor, IntegerUnitFor
<1>11. Gpr(w.rs1) \in Int
  BY <1>7, Sizes DEF Registers
<1>12. execution_result = (Register(before.gpr, w.rs1) + ImmGenerator(w)) % Full
  BY <1>7, <1>9, <1>10, <1>11, Sums
<1>13. execution_result \in Nat
  BY Sizes DEF Before, Typed, TypeOK, Registers
<1> QED  BY <1>1, <1>2, <1>4, <1>5, <1>12, <1>13 DEF Accesses, address

(* What funct3 says of a load.                                             *)
LEMMA LoadTable ==
  ASSUME NEW op, op \in DOMAIN Abstract!Loads \ DOMAIN Abstract!FloatLoads,
         NEW f, f = I1_type_instruction_encoding_map[op][2]
  PROVE  /\ f \in 0 .. 7
         /\ op = "lwpd" <=> f = 7
         /\ Abstract!Loads[op].n = <<1, 2, 4, 8, 1, 2, 4, 8>>[f + 1]
         /\ Abstract!Loads[op].sign = IF f = 0 THEN Radix ELSE IF f = 1 THEN Half ELSE IF f = 2 THEN Data ELSE 0
<1>1. op \in {"lb", "lh", "lw", "ld", "lbu", "lhu", "lwu", "lwpd"}
  BY DEF Abstract!Loads, Abstract!FloatLoads
<1>2. CASE op \in {"lb", "lh", "lw"}
  BY <1>2, SameNumbers DEF Abstract!Loads, I1_type_instruction_encoding_map
<1>3. CASE op \in {"ld", "lbu", "lhu"}
  BY <1>3, SameNumbers DEF Abstract!Loads, I1_type_instruction_encoding_map
<1>4. CASE op \in {"lwu", "lwpd"}
  BY <1>4, SameNumbers DEF Abstract!Loads, I1_type_instruction_encoding_map
<1> QED  BY <1>1, <1>2, <1>3, <1>4

LEMMA Loading ==
  ASSUME Before, phase \in {"memory", "writeback"}, line.op \in DOMAIN Abstract!Loads \ DOMAIN Abstract!FloatLoads,
         Seen = before
  PROVE  /\ w.opcode = kLoadType /\ w.rd = line.rd
         /\ w.funct3 = I1_type_instruction_encoding_map[line.op][2]
         /\ address = Abstract!Address(line)
         /\ Width = Abstract!Loads[line.op].n
         /\ control.reg_write /\ control.mem_read /\ ~control.mem_write
         /\ control.is_load_protected = (line.op = "lwpd")
         /\ FromStream = Abstract!Sampled(line) /\ ~ToLog
<1>1. InFlight
  BY DEF InFlight
<1>2. /\ w.opcode = kLoadType /\ w.rd = line.rd /\ w.rs1 = line.rs1 /\ ImmGenerator(w) = line.imm
      /\ w.funct3 = I1_type_instruction_encoding_map[line.op][2]
  BY <1>1, Flying, LoadDecoded DEF Before
<1>3. /\ control.reg_write /\ control.mem_read /\ ~control.mem_write
      /\ control.is_load_protected = (w.opcode = kLoadType /\ w.funct3 = 7)
  BY <1>1, <1>2, Flying, SignalsOf DEF Before
<1>4. Form = "integer" /\ address = (Register(before.gpr, w.rs1) + ImmGenerator(w)) % Full
  BY <1>2, Accessing
<1>5. address = Abstract!Address(line)
  BY <1>2, <1>4, SameRegisters, SameNumbers DEF Abstract!Address, Abstract!X
<1>6. line.op = "lwpd" <=> w.funct3 = 7
  BY <1>2, LoadTable
<1>7. Width = Abstract!Loads[line.op].n
  BY <1>2, <1>4, LoadTable DEF Width
<1>8. control.is_load_protected = (line.op = "lwpd")
  BY <1>2, <1>3, <1>6, Zenon
<1>9. FromStream = Abstract!Sampled(line) /\ ~ToLog
  BY <1>3, <1>4, <1>5, <1>6 DEF FromStream, ToLog, Abstract!Sampled
<1> QED  BY <1>2, <1>3, <1>5, <1>7, <1>8, <1>9

LEMMA ContentLoaded ==
  ASSUME line.op \in DOMAIN Abstract!Loads \ DOMAIN Abstract!FloatLoads, Seen.mem = mem,
         w.funct3 = I1_type_instruction_encoding_map[line.op][2], Form = "integer",
         address = Abstract!Address(line)
  PROVE  Loaded = Abstract!Content(line)
<1> DEFINE n == Abstract!Loads[line.op].n
           sign == Abstract!Loads[line.op].sign
           v == CASE n = 1 -> mem[address] [] n = 2 -> ReadHalfWord(mem, address)
                  [] n = 4 -> ReadWord(mem, address) [] n = 8 -> ReadDoubleWord(mem, address)
<1>1. Abstract!Content(line) = IF sign = 0 THEN v ELSE Signed(v, sign) % Full
  <2>1. /\ Seen.mem[Abstract!Address(line)] = mem[address]
        /\ Abstract!ReadHalfWord(Seen.mem, Abstract!Address(line)) = ReadHalfWord(mem, address)
        /\ Abstract!ReadWord(Seen.mem, Abstract!Address(line)) = ReadWord(mem, address)
        /\ Abstract!ReadDoubleWord(Seen.mem, Abstract!Address(line)) = ReadDoubleWord(mem, address)
    BY SameMemory
  <2>2. Abstract!Signed(v, sign) = Signed(v, sign) /\ Abstract!Full = Full
    BY SameNumbers
  <2>3. Abstract!Content(line) = IF sign = 0 THEN v ELSE Abstract!Signed(v, sign) % Abstract!Full
    BY <2>1 DEF Abstract!Content
  <2> QED  BY <2>2, <2>3
<1>2. /\ w.funct3 \in 0 .. 7 /\ n = <<1, 2, 4, 8, 1, 2, 4, 8>>[w.funct3 + 1]
      /\ sign = IF w.funct3 = 0 THEN Radix ELSE IF w.funct3 = 1 THEN Half ELSE IF w.funct3 = 2 THEN Data ELSE 0
  BY LoadTable
<1> HIDE DEF n, sign
<1>3. Radix # 0 /\ Half # 0 /\ Data # 0
  BY Sizes
<1>4. CASE w.funct3 = 0
  <2>1. v = mem[address]
    BY <1>2, <1>4
  <2> QED  BY <1>1, <1>2, <1>3, <1>4, <2>1 DEF Loaded
<1>5. CASE w.funct3 = 1
  <2>1. v = ReadHalfWord(mem, address)
    BY <1>2, <1>5
  <2> QED  BY <1>1, <1>2, <1>3, <1>5, <2>1 DEF Loaded
<1>6. CASE w.funct3 = 2
  <2>1. v = ReadWord(mem, address)
    BY <1>2, <1>6, SMTT(60)
  <2> QED  BY <1>1, <1>2, <1>3, <1>6, <2>1 DEF Loaded
<1>7. CASE w.funct3 \in {3, 7}
  <2>1. v = ReadDoubleWord(mem, address)
    BY <1>2, <1>7
  <2> QED  BY <1>1, <1>2, <1>3, <1>7, <2>1 DEF Loaded
<1>8. CASE w.funct3 = 4
  <2>1. v = mem[address]
    BY <1>2, <1>8
  <2> QED  BY <1>1, <1>2, <1>3, <1>8, <2>1 DEF Loaded
<1>9. CASE w.funct3 = 5
  <2>1. v = ReadHalfWord(mem, address)
    BY <1>2, <1>9
  <2> QED  BY <1>1, <1>2, <1>3, <1>9, <2>1 DEF Loaded
<1>10. CASE w.funct3 = 6
  <2>1. v = ReadWord(mem, address)
    BY <1>2, <1>10
  <2> QED  BY <1>1, <1>2, <1>3, <1>10, <2>1 DEF Loaded
<1> QED  BY <1>2, <1>4, <1>5, <1>6, <1>7, <1>8, <1>9, <1>10

LEMMA CommitLoad ==
  ASSUME Before, WritesBack, line.op \in DOMAIN Abstract!Loads \ DOMAIN Abstract!FloatLoads
  PROVE  Abstract!Load(line) \/ Abstract!LoadSample(line)
<1>1. /\ w.opcode = kLoadType /\ w.rd = line.rd
      /\ w.funct3 = I1_type_instruction_encoding_map[line.op][2]
      /\ address = Abstract!Address(line) /\ Width = Abstract!Loads[line.op].n
      /\ control.reg_write /\ control.mem_read /\ ~control.mem_write
      /\ control.is_load_protected = (line.op = "lwpd")
      /\ FromStream = Abstract!Sampled(line) /\ ~ToLog
  BY Commits, Loading
<1>2. Form = "integer" /\ ~Ecall(w) /\ Accesses
  BY <1>1, Commits, Accessing
<1>3. w.opcode \notin {kFtype, kflw, kfsw, kSystem, kjalr, kjal, kBtype, kauipc, kRtype, kItype, klui}
  BY <1>1 DEF kLoadType, kFtype, kflw, kfsw, kSystem, kjalr, kjal, kBtype, kauipc, kRtype, kItype, klui
<1>4. pc = before.pc + 4
  BY <1>3, IntegerCommits DEF IntegerDone, Destination
<1>5. /\ gpr' = Written(before.gpr, line.rd, WrittenBack)
      /\ fpr' = before.fpr /\ csr' = before.csr /\ host' \in {before.host, 0}
  BY <1>1, <1>3, IntegerCommits
<1>6. WrittenBack = IF line.op = "lwpd" THEN Protected(memory_result % Data, 0, SIG_LOW) ELSE memory_result
  <2>1. CASE line.op = "lwpd"
    BY <1>1, <1>3, <2>1 DEF WrittenBack
  <2>2. CASE line.op # "lwpd"
    BY <1>1, <1>3, <2>2 DEF WrittenBack
  <2> QED  BY <2>1, <2>2
<1>7. LoadDone \/ SampleDone
  BY <1>1, <1>2, Commits DEF Before, Progress, Accessed, StoreDone
<1>8. CASE LoadDone
  <2>1. /\ ~Abstract!Sampled(line) /\ Abstract!Readable(line) /\ memory_result = Loaded
        /\ mem = before.mem /\ index = before.index
    BY <1>1, <1>8, SameMemory DEF LoadDone, MemoryKept, Abstract!Readable
  <2>2. memory_result = Abstract!Content(line)
    BY <1>1, <1>2, <2>1, Commits, ContentLoaded
  <2>3. gpr' = Written(before.gpr, line.rd, IF line.op = "lwpd"
                         THEN Protected(Abstract!Content(line) % Data, 0, SIG_LOW) ELSE Abstract!Content(line))
    BY <1>5, <1>6, <2>2
  <2>4. pc' = before.pc + 4 /\ mem' = before.mem /\ index' = before.index
    BY <1>4, <2>1, Commits
  <2> QED  BY <1>5, <2>1, <2>3, <2>4, Commits, SameNumbers, SameRegisters
           DEF Abstract!Load, Abstract!Sets, Abstract!Sequel, Abstract!Mode
<1>9. CASE SampleDone
  <2>1. /\ Abstract!Sampled(line) /\ line.op = "lwpd" /\ mem = before.mem
        /\ IF address = AudioIn
           THEN /\ memory_result = Sample(audio_samples, before.index.audio)
                /\ index = [before.index EXCEPT !.audio = NextIndex(audio_samples, @)]
           ELSE /\ memory_result = Sample(image_samples, before.index.image)
                /\ index = [before.index EXCEPT !.image = NextIndex(image_samples, @)]
    BY <1>1, <1>9 DEF SampleDone, Abstract!Sampled
  <2>2. pc' = before.pc + 4 /\ mem' = before.mem /\ index' = index
    BY <1>4, <2>1, Commits
  <2>3. gpr' = Written(before.gpr, line.rd, Protected(memory_result % Data, 0, SIG_LOW))
    BY <1>5, <1>6, <2>1
  <2>4. CASE address = AudioIn
    BY <1>1, <1>5, <2>1, <2>2, <2>3, <2>4, Commits, SameNumbers, SameRegisters, SameMemory
       DEF Abstract!LoadSample, Abstract!Sequel, Abstract!Mode
  <2>5. CASE address # AudioIn
    BY <1>1, <1>5, <2>1, <2>2, <2>3, <2>5, Commits, SameNumbers, SameRegisters, SameMemory
       DEF Abstract!LoadSample, Abstract!Sequel, Abstract!Mode
  <2> QED  BY <2>4, <2>5
<1> QED  BY <1>7, <1>8, <1>9

LEMMA StoreTable ==
  ASSUME NEW op, op \in DOMAIN Abstract!Stores \ DOMAIN Abstract!FloatStores,
         NEW f, f = S_type_instruction_encoding_map[op][2]
  PROVE  /\ op \in DOMAIN S_type_instruction_encoding_map
         /\ f \in 0 .. 3
         /\ op = "sw" <=> f = 2
         /\ Abstract!Stores[op] = <<1, 2, 4, 8, 1, 2, 4, 8>>[f + 1]
         /\ op \notin DOMAIN Abstract!FloatLoads
BY DEF Abstract!Stores, Abstract!FloatStores, Abstract!FloatLoads, S_type_instruction_encoding_map

LEMMA Storing ==
  ASSUME Before, phase \in {"memory", "writeback"}, line.op \in DOMAIN Abstract!Stores \ DOMAIN Abstract!FloatStores,
         Seen = before
  PROVE  /\ w.opcode = kStoreType /\ w.rs2 = line.rs2
         /\ address = Abstract!Address(line)
         /\ Width = Abstract!Stores[line.op]
         /\ ~control.reg_write /\ ~control.mem_read /\ control.mem_write
         /\ ToLog = Abstract!Logged(line) /\ ~FromStream
<1>1. InFlight
  BY DEF InFlight
<1>2. /\ w.opcode = kStoreType /\ w.rs1 = line.rs1 /\ w.rs2 = line.rs2 /\ ImmGenerator(w) = line.imm
      /\ w.funct3 = S_type_instruction_encoding_map[line.op][2]
  BY <1>1, Flying, StoreTable, StoreDecoded DEF Before
<1>3. ~control.reg_write /\ ~control.mem_read /\ control.mem_write
  BY <1>1, <1>2, Flying, SignalsOf DEF Before
<1>4. Form = "integer" /\ address = (Register(before.gpr, w.rs1) + ImmGenerator(w)) % Full
  BY <1>2, Accessing
<1>5. address = Abstract!Address(line)
  BY <1>2, <1>4, SameRegisters, SameNumbers DEF Abstract!Address, Abstract!X
<1>6. line.op = "sw" <=> w.funct3 = 2
  BY <1>2, StoreTable
<1>7. Width = Abstract!Stores[line.op]
  BY <1>2, <1>4, StoreTable DEF Width
<1>8. ToLog = Abstract!Logged(line) /\ ~FromStream
  BY <1>3, <1>4, <1>5, <1>6 DEF FromStream, ToLog, Abstract!Logged
<1> QED  BY <1>2, <1>3, <1>5, <1>7, <1>8

LEMMA CommitIntegerStore ==
  ASSUME Before, WritesBack, line.op \in DOMAIN Abstract!Stores \ DOMAIN Abstract!FloatStores
  PROVE  Abstract!IntegerStore(line)
<1>1. /\ w.opcode = kStoreType /\ w.rs2 = line.rs2
      /\ address = Abstract!Address(line) /\ Width = Abstract!Stores[line.op]
      /\ ~control.reg_write /\ ~control.mem_read /\ control.mem_write
      /\ ToLog = Abstract!Logged(line) /\ ~FromStream
  BY Commits, Storing
<1>2. Form = "integer" /\ ~Ecall(w) /\ Accesses /\ gpr = before.gpr
  BY <1>1, Commits, Accessing
<1>3. w.opcode \notin {kFtype, kflw, kfsw, kSystem, kjalr, kjal, kBtype, kauipc}
  BY <1>1 DEF kStoreType, kFtype, kflw, kfsw, kSystem, kjalr, kjal, kBtype, kauipc
<1>4. pc = before.pc + 4
  BY <1>3, IntegerCommits DEF IntegerDone, Destination
<1>5. gpr' = before.gpr /\ fpr' = before.fpr /\ csr' = before.csr /\ host' \in {before.host, 0}
  BY <1>1, <1>3, IntegerCommits
<1>6. StoreDone \/ (ToLog /\ MemoryKept)
  BY <1>1, <1>2, Commits DEF Before, Progress, Accessed, LoadDone, SampleDone
<1>7. Abstract!Integer(line)
  BY StoreTable DEF Abstract!Integer
<1>8. Gpr(w.rs2) = Abstract!X(line.rs2)
  BY <1>1, <1>2, Commits, SameRegisters DEF Gpr, Abstract!X
<1>9. /\ ToLog \/ InRange(address, Width)
      /\ mem = IF ToLog THEN before.mem ELSE Stored(before.mem, address, Width, Gpr(w.rs2))
      /\ index = before.index
  BY <1>2, <1>6 DEF StoreDone, MemoryKept
<1>10. Abstract!Logged(line) \/ Abstract!InRange(Abstract!Address(line), Abstract!Stores[line.op])
  BY <1>1, <1>9, SameMemory
<1>11. mem' = IF Abstract!Logged(line) THEN before.mem
              ELSE Abstract!Stored(before.mem, Abstract!Address(line), Abstract!Stores[line.op], Abstract!X(line.rs2))
  BY <1>1, <1>8, <1>9, SameMemory, Commits
<1>12. pc' = before.pc + 4 /\ index' = before.index
  BY <1>4, <1>9, Commits
<1> QED  BY <1>5, <1>7, <1>10, <1>11, <1>12, Commits
         DEF Abstract!IntegerStore, Abstract!Store, Abstract!Sequel, Abstract!Mode

----------------------------------------------------------------------------
(* The floating-point units.                                               *)

LEMMA FloatExecuted ==
  ASSUME Before, phase \in {"memory", "writeback"}, Unit(w) # "none"
  PROVE  /\ InFlight /\ ~Ecall(w) /\ gpr = before.gpr /\ fpr = before.fpr
         /\ pc = before.pc + 4
         /\ \E h \in {before.host, 0} :
              /\ h \in 0 .. 3
              /\ execution_result = Outcome(h).value
              /\ host = Outcome(h).host
              /\ csr = IF Unit(w) = "double" THEN before.csr
                       ELSE [before.csr EXCEPT ![kFcsr] = Outcome(h).flags]
<1>1. InFlight
  BY DEF InFlight
<1>2. w.opcode # kSystem
  BY IntegerUnit DEF kSystem, kFtype, kflw, kfsw
<1>3. ~Ecall(w)
  BY <1>2 DEF Ecall
<1>4. gpr = before.gpr /\ fpr = before.fpr /\ FloatDone
  BY <1>2, <1>3 DEF Before, Progress, Executed, IntegerDone, CsrDone
<1>5. before.host \in 0 .. 3
  BY <1>1 DEF Before, Recalled
<1> QED  BY <1>1, <1>3, <1>4, <1>5 DEF FloatDone

(* The operands in their types, and the third read by one operation only.  *)
LEMMA FloatGiven ==
  ASSUME Before, phase \in {"memory", "writeback"}, Unit(w) # "none", NEW h \in 0 .. 3
  PROVE  /\ FloatOperand1 \in Registers /\ FloatOperand2 \in Registers /\ ModeBefore \in 0 .. 255
         /\ Fpr(w.funct7 \div 4) \in Registers
         /\ <<Unit(w), GetAluSignal(w)>> \in FloatingOps
         /\ GetAluSignal(w) # "VDOTP_BF16" =>
              Outcome(h) = FpExecute(Unit(w), GetAluSignal(w), FloatOperand1, FloatOperand2, 0, ModeBefore, h)
         /\ GetAluSignal(w) \in OneOperand => \A other \in Registers :
              Outcome(h) = FpExecute(Unit(w), GetAluSignal(w), FloatOperand1, other, 0, ModeBefore, h)
<1>1. InFlight
  BY DEF InFlight
<1>2. w \in Instructions
  BY <1>1, Flying DEF Before
<1>3. gpr \in [Gprs -> Registers] /\ fpr \in [Fprs -> Registers]
  BY DEF Before, Typed, TypeOK
<1>4. \A r : Gpr(r) \in Registers /\ Fpr(r) \in Registers
  BY <1>3, RegisterType DEF Gpr, Fpr
<1>5. ImmGenerator(w) % Full \in Registers
  BY <1>2, ImmediateInt, RegisterOf
<1>6. FloatOperand1 \in Registers /\ FloatOperand2 \in Registers
  BY <1>4, <1>5 DEF FloatOperand1, FloatOperand2
<1>7. ModeBefore \in 0 .. 255
  <2>1. before.csr \in [Csrs -> Registers]
    BY <1>1 DEF Before, Recalled
  <2>2. before.csr[kFrm] \in Int
    BY <2>1, MachineAssumption, Sizes DEF kFrm, Registers
  <2>3. before.csr[kFrm] % 256 \in 0 .. 255
    BY <2>2
  <2>4. w.funct3 \in 0 .. 255
    BY <1>2 DEF Instructions
  <2> QED  BY <2>3, <2>4 DEF ModeBefore
<1>8. <<Unit(w), GetAluSignal(w)>> \in FloatingOps
  BY <1>2, FloatingOp
<1> DEFINE u == <<Unit(w), GetAluSignal(w)>>
<1>9. u[1] = Unit(w) /\ u[2] = GetAluSignal(w)
  OBVIOUS
<1> HIDE DEF u
<1>10. u \in FloatingOps
  BY <1>8 DEF u
<1>11. Fpr(w.funct7 \div 4) \in Registers
  BY <1>4
<1> DEFINE a == FloatOperand1
           b == FloatOperand2
           c == Fpr(w.funct7 \div 4)
           rm == ModeBefore
           zero == 0
           words == Registers
           modes == 0 .. 255
<1>12. FloatUnitsFor(words, modes)
  BY DEF Before, Units, UnitsFor
<1>13. a \in words /\ b \in words /\ c \in words /\ rm \in modes /\ zero \in words
  BY <1>6, <1>7, <1>11, Sizes DEF Registers
<1>14. Outcome(h) = FpExecute(u[1], u[2], a, b, c, rm, h)
  BY <1>9 DEF Outcome
<1>15. u[2] # "VDOTP_BF16" => FpExecute(u[1], u[2], a, b, c, rm, h) = FpExecute(u[1], u[2], a, b, zero, rm, h)
  <2> HIDE DEF a, b, c, rm, zero, words, modes
  <2> QED  BY <1>10, <1>12, <1>13, SMTT(60) DEF FloatUnitsFor
<1>16. u[2] \in OneOperand => \A other \in words :
         FpExecute(u[1], u[2], a, b, zero, rm, h) = FpExecute(u[1], u[2], a, other, zero, rm, h)
  <2> HIDE DEF a, b, c, rm, zero, words, modes
  <2>1. u[2] \in OneOperand => FpExecute(u[1], u[2], a, b, zero, rm, h) = FpExecute(u[1], u[2], a, 0, zero, rm, h)
    BY <1>10, <1>12, <1>13, SMTT(60) DEF FloatUnitsFor
  <2>2. ASSUME NEW other \in words
        PROVE  u[2] \in OneOperand
                 => FpExecute(u[1], u[2], a, other, zero, rm, h) = FpExecute(u[1], u[2], a, 0, zero, rm, h)
    <3>1. a \in words /\ other \in words /\ zero \in words /\ rm \in modes
      BY <1>13, <2>2
    <3> QED  BY <1>10, <1>12, <3>1 DEF FloatUnitsFor
  <2> QED  BY <2>1, <2>2
<1>17. u[2] \in OneOperand => u[2] # "VDOTP_BF16"
  BY DEF OneOperand
<1> QED  BY <1>6, <1>7, <1>8, <1>9, <1>11, <1>14, <1>15, <1>16, <1>17

(* flw, fld, fsw and fsd: funct3 is 2 or 3, and the address a sum.         *)
LEMMA FloatAccessing ==
  ASSUME Before, phase \in {"memory", "writeback"}, w.opcode \in {kflw, kfsw}, w.funct3 \in {2, 3},
         NEW unit, unit = IF w.funct3 = 2 THEN "float" ELSE "double"
  PROVE  /\ InFlight /\ ~Ecall(w) /\ Form = unit /\ Unit(w) = unit /\ Accesses
         /\ gpr = before.gpr /\ fpr = before.fpr /\ pc = before.pc + 4
         /\ Width = IF unit = "float" THEN 4 ELSE 8
         /\ address = (Register(before.gpr, w.rs1) + ImmGenerator(w)) % Full
         /\ \E h \in {before.host, 0} :
              LET f == FpExecute(unit, "kAdd", Register(before.gpr, w.rs1), ImmGenerator(w) % Full, 0, w.funct3, h)
              IN  /\ host = f.host
                  /\ csr = IF unit = "double" THEN before.csr ELSE [before.csr EXCEPT ![kFcsr] = f.flags]
<1>1. /\ Unit(w) = unit /\ Unit(w) # "none" /\ Form = unit
  BY AccessUnit DEF Form
<1>2. InFlight /\ ~Ecall(w) /\ gpr = before.gpr /\ fpr = before.fpr /\ pc = before.pc + 4
  BY <1>1, FloatExecuted
<1>3. control.alu_src /\ (control.mem_read \/ control.mem_write)
  BY <1>2, Flying, SignalsOf DEF Before
<1>4. PICK h \in {before.host, 0} :
        /\ h \in 0 .. 3
        /\ execution_result = Outcome(h).value
        /\ host = Outcome(h).host
        /\ csr = IF Unit(w) = "double" THEN before.csr
                 ELSE [before.csr EXCEPT ![kFcsr] = Outcome(h).flags]
  BY <1>1, FloatExecuted
<1> DEFINE a == Register(before.gpr, w.rs1)
           b == ImmGenerator(w) % Full
<1>5. FloatOperand1 = a /\ FloatOperand2 = b /\ ModeBefore = w.funct3
  <2>1. Gpr(w.rs1) = a
    BY <1>2 DEF Gpr
  <2>2. FloatOperand1 = a
    BY <2>1 DEF FloatOperand1, FromGpr
  <2>3. FloatOperand2 = b
    BY <1>3 DEF FloatOperand2
  <2>4. ModeBefore = w.funct3
    BY DEF ModeBefore
  <2> QED  BY <2>2, <2>3, <2>4
<1>6. GetAluSignal(w) = "kAdd"
  BY SignalOf
<1>7. /\ a \in Registers /\ b \in Registers /\ w.funct3 \in 0 .. 255 /\ <<unit, "kAdd">> \in FloatingOps
      /\ Outcome(h) = FpExecute(unit, "kAdd", a, b, 0, w.funct3, h)
  BY <1>1, <1>4, <1>5, <1>6, FloatGiven
<1>8. ImmGenerator(w) \in Int
  BY <1>2, Flying, ImmediateInt DEF Before
<1>9. Outcome(h).value = (a + b) % Full
  <2> DEFINE u == <<unit, "kAdd">>
             words == Registers
             modes == 0 .. 255
             zero == 0
             rm == w.funct3
  <2>1. u[1] = unit /\ u[2] = "kAdd" /\ u \in FloatingOps
    BY <1>7
  <2>2. zero \in words /\ a \in words /\ b \in words /\ rm \in modes
    BY <1>7, Sizes DEF Registers
  <2>3. FloatUnitsFor(words, modes)
    BY DEF Before, Units, UnitsFor
  <2>4. Outcome(h) = FpExecute(u[1], u[2], a, b, zero, rm, h)
    BY <1>7, <2>1
  <2> HIDE DEF u, a, b, words, modes, zero, rm
  <2>5. u[2] = "kAdd" => FpExecute(u[1], u[2], a, b, zero, rm, h).value = (a + b) % Full
    BY <1>4, <2>1, <2>2, <2>3 DEF FloatUnitsFor
  <2> QED  BY <2>1, <2>4, <2>5
<1>10. execution_result = (a + ImmGenerator(w)) % Full
  <2>1. a \in Int
    BY <1>7, Sizes DEF Registers
  <2> HIDE DEF a
  <2>2. (a + b) % Full = (a + ImmGenerator(w)) % Full
    BY <1>8, <2>1, Sums
  <2> QED  BY <1>4, <1>9, <2>2
<1>11. Width = IF unit = "float" THEN 4 ELSE 8
  BY <1>1 DEF Width
<1>12. Accesses
  BY <1>2, <1>3 DEF Accesses
<1> QED  BY <1>1, <1>2, <1>4, <1>7, <1>10, <1>11, <1>12 DEF address

LEMMA FloatCommits ==
  ASSUME Before, WritesBack, Form # "integer", w.opcode # kSystem
  PROVE  /\ gpr' = IF ResultToGpr THEN Written(gpr, w.rd, FloatWrittenBack) ELSE gpr
         /\ fpr' = IF ResultToFpr THEN [fpr EXCEPT ![w.rd] = FloatWrittenBack] ELSE fpr
         /\ csr' = csr /\ host' = host
<1>1. ~Ecall(w)
  BY DEF Ecall
<1>2. WriteBackFloat
  BY <1>1 DEF WritesBack, WriteBackInteger, WriteBackCsr, WriteBackNothing
<1> QED  BY <1>2, Commits DEF WriteBackFloat

(* The unit computes the address, with the number in the place of a mode.  *)
LEMMA AddressedAs ==
  ASSUME Before, WritesBack, w.opcode \in {kflw, kfsw}, w.funct3 \in {2, 3},
         NEW unit, unit = IF w.funct3 = 2 THEN "float" ELSE "double",
         w.rs1 = line.rs1, ImmGenerator(w) = line.imm
  PROVE  Abstract!Addressed(line, unit) /\ address = Abstract!Address(line)
<1>1. /\ address = (Register(before.gpr, w.rs1) + ImmGenerator(w)) % Full
      /\ Form = unit
      /\ \E h \in {before.host, 0} :
           LET f == FpExecute(unit, "kAdd", Register(before.gpr, w.rs1), ImmGenerator(w) % Full, 0, w.funct3, h)
           IN  /\ host = f.host
               /\ csr = IF unit = "double" THEN before.csr ELSE [before.csr EXCEPT ![kFcsr] = f.flags]
  BY Commits, FloatAccessing
<1>2. csr' = csr /\ host' = host
  <2>1. Form # "integer" /\ w.opcode # kSystem
    BY <1>1 DEF kflw, kfsw, kSystem
  <2> QED  BY <2>1, FloatCommits
<1>3. w.funct3 = IF unit = "float" THEN 2 ELSE 3
  OBVIOUS
<1>4. address = Abstract!Address(line)
  BY <1>1, Commits, SameRegisters, SameNumbers DEF Abstract!Address, Abstract!X
<1>5. Abstract!Addressed(line, unit)
  BY <1>1, <1>2, <1>3, Commits, SameRegisters, SameNumbers DEF Abstract!Addressed, Abstract!X, Abstract!Mode
<1> QED  BY <1>4, <1>5

LEMMA CommitFloatStore ==
  ASSUME Before, WritesBack, line.op \in DOMAIN Abstract!FloatStores
  PROVE  Abstract!FloatStore(line)
<1>1. /\ w.opcode = kfsw /\ w.rs1 = line.rs1 /\ w.rs2 = line.rs2 /\ ImmGenerator(w) = line.imm
      /\ w.funct3 = IF line.op = "fsw" THEN 2 ELSE 3
  BY Commits, Flying, FloatStoreDecoded DEF Before
<1>2. line.op \in {"fsw", "fsd"}
  BY DEF Abstract!FloatStores
<1> DEFINE unit == IF w.funct3 = 2 THEN "float" ELSE "double"
<1>3. w.funct3 \in {2, 3} /\ unit = Abstract!FloatStores[line.op] /\ unit \in {"float", "double"}
      /\ Abstract!Stores[line.op] = IF unit = "float" THEN 4 ELSE 8
  BY <1>1, <1>2 DEF Abstract!FloatStores, Abstract!Stores
<1> HIDE DEF unit
<1>4. unit = IF w.funct3 = 2 THEN "float" ELSE "double"
  BY DEF unit
<1>5. Abstract!Addressed(line, unit) /\ address = Abstract!Address(line)
  BY <1>1, <1>3, <1>4, AddressedAs
<1>6. /\ InFlight /\ ~Ecall(w) /\ Form = unit /\ Accesses
      /\ gpr = before.gpr /\ fpr = before.fpr /\ pc = before.pc + 4
      /\ Width = IF unit = "float" THEN 4 ELSE 8
  BY <1>1, <1>3, <1>4, Commits, FloatAccessing
<1>7. ~control.reg_write /\ ~control.mem_read /\ control.mem_write
  <2>1. control = SetControlSignals(w)
    BY Commits, Flying DEF Before
  <2> QED  BY <1>1, <2>1, SignalsOf
<1>8. Form # "integer"
  BY <1>3, <1>6
<1>9. gpr' = before.gpr /\ fpr' = before.fpr
  <2>1. w.opcode # kSystem
    BY <1>1 DEF kfsw, kSystem
  <2> QED  BY <1>6, <1>7, <1>8, <2>1, FloatCommits DEF ResultToGpr, ResultToFpr
<1>10. ~ToLog /\ ~FromStream
  BY <1>8 DEF ToLog, FromStream
<1>11. StoreDone
  BY <1>6, <1>7, <1>10, Commits DEF Before, Progress, Accessed, LoadDone, SampleDone
<1>12. /\ InRange(address, Width) /\ index = before.index
       /\ mem = Stored(before.mem, address, Width, Fpr(w.rs2))
  BY <1>8, <1>11 DEF StoreDone
<1>13. Fpr(w.rs2) = Abstract!F(line.rs2)
  BY <1>1, <1>6, Commits, SameRegisters DEF Fpr, Abstract!F
<1>14. ~Abstract!Integer(line) /\ ~Abstract!Logged(line) /\ line.op \in DOMAIN Abstract!Stores
  BY <1>2 DEF Abstract!Integer, Abstract!Logged, Abstract!FloatStores, Abstract!FloatLoads, Abstract!Stores
<1>15. Abstract!InRange(Abstract!Address(line), Abstract!Stores[line.op])
  BY <1>3, <1>5, <1>6, <1>12, SameMemory
<1>16. mem' = Abstract!Stored(before.mem, Abstract!Address(line), Abstract!Stores[line.op], Abstract!F(line.rs2))
  BY <1>3, <1>5, <1>6, <1>12, <1>13, SameMemory, Commits
<1>17. Abstract!Store(line)
  BY <1>6, <1>9, <1>12, <1>14, <1>15, <1>16, Commits DEF Abstract!Store, Abstract!Sequel
<1> QED  BY <1>3, <1>5, <1>14, <1>17 DEF Abstract!FloatStore

LEMMA FloatContentLoaded ==
  ASSUME line.op \in DOMAIN Abstract!FloatLoads, Seen.mem = mem,
         Form = Abstract!FloatLoads[line.op], address = Abstract!Address(line)
  PROVE  Loaded = Abstract!Content(line)
<1>1. /\ Abstract!ReadWord(Seen.mem, Abstract!Address(line)) = ReadWord(mem, address)
      /\ Abstract!ReadDoubleWord(Seen.mem, Abstract!Address(line)) = ReadDoubleWord(mem, address)
  BY SameMemory
<1>2. CASE line.op = "flw"
  <2>1. Abstract!Loads["flw"].n = 4 /\ Abstract!Loads["flw"].sign = 0 /\ Abstract!FloatLoads["flw"] = "float"
    BY DEF Abstract!Loads, Abstract!FloatLoads
  <2>2. Loaded = ReadWord(mem, address)
    BY <1>2, <2>1 DEF Loaded
  <2>3. Abstract!Content(line) = Abstract!ReadWord(Seen.mem, Abstract!Address(line))
    BY <1>2, <2>1 DEF Abstract!Content
  <2> QED  BY <1>1, <2>2, <2>3
<1>3. CASE line.op = "fld"
  <2>1. Abstract!Loads["fld"].n = 8 /\ Abstract!Loads["fld"].sign = 0 /\ Abstract!FloatLoads["fld"] = "double"
    BY DEF Abstract!Loads, Abstract!FloatLoads
  <2>2. Loaded = ReadDoubleWord(mem, address)
    BY <1>3, <2>1 DEF Loaded
  <2>3. Abstract!Content(line) = Abstract!ReadDoubleWord(Seen.mem, Abstract!Address(line))
    BY <1>3, <2>1 DEF Abstract!Content
  <2> QED  BY <1>1, <2>2, <2>3
<1> QED  BY <1>2, <1>3 DEF Abstract!FloatLoads

(* An offset may send the address, not the content, to a general register. *)
LEMMA CommitFloatLoad ==
  ASSUME Before, WritesBack, line.op \in DOMAIN Abstract!FloatLoads
  PROVE  Abstract!FloatLoad(line)
<1>1. /\ w.opcode = kflw /\ w.rd = line.rd /\ w.rs1 = line.rs1 /\ ImmGenerator(w) = line.imm
      /\ w.funct3 = IF line.op = "flw" THEN 2 ELSE 3
      /\ w.funct7 = (line.imm % 4096) \div 32
  BY Commits, Flying, FloatLoadDecoded DEF Before
<1>2. line.op \in {"flw", "fld"}
  BY DEF Abstract!FloatLoads
<1> DEFINE unit == IF w.funct3 = 2 THEN "float" ELSE "double"
<1>3. w.funct3 \in {2, 3} /\ unit = Abstract!FloatLoads[line.op] /\ unit \in {"float", "double"}
      /\ (unit = "float" <=> line.op = "flw")
      /\ Abstract!Loads[line.op].n = IF unit = "float" THEN 4 ELSE 8
  BY <1>1, <1>2 DEF Abstract!FloatLoads, Abstract!Loads
<1> HIDE DEF unit
<1>4. unit = IF w.funct3 = 2 THEN "float" ELSE "double"
  BY DEF unit
<1>5. Abstract!Addressed(line, unit) /\ address = Abstract!Address(line)
  BY <1>1, <1>3, <1>4, AddressedAs
<1>6. /\ InFlight /\ ~Ecall(w) /\ Form = unit /\ Accesses
      /\ gpr = before.gpr /\ fpr = before.fpr /\ pc = before.pc + 4
      /\ Width = IF unit = "float" THEN 4 ELSE 8
  BY <1>1, <1>3, <1>4, Commits, FloatAccessing
<1>7. control.reg_write /\ control.mem_read /\ ~control.mem_write
  <2>1. control = SetControlSignals(w)
    BY Commits, Flying DEF Before
  <2> QED  BY <1>1, <2>1, SignalsOf
<1>8. Form # "integer"
  BY <1>3, <1>6
<1>9. ~ToLog /\ ~FromStream
  BY <1>8 DEF ToLog, FromStream
<1>10. LoadDone
  BY <1>6, <1>7, <1>9, Commits DEF Before, Progress, Accessed, StoreDone, SampleDone
<1>11. InRange(address, Width) /\ memory_result = Loaded /\ mem = before.mem /\ index = before.index
  BY <1>10 DEF LoadDone, MemoryKept
<1>12. memory_result = Abstract!Content(line)
  BY <1>3, <1>5, <1>6, <1>11, Commits, FloatContentLoaded
<1>13. Abstract!Readable(line) /\ Abstract!Misdirected(line) = (w.funct7 \in GprResults)
  <2>1. Abstract!Readable(line)
    BY <1>3, <1>5, <1>6, <1>11, SameMemory DEF Abstract!Readable
  <2>2. Abstract!Misdirected(line) = (w.funct7 \in GprResults)
    BY <1>1, <1>3, <1>6 DEF Abstract!Misdirected, GprResults
  <2> QED  BY <2>1, <2>2
<1>14. IF w.funct7 \in GprResults
       THEN gpr' = Written(before.gpr, line.rd, address) /\ fpr' = before.fpr
       ELSE fpr' = [before.fpr EXCEPT ![line.rd] = memory_result] /\ gpr' = before.gpr
  <2>1. w.opcode # kSystem
    BY <1>1 DEF kflw, kSystem
  <2> QED  BY <1>1, <1>6, <1>7, <1>8, <2>1, FloatCommits DEF ResultToGpr, ResultToFpr, FloatWrittenBack, address
<1>15. pc' = before.pc + 4 /\ mem' = before.mem /\ index' = before.index
  BY <1>6, <1>11, Commits
<1>16. IF Abstract!Misdirected(line)
       THEN gpr' = Abstract!Written(before.gpr, line.rd, Abstract!Address(line)) /\ fpr' = before.fpr
       ELSE fpr' = [before.fpr EXCEPT ![line.rd] = Abstract!Content(line)] /\ gpr' = before.gpr
  BY <1>5, <1>12, <1>13, <1>14, SameRegisters
<1> QED  BY <1>3, <1>5, <1>13, <1>15, <1>16, Commits DEF Abstract!FloatLoad, Abstract!Sequel

LEMMA FloatRouted ==
  ASSUME FloatWord(line, w)
  PROVE  /\ Unit(w) = Abstract!FloatOps[line.op][1] /\ Unit(w) # "none"
         /\ Form \in {"float", "double"}
         /\ FromGpr <=> line.op \in Abstract!FromX
         /\ w.funct7 \in GprResults <=> line.op \in Abstract!ToX
<1> DEFINE unit == Abstract!FloatOps[line.op][1]
<1>1. unit \in {"float", "double", "bfloat16", "simdf32"}
  BY DEF FloatWord, Abstract!FloatOps, Abstract!Arith
<1>2. w.opcode = kFtype /\ w.funct7 \in FloatGroups[unit]
      /\ (line.op \in Abstract!FromX <=> w.funct7 \in {104, 105, 120, 121})
      /\ (line.op \in Abstract!ToX <=> w.funct7 \in {80, 81, 96, 97, 112, 113})
  BY DEF FloatWord
<1> HIDE DEF unit
<1>3. w.opcode \notin {kflw, kfsw}
  BY <1>2 DEF kFtype, kflw, kfsw
<1>4. CASE unit = "float"
  <2>1. w.funct7 \in {0, 4, 8, 12, 16, 20, 44, 80, 96, 104, 112, 120}
    BY <1>2, <1>4 DEF FloatGroups
  <2>2. Unit(w) = "float" /\ Form = "float"
    BY <1>2, <2>1, ArithmeticUnit DEF Form
  <2> QED  BY <1>2, <1>3, <1>4, <2>1, <2>2 DEF FromGpr, GprResults, unit
<1>5. CASE unit = "double"
  <2>1. w.funct7 \in {1, 5, 9, 13, 17, 21, 32, 33, 45, 81, 97, 105, 113, 121}
    BY <1>2, <1>5 DEF FloatGroups
  <2>2. Unit(w) = "double" /\ Form = "double"
    BY <1>2, <2>1, ArithmeticUnit DEF Form
  <2> QED  BY <1>2, <1>3, <1>5, <2>1, <2>2 DEF FromGpr, GprResults, unit
<1>6. CASE unit = "bfloat16"
  <2>1. w.funct7 \in {2, 6, 10, 14, 18}
    BY <1>2, <1>6 DEF FloatGroups
  <2>2. Unit(w) = "bfloat16" /\ Form = "float"
    BY <1>2, <2>1, ArithmeticUnit DEF Form
  <2> QED  BY <1>2, <1>3, <1>6, <2>1, <2>2 DEF FromGpr, GprResults, unit
<1>7. CASE unit = "simdf32"
  <2>1. w.funct7 \in {3, 7, 11, 15, 19, 23}
    BY <1>2, <1>7 DEF FloatGroups
  <2>2. Unit(w) = "simdf32" /\ Form = "double"
    BY <1>2, <2>1, ArithmeticUnit DEF Form
  <2> QED  BY <1>2, <1>3, <1>7, <2>1, <2>2 DEF FromGpr, GprResults, unit
<1> QED  BY <1>1, <1>4, <1>5, <1>6, <1>7

(* The unit is given the operands that the mnemonic calls for.             *)
LEMMA FloatOutcomes ==
  ASSUME Before, phase \in {"memory", "writeback"}, FloatWord(line, w), Seen = before, NEW h \in 0 .. 3,
         NEW unit, unit = Abstract!FloatOps[line.op][1],
         NEW op, op = Abstract!FloatOps[line.op][2],
         NEW rm,
         rm = IF Abstract!FloatOps[line.op][3] = Abstract!Dynamic THEN line.rm ELSE Abstract!FloatOps[line.op][3]
  PROVE  Outcome(h) =
           FpExecute(unit, op, IF line.op \in Abstract!FromX THEN Abstract!X(line.rs1) ELSE Abstract!F(line.rs1),
                     Abstract!F(line.rs2), IF op = "VDOTP_BF16" THEN Abstract!F(4) ELSE 0,
                     IF rm = 7 /\ unit # "double" THEN before.csr[kFrm] % 256 ELSE rm, h)
<1> DEFINE a == IF line.op \in Abstract!FromX THEN Abstract!X(line.rs1) ELSE Abstract!F(line.rs1)
           b == Abstract!F(line.rs2)
           m == IF rm = 7 /\ unit # "double" THEN before.csr[kFrm] % 256 ELSE rm
<1>1. /\ w.opcode = kFtype /\ w.rs1 = line.rs1 /\ GetAluSignal(w) = op
      /\ w.rs2 = line.rs2 \/ op \in OneOperand
      /\ w.funct3 = rm
      /\ op = "VDOTP_BF16" => w.funct7 = 18
  BY DEF FloatWord
<1>2. Unit(w) = unit /\ Unit(w) # "none" /\ (FromGpr <=> line.op \in Abstract!FromX)
  BY FloatRouted
<1>3. gpr = before.gpr /\ fpr = before.fpr /\ InFlight
  BY <1>2, FloatExecuted
<1>4. \A r : Gpr(r) = Abstract!X(r) /\ Fpr(r) = Abstract!F(r)
  BY <1>3, SameRegisters DEF Gpr, Fpr, Abstract!X, Abstract!F
<1>5. ~control.alu_src
  <2>1. control = SetControlSignals(w)
    BY <1>3, Flying DEF Before
  <2> QED  BY <1>1, <2>1, SignalsOf
<1>6. FloatOperand1 = a /\ FloatOperand2 = Fpr(w.rs2) /\ ModeBefore = m
  <2>1. FloatOperand1 = a
    BY <1>1, <1>2, <1>4 DEF FloatOperand1
  <2>2. ModeBefore = m
    BY <1>1, <1>2 DEF ModeBefore
  <2> QED  BY <1>5, <2>1, <2>2 DEF FloatOperand2
<1>7. Outcome(h) = FpExecute(unit, op, a, Fpr(w.rs2), Fpr(w.funct7 \div 4), m, h)
  BY <1>1, <1>2, <1>6 DEF Outcome
<1>8. b \in Registers
  <2>1. fpr \in [Fprs -> Registers]
    BY DEF Before, Typed, TypeOK
  <2> QED  BY <1>3, <2>1, RegisterType, SameRegisters DEF Abstract!F
<1>9. /\ op # "VDOTP_BF16" => Outcome(h) = FpExecute(unit, op, a, Fpr(w.rs2), 0, m, h)
      /\ op \in OneOperand => Outcome(h) = FpExecute(unit, op, a, b, 0, m, h)
  <2> HIDE DEF a, b, m
  <2> QED  BY <1>1, <1>2, <1>6, <1>8, FloatGiven
<1>10. op = "VDOTP_BF16" => op \notin OneOperand
  BY DEF OneOperand
<1>11. op = "VDOTP_BF16" => Fpr(w.funct7 \div 4) = Abstract!F(4)
  BY <1>1, <1>4
<1>12. w.rs2 = line.rs2 => Fpr(w.rs2) = b
  BY <1>4
<1> HIDE DEF a, b, m
<1>13. Outcome(h) = FpExecute(unit, op, a, b, IF op = "VDOTP_BF16" THEN Abstract!F(4) ELSE 0, m, h)
  <2>1. CASE op = "VDOTP_BF16"
    BY <1>1, <1>7, <1>10, <1>11, <1>12, <2>1
  <2>2. CASE op # "VDOTP_BF16"
    BY <1>1, <1>9, <1>12, <2>2, SMTT(60)
  <2> QED  BY <2>1, <2>2
<1> QED  BY <1>13 DEF a, b, m

LEMMA CommitFloatingPoint ==
  ASSUME Before, WritesBack, line.op \in DOMAIN Abstract!FloatOps
  PROVE  Abstract!FloatingPoint(line)
<1> DEFINE unit == Abstract!FloatOps[line.op][1]
           op == Abstract!FloatOps[line.op][2]
           rm == IF Abstract!FloatOps[line.op][3] = Abstract!Dynamic THEN line.rm ELSE Abstract!FloatOps[line.op][3]
           a == IF line.op \in Abstract!FromX THEN Abstract!X(line.rs1) ELSE Abstract!F(line.rs1)
           c == IF op = "VDOTP_BF16" THEN Abstract!F(4) ELSE 0
           m == IF rm = 7 /\ unit # "double" THEN before.csr[kFrm] % 256 ELSE rm
           f(h) == FpExecute(unit, op, a, Abstract!F(line.rs2), c, m, h)
<1>1. FloatWord(line, w)
  BY Commits, Flying, FloatDecoded DEF Before
<1>2. w.opcode = kFtype /\ w.rd = line.rd
  BY <1>1 DEF FloatWord
<1>3. w.opcode # kSystem /\ w.opcode # kflw
  BY <1>2 DEF kFtype, kSystem, kflw
<1>4. /\ Unit(w) = unit /\ Unit(w) # "none" /\ Form # "integer"
      /\ w.funct7 \in GprResults <=> line.op \in Abstract!ToX
  BY <1>1, FloatRouted
<1>5. /\ InFlight /\ ~Ecall(w) /\ gpr = before.gpr /\ fpr = before.fpr /\ pc = before.pc + 4
  BY <1>4, Commits, FloatExecuted
<1>6. PICK h \in {before.host, 0} :
        /\ h \in 0 .. 3
        /\ execution_result = Outcome(h).value
        /\ host = Outcome(h).host
        /\ csr = IF Unit(w) = "double" THEN before.csr
                 ELSE [before.csr EXCEPT ![kFcsr] = Outcome(h).flags]
  BY <1>4, Commits, FloatExecuted
<1>7. Outcome(h) = f(h)
  BY <1>1, <1>6, Commits, FloatOutcomes
<1>8. control.reg_write /\ ~control.mem_read /\ ~control.mem_write
  <2>1. control = SetControlSignals(w)
    BY Commits, Flying DEF Before
  <2> QED  BY <1>2, <2>1, SignalsOf
<1>9. mem' = before.mem /\ index' = before.index /\ pc' = before.pc + 4
  BY <1>5, <1>8, Commits, NothingAccessed
<1> HIDE DEF f, unit, op
<1>10. /\ gpr' = IF line.op \in Abstract!ToX THEN Written(before.gpr, line.rd, f(h).value) ELSE before.gpr
       /\ fpr' = IF line.op \in Abstract!ToX THEN before.fpr ELSE [before.fpr EXCEPT ![line.rd] = f(h).value]
       /\ csr' = csr /\ host' = host
  <2>1. FloatWrittenBack = f(h).value
    BY <1>3, <1>6, <1>7 DEF FloatWrittenBack
  <2> QED  BY <1>2, <1>3, <1>4, <1>5, <1>8, <2>1, FloatCommits DEF ResultToGpr, ResultToFpr
<1>11. /\ IF line.op \in Abstract!ToX
          THEN gpr' = Abstract!Written(before.gpr, line.rd, f(h).value) /\ fpr' = before.fpr
          ELSE fpr' = [before.fpr EXCEPT ![line.rd] = f(h).value] /\ gpr' = before.gpr
       /\ csr' = IF unit = "double" THEN before.csr ELSE [before.csr EXCEPT ![kFcsr] = f(h).flags]
       /\ host' = f(h).host
  BY <1>4, <1>6, <1>7, <1>10, SameRegisters
<1>12. f(h) = FpExecute(unit, op, a, Abstract!F(line.rs2), c,
                        IF rm = 7 /\ unit # "double" THEN before.csr[Abstract!kFrm] % 256 ELSE rm, h)
  BY SameNumbers DEF f
<1>13. csr' = IF unit = "double" THEN before.csr ELSE [before.csr EXCEPT ![Abstract!kFcsr] = f(h).flags]
  BY <1>11, SameNumbers
<1> DEFINE r == FpExecute(unit, op, a, Abstract!F(line.rs2), c,
                        IF rm = 7 /\ unit # "double" THEN before.csr[Abstract!kFrm] % 256 ELSE rm, h)
<1>14. /\ IF line.op \in Abstract!ToX
          THEN Seen'.gpr = Abstract!Written(Seen.gpr, line.rd, r.value) /\ Seen'.fpr = Seen.fpr
          ELSE Seen'.fpr = [Seen.fpr EXCEPT ![line.rd] = r.value] /\ Seen'.gpr = Seen.gpr
       /\ Seen'.csr = IF unit = "double" THEN Seen.csr ELSE [Seen.csr EXCEPT ![Abstract!kFcsr] = r.flags]
       /\ Seen'.host = r.host
  BY <1>11, <1>12, <1>13, Commits
<1>15. h \in Abstract!Mode /\ Seen'.pc = Seen.pc + 4 /\ Seen'.mem = Seen.mem /\ Seen'.index = Seen.index
  BY <1>6, <1>9, Commits DEF Abstract!Mode
<1>16. \E g \in Abstract!Mode :
         LET v == FpExecute(unit, op, a, Abstract!F(line.rs2), c,
                            IF rm = 7 /\ unit # "double" THEN Seen.csr[Abstract!kFrm] % 256 ELSE rm, g)
         IN  /\ IF line.op \in Abstract!ToX
                THEN Seen'.gpr = Abstract!Written(Seen.gpr, line.rd, v.value) /\ Seen'.fpr = Seen.fpr
                ELSE Seen'.fpr = [Seen.fpr EXCEPT ![line.rd] = v.value] /\ Seen'.gpr = Seen.gpr
             /\ Seen'.csr = IF unit = "double" THEN Seen.csr ELSE [Seen.csr EXCEPT ![Abstract!kFcsr] = v.flags]
             /\ Seen'.host = v.host
  <2>1. r = FpExecute(unit, op, a, Abstract!F(line.rs2), c,
                      IF rm = 7 /\ unit # "double" THEN Seen.csr[Abstract!kFrm] % 256 ELSE rm, h)
    BY Commits
  <2> HIDE DEF r, a, c, rm
  <2> QED  BY <1>14, <1>15, <2>1
<1> QED  BY <1>15, <1>16, Zenon DEF Abstract!FloatingPoint, Abstract!Sequel, unit, op

----------------------------------------------------------------------------
(* CSR instructions, system calls, and the commit of any of them.          *)

LEMMA SystemForm ==
  ASSUME w.opcode = kSystem
  PROVE  Form = "integer" /\ Unit(w) = "none"
<1>1. w.opcode \notin {kFtype, kflw, kfsw}
  BY DEF kSystem, kFtype, kflw, kfsw
<1> QED  BY <1>1, IntegerUnit DEF Form

LEMMA CsrDecoded ==
  ASSUME NEW l, NEW word, WordOf(l, word), l.op \in Abstract!CsrOps
  PROVE  /\ word.opcode = kSystem /\ ~Ecall(word) /\ word.rd = l.rd /\ word.rs1 = l.rs1
         /\ word.rs2 + 32 * word.funct7 = l.imm
         /\ word.funct3 = IF l.op = "csrrw" THEN 1 ELSE IF l.op = "csrrs" THEN 2 ELSE IF l.op = "csrrc" THEN 3
                          ELSE IF l.op = "csrrwi" THEN 5 ELSE IF l.op = "csrrsi" THEN 6 ELSE 7
<1>1. CsrLine(l)
  BY DEF CsrLine, Abstract!CsrOps, CSR_R_type_instruction_encoding_map, CSR_I_type_instruction_encoding_map
<1>2. l.imm \in Numbers12
  <2>1. l.imm \in Csrs
    BY <1>1 DEF WordOf, Accepted, CsrLine
  <2>2. Csrs \subseteq Numbers12
    BY MachineAssumption, SMT DEF Numbers12
  <2> QED  BY <2>1, <2>2, Zenon
<1>3. /\ word.opcode = kSystem /\ word.rd = l.rd /\ word.rs1 = l.rs1
      /\ word.rs2 + 32 * word.funct7 = l.imm
      /\ word.funct3 = IF l.op \in DOMAIN CSR_R_type_instruction_encoding_map
                       THEN CSR_R_type_instruction_encoding_map[l.op][2]
                       ELSE CSR_I_type_instruction_encoding_map[l.op][2]
  BY <1>1, <1>2, CsrWord DEF WordOf
<1>4. word.funct3 = IF l.op = "csrrw" THEN 1 ELSE IF l.op = "csrrs" THEN 2 ELSE IF l.op = "csrrc" THEN 3
                    ELSE IF l.op = "csrrwi" THEN 5 ELSE IF l.op = "csrrsi" THEN 6 ELSE 7
  BY <1>3 DEF Abstract!CsrOps, CSR_R_type_instruction_encoding_map, CSR_I_type_instruction_encoding_map
<1>5. word.funct3 # 0
  BY <1>4
<1> QED  BY <1>3, <1>4, <1>5 DEF Ecall

LEMMA CommitCsr ==
  ASSUME Before, WritesBack, line.op \in Abstract!CsrOps
  PROVE  Abstract!Csr(line)
<1>1. /\ w.opcode = kSystem /\ ~Ecall(w) /\ w.rd = line.rd /\ w.rs1 = line.rs1
      /\ w.rs2 + 32 * w.funct7 = line.imm
      /\ w.funct3 = IF line.op = "csrrw" THEN 1 ELSE IF line.op = "csrrs" THEN 2 ELSE IF line.op = "csrrc" THEN 3
                    ELSE IF line.op = "csrrwi" THEN 5 ELSE IF line.op = "csrrsi" THEN 6 ELSE 7
  BY Commits, Flying, CsrDecoded DEF Before
<1>2. line.op \in {"csrrw", "csrrs", "csrrc", "csrrwi", "csrrsi", "csrrci"}
  BY DEF Abstract!CsrOps
<1>3. Form = "integer" /\ Unit(w) = "none"
  BY <1>1, SystemForm
<1>4. gpr = before.gpr /\ fpr = before.fpr /\ CsrDone
  BY <1>1, <1>3, Commits DEF Before, Progress, Executed, FloatDone, IntegerDone
<1>5. WriteBackCsr
  BY <1>1, <1>3 DEF WritesBack, WriteBackFloat, WriteBackInteger, WriteBackNothing
<1> DEFINE old == before.csr[line.imm]
           x == Register(before.gpr, line.rs1)
<1>6. /\ csr_latch.target = line.imm /\ csr_latch.old = old
      /\ csr_latch.value = x /\ csr_latch.uimm = line.rs1
      /\ csr = before.csr /\ pc = before.pc + 4 /\ host \in {before.host, 0}
  BY <1>1, <1>4 DEF CsrDone, Advanced, Gpr
<1> DEFINE operand == IF w.funct3 > 4 THEN csr_latch.uimm ELSE csr_latch.value
           written == CASE w.funct3 \in {1, 5} -> operand
                        [] w.funct3 \in {2, 6} /\ operand # 0 -> SetBits(csr_latch.old, operand)
                        [] w.funct3 \in {3, 7} /\ operand # 0 -> ClearBits(csr_latch.old, operand)
                        [] OTHER -> csr_latch.old
           given == IF line.op \in {"csrrwi", "csrrsi", "csrrci"} THEN line.rs1 ELSE x
           value == CASE line.op \in {"csrrw", "csrrwi"} -> given
                      [] line.op \in {"csrrs", "csrrsi"} -> IF given = 0 THEN old ELSE SetBits(old, given)
                      [] line.op \in {"csrrc", "csrrci"} -> IF given = 0 THEN old ELSE ClearBits(old, given)
<1>7. /\ csr' = [csr EXCEPT ![csr_latch.target] = written]
      /\ gpr' = IF w.funct3 # 4 THEN Written(gpr, w.rd, csr_latch.old) ELSE gpr
      /\ fpr' = fpr
  BY <1>5 DEF WriteBackCsr
<1>8. operand = given
  BY <1>1, <1>2, <1>6
<1>9. written = value
  <2> HIDE DEF old, x
  <2>1. CASE line.op \in {"csrrw", "csrrwi"}
    <3>1. w.funct3 \in {1, 5} /\ written = operand /\ value = given
      BY <1>1, <2>1
    <3> QED  BY <1>8, <3>1
  <2>2. CASE line.op \in {"csrrs", "csrrsi"}
    <3>1. w.funct3 \in {2, 6}
      BY <1>1, <2>2
    <3>2. value = IF given = 0 THEN old ELSE SetBits(old, given)
      BY <2>2
    <3> HIDE DEF operand, given, value
    <3>3. written = IF operand = 0 THEN csr_latch.old ELSE SetBits(csr_latch.old, operand)
      BY <3>1
    <3> QED  BY <1>6, <1>8, <3>2, <3>3
  <2>3. CASE line.op \in {"csrrc", "csrrci"}
    <3>1. w.funct3 \in {3, 7}
      BY <1>1, <2>3
    <3>2. value = IF given = 0 THEN old ELSE ClearBits(old, given)
      BY <2>3
    <3> HIDE DEF operand, given, value
    <3>3. written = IF operand = 0 THEN csr_latch.old ELSE ClearBits(csr_latch.old, operand)
      BY <3>1
    <3> QED  BY <1>6, <1>8, <3>2, <3>3
  <2> QED  BY <1>2, <2>1, <2>2, <2>3
<1>10. w.funct3 # 4
  BY <1>1
<1> HIDE DEF written
<1>11. csr' = [before.csr EXCEPT ![line.imm] = value] /\ gpr' = Written(before.gpr, line.rd, old) /\ fpr' = before.fpr
  BY <1>1, <1>4, <1>6, <1>7, <1>9, <1>10
<1>12. mem' = before.mem /\ index' = before.index /\ pc' = before.pc + 4 /\ host' \in {before.host, 0}
  <2>1. control = SetControlSignals(w)
    BY Commits, Flying DEF Before
  <2>2. ~control.mem_read /\ ~control.mem_write
    BY <1>1, <2>1, SignalsOf
  <2> QED  BY <1>1, <1>6, <2>2, Commits, NothingAccessed
<1>13. x = Abstract!X(line.rs1)
  BY Commits, SameRegisters DEF Abstract!X
<1>14. /\ Seen'.csr = [Seen.csr EXCEPT ![line.imm] = value]
       /\ Seen'.gpr = Abstract!Written(Seen.gpr, line.rd, Seen.csr[line.imm])
  BY <1>11, Commits, SameRegisters
<1>15. value = LET operand_ == IF line.op \in {"csrrwi", "csrrsi", "csrrci"} THEN line.rs1 ELSE Abstract!X(line.rs1)
                   old_ == Seen.csr[line.imm]
               IN  CASE line.op \in {"csrrw", "csrrwi"} -> operand_
                     [] line.op \in {"csrrs", "csrrsi"} -> IF operand_ = 0 THEN old_ ELSE SetBits(old_, operand_)
                     [] line.op \in {"csrrc", "csrrci"} -> IF operand_ = 0 THEN old_ ELSE ClearBits(old_, operand_)
  BY <1>13, Commits
<1> HIDE DEF value
<1> QED  BY <1>11, <1>12, <1>14, <1>15, Commits DEF Abstract!Csr, Abstract!Sequel, Abstract!Mode

LEMMA CommitEcall ==
  ASSUME Before, WritesBack, line.op = "ecall"
  PROVE  Abstract!ecall(line)
<1>1. Ecall(w)
  <2>1. line.op \in DOMAIN I3_type_instruction_encoding_map
    BY DEF I3_type_instruction_encoding_map
  <2> QED  BY <2>1, Commits, Flying, EcallWord DEF Before, WordOf
<1>2. Form = "integer" /\ w.opcode = kSystem
  BY <1>1, SystemForm DEF Ecall
<1>3. WriteBackNothing
  BY <1>1, <1>2 DEF WritesBack, WriteBackFloat, WriteBackInteger, WriteBackCsr
<1>4. gpr' = gpr /\ fpr' = fpr /\ csr' = csr
  BY <1>3 DEF WriteBackNothing
<1>5. EcallDone
  BY <1>1, Commits DEF Before, Progress, Executed
<1>6. /\ Seen'.pc = Seen.pc + 4 /\ Seen'.host \in Abstract!Mode
      /\ Seen'.fpr = Seen.fpr /\ Seen'.csr = Seen.csr /\ Seen'.index = Seen.index
  BY <1>4, <1>5, Commits DEF EcallDone, Advanced, Abstract!Mode
<1> DEFINE kind == SyscallKind(before.gpr, before.mem)
<1>7. Abstract!SyscallKind(Seen.gpr, Seen.mem) = kind
  BY Commits, SameRegisters
<1>8. \A v : [before.gpr EXCEPT ![10] = v] = Abstract!Written(Seen.gpr, 10, v)
  BY Commits, SameRegisters DEF Written
<1> HIDE DEF kind
<1>9. CASE kind = "quiet"
  <2>1. gpr = before.gpr /\ mem = before.mem
    BY <1>5, <1>9 DEF EcallDone, kind
  <2> QED  BY <1>4, <1>6, <1>7, <1>9, <2>1, Commits DEF Abstract!ecall, Abstract!Sequel
<1>10. CASE kind = "write"
  <2>1. gpr = [before.gpr EXCEPT ![10] = before.gpr[12]] /\ mem = before.mem
    BY <1>5, <1>10 DEF EcallDone, kind
  <2>2. Seen'.gpr = Abstract!Written(Seen.gpr, 10, Seen.gpr[12]) /\ Seen'.mem = Seen.mem
    BY <1>4, <1>8, <2>1, Commits
  <2> QED  BY <1>6, <1>7, <1>10, <2>2, Commits DEF Abstract!ecall, Abstract!Sequel
<1>11. CASE kind = "read"
  <2>1. PICK input \in Inputs :
          /\ mem = Received(before.mem, before.gpr[11], before.gpr[12], input)
          /\ gpr = [before.gpr EXCEPT ![10] = IF Len(input) < before.gpr[12] THEN Len(input) ELSE before.gpr[12]]
    BY <1>5, <1>11 DEF EcallDone, kind
  <2>2. /\ Seen'.mem = Abstract!Received(Seen.mem, Seen.gpr[11], Seen.gpr[12], input)
        /\ Seen'.gpr = Abstract!Written(Seen.gpr, 10, IF Len(input) < Seen.gpr[12] THEN Len(input) ELSE Seen.gpr[12])
    BY <1>4, <1>8, <2>1, Commits, SameMemory
  <2> QED  BY <1>6, <1>7, <1>11, <2>2, Commits DEF Abstract!ecall, Abstract!Sequel
<1>12. kind \in {"quiet", "write", "read"}
  BY <1>5 DEF EcallDone, kind
<1> QED  BY <1>9, <1>10, <1>11, <1>12

----------------------------------------------------------------------------
(* Whatever the line, WriteBack completes what Isa says of it.             *)

LEMMA Committed ==
  ASSUME Before, WritesBack
  PROVE  Abstract!Continues(line)
<1>1. line.op \in Mnemonics
  BY Commits, Flying DEF Before
<1>2. CASE line.op \in DOMAIN Abstract!Loads
  BY <1>2, CommitLoad, CommitFloatLoad DEF Abstract!Continues
<1>3. CASE line.op \in DOMAIN Abstract!Stores
  BY <1>3, CommitIntegerStore, CommitFloatStore DEF Abstract!Continues
<1> QED  BY <1>1, <1>2, <1>3, Classes, CommitRegisterRegister, CommitRegisterImmediate, CommitLost,
            CommitUpperImmediate, CommitJump, CommitBranch, CommitFloatingPoint, CommitCsr, CommitEcall
         DEF Abstract!Continues

(* The abstract step is taken on the line in flight, whose machine is seen *)
(* until then.                                                             *)
LEMMA Stepped ==
  ASSUME Found, InFlight, phase' \in {"fetch"} \cup Ended, UNCHANGED <<line, before>>,
         \/ phase' = "fetch" /\ Abstract!Continues(line)
         \/ phase' = "aborted" /\ Abstract!Faults(line)
         \/ phase' = "exited" /\ line.op = "ecall" /\ SyscallKind(before.gpr, before.mem) = "exit"
  PROVE  Abstract!Next
<1>1. Seen = before /\ phase \notin Ended
  BY DEF Seen, InFlight, Ended
<1>2. line \in Lines(Seen.pc)
  BY <1>1 DEF Found
<1>3. CASE phase' = "fetch"
  <2>1. phase' \notin Ended
    BY <1>3 DEF Ended
  <2> QED  BY <1>1, <1>2, <1>3, <2>1 DEF Abstract!Next, Abstract!Line, Between, Ended
<1>4. CASE phase' # "fetch"
  <2>1. phase' \in Ended /\ Seen' = before /\ Seen = before
    BY <1>1, <1>4 DEF Seen, Ended
  <2>2. \/ phase' = "aborted" /\ Abstract!Faults(line)
        \/ phase' = "exited" /\ line.op = "ecall" /\ Abstract!SyscallKind(Seen.gpr, Seen.mem) = "exit"
    BY <1>4, <2>1, SameRegisters
  <2> QED  BY <1>1, <1>2, <1>4, <2>1, <2>2 DEF Abstract!Next, Abstract!Line, Between
<1> QED  BY <1>3, <1>4

----------------------------------------------------------------------------
(* The ways an instruction ends without a write.                           *)

LEMMA Decoded ==
  ASSUME NEW l, NEW word, WordOf(l, word), l.op \in Mnemonics
  PROVE  /\ l.op \in DOMAIN Abstract!RegisterOps => word.opcode = kRtype
         /\ l.op \in DOMAIN Abstract!ImmediateOps =>
              word.opcode = kItype /\ GetAluSignal(word) = Abstract!ImmediateOps[l.op]
         /\ l.op \in DOMAIN Abstract!LostOps => word.opcode = kOp32
         /\ l.op \in Abstract!Lost =>
              word.opcode \in {kOpImm32, kfmadd, kfmsub, kfnmsub, kfnmadd} /\ GetAluSignal(word) \notin Faulting
         /\ l.op \in {"lui", "auipc"} => word.opcode \in {klui, kauipc}
         /\ l.op \in {"jal", "jalr"} => word.opcode \in {kjal, kjalr}
         /\ l.op \in DOMAIN Abstract!BranchOps =>
              word.opcode = kBtype /\ GetAluSignal(word) = Abstract!BranchOps[l.op]
         /\ l.op \in DOMAIN Abstract!Loads => word.opcode \in {kLoadType, kflw}
         /\ l.op \in DOMAIN Abstract!Stores => word.opcode \in {kStoreType, kfsw}
         /\ l.op \in DOMAIN Abstract!FloatOps => word.opcode = kFtype /\ Unit(word) # "none"
         /\ l.op \in Abstract!CsrOps => word.opcode = kSystem /\ ~Ecall(word)
         /\ l.op = "ecall" => word.opcode = kSystem
<1>1. /\ l.op \in DOMAIN Abstract!RegisterOps => word.opcode = kRtype
      /\ l.op \in DOMAIN Abstract!ImmediateOps =>
           word.opcode = kItype /\ GetAluSignal(word) = Abstract!ImmediateOps[l.op]
      /\ l.op \in DOMAIN Abstract!LostOps => word.opcode = kOp32
      /\ l.op \in Abstract!Lost =>
           word.opcode \in {kOpImm32, kfmadd, kfmsub, kfnmsub, kfnmadd} /\ GetAluSignal(word) \notin Faulting
  BY RegisterDecoded, ImmediateDecoded, LostOpsDecoded, LostDecoded
<1>2. l.op \in {"lui", "auipc"} => word.opcode \in {klui, kauipc}
  BY UpperDecoded, SMT
<1>3. l.op \in {"jal", "jalr"} => word.opcode \in {kjal, kjalr}
  BY JumpDecoded
<1>4. l.op \in DOMAIN Abstract!BranchOps =>
        word.opcode = kBtype /\ GetAluSignal(word) = Abstract!BranchOps[l.op]
  BY BranchDecoded
<1>5. l.op \in DOMAIN Abstract!Loads => word.opcode \in {kLoadType, kflw}
  BY LoadDecoded, FloatLoadDecoded
<1>6. l.op \in DOMAIN Abstract!Stores => word.opcode \in {kStoreType, kfsw}
  <2>1. l.op \in DOMAIN Abstract!Stores \ DOMAIN Abstract!FloatStores => l.op \in DOMAIN S_type_instruction_encoding_map
    BY StoreTable
  <2> QED  BY <2>1, StoreDecoded, FloatStoreDecoded
<1>7. l.op \in DOMAIN Abstract!FloatOps => word.opcode = kFtype /\ Unit(word) # "none"
  <2> SUFFICES ASSUME l.op \in DOMAIN Abstract!FloatOps
               PROVE  word.opcode = kFtype /\ Unit(word) # "none"
    OBVIOUS
  <2> DEFINE unit == Abstract!FloatOps[l.op][1]
  <2>1. unit \in {"float", "double", "bfloat16", "simdf32"}
    BY DEF Abstract!FloatOps, Abstract!Arith
  <2>2. word.opcode = kFtype /\ word.funct7 \in FloatGroups[unit]
    BY FloatDecoded DEF FloatWord
  <2> HIDE DEF unit
  <2> QED  BY <2>1, <2>2, ArithmeticUnit DEF FloatGroups
<1>8. l.op \in Abstract!CsrOps => word.opcode = kSystem /\ ~Ecall(word)
  BY CsrDecoded
<1>9. l.op = "ecall" => word.opcode = kSystem
  <2>1. l.op = "ecall" => l.op \in DOMAIN I3_type_instruction_encoding_map
    BY DEF I3_type_instruction_encoding_map
  <2> QED  BY <2>1, EcallWord DEF WordOf, Ecall
<1> QED  BY <1>1, <1>2, <1>3, <1>4, <1>5, <1>6, <1>7, <1>8, <1>9, Zenon

(* Only a division faults in the unit, and its line is one of two classes. *)
LEMMA FaultDecoded ==
  ASSUME NEW l, NEW word, WordOf(l, word), l.op \in Mnemonics,
         Unit(word) = "none", word.opcode # kSystem, GetAluSignal(word) \in Faulting
  PROVE  l.op \in DOMAIN Abstract!RegisterOps \/ l.op \in DOMAIN Abstract!LostOps
<1>1. "kAdd" \notin Faulting
  BY DEF Faulting
<1>2. l.op \in DOMAIN Abstract!ImmediateOps => Abstract!ImmediateOps[l.op] \notin Faulting
  BY DEF Abstract!ImmediateOps, Faulting
<1>3. l.op \in DOMAIN Abstract!BranchOps => Abstract!BranchOps[l.op] \notin Faulting
  BY DEF Abstract!BranchOps, Faulting
<1>4. word.opcode \notin {kLoadType, kStoreType, kjalr, kjal, klui, kauipc}
  BY <1>1, SignalOf
<1>5. word.opcode \notin {kflw, kfsw}
  <2>1. word.opcode \in {kflw, kfsw} => word.funct3 \in {2, 3}
    BY AcceptedWords DEF WordOf, Decodable
  <2> QED  BY <1>1, <2>1, SignalOf
<1> HIDE DEF Faulting
<1> QED  BY <1>2, <1>3, <1>4, <1>5, Decoded, Classes

(* Only loads and stores access the memory, and only ecall calls.          *)
LEMMA AccessDecoded ==
  ASSUME NEW l, NEW word, WordOf(l, word), l.op \in Mnemonics
  PROVE  /\ word.opcode \in {kLoadType, kStoreType, kflw, kfsw}
              => l.op \in DOMAIN Abstract!Loads \/ l.op \in DOMAIN Abstract!Stores
         /\ Ecall(word) => l.op = "ecall"
<1>1. {kLoadType, kStoreType, kflw, kfsw} \cap
        {kRtype, kItype, kOp32, kOpImm32, kfmadd, kfmsub, kfnmsub, kfnmadd, klui, kauipc, kjal, kjalr, kBtype,
         kFtype, kSystem} = {}
  BY DEF kLoadType, kStoreType, kflw, kfsw, kRtype, kItype, kOp32, kOpImm32, kfmadd, kfmsub, kfnmsub, kfnmadd,
         klui, kauipc, kjal, kjalr, kBtype, kFtype, kSystem
<1>2. kSystem \notin {kRtype, kItype, kOp32, kOpImm32, kfmadd, kfmsub, kfnmsub, kfnmadd, klui, kauipc, kjal, kjalr,
                      kBtype, kFtype, kLoadType, kStoreType, kflw, kfsw}
  BY DEF kLoadType, kStoreType, kflw, kfsw, kRtype, kItype, kOp32, kOpImm32, kfmadd, kfmsub, kfnmsub, kfnmadd,
         klui, kauipc, kjal, kjalr, kBtype, kFtype, kSystem
<1>3. word.opcode \in {kLoadType, kStoreType, kflw, kfsw}
        => l.op \in DOMAIN Abstract!Loads \/ l.op \in DOMAIN Abstract!Stores
  BY <1>1, Decoded, Classes
<1>4. Ecall(word) => l.op = "ecall"
  BY <1>2, Decoded, Classes DEF Ecall
<1> QED  BY <1>3, <1>4

(* Where a division faults, its operation is one that can.                 *)
LEMMA FaultFound ==
  ASSUME Before, DivisionFaults
  PROVE  WordOf(line, w) /\ line.op \in Mnemonics /\ Unit(w) = "none" /\ w.opcode # kSystem /\ GetAluSignal(w) \in Faulting
<1>1. phase = "execute" /\ Unit(w) = "none" /\ w.opcode # kSystem /\ Trap \in IntegerOutcomes
  BY DEF DivisionFaults, Executing
<1>2. InFlight
  BY <1>1 DEF InFlight
<1>3. WordOf(line, w) /\ line.op \in Mnemonics /\ w \in Instructions
  BY <1>1, <1>2, Flying DEF Before
<1>4. \A r : Gpr(r) \in Registers
  BY <1>1, OperandTypes DEF Before
<1>5. Operand2 \in Registers
  BY <1>1, OperandTypes DEF Before
<1>6. GetAluSignal(w) \in Faulting
  <2>1. S32(Checked(Gpr(w.rs1))) % Full \in Registers
    <3>1. Checked(Gpr(w.rs1)) \in Int
      BY <1>4, CheckedInt DEF Before
    <3>2. S32(Checked(Gpr(w.rs1))) \in Int
      BY <3>1, SignedInt, Sizes DEF S32
    <3> QED  BY <3>2, RegisterOf
  <2>2. \A a, b \in Registers : Trap \notin Execute("kAddrAdd", a, b)
    <3>1. \A a, b \in Registers : Execute("kAddrAdd", a, b) = {(a + b) % Full}
      BY DEF Before, Units, UnitsFor, IntegerUnitFor
    <3>2. \A a, b \in Registers : (a + b) % Full # Trap
      BY RegisterOf, Sizes DEF Registers, Trap
    <3> QED  BY <3>1, <3>2
  <2>3. GetAluSignal(w) \notin Faulting => \A a, b \in Registers : Trap \notin Execute(GetAluSignal(w), a, b)
    <3>1. GetAluSignal(w) \in IntegerOps
      BY <1>1, <1>3, FloatFormat, IntegerOp
    <3>2. \A a, b \in Registers : \A op \in IntegerOps \ Faulting : Trap \notin Execute(op, a, b)
      BY DEF Before, Units, UnitsFor, IntegerUnitFor
    <3> QED  BY <3>1, <3>2
  <2> QED  BY <1>1, <1>4, <1>5, <2>1, <2>2, <2>3 DEF IntegerOutcomes
<1> QED  BY <1>1, <1>3, <1>6

LEMMA DivisionFaulted == Before /\ DivisionFaults => Abstract!Next
<1> SUFFICES ASSUME Before, DivisionFaults PROVE Abstract!Next
  OBVIOUS
<1>1. /\ phase = "execute" /\ phase' = "aborted" /\ UNCHANGED <<line, before>>
      /\ Unit(w) = "none" /\ w.opcode # kSystem /\ Trap \in IntegerOutcomes
  BY DEF DivisionFaults, Executing, Abort, fetched
<1>2. InFlight /\ gpr = before.gpr /\ Seen = before
  BY <1>1 DEF InFlight, Before, Progress, Carried, Seen
<1>3. WordOf(line, w) /\ line.op \in Mnemonics /\ w \in Instructions /\ control = SetControlSignals(w)
  BY <1>1, <1>2, Flying DEF Before
<1>4. GetAluSignal(w) \in Faulting
  BY FaultFound
<1>5. line.op \in DOMAIN Abstract!RegisterOps \/ line.op \in DOMAIN Abstract!LostOps
  BY <1>1, <1>3, <1>4, FaultDecoded
<1>6. /\ w.opcode \in {kRtype, kOp32} /\ w.rs1 = line.rs1 /\ w.rs2 = line.rs2
      /\ GetAluSignal(w) = IF line.op \in DOMAIN Abstract!RegisterOps THEN Abstract!RegisterOps[line.op]
                                                                   ELSE Abstract!LostOps[line.op]
  BY <1>3, <1>5, RegisterDecoded, LostOpsDecoded
<1>7. ~control.alu_src /\ ~control.mem_read /\ ~control.mem_write
  BY <1>3, <1>6, SignalsOf
<1>8. w.opcode # kjalr
  BY <1>6 DEF kRtype, kOp32, kjalr
<1>9. IntegerOutcomes = Execute(GetAluSignal(w), Register(before.gpr, line.rs1), Register(before.gpr, line.rs2))
  BY <1>2, <1>6, <1>7, <1>8 DEF IntegerOutcomes, Operand2, Gpr
<1>10. Abstract!Faults(line)
  BY <1>1, <1>2, <1>5, <1>6, <1>9, SameNumbers, SameRegisters DEF Abstract!Faults, Abstract!X
<1> QED  BY <1>1, <1>2, <1>10, Stepped DEF Before, Ended

LEMMA SyscallEnded == Before /\ (SyscallFaults \/ SyscallExit) => Abstract!Next
<1> SUFFICES ASSUME Before, SyscallFaults \/ SyscallExit PROVE Abstract!Next
  OBVIOUS
<1>1. /\ phase = "execute" /\ UNCHANGED <<line, before>> /\ Ecall(w)
      /\ \/ phase' = "aborted" /\ SyscallKind(gpr, mem) = "fault"
         \/ phase' = "exited" /\ SyscallKind(gpr, mem) = "exit"
  BY DEF SyscallFaults, SyscallExit, Syscall, Executing, fetched
<1>2. InFlight /\ gpr = before.gpr /\ mem = before.mem /\ Seen = before
  BY <1>1 DEF InFlight, Before, Progress, Carried, Seen
<1>3. line.op = "ecall"
  BY <1>1, <1>2, Flying, AccessDecoded DEF Before
<1>4. SyscallKind(before.gpr, before.mem) = "fault" => Abstract!Faults(line)
  BY <1>2, <1>3, SameRegisters DEF Abstract!Faults
<1> QED  BY <1>1, <1>2, <1>3, <1>4, Stepped DEF Before, Ended

LEMMA AccessFaulted == Before /\ AccessFaults => Abstract!Next
<1> SUFFICES ASSUME Before, AccessFaults PROVE Abstract!Next
  OBVIOUS
<1>1. /\ phase = "memory" /\ phase' = "aborted" /\ UNCHANGED <<line, before>>
      /\ Accesses /\ ~FromStream /\ ~ToLog /\ ~InRange(address, Width)
  BY DEF AccessFaults, AtMemory, Abort, fetched
<1>2. InFlight /\ Seen = before
  BY <1>1 DEF InFlight, Seen
<1>3. WordOf(line, w) /\ line.op \in Mnemonics /\ control = SetControlSignals(w)
  BY <1>1, <1>2, Flying DEF Before
<1>4. w.opcode \in {kLoadType, kStoreType, kflw, kfsw}
  BY <1>1, <1>3 DEF Accesses, SetControlSignals
<1>5. line.op \in DOMAIN Abstract!Loads \/ line.op \in DOMAIN Abstract!Stores
  BY <1>3, <1>4, AccessDecoded
<1> SUFFICES Abstract!Faults(line)
  BY <1>1, <1>2, Stepped DEF Before, Ended
<1>6. CASE line.op \in DOMAIN Abstract!Loads \ DOMAIN Abstract!FloatLoads
  <2>1. /\ address = Abstract!Address(line) /\ Width = Abstract!Loads[line.op].n
        /\ FromStream = Abstract!Sampled(line)
    BY <1>1, <1>2, <1>6, Loading
  <2>2. ~Abstract!Sampled(line) /\ ~Abstract!Readable(line)
    BY <1>1, <2>1, SameMemory DEF Abstract!Readable
  <2> QED  BY <1>6, <2>2 DEF Abstract!Faults
<1>7. CASE line.op \in DOMAIN Abstract!Stores \ DOMAIN Abstract!FloatStores
  <2>1. /\ address = Abstract!Address(line) /\ Width = Abstract!Stores[line.op]
        /\ ToLog = Abstract!Logged(line)
    BY <1>1, <1>2, <1>7, Storing
  <2>2. ~Abstract!Logged(line) /\ ~Abstract!InRange(Abstract!Address(line), Abstract!Stores[line.op])
    BY <1>1, <2>1, SameMemory
  <2> QED  BY <1>7, <2>2 DEF Abstract!Faults
<1>8. CASE line.op \in DOMAIN Abstract!FloatLoads \/ line.op \in DOMAIN Abstract!FloatStores
  <2>1. /\ w.opcode \in {kflw, kfsw} /\ w.rs1 = line.rs1 /\ ImmGenerator(w) = line.imm
        /\ w.funct3 = IF line.op \in {"flw", "fsw"} THEN 2 ELSE 3
    BY <1>3, <1>8, FloatLoadDecoded, FloatStoreDecoded DEF Abstract!FloatLoads, Abstract!FloatStores
  <2> DEFINE unit == IF w.funct3 = 2 THEN "float" ELSE "double"
  <2>2. /\ Width = IF unit = "float" THEN 4 ELSE 8
        /\ address = (Register(before.gpr, w.rs1) + ImmGenerator(w)) % Full
    BY <1>1, <2>1, FloatAccessing
  <2>3. address = Abstract!Address(line)
    BY <1>2, <2>1, <2>2, SameRegisters, SameNumbers DEF Abstract!Address, Abstract!X
  <2>4. CASE line.op \in DOMAIN Abstract!FloatLoads
    <3>1. line.op \in DOMAIN Abstract!Loads /\ line.op # "lwpd" /\ Width = Abstract!Loads[line.op].n
      BY <2>1, <2>2, <2>4 DEF Abstract!FloatLoads, Abstract!Loads
    <3>2. ~Abstract!Sampled(line) /\ ~Abstract!Readable(line)
      BY <1>1, <2>3, <3>1, SameMemory DEF Abstract!Readable, Abstract!Sampled
    <3> QED  BY <3>1, <3>2 DEF Abstract!Faults
  <2>5. CASE line.op \in DOMAIN Abstract!FloatStores
    <3>1. line.op \in DOMAIN Abstract!Stores /\ line.op # "sw" /\ Width = Abstract!Stores[line.op]
      BY <2>1, <2>2, <2>5 DEF Abstract!FloatStores, Abstract!Stores
    <3>2. ~Abstract!Logged(line) /\ ~Abstract!InRange(Abstract!Address(line), Abstract!Stores[line.op])
      BY <1>1, <2>3, <3>1, SameMemory DEF Abstract!Logged
    <3> QED  BY <3>1, <3>2 DEF Abstract!Faults
  <2> QED  BY <1>8, <2>4, <2>5
<1> QED  BY <1>5, <1>6, <1>7, <1>8

(* Every step of the stages is one of an instruction, or none that shows.  *)
LEMMA EveryStep == Before /\ [Next]_vars =>
  [Abstract!Next]_<<Seen.pc, Seen.gpr, Seen.fpr, Seen.csr, Seen.mem, Seen.index, Seen.host,
                    IF phase \in Ended THEN phase ELSE "up", IF Between THEN line ELSE before.line>>
<1> DEFINE seen == <<Seen.pc, Seen.gpr, Seen.fpr, Seen.csr, Seen.mem, Seen.index, Seen.host,
                     IF phase \in Ended THEN phase ELSE "up", IF Between THEN line ELSE before.line>>
<1> SUFFICES ASSUME Before, [Next]_vars PROVE Abstract!Next \/ seen' = seen
  OBVIOUS
<1>1. CASE UNCHANGED vars
  <2>1. UNCHANGED <<pc, gpr, fpr, csr, mem, index, host, phase, line, before>>
    BY <1>1 DEF vars, machine, fetched
  <2>2. Seen' = Seen /\ Between' = Between
    BY <2>1 DEF Seen, Snapshot, Between
  <2> QED  BY <2>1, <2>2
<1>2. CASE Fetch
  <2>1. phase = "fetch" /\ phase' = "decode" /\ before' = Snapshot
    BY <1>2 DEF Fetch
  <2>2. Seen' = Seen /\ before'.line = line
    BY <2>1 DEF Seen, Snapshot
  <2> QED  BY <2>1, <2>2 DEF Between, Ended
<1>3. ASSUME phase \in {"decode", "execute", "memory"}, phase' \in {"execute", "memory", "writeback"}, before' = before
      PROVE  seen' = seen
  <2>1. Seen = before /\ Seen' = before
    BY <1>3 DEF Seen
  <2> QED  BY <1>3, <2>1 DEF Between, Ended
<1>4. CASE Decode
  BY <1>3, <1>4 DEF Decode, fetched
<1>5. CASE ExecuteInteger \/ ExecuteFloatingPoint \/ ExecuteCsr
  BY <1>3, <1>5 DEF ExecuteInteger, ExecuteFloatingPoint, ExecuteCsr, Executing, fetched
<1>6. CASE SyscallQuiet \/ SyscallRead \/ SyscallWrite
  BY <1>3, <1>6 DEF SyscallQuiet, SyscallRead, SyscallWrite, Syscall, Executing, fetched
<1>7. CASE NoAccess \/ Load \/ LoadSample \/ Store \/ StoreToLog
  BY <1>3, <1>7 DEF NoAccess, Load, LoadSample, Store, StoreToLog, AtMemory, ToWriteBack, fetched
<1>8. CASE WritesBack
  BY <1>8, Commits, Committed, Stepped DEF Before
<1>9. CASE DivisionFaults \/ SyscallExit \/ SyscallFaults \/ AccessFaults
  BY <1>9, DivisionFaulted, SyscallEnded, AccessFaulted
<1> QED  BY <1>1, <1>2, <1>4, <1>5, <1>6, <1>7, <1>8, <1>9 DEF Next, WritesBack

(* Whatever line is found, the one step that shows is the one that Isa     *)
(* allows for its mnemonic, a fault or an exit included, and no other step *)
(* shows anything: nothing of an earlier instruction, left in a latch, a   *)
(* signal or the delta, reaches it.  Where the tables of the sources lose  *)
(* or misdirect a result, Isa says so and the theorem with it.             *)
THEOREM InstructionsCorrect ==
  ASSUME UnitsFor(Registers, 0 .. 255)
  PROVE  Spec => ImplementsIsa
<1> DEFINE Steady == Progress /\ Found /\ Typed /\ Recalled
<1>1. Init => Steady
  BY ProgressInit, FoundInit, TypedInit DEF Init, Recalled, InFlight
<1>2. Steady /\ [Next]_vars => Steady'
  BY ProgressNext, FoundNext, TypedNext, RecalledNext DEF Units
<1>3. Init => Abstract!Init
  BY DEF Init, Abstract!Init, Ended, Between
<1>4. Steady /\ [Next]_vars =>
        [Abstract!Next]_<<Seen.pc, Seen.gpr, Seen.fpr, Seen.csr, Seen.mem, Seen.index, Seen.host,
                          IF phase \in Ended THEN phase ELSE "up", IF Between THEN line ELSE before.line>>
  BY EveryStep DEF Before, Units
<1> HIDE DEF Steady
<1> QED  BY <1>1, <1>2, <1>3, <1>4, PTL DEF Spec, ImplementsIsa, Abstract!Spec

----------------------------------------------------------------------------
(* Datapath with the units of the sources.  What the last line computed is *)
(* remembered until the next is fetched.                                   *)

Branched(l, from, r) ==
  IF (IF l.op = "beq" THEN r % Data = 0 ELSE r % Data # 0) THEN (from + l.imm) % Full ELSE from + 4

Computed ==
  line.op \in DOMAIN Abstract!RegisterOps =>
    /\ before.gpr \in [Gprs -> Registers]
    /\ \E r \in Execute(Abstract!RegisterOps[line.op], Base, Arg) \ {Trap} : gpr = Written(before.gpr, line.rd, r)

Compared ==
  line.op \in {"beq", "bne"} =>
    /\ before.gpr \in [Gprs -> Registers]
    /\ \E r \in Execute("kSub", Base, Arg) : pc = Branched(line, before.pc, r)

Results == phase = "fetch" /\ steps > 0 => Computed /\ Compared

LEMMA ResultsComputed == Before /\ WritesBack => Computed'
<1> SUFFICES ASSUME Before, WritesBack, line'.op \in DOMAIN Abstract!RegisterOps
             PROVE  /\ before'.gpr \in [Gprs -> Registers]
                    /\ \E r \in Execute(Abstract!RegisterOps[line'.op], Base', Arg') \ {Trap} :
                         gpr' = Written(before'.gpr, line'.rd, r)
  BY DEF Computed
<1>1. /\ line' = line /\ before' = before /\ Seen = before /\ Seen'.gpr = gpr' /\ InFlight
      /\ phase = "writeback"
  BY Commits
<1>2. Base' = Base /\ Arg' = Arg
  BY <1>1 DEF Base, Arg
<1>3. Abstract!RegisterRegister(line)
  BY <1>1, CommitRegisterRegister
<1>4. \E r \in Execute(Abstract!RegisterOps[line.op], Base, Arg) \ {Trap} : gpr' = Written(before.gpr, line.rd, r)
  BY <1>1, <1>3, SameNumbers, SameRegisters DEF Abstract!RegisterRegister, Abstract!Sets, Abstract!X, Base, Arg
<1>5. before.gpr \in [Gprs -> Registers]
  <2>1. w.opcode = kRtype
    BY <1>1, Flying, RegisterDecoded DEF Before
  <2>2. w.opcode \notin {kFtype, kflw, kfsw, kSystem}
    BY <2>1 DEF kRtype, kFtype, kflw, kfsw, kSystem
  <2>3. gpr = before.gpr
    BY <2>2, IntegerCommits
  <2> QED  BY <2>3 DEF Before, Typed, TypeOK
<1> QED  BY <1>1, <1>2, <1>4, <1>5

LEMMA ResultsCompared == Before /\ WritesBack => Compared'
<1> SUFFICES ASSUME Before, WritesBack, line'.op \in {"beq", "bne"}
             PROVE  /\ before'.gpr \in [Gprs -> Registers]
                    /\ \E r \in Execute("kSub", Base', Arg') : pc' = Branched(line', before'.pc, r)
  BY DEF Compared
<1>1. /\ line' = line /\ before' = before /\ Seen = before /\ Seen'.pc = pc' /\ InFlight
      /\ phase = "writeback"
  BY Commits
<1>2. Base' = Base /\ Arg' = Arg
  BY <1>1 DEF Base, Arg
<1>3. line.op \in DOMAIN Abstract!BranchOps /\ Abstract!BranchOps[line.op] = "kSub"
  BY <1>1 DEF Abstract!BranchOps
<1>4. Abstract!Branch(line)
  BY <1>3, CommitBranch
<1>5. \E r \in Execute("kSub", Base, Arg) : pc' = Branched(line, before.pc, r)
  BY <1>1, <1>3, <1>4, SameNumbers, SameRegisters DEF Abstract!Branch, Abstract!X, Base, Arg, Branched
<1>6. before.gpr \in [Gprs -> Registers]
  <2>1. w.opcode = kBtype
    BY <1>1, <1>3, Flying, BranchDecoded DEF Before
  <2>2. w.opcode \notin {kFtype, kflw, kfsw, kSystem}
    BY <2>1 DEF kBtype, kFtype, kflw, kfsw, kSystem
  <2>3. gpr = before.gpr
    BY <2>2, IntegerCommits
  <2> QED  BY <2>3 DEF Before, Typed, TypeOK
<1> QED  BY <1>1, <1>2, <1>5, <1>6

LEMMA ResultsNext == Before /\ Results /\ [Next]_vars => Results'
<1> SUFFICES ASSUME Before, Results, [Next]_vars, phase' = "fetch", steps' > 0 PROVE Computed' /\ Compared'
  BY DEF Results
<1>1. CASE WritesBack
  BY <1>1, ResultsComputed, ResultsCompared
<1>2. CASE UNCHANGED vars
  <2>1. UNCHANGED <<pc, gpr, phase, steps, line, before>>
    BY <1>2 DEF vars, machine, fetched
  <2>2. UNCHANGED <<Base, Arg>>
    BY <2>1 DEF Base, Arg
  <2> QED  BY <2>1, <2>2 DEF Results, Computed, Compared
<1>3. CASE Next /\ ~WritesBack
  <2>1. ~Fetch /\ ~Decode
    BY DEF Fetch, Decode
  <2>2. ~(ExecuteInteger \/ DivisionFaults \/ ExecuteFloatingPoint \/ ExecuteCsr)
    BY DEF ExecuteInteger, DivisionFaults, ExecuteFloatingPoint, ExecuteCsr, Abort
  <2>3. ~(SyscallQuiet \/ SyscallExit \/ SyscallRead \/ SyscallWrite \/ SyscallFaults)
    BY DEF SyscallQuiet, SyscallExit, SyscallRead, SyscallWrite, SyscallFaults
  <2>4. ~(NoAccess \/ Load \/ LoadSample \/ Store \/ StoreToLog \/ AccessFaults)
    BY DEF NoAccess, Load, LoadSample, Store, StoreToLog, AccessFaults, ToWriteBack, Abort
  <2> QED  BY <1>3, <2>1, <2>2, <2>3, <2>4 DEF Next, WritesBack
<1> QED  BY <1>1, <1>2, <1>3

(* What the words were whose data and lanes the properties compare.        *)
LEMMA ResultOf ==
  ASSUME Built, Results, Done(DOMAIN Abstract!RegisterOps), line.rd \in Gprs \ {0}
  PROVE  /\ Base \in Registers /\ Arg \in Registers
         /\ gpr[line.rd] \in execute(Abstract!RegisterOps[line.op], Base, Arg)
<1>1. /\ before.gpr \in [Gprs -> Registers]
      /\ \E r \in Execute(Abstract!RegisterOps[line.op], Base, Arg) \ {Trap} : gpr = Written(before.gpr, line.rd, r)
  BY DEF Done, Results, Computed
<1>2. Base \in Registers /\ Arg \in Registers
  BY <1>1, RegisterType DEF Base, Arg
<1>3. PICK r \in Execute(Abstract!RegisterOps[line.op], Base, Arg) : gpr = Written(before.gpr, line.rd, r)
  BY <1>1
<1>4. gpr[line.rd] = r
  BY <1>1, <1>3 DEF Written
<1> QED  BY <1>2, <1>3, <1>4 DEF Built

LEMMA TransparentData ==
  ASSUME Built, CodeFor(Registers), Results, Done(TransparentOps), line.rd \in Gprs \ {0}
  PROVE  gpr[line.rd] % Data = DataResult(line.op, Base % Data, Arg % Data)
<1> DEFINE op == Abstract!RegisterOps[line.op]
<1>1. /\ line.op \in TransparentOps
      /\ op = CASE line.op = "add" -> "kAdd" [] line.op = "sub" -> "kSub" [] line.op = "mul" -> "kMul"
                [] line.op = "div" -> "kDiv" [] line.op = "and" -> "kAnd" [] line.op = "or" -> "kOr"
                [] line.op = "xor" -> "kXor" [] line.op = "sll" -> "kSll"
      /\ Done(DOMAIN Abstract!RegisterOps)
  BY DEF Done, TransparentOps, Abstract!RegisterOps
<1>2. /\ Base \in Registers /\ Arg \in Registers /\ gpr[line.rd] \in execute(op, Base, Arg)
  BY <1>1, ResultOf
<1>3. Systematic(Registers)
  BY DEF CodeFor
<1> HIDE DEF op
<1>4. /\ op \in {"kAdd", "kSub", "kMul", "kDiv"} => execute(op, Base, Arg) = {Arithmetic(op, Base, Arg)}
      /\ op \in {"kAnd", "kOr", "kXor", "kSll"} => execute(op, Base, Arg) = {Wide(op, Base, Arg)}
  BY DEF execute
<1> DEFINE x == Base % Data
           y == Arg % Data
<1>5. /\ Arithmetic("kAdd", Base, Arg) % Data = (x + y) % Data
      /\ Arithmetic("kSub", Base, Arg) % Data = (x - y) % Data
      /\ Arithmetic("kMul", Base, Arg) % Data = (x * y) % Data
      /\ Arithmetic("kDiv", Base, Arg) % Data = IF y = 0 THEN Data - 1 ELSE Quotient(S32(x), S32(y)) % Data
      /\ Wide("kAnd", Base, Arg) % Data = BitByBit("kAnd", x, y)
      /\ Wide("kOr", Base, Arg) % Data = BitByBit("kOr", x, y)
      /\ Wide("kXor", Base, Arg) % Data = BitByBit("kXor", x, y)
      /\ Wide("kSll", Base, Arg) % Data = (x * Power(Shift(y))) % Data
  BY <1>2, <1>3, DataOfResults
<1> SUFFICES gpr[line.rd] % Data = DataResult(line.op, x, y)
  OBVIOUS
<1> HIDE DEF x, y
<1>6. CASE line.op = "add"
  BY <1>1, <1>2, <1>4, <1>5, <1>6 DEF DataResult
<1>7. CASE line.op = "sub"
  BY <1>1, <1>2, <1>4, <1>5, <1>7 DEF DataResult
<1>8. CASE line.op = "mul"
  BY <1>1, <1>2, <1>4, <1>5, <1>8 DEF DataResult
<1>9. CASE line.op = "div"
  BY <1>1, <1>2, <1>4, <1>5, <1>9 DEF DataResult
<1>10. CASE line.op = "and"
  BY <1>1, <1>2, <1>4, <1>5, <1>10 DEF DataResult
<1>11. CASE line.op = "or"
  BY <1>1, <1>2, <1>4, <1>5, <1>11 DEF DataResult
<1>12. CASE line.op = "xor"
  BY <1>1, <1>2, <1>4, <1>5, <1>12 DEF DataResult
<1>13. CASE line.op = "sll"
  BY <1>1, <1>2, <1>4, <1>5, <1>13 DEF DataResult
<1> QED  BY <1>1, <1>6, <1>7, <1>8, <1>9, <1>10, <1>11, <1>12, <1>13 DEF TransparentOps

LEMMA TransparentBranches ==
  ASSUME Built, CodeFor(Registers), Results, Done({"beq", "bne"})
  PROVE  pc = IF (line.op = "beq") = (Base % Data = Arg % Data) THEN (before.pc + line.imm) % Full
                                                             ELSE before.pc + 4
<1>1. /\ before.gpr \in [Gprs -> Registers] /\ line.op \in {"beq", "bne"}
      /\ \E r \in Execute("kSub", Base, Arg) : pc = Branched(line, before.pc, r)
  BY DEF Done, Results, Compared
<1>2. Base \in Registers /\ Arg \in Registers
  BY <1>1, RegisterType DEF Base, Arg
<1>3. Execute("kSub", Base, Arg) = {Arithmetic("kSub", Base, Arg)}
  BY DEF Built, execute
<1> DEFINE zero == Arithmetic("kSub", Base, Arg) % Data = 0
<1>4. pc = IF (IF line.op = "beq" THEN zero ELSE ~zero) THEN (before.pc + line.imm) % Full ELSE before.pc + 4
  BY <1>1, <1>3 DEF Branched
<1>5. zero = (Base % Data = Arg % Data)
  BY <1>2, DataDifference DEF CodeFor
<1> QED  BY <1>1, <1>4, <1>5

LEMMA IndependentLanes ==
  ASSUME Built, Results
  PROVE  LanesIndependent
<1> SUFFICES ASSUME Done(LaneOps), line.rd \in Gprs \ {0}, NEW k \in 0 .. 3
             PROVE  Lane(gpr[line.rd], k) =
                      LaneResult(line.op, Signed(Lane(Base, k), Half), Signed(Lane(Arg, k), Half)) % Half
  BY DEF LanesIndependent
<1> DEFINE op == Abstract!RegisterOps[line.op]
<1>1. /\ line.op \in LaneOps
      /\ op = CASE line.op = "SIMD_add16" -> "kSIMD_add16" [] line.op = "SIMD_sub16" -> "kSIMD_sub16"
                [] line.op = "SIMD_mul16" -> "kSIMD_mul16" [] line.op = "SIMD_div16" -> "kSIMD_div16"
                [] line.op = "SIMD_rem16" -> "kSIMD_rem16"
      /\ Done(DOMAIN Abstract!RegisterOps)
  BY DEF Done, LaneOps, Abstract!RegisterOps
<1>2. /\ Base \in Registers /\ Arg \in Registers /\ gpr[line.rd] \in execute(op, Base, Arg)
  BY <1>1, ResultOf
<1> HIDE DEF op
<1>3. gpr[line.rd] = Simd16(op, Base, Arg)
  <2>1. op \in {"kSIMD_add16", "kSIMD_sub16", "kSIMD_mul16", "kSIMD_div16", "kSIMD_rem16"}
    BY <1>1 DEF LaneOps
  <2>2. execute(op, Base, Arg) = {Simd16(op, Base, Arg)}
    BY <2>1 DEF execute
  <2> QED  BY <1>2, <2>2
<1> DEFINE n == Signed(Lane(Base, k), Half)
           m == Signed(Lane(Arg, k), Half)
<1>4. /\ Lane(Simd16("kSIMD_add16", Base, Arg), k) = Plus(n, m) % Half
      /\ Lane(Simd16("kSIMD_sub16", Base, Arg), k) = Minus(n, m) % Half
      /\ Lane(Simd16("kSIMD_mul16", Base, Arg), k) = Times(n, m) % Half
      /\ Lane(Simd16("kSIMD_div16", Base, Arg), k) = Over(n, m) % Half
      /\ Lane(Simd16("kSIMD_rem16", Base, Arg), k) = Rest(n, m) % Half
  BY <1>2, LanesOfResults
<1> SUFFICES Lane(gpr[line.rd], k) = LaneResult(line.op, n, m) % Half
  OBVIOUS
<1> HIDE DEF n, m
<1> USE DEF Plus, Minus, Times, Over, Rest, Remainder, LaneResult
<1>5. CASE line.op = "SIMD_add16"
  BY <1>1, <1>3, <1>4, <1>5
<1>6. CASE line.op = "SIMD_sub16"
  BY <1>1, <1>3, <1>4, <1>6
<1>7. CASE line.op = "SIMD_mul16"
  BY <1>1, <1>3, <1>4, <1>7
<1>8. CASE line.op = "SIMD_div16"
  BY <1>1, <1>3, <1>4, <1>8
<1>9. CASE line.op = "SIMD_rem16"
  BY <1>1, <1>3, <1>4, <1>9
<1> QED  BY <1>1, <1>5, <1>6, <1>7, <1>8, <1>9 DEF LaneOps

LEMMA NeverTrapsNext == Before /\ DivisionNeverTraps /\ [Next]_vars => DivisionNeverTraps'
<1> DEFINE safe == {"div", "divu", "remu", "divw", "SIMD_div16", "SIMD_rem16"}
<1> SUFFICES ASSUME Before, DivisionNeverTraps, [Next]_vars, phase' = "aborted" PROVE line'.op \notin safe
  BY DEF DivisionNeverTraps
<1>1. CASE DivisionFaults
  <2>1. line' = line
    BY <1>1 DEF DivisionFaults, Executing, fetched
  <2>2. WordOf(line, w) /\ GetAluSignal(w) \in Faulting
    BY <1>1, FaultFound
  <2>3. line.op \in DOMAIN Abstract!RegisterOps => GetAluSignal(w) = Abstract!RegisterOps[line.op]
    BY <2>2, RegisterDecoded
  <2>4. line.op \in DOMAIN Abstract!LostOps => GetAluSignal(w) = Abstract!LostOps[line.op]
    BY <2>2, LostOpsDecoded
  <2>5. line.op \in {"div", "divu", "remu", "SIMD_div16", "SIMD_rem16"} =>
          line.op \in DOMAIN Abstract!RegisterOps /\ Abstract!RegisterOps[line.op] \notin Faulting
    BY DEF Abstract!RegisterOps, Faulting
  <2>6. line.op = "divw" => line.op \in DOMAIN Abstract!LostOps /\ Abstract!LostOps[line.op] \notin Faulting
    BY DEF Abstract!LostOps, Faulting
  <2> QED  BY <2>1, <2>2, <2>3, <2>4, <2>5, <2>6
<1>2. CASE SyscallFaults
  <2>1. line' = line /\ Ecall(w) /\ InFlight
    BY <1>2 DEF SyscallFaults, Syscall, Executing, fetched, InFlight
  <2>2. line.op = "ecall"
    BY <2>1, Flying, AccessDecoded DEF Before
  <2> QED  BY <2>1, <2>2
<1>3. CASE AccessFaults
  <2>1. line' = line /\ Accesses /\ InFlight /\ phase # "decode"
    BY <1>3 DEF AccessFaults, AtMemory, Abort, fetched, InFlight
  <2>2. WordOf(line, w) /\ line.op \in Mnemonics /\ control = SetControlSignals(w)
    BY <2>1, Flying DEF Before
  <2>3. w.opcode \in {kLoadType, kStoreType, kflw, kfsw}
    BY <2>1, <2>2 DEF Accesses, SetControlSignals
  <2>4. line.op \in DOMAIN Abstract!Loads \/ line.op \in DOMAIN Abstract!Stores
    BY <2>2, <2>3, AccessDecoded
  <2> QED  BY <2>1, <2>4 DEF Abstract!Loads, Abstract!Stores
<1>4. CASE UNCHANGED vars
  BY <1>4 DEF DivisionNeverTraps, vars, fetched
<1>5. CASE Next /\ ~(DivisionFaults \/ SyscallFaults \/ AccessFaults)
  <2>1. ~Fetch /\ ~Decode
    BY DEF Fetch, Decode
  <2>2. ~(ExecuteInteger \/ ExecuteFloatingPoint \/ ExecuteCsr)
    BY DEF ExecuteInteger, ExecuteFloatingPoint, ExecuteCsr
  <2>3. ~(SyscallQuiet \/ SyscallExit \/ SyscallRead \/ SyscallWrite)
    BY DEF SyscallQuiet, SyscallExit, SyscallRead, SyscallWrite
  <2>4. ~(NoAccess \/ Load \/ LoadSample \/ Store \/ StoreToLog)
    BY DEF NoAccess, Load, LoadSample, Store, StoreToLog, ToWriteBack
  <2>5. ~(WriteBackInteger \/ WriteBackFloat \/ WriteBackCsr \/ WriteBackNothing)
    BY DEF WriteBackInteger, WriteBackFloat, WriteBackCsr, WriteBackNothing, AtWriteBack
  <2> QED  BY <1>5, <2>1, <2>2, <2>3, <2>4, <2>5 DEF Next
<1> QED  BY <1>1, <1>2, <1>3, <1>4, <1>5

Remembered == Progress /\ Found /\ Typed /\ Recalled /\ Results /\ DivisionNeverTraps

LEMMA RememberedAlways ==
  ASSUME Units
  PROVE  Spec => []Remembered
<1>1. Init => Remembered
  <2>1. Init => phase = "fetch" /\ steps = 0
    BY DEF Init
  <2> QED  BY <2>1, ProgressInit, FoundInit, TypedInit DEF Remembered, Recalled, InFlight, Results, DivisionNeverTraps
<1>2. Remembered /\ [Next]_vars => Remembered'
  BY ProgressNext, FoundNext, TypedNext, RecalledNext, ResultsNext, NeverTrapsNext DEF Remembered, Before
<1> QED  BY <1>1, <1>2, PTL DEF Spec

(* With the units of src/vm/alu.cpp the stages implement Isa: of the units *)
(* nothing is assumed but that the code is systematic and that the host    *)
(* yields words.                                                           *)
THEOREM SourceInstructions ==
  ASSUME Built, HostFor(FloatingPointOps, Registers), CodeFor(Registers)
  PROVE  Spec => ImplementsIsa
BY SourceUnits, InstructionsCorrect

(* Whatever code and metadata its operands carry, the data that an R-type  *)
(* line leaves in its register is the result of their data, and a branch   *)
(* on equality looks at their data (Alu::execute, Execute).                *)
THEOREM CodesKeptOut ==
  ASSUME Built, HostFor(FloatingPointOps, Registers), CodeFor(Registers)
  PROVE  Spec => []CodesTransparent
<1>1. Units
  BY SourceUnits DEF Units
<1>2. Remembered => CodesTransparent
  BY TransparentData, TransparentBranches DEF Remembered, CodesTransparent
<1> QED  BY <1>1, <1>2, RememberedAlways, PTL

(* A lane of 16 bits of the register that a SIMD line leaves depends on    *)
(* the same lanes of its operands: the masks under which the units combine *)
(* lanes let no carry, borrow or sign through.                             *)
THEOREM LanesKeptApart ==
  ASSUME Built, HostFor(FloatingPointOps, Registers), CodeFor(Registers)
  PROVE  Spec => []LanesIndependent
<1>1. Units
  BY SourceUnits DEF Units
<1>2. Remembered => LanesIndependent
  BY IndependentLanes DEF Remembered
<1> QED  BY <1>1, <1>2, RememberedAlways, PTL

(* No execution ends on one of these divisions: the units test for a zero  *)
(* divisor and for the quotient that does not fit before they divide.      *)
THEOREM DivisionsSafe ==
  ASSUME Built, HostFor(FloatingPointOps, Registers), CodeFor(Registers)
  PROVE  Spec => []DivisionNeverTraps
<1>1. Units
  BY SourceUnits DEF Units
<1>2. Remembered => DivisionNeverTraps
  BY DEF Remembered
<1> QED  BY <1>1, <1>2, RememberedAlways, PTL

=============================================================================
