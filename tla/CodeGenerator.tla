--------------------------- MODULE CodeGenerator ---------------------------
(***************************************************************************)
(* How the assembler writes an instruction word: the tables of             *)
(* src/common/instructions.cpp and the generate functions of               *)
(* src/assembler/code_generator.cpp, one for each format.                  *)
(*                                                                         *)
(* A line is what the parser leaves of a source line: the mnemonic, the    *)
(* numbers of the registers, the immediate (the number of the CSR in a CSR *)
(* instruction) and the rounding mode.  The dots of mnemonics are          *)
(* underscores.  A row of a table is a mnemonic with its opcode, funct3    *)
(* and funct7 (funct6 without its last bit, funct5, funct2), as far as the *)
(* format has them.                                                        *)
(***************************************************************************)
EXTENDS Integers

R_type_instruction_encoding_map ==
  [ add  |-> <<51, 0, 0>>, sub  |-> <<51, 0, 32>>, xor |-> <<51, 4, 0>>, or  |-> <<51, 6, 0>>,
    and  |-> <<51, 7, 0>>, sll  |-> <<51, 1, 0>>,  srl |-> <<51, 5, 0>>, sra |-> <<51, 5, 32>>,
    slt  |-> <<51, 2, 0>>, sltu |-> <<51, 3, 0>>,
    mul  |-> <<51, 0, 1>>, mulh |-> <<51, 1, 1>>, mulhsu |-> <<51, 2, 1>>, mulhu |-> <<51, 3, 1>>,
    div  |-> <<51, 4, 1>>, divu |-> <<51, 5, 1>>, rem    |-> <<51, 6, 1>>, remu  |-> <<51, 7, 1>>,
    addw |-> <<59, 0, 0>>, subw |-> <<59, 0, 32>>, sllw  |-> <<59, 1, 0>>, srlw  |-> <<59, 5, 0>>,
    sraw |-> <<59, 5, 32>>,
    mulw |-> <<59, 0, 1>>, divw |-> <<59, 4, 1>>, divuw |-> <<59, 5, 1>>, remw |-> <<59, 6, 1>>,
    remuw |-> <<59, 7, 1>>,
    SIMD_add32 |-> <<51, 0, 11>>, SIMD_sub32 |-> <<51, 1, 11>>, SIMD_load32 |-> <<51, 7, 11>>,
    SIMD_mul32 |-> <<51, 3, 11>>, SIMD_div32 |-> <<51, 4, 11>>, SIMD_rem32  |-> <<51, 5, 11>>,
    SIMD_add16 |-> <<51, 2, 11>>, SIMD_sub16 |-> <<51, 6, 11>>, SIMD_mul16  |-> <<51, 0, 15>>,
    SIMD_div16 |-> <<51, 3, 15>>, SIMD_rem16 |-> <<51, 4, 15>>,
    SIMD_load16_upper |-> <<51, 1, 15>>, SIMD_load16_lower |-> <<51, 2, 15>>,
    injectFlip |-> <<51, 0, 31>>, checkError |-> <<51, 1, 31>>, setSig |-> <<51, 2, 31>> ]

I1_type_instruction_encoding_map ==
  [ addi |-> <<19, 0>>, xori |-> <<19, 4>>, ori |-> <<19, 6>>, andi |-> <<19, 7>>,
    sltiu |-> <<19, 3>>, slti |-> <<19, 2>>, addiw |-> <<27, 0>>,
    lb |-> <<3, 0>>, lh |-> <<3, 1>>, lw |-> <<3, 2>>, ld |-> <<3, 3>>,
    lbu |-> <<3, 4>>, lhu |-> <<3, 5>>, lwu |-> <<3, 6>>, lwpd |-> <<3, 7>>,
    jalr |-> <<103, 0>> ]

I2_type_instruction_encoding_map ==
  [ slli  |-> <<19, 1, 0>>, srli  |-> <<19, 5, 0>>, srai  |-> <<19, 5, 16>>,
    slliw |-> <<27, 1, 0>>, srliw |-> <<27, 5, 0>>, sraiw |-> <<27, 5, 16>> ]

I3_type_instruction_encoding_map == [ecall |-> <<115, 0>>]

S_type_instruction_encoding_map ==
  [sb |-> <<35, 0>>, sh |-> <<35, 1>>, sw |-> <<35, 2>>, sd |-> <<35, 3>>]

B_type_instruction_encoding_map ==
  [ beq |-> <<99, 0>>, bne |-> <<99, 1>>, blt |-> <<99, 4>>, bge |-> <<99, 5>>,
    bltu |-> <<99, 6>>, bgeu |-> <<99, 7>> ]

U_type_instruction_encoding_map == [lui |-> <<55>>, auipc |-> <<23>>]

J_type_instruction_encoding_map == [jal |-> <<111>>]

CSR_R_type_instruction_encoding_map ==
  [csrrw |-> <<115, 1>>, csrrs |-> <<115, 2>>, csrrc |-> <<115, 3>>]

CSR_I_type_instruction_encoding_map ==
  [csrrwi |-> <<115, 5>>, csrrsi |-> <<115, 6>>, csrrci |-> <<115, 7>>]

F_D_R_type_instruction_encoding_map ==
  [ fsgnj_s |-> <<83, 0, 16>>, fsgnjn_s |-> <<83, 1, 16>>, fsgnjx_s |-> <<83, 2, 16>>,
    fsgnj_d |-> <<83, 0, 17>>, fsgnjn_d |-> <<83, 1, 17>>, fsgnjx_d |-> <<83, 2, 17>>,
    fmin_s |-> <<83, 0, 20>>, fmax_s |-> <<83, 1, 20>>, fmin_d |-> <<83, 0, 21>>, fmax_d |-> <<83, 1, 21>>,
    feq_s |-> <<83, 2, 80>>, flt_s |-> <<83, 1, 80>>, fle_s |-> <<83, 0, 80>>,
    feq_d |-> <<83, 2, 81>>, flt_d |-> <<83, 1, 81>>, fle_d |-> <<83, 0, 81>> ]

F_D_R1_type_instruction_encoding_map ==
  [ fadd_s |-> <<83, 0>>, fsub_s |-> <<83, 4>>, fmul_s |-> <<83, 8>>, fdiv_s |-> <<83, 12>>,
    fadd_d |-> <<83, 1>>, fsub_d |-> <<83, 5>>, fmul_d |-> <<83, 9>>, fdiv_d |-> <<83, 13>>,
    fadd_bf16 |-> <<83, 2>>, fsub_bf16 |-> <<83, 6>>, fmul_bf16 |-> <<83, 10>>, fdiv_bf16 |-> <<83, 14>>,
    vdotp_bf16 |-> <<83, 18>>,
    SIMDF_add32 |-> <<83, 3>>, SIMDF_sub32 |-> <<83, 7>>, SIMDF_mul32 |-> <<83, 11>>,
    SIMDF_div32 |-> <<83, 15>>, SIMDF_rem32 |-> <<83, 19>>, SIMDF_ld32 |-> <<83, 23>> ]

F_D_R2_type_instruction_encoding_map ==
  [ fsqrt_s  |-> <<83, 0, 44>>, fsqrt_d   |-> <<83, 0, 45>>,
    fcvt_w_s |-> <<83, 0, 96>>, fcvt_wu_s |-> <<83, 1, 96>>, fcvt_l_s |-> <<83, 2, 96>>, fcvt_lu_s |-> <<83, 3, 96>>,
    fcvt_w_d |-> <<83, 0, 97>>, fcvt_wu_d |-> <<83, 1, 97>>, fcvt_l_d |-> <<83, 2, 97>>, fcvt_lu_d |-> <<83, 3, 97>>,
    fcvt_s_w |-> <<83, 0, 104>>, fcvt_s_wu |-> <<83, 1, 104>>, fcvt_s_l |-> <<83, 2, 104>>, fcvt_s_lu |-> <<83, 3, 104>>,
    fcvt_d_w |-> <<83, 0, 105>>, fcvt_d_wu |-> <<83, 1, 105>>, fcvt_d_l |-> <<83, 2, 105>>, fcvt_d_lu |-> <<83, 3, 105>>,
    fcvt_s_d |-> <<83, 1, 32>>, fcvt_d_s |-> <<83, 0, 33>> ]

F_D_R3_type_instruction_encoding_map ==
  [ fmv_w_x |-> <<83, 0, 0, 120>>, fmv_x_w |-> <<83, 0, 0, 112>>, fclass_s |-> <<83, 1, 0, 112>>,
    fmv_d_x |-> <<83, 0, 0, 121>>, fmv_x_d |-> <<83, 0, 0, 113>>, fclass_d |-> <<83, 1, 0, 113>> ]

F_D_R4_type_instruction_encoding_map ==
  [ fmadd_s |-> <<67, 0>>, fmsub_s |-> <<71, 0>>, fnmsub_s |-> <<75, 0>>, fnmadd_s |-> <<79, 0>>,
    fmadd_d |-> <<67, 1>>, fmsub_d |-> <<71, 1>>, fnmsub_d |-> <<75, 1>>, fnmadd_d |-> <<79, 1>> ]

F_D_I_type_instruction_encoding_map == [flw |-> <<7, 2>>, fld |-> <<7, 3>>]

F_D_S_type_instruction_encoding_map == [fsw |-> <<39, 2>>, fsd |-> <<39, 3>>]

----------------------------------------------------------------------------
(* The immediates the parser accepts or makes itself (parse_formats): the  *)
(* upper one of li and la may be negative.                                 *)

Shifts         == 0 .. 31
ShortOffsets   == -2048 .. 2047
BranchOffsets  == {n \in -4096 .. 4095 : n % 4 = 0}
JumpOffsets    == {n \in Int : -1048576 =< n /\ n =< 1048575 /\ n % 2 = 0}
UpperOperands  == {n \in Int : -524288 =< n /\ n =< 1048575}

ShortOps == DOMAIN I1_type_instruction_encoding_map \cup DOMAIN S_type_instruction_encoding_map
              \cup DOMAIN F_D_I_type_instruction_encoding_map \cup DOMAIN F_D_S_type_instruction_encoding_map

Encodable(l) ==
  /\ l.op \in ShortOps => l.imm \in ShortOffsets
  /\ l.op \in DOMAIN I2_type_instruction_encoding_map => l.imm \in Shifts
  /\ l.op \in DOMAIN B_type_instruction_encoding_map  => l.imm \in BranchOffsets
  /\ l.op \in DOMAIN J_type_instruction_encoding_map  => l.imm \in JumpOffsets
  /\ l.op \in DOMAIN U_type_instruction_encoding_map  => l.imm \in UpperOperands

(* Registers have the numbers of their names, and the rounding mode that   *)
(* of its name; the immediate of csrrwi and its like stands in rs1.        *)
Numbered(l) == {l.rd, l.rs1, l.rs2, l.rs3} \subseteq 0 .. 31 /\ l.rm \in 0 .. 7

Mnemonics ==
  UNION { DOMAIN R_type_instruction_encoding_map, ShortOps, DOMAIN I2_type_instruction_encoding_map,
          DOMAIN I3_type_instruction_encoding_map, DOMAIN B_type_instruction_encoding_map,
          DOMAIN U_type_instruction_encoding_map, DOMAIN J_type_instruction_encoding_map,
          DOMAIN CSR_R_type_instruction_encoding_map, DOMAIN CSR_I_type_instruction_encoding_map,
          DOMAIN F_D_R_type_instruction_encoding_map, DOMAIN F_D_R1_type_instruction_encoding_map,
          DOMAIN F_D_R2_type_instruction_encoding_map, DOMAIN F_D_R3_type_instruction_encoding_map,
          DOMAIN F_D_R4_type_instruction_encoding_map }

----------------------------------------------------------------------------
(* A word from its fields, and the immediate of each format spread over    *)
(* them.  A right shift of the 32-bit immediate followed by a mask is a    *)
(* division and a remainder, for negative immediates too.                  *)

Word(opcode, rd, funct3, rs1, rs2, funct7) ==
  [ opcode |-> opcode, rd |-> rd, funct3 |-> funct3,
    rs1 |-> rs1, rs2 |-> rs2, funct7 |-> funct7 ]

Bits(n, from, width) == (n \div from) % width

IWord(opcode, rd, funct3, rs1, imm) ==
  Word(opcode, rd, funct3, rs1, Bits(imm, 1, 32), Bits(imm, 32, 128))

SWord(opcode, funct3, rs1, rs2, imm) ==
  Word(opcode, Bits(imm, 1, 32), funct3, rs1, rs2, Bits(imm, 32, 128))

generateRTypeMachineCode(l) ==
  LET e == R_type_instruction_encoding_map[l.op]
  IN  Word(e[1], l.rd, e[2], l.rs1, l.rs2, e[3])

generateI1TypeMachineCode(l) ==
  LET e == I1_type_instruction_encoding_map[l.op] IN IWord(e[1], l.rd, e[2], l.rs1, l.imm)

(* The six bits of funct6 stand above the six of a shift amount.           *)
generateI2TypeMachineCode(l) ==
  LET e == I2_type_instruction_encoding_map[l.op]
  IN  IWord(e[1], l.rd, e[2], l.rs1, 64 * e[3] + l.imm)

generateI3TypeMachineCode(l) ==
  LET e == I3_type_instruction_encoding_map[l.op] IN IWord(e[1], 0, e[2], 0, 0)

generateSTypeMachineCode(l) ==
  LET e == S_type_instruction_encoding_map[l.op] IN SWord(e[1], e[2], l.rs1, l.rs2, l.imm)

generateBTypeMachineCode(l) ==
  LET e == B_type_instruction_encoding_map[l.op]
  IN  Word(e[1], 2 * Bits(l.imm, 2, 16) + Bits(l.imm, 2048, 2), e[2], l.rs1, l.rs2,
           64 * Bits(l.imm, 4096, 2) + Bits(l.imm, 32, 64))

generateUTypeMachineCode(l) ==
  LET e == U_type_instruction_encoding_map[l.op]
  IN  Word(e[1], l.rd, Bits(l.imm, 1, 8), Bits(l.imm, 8, 32), Bits(l.imm, 256, 32), Bits(l.imm, 8192, 128))

generateJTypeMachineCode(l) ==
  LET e == J_type_instruction_encoding_map[l.op]
  IN  Word(e[1], l.rd, Bits(l.imm, 4096, 8), Bits(l.imm, 32768, 32),
           2 * Bits(l.imm, 2, 16) + Bits(l.imm, 2048, 2),
           64 * Bits(l.imm, 1048576, 2) + Bits(l.imm, 32, 64))

generateCSRRTypeMachineCode(l) ==
  LET e == CSR_R_type_instruction_encoding_map[l.op] IN IWord(e[1], l.rd, e[2], l.rs1, l.imm)

(* The five-bit immediate stands where rs1 does.                           *)
generateCSRITypeMachineCode(l) ==
  LET e == CSR_I_type_instruction_encoding_map[l.op] IN IWord(e[1], l.rd, e[2], l.rs1, l.imm)

generateFDRTypeMachineCode(l) ==
  LET e == F_D_R_type_instruction_encoding_map[l.op]
  IN  Word(e[1], l.rd, e[2], l.rs1, l.rs2, e[3])

generateFDR1TypeMachineCode(l) ==
  LET e == F_D_R1_type_instruction_encoding_map[l.op]
  IN  Word(e[1], l.rd, l.rm, l.rs1, l.rs2, e[2])

generateFDR2TypeMachineCode(l) ==
  LET e == F_D_R2_type_instruction_encoding_map[l.op]
  IN  Word(e[1], l.rd, l.rm, l.rs1, e[2], e[3])

generateFDR3TypeMachineCode(l) ==
  LET e == F_D_R3_type_instruction_encoding_map[l.op]
  IN  Word(e[1], l.rd, e[2], l.rs1, e[3], e[4])

generateFDR4TypeMachineCode(l) ==
  LET e == F_D_R4_type_instruction_encoding_map[l.op]
  IN  Word(e[1], l.rd, l.rm, l.rs1, l.rs2, 4 * l.rs3 + e[2])

generateFDITypeMachineCode(l) ==
  LET e == F_D_I_type_instruction_encoding_map[l.op] IN IWord(e[1], l.rd, e[2], l.rs1, l.imm)

generateFDSTypeMachineCode(l) ==
  LET e == F_D_S_type_instruction_encoding_map[l.op] IN SWord(e[1], e[2], l.rs1, l.rs2, l.imm)

generateMachineCode(l) ==
  CASE l.op \in DOMAIN R_type_instruction_encoding_map      -> generateRTypeMachineCode(l)
    [] l.op \in DOMAIN I1_type_instruction_encoding_map     -> generateI1TypeMachineCode(l)
    [] l.op \in DOMAIN I2_type_instruction_encoding_map     -> generateI2TypeMachineCode(l)
    [] l.op \in DOMAIN I3_type_instruction_encoding_map     -> generateI3TypeMachineCode(l)
    [] l.op \in DOMAIN S_type_instruction_encoding_map      -> generateSTypeMachineCode(l)
    [] l.op \in DOMAIN B_type_instruction_encoding_map      -> generateBTypeMachineCode(l)
    [] l.op \in DOMAIN U_type_instruction_encoding_map      -> generateUTypeMachineCode(l)
    [] l.op \in DOMAIN J_type_instruction_encoding_map      -> generateJTypeMachineCode(l)
    [] l.op \in DOMAIN CSR_R_type_instruction_encoding_map  -> generateCSRRTypeMachineCode(l)
    [] l.op \in DOMAIN CSR_I_type_instruction_encoding_map  -> generateCSRITypeMachineCode(l)
    [] l.op \in DOMAIN F_D_R_type_instruction_encoding_map  -> generateFDRTypeMachineCode(l)
    [] l.op \in DOMAIN F_D_R1_type_instruction_encoding_map -> generateFDR1TypeMachineCode(l)
    [] l.op \in DOMAIN F_D_R2_type_instruction_encoding_map -> generateFDR2TypeMachineCode(l)
    [] l.op \in DOMAIN F_D_R3_type_instruction_encoding_map -> generateFDR3TypeMachineCode(l)
    [] l.op \in DOMAIN F_D_R4_type_instruction_encoding_map -> generateFDR4TypeMachineCode(l)
    [] l.op \in DOMAIN F_D_I_type_instruction_encoding_map  -> generateFDITypeMachineCode(l)
    [] l.op \in DOMAIN F_D_S_type_instruction_encoding_map  -> generateFDSTypeMachineCode(l)

=============================================================================
