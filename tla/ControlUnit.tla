---------------------------- MODULE ControlUnit ----------------------------
(***************************************************************************)
(* How the machine reads an instruction word: the immediate (VmBase, in    *)
(* src/vm/vm_base.cpp), the control signals and the operation of the ALU   *)
(* (src/vm/rvss/rvss_control_unit.cpp), and the tests that send a word to  *)
(* one of the floating-point units (src/common/instructions.cpp).          *)
(*                                                                         *)
(* A word is the record of its six fields; an immediate is spread over     *)
(* them as the format says.  Operations have the names of enum AluOp.      *)
(***************************************************************************)
EXTENDS Integers, Sequences

Instructions == [ opcode : 0 .. 127, rd : 0 .. 31, funct3 : 0 .. 7,
                  rs1 : 0 .. 31, rs2 : 0 .. 31, funct7 : 0 .. 127 ]

kRtype     == 51
kItype     == 19
kLoadType  == 3
kStoreType == 35
kBtype     == 99
kjal       == 111
kjalr      == 103
klui       == 55
kauipc     == 23
kSystem    == 115
kOp32      == 59
kOpImm32   == 27
kflw       == 7
kfsw       == 39
kFtype     == 83
kfmadd     == 67
kfmsub     == 71
kfnmsub    == 75
kfnmadd    == 79

Ecall(w) == w.opcode = kSystem /\ w.funct3 = 0

----------------------------------------------------------------------------
(* The immediate.                                                          *)

sign_extend(n, half) == IF n < half THEN n ELSE n - 2 * half

ImmediateI(w) == sign_extend(w.rs2 + 32 * w.funct7, 2048)
ImmediateS(w) == sign_extend(w.rd + 32 * w.funct7, 2048)

ImmediateB(w) ==
  sign_extend(2 * (w.rd \div 2 + 16 * (w.funct7 % 64)
                   + 1024 * (w.rd % 2) + 2048 * (w.funct7 \div 64)), 4096)

ImmediateU(w) == w.funct3 + 8 * w.rs1 + 256 * w.rs2 + 8192 * w.funct7

(* Mutant: the width of the comment there, "Might be 20".                  *)
ImmediateJ20(w) ==
  sign_extend(2 * (w.rs2 \div 2 + 16 * (w.funct7 % 64) + 1024 * (w.rs2 % 2)
                   + 2048 * (w.funct3 + 8 * w.rs1)), 524288)

ImmediateJ(w) ==
  sign_extend(2 * (w.rs2 \div 2 + 16 * (w.funct7 % 64) + 1024 * (w.rs2 % 2)
                   + 2048 * (w.funct3 + 8 * w.rs1) + 524288 * (w.funct7 \div 64)),
              1048576)

ImmGenerator(w) ==
  CASE w.opcode \in {kItype, kLoadType, kjalr, kflw} -> ImmediateI(w)
    [] w.opcode \in {kStoreType, kfsw}               -> ImmediateS(w)
    [] w.opcode = kBtype                             -> ImmediateB(w)
    [] w.opcode \in {klui, kauipc}                   -> ImmediateU(w)
    [] w.opcode = kjal                               -> ImmediateJ(w)
    [] OTHER                                         -> 0

(* The opcodes of the words that have an immediate.                        *)
Gathered == {kItype, kLoadType, kjalr, kflw, kStoreType, kfsw, kBtype, klui, kauipc, kjal}

----------------------------------------------------------------------------
(* The signals.  alu_op_ and mem_to_reg_ are set too, but nobody uses them. *)

Signals == [ alu_src : BOOLEAN, reg_write : BOOLEAN, mem_read : BOOLEAN,
             mem_write : BOOLEAN, branch : BOOLEAN, is_load_protected : BOOLEAN ]

SetControlSignals(w) ==
  [ alu_src           |-> w.opcode \in {kLoadType, kStoreType, kItype, klui, kauipc, kjalr, kflw, kfsw},
    reg_write         |-> w.opcode \in {kRtype, kLoadType, kItype, klui, kauipc, kjal, kjalr, 1, kflw, kFtype},
    mem_read          |-> w.opcode \in {kLoadType, kflw},
    mem_write         |-> w.opcode \in {kStoreType, kfsw},
    branch            |-> w.opcode \in {kBtype, kjal, kjalr},
    is_load_protected |-> w.opcode = kLoadType /\ w.funct3 = 7 ]

----------------------------------------------------------------------------
(* The operation of the ALU.  A table lists the operations of one funct7   *)
(* (or of one funct3) in the order of the field that tells them apart.     *)

Entry(table, n) == IF n < Len(table) THEN table[n + 1] ELSE "kNone"

SignalR(w) ==
  CASE w.funct7 = 0  -> Entry(<<"kAdd", "kSll", "kSlt", "kSltu", "kXor", "kSrl", "kOr", "kAnd">>, w.funct3)
    [] w.funct7 = 1  -> Entry(<<"kMul", "kMulh", "kMulhsu", "kMulhu", "kDiv", "kDivu", "kRem", "kRemu">>, w.funct3)
    [] w.funct7 = 11 -> Entry(<<"kSIMD_add32", "kSIMD_sub32", "kSIMD_add16", "kSIMD_mul32",
                                "kSIMD_div32", "kSIMD_rem32", "kSIMD_sub16", "kSIMD_load32">>, w.funct3)
    [] w.funct7 = 15 -> Entry(<<"kSIMD_mul16", "kSIMD_load16_upper", "kSIMD_load16_lower",
                                "kSIMD_div16", "kSIMD_rem16">>, w.funct3)
    [] w.funct7 = 31 -> Entry(<<"kInjectFlip", "kCheckError", "kSetSig">>, w.funct3)
    [] w.funct7 = 32 -> Entry(<<"kSub", "kNone", "kNone", "kNone", "kNone", "kSra">>, w.funct3)
    [] OTHER         -> "kNone"

SignalI(w) ==
  IF w.funct3 # 5
  THEN Entry(<<"kAdd", "kSll", "kSlt", "kSltu", "kXor", "kNone", "kOr", "kAnd">>, w.funct3)
  ELSE CASE w.funct7 = 0 -> "kSrl" [] w.funct7 = 32 -> "kSra" [] OTHER -> "kNone"

SignalB(w) == Entry(<<"kSub", "kSub", "kNone", "kNone", "kSlt", "kSlt", "kSltu", "kSltu">>, w.funct3)

SignalOpImm32(w) ==
  CASE w.funct3 = 0                   -> "kAddw"
    [] w.funct3 = 1                   -> "kSllw"
    [] w.funct3 = 5 /\ w.funct7 = 0   -> "kSrlw"
    [] w.funct3 = 5 /\ w.funct7 = 32  -> "kSraw"
    [] OTHER                          -> "kNone"

SignalOp32(w) ==
  CASE w.funct3 = 1  -> "kSllw"
    [] w.funct3 # 1 /\ w.funct7 = 0  -> Entry(<<"kAddw", "kNone", "kNone", "kNone", "kNone", "kSrlw">>, w.funct3)
    [] w.funct3 # 1 /\ w.funct7 = 32 -> Entry(<<"kSubw", "kNone", "kNone", "kNone", "kNone", "kSraw">>, w.funct3)
    [] w.funct3 # 1 /\ w.funct7 = 1  -> Entry(<<"kMulw", "kNone", "kNone", "kNone",
                                                "kDivw", "kDivuw", "kRemw", "kRemuw">>, w.funct3)
    [] OTHER -> "kNone"

(* funct7 names the four operations of arithmetic in all four formats.     *)
SignalArithmetic(w) ==
  Entry(<< "FADD_S", "FADD_D", "FADD_BF16", "SIMDF_ADD32", "FSUB_S", "FSUB_D", "FSUB_BF16", "SIMDF_SUB32",
           "FMUL_S", "FMUL_D", "FMUL_BF16", "SIMDF_MUL32", "FDIV_S", "FDIV_D", "FDIV_BF16", "SIMDF_DIV32" >>,
        w.funct7)

(* funct7 without its last bit selects the operation, that bit float or    *)
(* double; the field rs2 or funct3 selects among related operations.       *)
SignalFloat(w) ==
  LET d == w.funct7 % 2
      Of(single, double) == IF d = 0 THEN single ELSE double
      group == w.funct7 - d
  IN CASE group = 44  -> Of("FSQRT_S", "FSQRT_D")
       [] group = 96  -> Entry(Of(<<"FCVT_W_S", "FCVT_WU_S", "FCVT_L_S", "FCVT_LU_S">>,
                                  <<"FCVT_W_D", "FCVT_WU_D", "FCVT_L_D", "FCVT_LU_D">>), w.rs2)
       [] group = 104 -> Entry(Of(<<"FCVT_S_W", "FCVT_S_WU", "FCVT_S_L", "FCVT_S_LU">>,
                                  <<"FCVT_D_W", "FCVT_D_WU", "FCVT_D_L", "FCVT_D_LU">>), w.rs2)
       [] group = 16  -> Entry(Of(<<"FSGNJ_S", "FSGNJN_S", "FSGNJX_S">>,
                                  <<"FSGNJ_D", "FSGNJN_D", "FSGNJX_D">>), w.funct3)
       [] group = 20  -> Entry(Of(<<"FMIN_S", "FMAX_S">>, <<"FMIN_D", "FMAX_D">>), w.funct3)
       [] group = 80  -> Entry(Of(<<"FLE_S", "FLT_S", "FEQ_S">>, <<"FLE_D", "FLT_D", "FEQ_D">>), w.funct3)
       [] group = 120 -> Of("FMV_W_X", "FMV_D_X")
       [] group = 112 -> Entry(Of(<<"FMV_X_W", "FCLASS_S">>, <<"FMV_X_D", "FCLASS_D">>), w.funct3)
       [] OTHER       -> "kNone"

(* The cases of the fused operations stand inside that of opcode 1010011,  *)
(* under values of funct7 that have funct2 = 3: none is ever taken.        *)
SignalF(w) ==
  CASE w.funct7 < 16 -> SignalArithmetic(w)
    [] w.funct7 = 18 -> "VDOTP_BF16"
    [] w.funct7 = 19 -> "SIMDF_REM32"
    [] w.funct7 = 23 -> "SIMDF_LD32"
    [] OTHER         -> SignalFloat(w)

GetAluSignal(w) ==
  CASE w.opcode = kRtype   -> SignalR(w)
    [] w.opcode = kItype   -> SignalI(w)
    [] w.opcode = kBtype   -> SignalB(w)
    [] w.opcode = kOpImm32 -> SignalOpImm32(w)
    [] w.opcode = kOp32    -> SignalOp32(w)
    [] w.opcode = kfmadd   -> "kFmadd_s"
    [] w.opcode = kFtype   -> SignalF(w)
    [] w.opcode \in {kLoadType, kStoreType, kjalr, kjal, klui, kauipc} -> "kAdd"
    [] w.opcode \in {kflw, kfsw} /\ w.funct3 \in {2, 3} -> "kAdd"
    [] OTHER -> "kNone"

----------------------------------------------------------------------------
(* Which unit executes and which form of WriteMemory and WriteBack follows. *)

isFInstruction(w) ==
  \/ w.opcode \in {kflw, kfsw} /\ w.funct3 = 2
  \/ w.opcode = kFtype /\ w.funct7 % 2 = 0 /\ w.funct7 # 32

isDInstruction(w) ==
  \/ w.opcode \in {kflw, kfsw} /\ w.funct3 = 3
  \/ w.opcode = kFtype /\ (w.funct7 % 2 = 1 \/ w.funct7 = 32)

isBFloat16Instruction(w) == w.opcode = kFtype /\ w.funct7 \in {2, 6, 10, 14, 18}
isSIMDF32Instruction(w)  == w.opcode = kFtype /\ w.funct7 \in {3, 7, 11, 15, 19, 23}

(* Mutant: bfloat16, whose funct7 is even, is tested after float.          *)
UnitFloatFirst(w) ==
  IF isFInstruction(w)            THEN "float"
  ELSE IF isSIMDF32Instruction(w) THEN "simdf32"
  ELSE IF isDInstruction(w)       THEN "double" ELSE "none"

(* In the order of the tests of Execute.                                   *)
Unit(w) ==
  IF isBFloat16Instruction(w)     THEN "bfloat16"
  ELSE IF isSIMDF32Instruction(w) THEN "simdf32"
  ELSE IF isFInstruction(w)       THEN "float"
  ELSE IF isDInstruction(w)       THEN "double" ELSE "none"

=============================================================================
