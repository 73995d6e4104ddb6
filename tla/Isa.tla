--------------------------------- MODULE Isa ---------------------------------
(***************************************************************************)
(* What each instruction of an assembly program does to the machine, in    *)
(* one step and by its mnemonic: no word, no field, no signal, no stage.   *)
(* It is what the tables of the sources together make of the mnemonic, and *)
(* no claim that this is what the mnemonic stands for: where the tables    *)
(* disagree with each other (LostOps, Lost, Misdirected, the operations    *)
(* kNone) it says what comes of that, and a sum has a code, an address the *)
(* whole of its base, as in the sources.                                   *)
(***************************************************************************)
EXTENDS Machine

VARIABLES pc, gpr, fpr, csr, mem, index, host,
          status,   (* "up", "aborted" or "exited"                         *)
          line      (* the last line executed                              *)

(* The operation of the ALU by mnemonic: on two registers, ...             *)
RegisterOps ==
  [ add |-> "kAdd", sub |-> "kSub", xor |-> "kXor", or |-> "kOr", and |-> "kAnd", sll |-> "kSll",
    srl |-> "kSrl", sra |-> "kSra", slt |-> "kSlt", sltu |-> "kSltu", mul |-> "kMul",
    mulh |-> "kMulh", mulhsu |-> "kMulhsu", mulhu |-> "kMulhu", div |-> "kDiv", divu |-> "kDivu",
    rem |-> "kRem", remu |-> "kRemu",
    SIMD_add32 |-> "kSIMD_add32", SIMD_sub32 |-> "kSIMD_sub32", SIMD_mul32 |-> "kSIMD_mul32",
    SIMD_div32 |-> "kSIMD_div32", SIMD_rem32 |-> "kSIMD_rem32", SIMD_load32 |-> "kSIMD_load32",
    SIMD_add16 |-> "kSIMD_add16", SIMD_sub16 |-> "kSIMD_sub16", SIMD_mul16 |-> "kSIMD_mul16",
    SIMD_div16 |-> "kSIMD_div16", SIMD_rem16 |-> "kSIMD_rem16",
    SIMD_load16_upper |-> "kSIMD_load16_upper", SIMD_load16_lower |-> "kSIMD_load16_lower",
    injectFlip |-> "kInjectFlip", checkError |-> "kCheckError", setSig |-> "kSetSig" ]

(* ... on a register and an immediate, ...                                 *)
ImmediateOps ==
  [ addi |-> "kAdd", xori |-> "kXor", ori |-> "kOr", andi |-> "kAnd", slti |-> "kSlt",
    sltiu |-> "kSltu", slli |-> "kSll", srli |-> "kSrl", srai |-> "kSra" ]

(* ... and where the result is lost: only a division that faults shows.    *)
LostOps ==
  [ addw |-> "kAddw", subw |-> "kSubw", mulw |-> "kMulw", divw |-> "kDivw", divuw |-> "kDivuw",
    remw |-> "kRemw", remuw |-> "kRemuw", sllw |-> "kSllw", srlw |-> "kSrlw", sraw |-> "kSraw" ]

Lost == {"addiw", "slliw", "srliw", "sraiw", "fmadd_s", "fmsub_s", "fnmsub_s", "fnmadd_s",
         "fmadd_d", "fmsub_d", "fnmsub_d", "fnmadd_d"}

(* Bytes read, and the values of the width whose sign is extended, if any. *)
Loads == [ lb  |-> [n |-> 1, sign |-> Radix], lh  |-> [n |-> 2, sign |-> Half],
           lw  |-> [n |-> 4, sign |-> Data],  ld  |-> [n |-> 8, sign |-> 0],
           lbu |-> [n |-> 1, sign |-> 0],     lhu |-> [n |-> 2, sign |-> 0],
           lwu |-> [n |-> 4, sign |-> 0],     lwpd |-> [n |-> 8, sign |-> 0],
           flw |-> [n |-> 4, sign |-> 0],     fld  |-> [n |-> 8, sign |-> 0] ]

Stores == [sb |-> 1, sh |-> 2, sw |-> 4, sd |-> 8, fsw |-> 4, fsd |-> 8]

BranchOps == [ beq |-> "kSub", bne |-> "kSub", blt |-> "kSlt", bge |-> "kSlt",
               bltu |-> "kSltu", bgeu |-> "kSltu" ]

(* Floating point: the unit, the operation, and the number in the place of *)
(* the rounding mode where the mnemonic has one of its own.                *)
Dynamic == 8
Arith(unit, op) == <<unit, op, Dynamic>>

FloatOps ==
  [ fadd_s |-> Arith("float", "FADD_S"), fsub_s |-> Arith("float", "FSUB_S"),
    fmul_s |-> Arith("float", "FMUL_S"), fdiv_s |-> Arith("float", "FDIV_S"),
    fadd_d |-> Arith("double", "FADD_D"), fsub_d |-> Arith("double", "FSUB_D"),
    fmul_d |-> Arith("double", "FMUL_D"), fdiv_d |-> Arith("double", "FDIV_D"),
    fadd_bf16 |-> Arith("bfloat16", "FADD_BF16"), fsub_bf16 |-> Arith("bfloat16", "FSUB_BF16"),
    fmul_bf16 |-> Arith("bfloat16", "FMUL_BF16"), fdiv_bf16 |-> Arith("bfloat16", "FDIV_BF16"),
    vdotp_bf16 |-> Arith("bfloat16", "VDOTP_BF16"),
    SIMDF_add32 |-> Arith("simdf32", "SIMDF_ADD32"), SIMDF_sub32 |-> Arith("simdf32", "SIMDF_SUB32"),
    SIMDF_mul32 |-> Arith("simdf32", "SIMDF_MUL32"), SIMDF_div32 |-> Arith("simdf32", "SIMDF_DIV32"),
    SIMDF_rem32 |-> Arith("simdf32", "SIMDF_REM32"), SIMDF_ld32 |-> Arith("simdf32", "SIMDF_LD32"),
    fsqrt_s   |-> Arith("float", "FSQRT_S"),    fsqrt_d   |-> Arith("double", "FSQRT_D"),
    fcvt_w_s  |-> Arith("float", "FCVT_W_S"),   fcvt_wu_s |-> Arith("float", "FCVT_WU_S"),
    fcvt_l_s  |-> Arith("float", "FCVT_L_S"),   fcvt_lu_s |-> Arith("float", "FCVT_LU_S"),
    fcvt_w_d  |-> Arith("double", "FCVT_W_D"),  fcvt_wu_d |-> Arith("double", "FCVT_WU_D"),
    fcvt_l_d  |-> Arith("double", "FCVT_L_D"),  fcvt_lu_d |-> Arith("double", "FCVT_LU_D"),
    fcvt_s_w  |-> Arith("float", "FCVT_S_W"),   fcvt_s_wu |-> Arith("float", "FCVT_S_WU"),
    fcvt_s_l  |-> Arith("float", "FCVT_S_L"),   fcvt_s_lu |-> Arith("float", "FCVT_S_LU"),
    fcvt_d_w  |-> Arith("double", "FCVT_D_W"),  fcvt_d_wu |-> Arith("double", "FCVT_D_WU"),
    fcvt_d_l  |-> Arith("double", "FCVT_D_L"),  fcvt_d_lu |-> Arith("double", "FCVT_D_LU"),
    fcvt_s_d  |-> Arith("double", "kNone"),     fcvt_d_s  |-> Arith("double", "kNone"),
    fsgnj_s |-> <<"float", "FSGNJ_S", 0>>,  fsgnjn_s |-> <<"float", "FSGNJN_S", 1>>,
    fsgnjx_s |-> <<"float", "FSGNJX_S", 2>>, fsgnj_d |-> <<"double", "FSGNJ_D", 0>>,
    fsgnjn_d |-> <<"double", "FSGNJN_D", 1>>, fsgnjx_d |-> <<"double", "FSGNJX_D", 2>>,
    fmin_s |-> <<"float", "FMIN_S", 0>>, fmax_s |-> <<"float", "FMAX_S", 1>>,
    fmin_d |-> <<"double", "FMIN_D", 0>>, fmax_d |-> <<"double", "FMAX_D", 1>>,
    fle_s |-> <<"float", "FLE_S", 0>>, flt_s |-> <<"float", "FLT_S", 1>>, feq_s |-> <<"float", "FEQ_S", 2>>,
    fle_d |-> <<"double", "FLE_D", 0>>, flt_d |-> <<"double", "FLT_D", 1>>, feq_d |-> <<"double", "FEQ_D", 2>>,
    fmv_w_x |-> <<"float", "FMV_W_X", 0>>, fmv_x_w |-> <<"float", "FMV_X_W", 0>>,
    fmv_d_x |-> <<"double", "FMV_D_X", 0>>, fmv_x_d |-> <<"double", "FMV_X_D", 0>>,
    fclass_s |-> <<"float", "FCLASS_S", 1>>, fclass_d |-> <<"double", "FCLASS_D", 1>> ]

FromX == {"fcvt_s_w", "fcvt_s_wu", "fcvt_s_l", "fcvt_s_lu", "fcvt_d_w", "fcvt_d_wu", "fcvt_d_l",
          "fcvt_d_lu", "fmv_w_x", "fmv_d_x"}

ToX == {"fcvt_w_s", "fcvt_wu_s", "fcvt_l_s", "fcvt_lu_s", "fcvt_w_d", "fcvt_wu_d", "fcvt_l_d",
        "fcvt_lu_d", "fmv_x_w", "fmv_x_d", "fclass_s", "fclass_d", "fle_s", "flt_s", "feq_s",
        "fle_d", "flt_d", "feq_d"}

FloatLoads  == [flw |-> "float", fld |-> "double"]
FloatStores == [fsw |-> "float", fsd |-> "double"]

CsrOps == {"csrrw", "csrrs", "csrrc", "csrrwi", "csrrsi", "csrrci"}

----------------------------------------------------------------------------

X(r) == Register(gpr, r)
F(r) == Register(fpr, r)

Sequel == pc' = pc + 4

(* The mode of the process a line starts in: see Fetch in Datapath.        *)
Mode == {host, 0}

Sets(rd, value) == gpr' = Written(gpr, rd, value) /\ UNCHANGED <<fpr, csr, mem, index>>

RegisterRegister(l) ==
  /\ l.op \in DOMAIN RegisterOps
  /\ \E r \in Execute(RegisterOps[l.op], X(l.rs1), X(l.rs2)) \ {Trap} : Sets(l.rd, r)
  /\ Sequel /\ host' \in Mode

RegisterImmediate(l) ==
  /\ l.op \in DOMAIN ImmediateOps
  /\ \E r \in Execute(ImmediateOps[l.op], X(l.rs1), l.imm % Full) : Sets(l.rd, r)
  /\ Sequel /\ host' \in Mode

LostResult(l) ==
  /\ \/ l.op \in Lost
     \/ l.op \in DOMAIN LostOps /\ Execute(LostOps[l.op], X(l.rs1), X(l.rs2)) # {Trap}
  /\ UNCHANGED <<gpr, fpr, csr, mem, index>>
  /\ Sequel /\ host' \in Mode

UpperImmediate(l) ==
  /\ l.op \in {"lui", "auipc"}
  /\ Sets(l.rd, (Signed(Page * l.imm, Data) + (IF l.op = "auipc" THEN pc ELSE 0)) % Full)
  /\ Sequel /\ host' \in Mode

(* The link is protected as a pointer; jalr drops the code of its base.    *)
Jump(l) ==
  /\ l.op \in {"jal", "jalr"}
  /\ Sets(l.rd, Protected((pc + 4) % Data, 1, SIG_POINTER))
  /\ pc' = IF l.op = "jal" THEN (pc + l.imm) % Full ELSE (S32(Checked(X(l.rs1))) + l.imm) % Data
  /\ host' \in Mode

Branch(l) ==
  /\ l.op \in DOMAIN BranchOps
  /\ \E r \in Execute(BranchOps[l.op], X(l.rs1), X(l.rs2)) :
       LET taken == CASE l.op = "beq" -> r % Data = 0
                      [] l.op = "bne" -> r % Data # 0
                      [] l.op \in {"blt", "bltu"} -> r % Data = 1
                      [] l.op \in {"bge", "bgeu"} -> r % Data = 0
       IN  pc' = IF taken THEN (pc + l.imm) % Full ELSE pc + 4
  /\ UNCHANGED <<gpr, fpr, csr, mem, index>> /\ host' \in Mode

----------------------------------------------------------------------------
(* Memory.  The base is the whole register.                                *)

Address(l) == (X(l.rs1) + l.imm) % Full

Content(l) ==
  LET n == Loads[l.op].n
      v == CASE n = 1 -> mem[Address(l)] [] n = 2 -> ReadHalfWord(mem, Address(l))
             [] n = 4 -> ReadWord(mem, Address(l)) [] n = 8 -> ReadDoubleWord(mem, Address(l))
  IN  IF Loads[l.op].sign = 0 THEN v ELSE Signed(v, Loads[l.op].sign) % Full

Integer(l) == l.op \notin DOMAIN FloatLoads \cup DOMAIN FloatStores
Readable(l) == InRange(Address(l), Loads[l.op].n)

Sampled(l) == l.op = "lwpd" /\ Address(l) \in {AudioIn, ImageIn}
Logged(l)  == l.op = "sw" /\ Address(l) \in {AudioOut, ImageOut}

Load(l) ==
  /\ l.op \in DOMAIN Loads \ DOMAIN FloatLoads
  /\ ~Sampled(l) /\ Readable(l)
  /\ Sets(l.rd, IF l.op = "lwpd" THEN Protected(Content(l) % Data, 0, SIG_LOW) ELSE Content(l))
  /\ Sequel /\ host' \in Mode

LoadSample(l) ==
  /\ Sampled(l)
  /\ LET s == IF Address(l) = AudioIn THEN Sample(audio_samples, index.audio)
                                    ELSE Sample(image_samples, index.image)
     IN  gpr' = Written(gpr, l.rd, Protected(s % Data, 0, SIG_LOW))
  /\ index' = IF Address(l) = AudioIn
              THEN [index EXCEPT !.audio = NextIndex(audio_samples, @)]
              ELSE [index EXCEPT !.image = NextIndex(image_samples, @)]
  /\ UNCHANGED <<fpr, csr, mem>>
  /\ Sequel /\ host' \in Mode

Store(l) ==
  /\ l.op \in DOMAIN Stores
  /\ Logged(l) \/ InRange(Address(l), Stores[l.op])
  /\ mem' = IF Logged(l) THEN mem
            ELSE Stored(mem, Address(l), Stores[l.op], IF Integer(l) THEN X(l.rs2) ELSE F(l.rs2))
  /\ UNCHANGED <<gpr, fpr, index>>
  /\ Sequel

(* An address is added by the floating-point unit with the width of the    *)
(* access, 2 or 3, as its rounding mode, and the unit does not give the    *)
(* mode back.                                                              *)
IntegerStore(l) == Store(l) /\ Integer(l) /\ UNCHANGED csr /\ host' \in Mode

Addressed(l, unit) ==
  \E h \in Mode :
    LET f == FpExecute(unit, "kAdd", X(l.rs1), l.imm % Full, 0, IF unit = "float" THEN 2 ELSE 3, h)
    IN  /\ host' = f.host
        /\ csr' = IF unit = "double" THEN csr ELSE [csr EXCEPT ![kFcsr] = f.flags]

FloatStore(l) == Store(l) /\ ~Integer(l) /\ Addressed(l, FloatStores[l.op])

(* With some offsets it is the address that is loaded, into the general    *)
(* register of that number.                                                *)
Misdirected(l) ==
  (l.imm % 4096) \div 32 \in (IF l.op = "flw" THEN {80, 96, 112} ELSE {81, 97, 113})

FloatLoad(l) ==
  /\ l.op \in DOMAIN FloatLoads
  /\ Readable(l)
  /\ IF Misdirected(l) THEN gpr' = Written(gpr, l.rd, Address(l)) /\ UNCHANGED fpr
                       ELSE fpr' = [fpr EXCEPT ![l.rd] = Content(l)] /\ UNCHANGED gpr
  /\ Addressed(l, FloatLoads[l.op])
  /\ UNCHANGED <<mem, index>>
  /\ Sequel

FloatingPoint(l) ==
  /\ l.op \in DOMAIN FloatOps
  /\ \E h \in Mode :
       LET unit == FloatOps[l.op][1]
           op   == FloatOps[l.op][2]
           rm   == IF FloatOps[l.op][3] = Dynamic THEN l.rm ELSE FloatOps[l.op][3]
           f == FpExecute(unit, op, IF l.op \in FromX THEN X(l.rs1) ELSE F(l.rs1), F(l.rs2),
                          IF op = "VDOTP_BF16" THEN F(4) ELSE 0,
                          IF rm = 7 /\ unit # "double" THEN csr[kFrm] % 256 ELSE rm, h)
       IN /\ IF l.op \in ToX THEN gpr' = Written(gpr, l.rd, f.value) /\ UNCHANGED fpr
                             ELSE fpr' = [fpr EXCEPT ![l.rd] = f.value] /\ UNCHANGED gpr
          /\ csr' = IF unit = "double" THEN csr ELSE [csr EXCEPT ![kFcsr] = f.flags]
          /\ host' = f.host
  /\ UNCHANGED <<mem, index>>
  /\ Sequel

Csr(l) ==
  /\ l.op \in CsrOps
  /\ LET operand == IF l.op \in {"csrrwi", "csrrsi", "csrrci"} THEN l.rs1 ELSE X(l.rs1)
         old     == csr[l.imm]
     IN  csr' = [csr EXCEPT ![l.imm] =
                   CASE l.op \in {"csrrw", "csrrwi"} -> operand
                     [] l.op \in {"csrrs", "csrrsi"} -> IF operand = 0 THEN old ELSE SetBits(old, operand)
                     [] l.op \in {"csrrc", "csrrci"} -> IF operand = 0 THEN old ELSE ClearBits(old, operand)]
  /\ gpr' = Written(gpr, l.rd, csr[l.imm])
  /\ UNCHANGED <<fpr, mem, index>>
  /\ Sequel /\ host' \in Mode

----------------------------------------------------------------------------
(* System calls, and the three ways an execution ends the process.         *)

ecall(l) ==
  /\ l.op = "ecall"
  /\ CASE SyscallKind(gpr, mem) = "quiet" -> UNCHANGED <<gpr, mem>>
       [] SyscallKind(gpr, mem) = "write" -> gpr' = Written(gpr, 10, gpr[12]) /\ UNCHANGED mem
       [] SyscallKind(gpr, mem) = "read" ->
            \E input \in Inputs :
              /\ mem' = Received(mem, gpr[11], gpr[12], input)
              /\ gpr' = Written(gpr, 10, IF Len(input) < gpr[12] THEN Len(input) ELSE gpr[12])
       [] OTHER -> FALSE
  /\ UNCHANGED <<fpr, csr, index>>
  /\ Sequel /\ host' \in Mode

Faults(l) ==
  \/ l.op \in DOMAIN RegisterOps /\ Trap \in Execute(RegisterOps[l.op], X(l.rs1), X(l.rs2))
  \/ l.op \in DOMAIN LostOps /\ Trap \in Execute(LostOps[l.op], X(l.rs1), X(l.rs2))
  \/ l.op \in DOMAIN Loads /\ ~Sampled(l) /\ ~Readable(l)
  \/ l.op \in DOMAIN Stores /\ ~Logged(l) /\ ~InRange(Address(l), Stores[l.op])
  \/ l.op = "ecall" /\ SyscallKind(gpr, mem) = "fault"

Continues(l) ==
  \/ RegisterRegister(l) \/ RegisterImmediate(l) \/ LostResult(l) \/ UpperImmediate(l)
  \/ Jump(l) \/ Branch(l) \/ Load(l) \/ LoadSample(l) \/ IntegerStore(l) \/ FloatStore(l)
  \/ FloatLoad(l) \/ FloatingPoint(l) \/ Csr(l) \/ ecall(l)

Line(l) ==
  /\ status = "up"
  /\ line' = l
  /\ \/ Continues(l) /\ UNCHANGED status
     \/ Faults(l) /\ status' = "aborted" /\ UNCHANGED <<pc, gpr, fpr, csr, mem, index, host>>
     \/ /\ l.op = "ecall" /\ SyscallKind(gpr, mem) = "exit"
        /\ status' = "exited" /\ UNCHANGED <<pc, gpr, fpr, csr, mem, index, host>>

Init == status = "up" /\ line = [op |-> "none"]

Next == \E l \in Lines(pc) : Line(l)

Spec == Init /\ [][Next]_<<pc, gpr, fpr, csr, mem, index, host, status, line>>

=============================================================================
