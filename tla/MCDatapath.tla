----------------------------- MODULE MCDatapath -----------------------------
(***************************************************************************)
(* Simulator at one bit for a byte: data of four bits in registers of      *)
(* eight, lanes of two.  The code is one bit of parity; its metadata are   *)
(* the mode and whether the data is a pointer.                             *)
(* Immediates keep the widths of their formats.                            *)
(***************************************************************************)
EXTENDS Simulator, FiniteSets, Bitwise

Parity(d) == (d + (d \div 2) + (d \div 4) + (d \div 8)) % 2

(* Data, parity, mode (SEC) and significance, from the lowest bit.         *)
MCProtected(d, freq, sig) == d + 16 * Parity(d) + 32 + (IF sig >= SIG_POINTER THEN 64 ELSE 0)
MCProtect(d, sig)         == MCProtected(d, 1, sig)
MCGetSig(x)               == IF (x \div 64) % 2 = 1 THEN SIG_POINTER ELSE 0
MCSetSig(x, y)            == x - 64 * ((x \div 64) % 2) + (IF y % Data >= 8 THEN 64 ELSE 0)

(* A flipped bit is taken for the lowest.                                  *)
MCChecked(x) ==
  LET d == x % Data
  IN  IF (x \div 32) % 2 = 1 /\ (x \div 16) % 2 # Parity(d)
      THEN (IF d % 2 = 0 THEN x + 1 ELSE x - 1) ELSE x

MCSetBits(old, value)   == BitByBit("kOr", old, value)
MCClearBits(old, value) == BitByBit("kAnd", old, Full - 1 - value)

(* Every floating-point operation, with a number to tell it by.            *)
OpNames == << "FADD_S", "FSUB_S", "FMUL_S", "FDIV_S", "FSQRT_S", "FADD_D", "FSUB_D", "FMUL_D",
  "FDIV_D", "FSQRT_D", "FADD_BF16", "FSUB_BF16", "FMUL_BF16", "FDIV_BF16", "VDOTP_BF16",
  "SIMDF_ADD32", "SIMDF_SUB32", "SIMDF_MUL32", "SIMDF_DIV32", "SIMDF_REM32", "FMIN_S", "FMAX_S",
  "FMIN_D", "FMAX_D", "FCVT_S_W", "FCVT_S_WU", "FCVT_S_L", "FCVT_S_LU", "FCVT_D_W", "FCVT_D_WU",
  "FCVT_D_L", "FCVT_W_S", "FCVT_WU_S", "FCVT_L_S", "FCVT_LU_S", "FCVT_W_D", "FCVT_WU_D",
  "FCVT_L_D", "FCVT_LU_D", "FCLASS_S", "FCLASS_D", "FMADD_S", "FMSUB_S", "FNMADD_S", "FNMSUB_S",
  "FMADD_D", "FMSUB_D", "FNMADD_D", "FNMSUB_D", "FCVT_S_D", "FCVT_D_S", "FCVT_D_LU" >>

OpNumber == [op \in {OpNames[i] : i \in DOMAIN OpNames} |-> CHOOSE i \in DOMAIN OpNames : OpNames[i] = op]

MCRounded(op, a, b, c, mode) == (OpNumber[op] + a + 3 * b + 5 * c + 7 * mode) % Full
MCFlags(op, a, b, mode)      == (a + b + mode) % 2
MCHolds(op, a, b) ==
  CASE op \in {"FEQ_S", "FEQ_D"} -> a = b
    [] op \in {"FLT_S", "FLT_D"} -> a < b
    [] op \in {"FLE_S", "FLE_D"} -> a =< b

----------------------------------------------------------------------------
(* Programs: any line first, then one that uses what the first one left.   *)

L(op, rd, rs1, rs2, imm, rm) ==
  [op |-> op, rd |-> rd, rs1 |-> rs1, rs2 |-> rs2, rs3 |-> 0, imm |-> imm, rm |-> rm]

Lines_(ops, rds, rs2, imms, rms) ==
  {L(op, rd, 1, rs2, imm, rm) : op \in ops, rd \in rds, imm \in imms, rm \in rms}

FirstLines ==
  UNION {
    Lines_(DOMAIN R_type_instruction_encoding_map, {1}, 2, {0}, {0}),
    Lines_({"add", "mulh"}, {0}, 2, {0}, {0}),
    Lines_(DOMAIN I1_type_instruction_encoding_map, {1}, 0, {-8, 0, 5}, {0}),
    Lines_({"lwpd", "lw"}, {1}, 0, {8, 11, 15}, {0}),
    Lines_(DOMAIN I2_type_instruction_encoding_map, {1}, 0, {1, 31}, {0}),
    Lines_({"ecall"}, {0}, 0, {0}, {0}),
    Lines_(DOMAIN S_type_instruction_encoding_map, {0}, 2, {-8, 0, 11}, {0}),
    Lines_(DOMAIN B_type_instruction_encoding_map, {0}, 2, {8, 2056, -4}, {0}),
    Lines_(DOMAIN U_type_instruction_encoding_map, {1}, 0, {3, 1048575, -1}, {0}),
    Lines_({"jal"}, {1}, 0, {4, -4, 526344}, {0}),
    Lines_(DOMAIN CSR_R_type_instruction_encoding_map, {1}, 0, {2}, {0}),
    Lines_(DOMAIN CSR_I_type_instruction_encoding_map, {0, 1}, 0, {3}, {0}),
    {L("csrrs", 1, 0, 0, 2, 0), L("csrrci", 1, 0, 0, 2, 0)},
    Lines_(DOMAIN F_D_R_type_instruction_encoding_map, {1}, 0, {0}, {0}),
    Lines_(DOMAIN F_D_R1_type_instruction_encoding_map, {1}, 0, {0}, {1, 7}),
    Lines_(DOMAIN F_D_R2_type_instruction_encoding_map, {1}, 0, {0}, {2, 7}),
    Lines_(DOMAIN F_D_R3_type_instruction_encoding_map, {0, 1}, 0, {0}, {0}),
    Lines_(DOMAIN F_D_R4_type_instruction_encoding_map, {1}, 0, {0}, {7}),
    Lines_(DOMAIN F_D_I_type_instruction_encoding_map, {1}, 0, {0, 5, -1536, -1504}, {0}),
    Lines_(DOMAIN F_D_S_type_instruction_encoding_map, {0}, 0, {0, 5}, {0}) }

Followers == { L("fadd_d", 1, 1, 0, 0, 7), L("fadd_s", 1, 1, 0, 0, 7), L("blt", 0, 1, 2, 8, 0),
               L("lw", 1, 1, 0, 0, 0), L("jalr", 1, 1, 0, 0, 0) }

MCLines(a) == IF a = 0 THEN FirstLines ELSE IF a = 4 THEN Followers ELSE {L("ecall", 0, 0, 0, 0, 0)}

(* Machines as registers may have been modified or loaded before.          *)
Operands == {0, 1, 5, 8, 12, 37, 128, 248, 255}

MCSamples == <<3, 250>>
MCInputs  == {<<>>, <<1>>, <<1, 1, 0, 1>>}

Pattern == [i \in 0 .. MemSize - 1 |-> (i \div 3 + i) % 2]

Machine_(x, f, frm) ==
  [ pc |-> 0, gpr |-> [r \in {0, 1, 2, 10, 11, 12, 17} |-> IF r \in DOMAIN x THEN x[r] ELSE 0],
    fpr |-> [r \in {0, 1, 4} |-> IF r \in DOMAIN f THEN f[r] ELSE 5],
    csr |-> [r \in {2, 3} |-> IF r = 2 THEN frm ELSE 0], mem |-> Pattern,
    index |-> [audio |-> 0, image |-> 0], host |-> 0 ]

MCStarts ==
  {Machine_([r \in {1, 2} |-> IF r = 1 THEN a ELSE b], [r \in {0, 1} |-> IF r = 1 THEN a ELSE b], (a + b) % 5)
     : a \in Operands, b \in Operands}
  \cup
  {Machine_([r \in {10, 11, 12, 17} |-> <<fd, buffer, 3, number>>[IF r = 17 THEN 4 ELSE r - 9]], <<>>, 0)
     : fd \in {0, 1}, buffer \in {8, 46}, number \in {1, 4, 10, 63, 64}}

(* The units of the sources and the code above are as the proofs assume    *)
(* them, and the operators on bits are what the library has for them.      *)
Some == {0, 37, 128, 255}

ASSUME MCUnits == UnitsFor(Some, {0, 1, 7}) /\ HostFor(FloatingPointOps, Some) /\ CodeFor(Registers)

ASSUME MCBits ==
  \A a, b \in Registers :
    BitByBit("kAnd", a, b) = (a & b) /\ BitByBit("kOr", a, b) = (a | b) /\ BitByBit("kXor", a, b) = (a ^^ b)

----------------------------------------------------------------------------

(* What the sources promise of an operand with the default rounding mode:  *)
(* src/vm/registers.cpp:21, "Default: RNE (IEEE 754)".                     *)
DynamicRounding ==
  (Done({"fadd_d"}) /\ line.rm = 7 /\ csr[kFrm] = ToNearest)
  => fpr[line.rd] = Rounded("FADD_D", before.fpr[line.rs1], before.fpr[line.rs2], 0, ToNearest)

(* A load through an address that an addition left, and which therefore    *)
(* has a code, reaches what is there: src/examples/test2.s:27 says of one  *)
(* "Load the first double from memory into f".                             *)
Sum(x) == x = MCProtect(x % Data, MCGetSig(x))

LoadReachesData ==
  LET a == (Base % Data) + line.imm
  IN  (Done({"fld"}) /\ Sum(Base) /\ a \in DOMAIN mem /\ InRange(a, 8))
      => fpr[line.rd] = ReadDoubleWord(mem, a)

(* The result of an instruction reaches the register it names: that of a   *)
(* word operation (src/include/vm/alu.h:33, "Addition word operation.", to *)
(* line 77) its general register; that of a fused multiplication (line     *)
(* 115, "Floating point multiply-add double operation."), of a conversion  *)
(* (line 143, "Floating point convert unsigned long to double operation.", *)
(* and 145, "Floating point convert double to single operation.") and of a *)
(* load of the addressed bytes its floating-point one.  Of floating-point  *)
(* results the low word is compared.                                       *)
WordImmediates == [addiw |-> "kAddw", slliw |-> "kSllw", srliw |-> "kSrlw", sraiw |-> "kSraw"]

Fused == [ fmadd_s |-> "FMADD_S", fmsub_s |-> "FMSUB_S", fnmadd_s |-> "FNMADD_S", fnmsub_s |-> "FNMSUB_S",
           fmadd_d |-> "FMADD_D", fmsub_d |-> "FMSUB_D", fnmadd_d |-> "FNMADD_D", fnmsub_d |-> "FNMSUB_D" ]

Conversions == [fcvt_s_d |-> "FCVT_S_D", fcvt_d_s |-> "FCVT_D_S", fcvt_d_lu |-> "FCVT_D_LU"]

InSomeMode(op, a, b, c) == \E mode \in HostModes : fpr[line.rd] % Data = Rounded(op, a, b, c, mode) % Data

Operand(r) == before.fpr[r]

WordDelivered ==
  (Done(DOMAIN Abstract!LostOps) /\ line.rd # 0) => gpr[line.rd] \in Execute(Abstract!LostOps[line.op], Base, Arg)

WordImmediateDelivered ==
  (Done(DOMAIN WordImmediates) /\ line.rd # 0)
  => gpr[line.rd] \in Execute(WordImmediates[line.op], Base, line.imm % Full)

FusedDelivered ==
  Done(DOMAIN Fused)
  => InSomeMode(Fused[line.op], Operand(line.rs1), Operand(line.rs2), Operand(line.rs3))

Converted ==
  Done(DOMAIN Conversions)
  => InSomeMode(Conversions[line.op], IF line.op = "fcvt_d_lu" THEN Base ELSE Operand(line.rs1), 0, 0)

FloatLoaded ==
  Done({"flw", "fld"})
  => LET a == (Base + line.imm) % Full
     IN  fpr[line.rd] = IF line.op = "flw" THEN ReadWord(before.mem, a) ELSE ReadDoubleWord(before.mem, a)

ResultsDelivered == WordDelivered /\ WordImmediateDelivered /\ FusedDelivered /\ Converted /\ FloatLoaded

=============================================================================
