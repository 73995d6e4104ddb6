----------------------------- MODULE Simulator -----------------------------
(***************************************************************************)
(* Datapath with the units of the sources: Alu, FloatUnit, and the | and & *)
(* of CSR instructions.  What is left open is the arithmetic of the host's *)
(* floating point and the code that registers are protected by, of which   *)
(* EccCodec is the one of the sources.                                     *)
(***************************************************************************)
EXTENDS Datapath, Alu, FloatUnit

(* The units are those of the sources.                                     *)
Built ==
  /\ \A op, a, b : Execute(op, a, b) = execute(op, a, b)
  /\ \A unit, op, a, b, c, rm, h :
       FpExecute(unit, op, a, b, c, rm, h) = FloatOutcome(unit, op, a, b, c, rm, h)
  /\ \A old, value : /\ SetBits(old, value) = BitByBit("kOr", old, value)
                     /\ ClearBits(old, value) = BitByBit("kAnd", old, Full - 1 - value)
  /\ \A word : Checked(word) = adaptive_check_error(word)

(* What is computed by the host, and the code with the forms that loads    *)
(* and links are protected in.                                             *)
FloatingPointOps == {u[2] : u \in FloatingOps}

CodeFor(words) ==
  /\ Systematic(words)
  /\ \A x \in words : {Protected(x % Data, 0, SIG_LOW), Protected(x % Data, 1, SIG_POINTER)} \subseteq Registers

----------------------------------------------------------------------------

(* The last line executed, of ops, and what it read.                       *)
Done(ops) == phase = "fetch" /\ steps > 0 /\ line.op \in ops

Base == Register(before.gpr, line.rs1)
Arg  == Register(before.gpr, line.rs2)

(* A word's code and metadata do not change what these operations make of  *)
(* its data, whichever of the operands has a code: Alu::execute for R-type *)
(* words, and the tests of Execute for branches on equality.               *)
DataResult(op, a, b) ==
  CASE op = "add" -> (a + b) % Data
    [] op = "sub" -> (a - b) % Data
    [] op = "mul" -> (a * b) % Data
    [] op = "div" -> IF b = 0 THEN Data - 1 ELSE Quotient(S32(a), S32(b)) % Data
    [] op = "and" -> BitByBit("kAnd", a, b)
    [] op = "or"  -> BitByBit("kOr", a, b)
    [] op = "xor" -> BitByBit("kXor", a, b)
    [] op = "sll" -> (a * Power(Shift(b))) % Data

TransparentOps == {"add", "sub", "mul", "div", "and", "or", "xor", "sll"}

CodesTransparent ==
  /\ (Done(TransparentOps) /\ line.rd \in Gprs \ {0})
     => gpr[line.rd] % Data = DataResult(line.op, Base % Data, Arg % Data)
  /\ Done({"beq", "bne"})
     => pc = IF (line.op = "beq") = (Base % Data = Arg % Data) THEN (before.pc + line.imm) % Full
                                                              ELSE before.pc + 4

(* A lane of 16 bits is a function of the same lane of the operands: no    *)
(* carry, borrow or sign of a neighbour reaches it.                        *)
LaneResult(op, n, m) ==
  CASE op = "SIMD_add16" -> n + m
    [] op = "SIMD_sub16" -> n - m
    [] op = "SIMD_mul16" -> n * m
    [] op = "SIMD_div16" -> IF m = 0 THEN 0 ELSE Quotient(n, m)
    [] op = "SIMD_rem16" -> IF m = 0 THEN 0 ELSE n - m * Quotient(n, m)

LaneOps == {"SIMD_add16", "SIMD_sub16", "SIMD_mul16", "SIMD_div16", "SIMD_rem16"}

LanesIndependent ==
  (Done(LaneOps) /\ line.rd \in Gprs \ {0})
  => \A k \in 0 .. 3 :
       Lane(gpr[line.rd], k) =
         LaneResult(line.op, Signed(Lane(Base, k), Half), Signed(Lane(Arg, k), Half)) % Half

(* These divisions never fault on the host, by zero or by overflow.  Those *)
(* of the other instructions can: divuw, remw, remuw, rem, and two of      *)
(* SIMD, see Isa.                                                          *)
DivisionNeverTraps ==
  phase = "aborted" => line.op \notin {"div", "divu", "remu", "divw", "SIMD_div16", "SIMD_rem16"}

=============================================================================
