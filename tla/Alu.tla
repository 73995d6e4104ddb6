-------------------------------- MODULE Alu --------------------------------
(***************************************************************************)
(* The integer and SIMD operations of src/vm/alu.cpp, Alu::execute.        *)
(*                                                                         *)
(* An operation has a set of outcomes: one word, or Trap where the host's  *)
(* division faults, or any of the words an injected error may leave.       *)
(* Signed overflow wraps.  The flag overflow is returned and read by       *)
(* nobody.                                                                 *)
(***************************************************************************)
EXTENDS Words

CONSTANTS
  Protect(_, _),               (* compute_ecc and update_metadata with     *)
                               (* MODE_SEC and the significance            *)
  get_significance(_),
  set_significance(_, _),      (* update_metadata of the other fields as   *)
                               (* they were                                *)
  adaptive_check_error(_)

(* What is assumed of the code in the proofs, for operands from a set: it  *)
(* is systematic.  The data is in the lower half of a word, and protecting *)
(* it changes nothing there.                                               *)
Significances == 0 .. 63

Systematic(words) ==
  /\ \A x, y \in words :
       get_significance(x) \in Significances /\ {set_significance(x, y), adaptive_check_error(x)} \subseteq Registers
  /\ \A d \in 0 .. Data - 1, s \in Significances : Protect(d, s) \in Registers /\ Protect(d, s) % Data = d

Coded(n, a, b) ==
  Protect(n % Data, IF get_significance(a) > get_significance(b)
                    THEN get_significance(a) ELSE get_significance(b))

Magnitude(n) == IF n < 0 THEN -n ELSE n

(* Division of C, which truncates.                                         *)
Quotient(n, m) ==
  IF (n < 0) = (m < 0) THEN Magnitude(n) \div Magnitude(m) ELSE -(Magnitude(n) \div Magnitude(m))
Remainder(n, m) == n - m * Quotient(n, m)

Shift(w)   == w % (8 * DigitBits)
Shift32(w) == w % (4 * DigitBits)

----------------------------------------------------------------------------
(* The operators &, | and ^ of C, on bits and from there on bytes, halves  *)
(* of 32 bits, 32 bits and words.                                          *)

OfBits(op, x, y) ==
  CASE op = "kAnd" -> x * y
    [] op = "kOr"  -> x + y - x * y
    [] op = "kXor" -> (x + y) % 2

OfBytes(op, x, y) ==
  LET At(p) == p * OfBits(op, (x \div p) % 2, (y \div p) % 2)
  IN  At(1) + At(2) + At(4) + At(8) + At(16) + At(32) + At(64) + At(128)

OfHalves(op, x, y) ==
  OfBytes(op, x % Radix, y % Radix) + Radix * OfBytes(op, x \div Radix, y \div Radix)

OfData(op, x, y) ==
  OfHalves(op, x % Half, y % Half) + Half * OfHalves(op, x \div Half, y \div Half)

BitByBit(op, a, b) ==
  OfData(op, a % Data, b % Data) + Data * OfData(op, a \div Data, b \div Data)

----------------------------------------------------------------------------
(* Lanes of 16 bits are combined under masks; a lower lane of 32 bits is   *)
(* extended by its sign before it is combined with the upper one.          *)

Lane16(w, k) == Signed(w \div Place[2 * k + 1], Half)

(* Mutant: the lanes are combined like those of 32 bits, without masks.    *)
JoinedUnmasked(l0, l1, l2, l3) ==
  BitByBit("kOr", BitByBit("kOr", l0 % Full, (l1 * Half) % Full),
              BitByBit("kOr", (l2 * Data) % Full, (l3 % Half) * Data * Half))

(* Four lanes side by side.                                                *)
Joined(l0, l1, l2, l3) ==
  (l0 % Half) + Half * ((l1 % Half) + Half * ((l2 % Half) + Half * (l3 % Half)))

Lanes16(Op(_, _), a, b) ==
  Joined(Op(Lane16(a, 0), Lane16(b, 0)), Op(Lane16(a, 1), Lane16(b, 1)),
         Op(Lane16(a, 2), Lane16(b, 2)), Op(Lane16(a, 3), Lane16(b, 3)))

Upper32(w) == Signed(w \div Data, Data)

Combined32(lower, upper) == BitByBit("kOr", Extended(lower), (upper % Data) * Data)

Lanes32(Op(_, _), a, b) == Combined32(Op(S32(a), S32(b)), Op(Upper32(a), Upper32(b)))

Plus(n, m)  == n + m
Minus(n, m) == n - m
Times(n, m) == n * m
Over(n, m)  == IF m = 0 THEN 0 ELSE Quotient(n, m)
Rest(n, m)  == IF m = 0 THEN 0 ELSE Remainder(n, m)

(* The host's division faults when the quotient does not fit.              *)
Overflows(n, m, values) == 2 * n = -values /\ m = -1
LaneOverflows(a, b) ==
  Overflows(S32(a), S32(b), Data) \/ Overflows(Upper32(a), Upper32(b), Data)

----------------------------------------------------------------------------
(* The operations, in groups.                                              *)

(* 32-bit arithmetic, whose results are given a code.                      *)

(* Mutant: Div divides whole words.                                        *)
DivWide(a, b) ==
  IF S64(b) = 0 THEN Coded(-1, a, b)
  ELSE IF Overflows(S64(a), S64(b), Full) THEN Coded(a, a, b)
  ELSE Coded(Quotient(S64(a), S64(b)), a, b)

(* Mutant: the test for the quotient that does not fit is forgotten.       *)
DivFaults(a, b) ==
  IF S32(b) = 0 THEN Coded(-1, a, b)
  ELSE IF Overflows(S32(a), S32(b), Data) THEN Trap
  ELSE Coded(Quotient(S32(a), S32(b)), a, b)

Div(a, b) ==
  IF S32(b) = 0 THEN Coded(-1, a, b)
  ELSE IF Overflows(S32(a), S32(b), Data) THEN Coded(a, a, b)
  ELSE Coded(Quotient(S32(a), S32(b)), a, b)

Arithmetic(op, a, b) ==
  CASE op = "kAdd" -> Coded(S32(a) + S32(b), a, b)
    [] op = "kSub" -> Coded(S32(a) - S32(b), a, b)
    [] op = "kMul" -> Coded(S32(a) * S32(b), a, b)
    [] op = "kDiv" -> Div(a, b)

(* 64-bit operations, code and metadata included.                          *)
Wide(op, a, b) ==
  CASE op = "kAddrAdd" -> (a + b) % Full
    [] op = "kMulh"    -> ((S64(a) * S64(b)) \div Full) % Full
    [] op = "kMulhsu"  -> ((S64(a) * b) \div Full) % Full
    [] op = "kMulhu"   -> (a * b) \div Full
    [] op = "kDivu"    -> IF b = 0 THEN 0 ELSE a \div b
    [] op = "kRemu"    -> IF b = 0 THEN 0 ELSE a % b
    [] op = "kRem"     -> IF b = 0 THEN 0
                          ELSE IF Overflows(S64(a), S64(b), Full) THEN Trap
                          ELSE Remainder(S64(a), S64(b)) % Full
    [] op \in {"kAnd", "kOr", "kXor"} -> BitByBit(op, a, b)
    [] op = "kSll"     -> (a * Power(Shift(b))) % Full
    [] op = "kSrl"     -> a \div Power(Shift(b))
    [] op = "kSra"     -> (S64(a) \div Power(Shift(b))) % Full
    [] op = "kSlt"     -> IF S64(a) < S64(b) THEN 1 ELSE 0
    [] op = "kSltu"    -> IF a < b THEN 1 ELSE 0

(* 32-bit operations without a code.  Divuw, Remw and Remuw test the whole *)
(* word for zero and divide by its lower half.                             *)
WordForm(op, a, b) ==
  CASE op = "kAddw"  -> Extended(S32(a) + S32(b))
    [] op = "kSubw"  -> Extended(S32(a) - S32(b))
    [] op = "kMulw"  -> Extended(S32(a) * S32(b))
    [] op = "kDivw"  -> IF S32(b) = 0 THEN 0
                        ELSE IF Overflows(S32(a), S32(b), Data) THEN Extended(a)
                        ELSE Extended(Quotient(S32(a), S32(b)))
    [] op = "kDivuw" -> IF b = 0 THEN 0 ELSE IF b % Data = 0 THEN Trap ELSE (a % Data) \div (b % Data)
    [] op = "kRemw"  -> IF b = 0 THEN 0
                        ELSE IF b % Data = 0 \/ Overflows(S32(a), S32(b), Data) THEN Trap
                        ELSE Extended(Remainder(S32(a), S32(b)))
    [] op = "kRemuw" -> IF b = 0 THEN 0 ELSE IF b % Data = 0 THEN Trap ELSE (a % Data) % (b % Data)
    [] op = "kSllw"  -> Extended((a % Data) * Power(Shift32(b)))
    [] op = "kSrlw"  -> Extended((a % Data) \div Power(Shift32(b)))
    [] op = "kSraw"  -> Extended(S32(a) \div Power(Shift32(b)))

Simd16(op, a, b) ==
  CASE op = "kSIMD_add16" -> Lanes16(Plus, a, b)
    [] op = "kSIMD_sub16" -> Lanes16(Minus, a, b)
    [] op = "kSIMD_mul16" -> Lanes16(Times, a, b)
    [] op = "kSIMD_div16" -> Lanes16(Over, a, b)
    [] op = "kSIMD_rem16" -> Lanes16(Rest, a, b)
    [] op = "kSIMD_load16_upper" -> b - (b % Data)
    [] op = "kSIMD_load16_lower" -> b % Data

Simd32(op, a, b) ==
  CASE op = "kSIMD_add32"  -> Lanes32(Plus, a, b)
    [] op = "kSIMD_sub32"  -> Lanes32(Minus, a, b)
    [] op = "kSIMD_mul32"  -> Lanes32(Times, a, b)
    [] op = "kSIMD_div32"  -> IF LaneOverflows(a, b) THEN Trap ELSE Lanes32(Over, a, b)
    [] op = "kSIMD_rem32"  -> IF LaneOverflows(a, b) THEN Trap ELSE Lanes32(Rest, a, b)
    [] op = "kSIMD_load32" -> Combined32(S32(b), a)

Flips(a) ==
  {IF (a \div Power(i)) % 2 = 0 THEN a + Power(i) ELSE a - Power(i) : i \in 0 .. 4 * DigitBits - 1}

execute(op, a, b) ==
  CASE op \in {"kAdd", "kSub", "kMul", "kDiv"} -> {Arithmetic(op, a, b)}
    [] op \in {"kAddrAdd", "kMulh", "kMulhsu", "kMulhu", "kDivu", "kRemu", "kRem", "kAnd",
               "kOr", "kXor", "kSll", "kSrl", "kSra", "kSlt", "kSltu"} -> {Wide(op, a, b)}
    [] op \in {"kAddw", "kSubw", "kMulw", "kDivw", "kDivuw", "kRemw", "kRemuw", "kSllw",
               "kSrlw", "kSraw"} -> {WordForm(op, a, b)}
    [] op \in {"kSIMD_add16", "kSIMD_sub16", "kSIMD_mul16", "kSIMD_div16", "kSIMD_rem16",
               "kSIMD_load16_upper", "kSIMD_load16_lower"} -> {Simd16(op, a, b)}
    [] op \in {"kSIMD_add32", "kSIMD_sub32", "kSIMD_mul32", "kSIMD_div32", "kSIMD_rem32",
               "kSIMD_load32"} -> {Simd32(op, a, b)}
    [] op = "kInjectFlip" -> {a} \cup Flips(a)
    [] op = "kCheckError" -> {adaptive_check_error(a)}
    [] op = "kSetSig"     -> {set_significance(a, b)}
    [] OTHER              -> {0}

=============================================================================
