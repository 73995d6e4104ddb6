------------------------------ MODULE FloatUnit ------------------------------
(***************************************************************************)
(* The floating-point operations of src/vm/alu.cpp: fpexecute, dfpexecute, *)
(* bf16execute and simdf32execute.                                         *)
(*                                                                         *)
(* What is kept is which operations compute, on which lanes, and what they *)
(* do to the rounding mode of the host, which is the process's and not the *)
(* machine's.  The arithmetic of a lane is the host's: Rounded, Flags and  *)
(* Holds stand for it.  Modes of the host have the numbers of the field rm *)
(* that sets them.                                                         *)
(***************************************************************************)
EXTENDS Words

CONSTANTS
  Rounded(_, _, _, _, _),  (* result of an operation on three lanes in a mode *)
  Flags(_, _, _, _),       (* what the host raises, as bits of fcsr           *)
  Holds(_, _, _)           (* whether a comparison holds of two lanes         *)

ToNearest  == 0
TowardZero == 1
Downward   == 2
Upward     == 3
HostModes == ToNearest .. Upward

(* RMM and the reserved values leave the host as it is.                    *)
HostMode(rm, host) == IF rm \in HostModes THEN rm ELSE host

Compares == {"FEQ_S", "FLT_S", "FLE_S", "FEQ_D", "FLT_D", "FLE_D"}

(* A comparison that holds returns at once, and so do the sum of an address *)
(* and two of the moves: none of them gives the host its mode back.        *)
KeepsMode(unit, op, a, b) ==
  /\ unit \in {"float", "double"}
  /\ \/ op = "kAdd"
     \/ op = "FMV_X_W"
     \/ op = "FMV_D_X"
     \/ op \in Compares /\ Holds(op, a, b)

(* Sign injection: the first operand with another sign.                    *)
SignOf(n, values) == (2 * n) \div values
WithSign(n, values, sign) == (n % (values \div 2)) + sign * (values \div 2)

Injected(op, n, m, values) ==
  CASE op \in {"FSGNJ_S", "FSGNJ_D"}   -> WithSign(n, values, SignOf(m, values))
    [] op \in {"FSGNJN_S", "FSGNJN_D"} -> WithSign(n, values, 1 - SignOf(m, values))
    [] op \in {"FSGNJX_S", "FSGNJX_D"} ->
         WithSign(n, values, (SignOf(n, values) + SignOf(m, values)) % 2)

(* What a unit has no case for is 0.0.  Among them are the conversions      *)
(* between float and double, which no word selects, and FCVT_D_LU, in whose *)
(* place dfpexecute has a second FCVT_S_LU.                                 *)
Unknown == {"kNone", "FCVT_D_LU"}

FromWord == {"FCVT_S_W", "FCVT_S_WU", "FCVT_S_L", "FCVT_S_LU", "FCVT_D_W", "FCVT_D_WU", "FCVT_D_L"}

ToWord == { "FCVT_W_S", "FCVT_WU_S", "FCVT_L_S", "FCVT_LU_S", "FCVT_W_D", "FCVT_WU_D", "FCVT_L_D",
            "FCVT_LU_D", "FCLASS_S", "FCLASS_D" }

Moves == {"FMV_X_W", "FMV_W_X", "FMV_X_D", "FMV_D_X"}

Unary == FromWord \cup ToWord \cup Moves \cup {"FSQRT_S", "FSQRT_D"}

SignOps == {"FSGNJ_S", "FSGNJN_S", "FSGNJX_S", "FSGNJ_D", "FSGNJN_D", "FSGNJX_D"}

(* What is assumed of the host in the proofs, for operations and operands  *)
(* from sets: it yields words.  The others are compared, moved or put      *)
(* together from bits.                                                     *)
Uncomputed == Unknown \cup Compares \cup Moves \cup SignOps \cup {"kAdd", "SIMDF_LD32"}

HostFor(ops, words) ==
  \A op \in ops, a, b, c \in words, mode \in HostModes :
    /\ op \notin Uncomputed => Rounded(op, a, b, c, mode) \in Registers
    /\ Flags(op, a, b, mode) \in Registers

fpexecute(op, a, b, mode) ==
  CASE op \in Unknown   -> 0
    [] op = "kAdd"      -> (a + b) % Full
    [] op = "FMV_X_W"   -> Extended(a)
    [] op = "FMV_W_X"   -> a % Data
    [] op \in Compares  -> IF Holds(op, a % Data, b % Data) THEN 1 ELSE 0
    [] op \in SignOps   -> Injected(op, a % Data, b % Data, Data)
    [] op \in FromWord  -> Rounded(op, a, b, 0, mode) % Data
    [] op \in ToWord    -> Rounded(op, a % Data, b, 0, mode)
    [] OTHER            -> Rounded(op, a % Data, b % Data, 0, mode) % Data

dfpexecute(op, a, b, mode) ==
  CASE op \in Unknown   -> 0
    [] op = "kAdd"      -> (a + b) % Full
    [] op \in {"FMV_X_D", "FMV_D_X"} -> a
    [] op \in Compares  -> IF Holds(op, a, b) THEN 1 ELSE 0
    [] op \in SignOps   -> Injected(op, a, b, Full)
    [] OTHER            -> Rounded(op, a, b, 0, mode)

Lane(w, k) == (w \div Place[2 * k + 1]) % Half

(* The products of VDOTP_BF16 are summed on a third operand of 32 bits.    *)
bf16execute(op, a, b, c, mode) ==
  IF op = "VDOTP_BF16" THEN Rounded(op, a, b, c % Data, mode) % Data
  ELSE LET Of(k) == Rounded(op, Lane(a, k), Lane(b, k), 0, mode) % Half
       IN  Of(0) + Half * (Of(1) + Half * (Of(2) + Half * Of(3)))

simdf32execute(op, a, b, mode) ==
  IF op = "SIMDF_LD32" THEN (b % Data) + Data * (a % Data)
  ELSE (Rounded(op, a % Data, b % Data, 0, mode) % Data)
       + Data * (Rounded(op, a \div Data, b \div Data, 0, mode) % Data)

(* The result, the flags and the mode the host is left in.                 *)
FloatOutcome(unit, op, a, second, c, rm, host) ==
  LET mode   == HostMode(rm, host)
      b      == IF op \in Unary THEN 0 ELSE second
      values == IF unit = "float" THEN Data ELSE Full
      kept   == KeepsMode(unit, op, a % values, b % values)
  IN [ value |-> CASE unit = "float"    -> fpexecute(op, a, b, mode)
                   [] unit = "double"   -> dfpexecute(op, a, b, mode)
                   [] unit = "bfloat16" -> bf16execute(op, a, b, c, mode)
                   [] unit = "simdf32"  -> simdf32execute(op, a, b, mode),
       flags |-> IF kept \/ op \in Unknown THEN 0 ELSE Flags(op, a, b, mode),
       host  |-> IF kept THEN mode ELSE host ]

=============================================================================
