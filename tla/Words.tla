-------------------------------- MODULE Words --------------------------------
(***************************************************************************)
(* Words of eight digits to the base Radix, one digit a byte: 256 in the   *)
(* code, less where TLC is to see every case.  Shifts take as many low     *)
(* bits of their amount as they need, which needs a power of two.  The     *)
(* lower four digits of a register are its data; the upper four hold the   *)
(* code and its metadata, or the sign of a result of 32 bits.              *)
(***************************************************************************)
EXTENDS Integers

CONSTANTS
  Radix,       (* the values of a byte                                     *)
  DigitBits    (* the bits of a byte                                       *)

ASSUME RadixAssumption == <<DigitBits, Radix>> \in {<<1, 2>>, <<2, 4>>, <<4, 16>>, <<8, 256>>}

Half == Radix * Radix          (* values of 16 bits                        *)
Data == Half * Half            (* values of 32 bits                        *)
Full == Data * Data            (* values of 64 bits                        *)

Trap == -1                     (* the host's division faults               *)

Registers == 0 .. Full - 1

Signed(n, values) == LET u == n % values IN IF 2 * u < values THEN u ELSE u - values

S32(w) == Signed(w, Data)
S64(w) == Signed(w, Full)

(* A signed result of 32 bits in a 64-bit word.                            *)
Extended(n) == Signed(n, Data) % Full

(* What digit i counts, from 1, and 2^k for bit k of a word.               *)
Place == << 1, Radix, Half, Radix * Half, Data, Radix * Data, Half * Data, Radix * Half * Data >>

Power(k) == Place[k \div DigitBits + 1] * <<1, 2, 4, 8, 16, 32, 64, 128>>[(k % DigitBits) + 1]

----------------------------------------------------------------------------
(* Little-endian words in a memory of bytes.                               *)

ReadHalfWord(m, a)   == m[a] + Radix * m[a + 1]
ReadWord(m, a)       == ReadHalfWord(m, a) + Half * ReadHalfWord(m, a + 2)
ReadDoubleWord(m, a) == ReadWord(m, a) + Data * ReadWord(m, a + 4)

Stored(m, a, n, w) ==
  [ i \in DOMAIN m |-> IF i \in a .. a + n - 1 THEN (w \div Place[i - a + 1]) % Radix ELSE m[i] ]

=============================================================================
