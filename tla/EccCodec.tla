------------------------------ MODULE EccCodec ------------------------------
(***************************************************************************)
(* The error-correcting code the simulator keeps in its 64-bit registers   *)
(* (src/ecc/ecc_utils.cpp, include/ecc/ecc_metadata.h), as pure functions. *)
(*                                                                         *)
(* A word is a record of its bit fields.  A field whose single bits matter *)
(* is the set of the positions that are 1: data (bits 0-31) and ham (bits  *)
(* 32-37); par is bit 38; mode, hist, freq and sig are the numbers in bits *)
(* 40-59.  Bits 39 and 60-63 are used by nobody and left out.              *)
(***************************************************************************)
EXTENDS Naturals, FiniteSets

CONSTANT FREQ_MAX                (* saturation of freq: 1023 in the code   *)

ASSUME FreqAssumption == FREQ_MAX \in Nat \ {0}

DataBits == 0 .. 31
HamBits  == 0 .. 5

MODE_NONE   == 0
MODE_SEC    == 1
MODE_SECDED == 2

SIG_POINTER  == 40
SIG_CRITICAL == 63

Words == [ data : SUBSET DataBits, ham : SUBSET HamBits, par : BOOLEAN,
           mode : 0 .. 3, hist : 0 .. 3, freq : 0 .. FREQ_MAX, sig : 0 .. 63 ]

SymDiff(S, T) == (S \ T) \cup (T \ S)
Odd(S)        == Cardinality(S) % 2 = 1

(* Check bit k is the parity of the data bits whose 1-based position has   *)
(* the bit 2^k set.                                                        *)
Power2    == <<1, 2, 4, 8, 16, 32>>
Coverage  == [k \in HamBits |-> {i \in DataBits : ((i + 1) \div Power2[k + 1]) % 2 = 1}]
Column(i) == {k \in HamBits : i \in Coverage[k]}

Hamming(d)    == {k \in HamBits : Odd(d \cap Coverage[k])}
Overall(d, h) == Odd(d) # Odd(h)

update_metadata(w, m, h, f, s) ==
  [w EXCEPT !.mode = m, !.hist = h, !.freq = f, !.sig = s]

(* compute_ecc over a word whose metadata is kept: the code calls          *)
(* update_metadata after it, with the fields it read before.               *)
compute_ecc(w, d) ==
  [w EXCEPT !.data = d, !.ham = Hamming(d), !.par = Overall(d, Hamming(d))]

Syndrome(w) == SymDiff(Hamming(w.data), w.ham)
Mismatch(w) == Overall(w.data, w.ham) # w.par
IsCodeword(w) == Syndrome(w) = {} /\ ~Mismatch(w)

(* Mutant: the position is not made 0-based before the shift.              *)
LocatedOneOff(s) == {i \in DataBits : i > 0 /\ Column(i - 1) = s}

(* The data bit a syndrome points at; none if it is out of the data.       *)
Located(s) == {i \in DataBits : Column(i) = s}

(* Mutant: any syndrome is taken for a single error.                       *)
checkErrorEager(w) ==
  IF Syndrome(w) = {} /\ ~Mismatch(w)
  THEN w
  ELSE compute_ecc(w, SymDiff(w.data, Located(Syndrome(w))))

(* Mutant: the code is computed before the data is corrected.             *)
checkErrorEncodesFirst(w) ==
  IF ~Mismatch(w)
  THEN w
  ELSE [compute_ecc(w, w.data) EXCEPT !.data = SymDiff(@, Located(Syndrome(w)))]

(* Without a parity mismatch the word is clean, or has an even number of   *)
(* errors and is left as it is.                                            *)
checkError(w) ==
  IF ~Mismatch(w) THEN w ELSE compute_ecc(w, SymDiff(w.data, Located(Syndrome(w))))

(* reg & DATA_ECC_MASK: 0x7FFFFFFFF has 35 ones, so ham bits 3-5 and the   *)
(* parity are outside.                                                     *)
Masked(w) == <<w.data, w.ham \cap (0 .. 2)>>

Sooner(a, b) == IF a =< b THEN a ELSE b

(* Mutant: the two-bit history counts on and wraps.                        *)
HistWraps(old, new) == IF Masked(new) # Masked(old) THEN (old.hist + 1) % 4 ELSE old.hist

(* Mutant: the history is not saturated.                                   *)
HistUnbounded(old, new) == IF Masked(new) # Masked(old) THEN old.hist + 1 ELSE old.hist

HistAfter(old, new) ==
  IF Masked(new) # Masked(old) THEN Sooner(old.hist + 1, 3) ELSE old.hist

(* high_usage and recent_errors are computed and overwritten by the test   *)
(* of the significance.                                                    *)
adaptive_check_error(w) ==
  LET p == IF w.mode # MODE_NONE THEN checkError(w) ELSE w
      m == IF w.sig >= SIG_CRITICAL THEN MODE_SECDED ELSE MODE_SEC
  IN  update_metadata(p, m, HistAfter(w, p), Sooner(w.freq + 1, FREQ_MAX), w.sig)

ZeroWord == [ data |-> {}, ham |-> {}, par |-> FALSE,
              mode |-> MODE_NONE, hist |-> 0, freq |-> 0, sig |-> 0 ]

(* Mutant: the metadata is set before compute_ecc, which clears it.        *)
ProtectMetadataFirst(d, f, s) ==
  LET w == update_metadata(ZeroWord, MODE_SEC, 0, f, s)
  IN  compute_ecc([w EXCEPT !.mode = 0, !.hist = 0, !.freq = 0, !.sig = 0], d)

(* compute_ecc followed by update_metadata with MODE_SEC and no history.   *)
Protect(d, f, s) == update_metadata(compute_ecc(ZeroWord, d), MODE_SEC, 0, f, s)

(* What LW leaves in a register: 32 bits, sign-extended over every field.  *)
Raw(d) ==
  IF 31 \in d
  THEN [ data |-> d, ham |-> HamBits, par |-> TRUE,
         mode |-> 3, hist |-> 3, freq |-> FREQ_MAX, sig |-> 63 ]
  ELSE [ZeroWord EXCEPT !.data = d]

=============================================================================
