---------------------------- MODULE EccRegister ----------------------------
(***************************************************************************)
(* The life of one general-purpose register of the simulator: the          *)
(* instructions that write it with a code (ALU results, LWPD, the links of *)
(* JAL and JALR) or without one (LW), the three that work on the code      *)
(* (injectFlip, checkError, setSig, here with rd = rs1), JALR, which       *)
(* checks a copy of its base, and the debugger's modify_register.          *)
(*                                                                         *)
(* What an ALU operation computes is abstracted to "some data".            *)
(***************************************************************************)
EXTENDS EccCodec

CONSTANTS
  Values,      (* data an instruction may write with a code                *)
  RawValues,   (* data LW may write                                        *)
  Sigs,        (* significances in use                                     *)
  FlipBits,    (* data bits injectFlip may hit: 0..31 in the code          *)
  CheckFlips   (* bits of ham (0-5) and par (6) modify_register may flip   *)

ASSUME ValuesAssumption == Values \subseteq SUBSET DataBits
ASSUME RawAssumption    == RawValues \subseteq SUBSET DataBits
ASSUME SigsAssumption   == Sigs \subseteq 0 .. 63
ASSUME FlipAssumption   == FlipBits \subseteq DataBits /\ CheckFlips \subseteq 0 .. 6

VARIABLES
  word,       (* the register                                              *)
  target,     (* low 32 bits of the base JALR jumped with, until the next  *)
              (* instruction                                               *)
  intended,   (* history: the data last written                            *)
  coded,      (* history: that write computed a code                       *)
  fixes,      (* history: checks since then that changed data, ham or par  *)
  dataFixes   (* history: those that changed data                          *)

vars == <<word, target, intended, coded, fixes, dataFixes>>

Repairs == 0 .. 3             (* the counters of repairs saturate like hist *)

TypeOK ==
  /\ word \in Words
  /\ target \in SUBSET DataBits
  /\ intended \in SUBSET DataBits
  /\ coded \in BOOLEAN
  /\ fixes \in Repairs
  /\ dataFixes \in Repairs

Init ==
  /\ word = ZeroWord
  /\ target = {}
  /\ intended = {}
  /\ coded = FALSE
  /\ fixes = 0
  /\ dataFixes = 0

Write(w, d, c) ==
  /\ word' = w
  /\ intended' = d
  /\ coded' = c
  /\ fixes' = 0
  /\ dataFixes' = 0
  /\ target' = {}

(* Add, Sub, Mul and Div: the greater significance of the operands is kept. *)
Arithmetic(d, s) == Write(Protect(d, 1, s), d, TRUE)

LoadProtected(d) == Write(Protect(d, 0, 1), d, TRUE)

Link(d) == Write(Protect(d, 1, SIG_POINTER), d, TRUE)

LoadWord(d) == Write(Raw(d), d, FALSE)

injectFlip(i) ==
  /\ word' = [word EXCEPT !.data = SymDiff(@, {i})]
  /\ target' = {}
  /\ UNCHANGED <<intended, coded, fixes, dataFixes>>

setSig(s) ==
  /\ word' = [word EXCEPT !.sig = s]
  /\ target' = {}
  /\ UNCHANGED <<intended, coded, fixes, dataFixes>>

(* modify_register takes any 64-bit value: the one with bit k flipped.     *)
ModifyRegister(k) ==
  /\ word' = IF k = 6 THEN [word EXCEPT !.par = ~@]
                      ELSE [word EXCEPT !.ham = SymDiff(@, {k})]
  /\ target' = {}
  /\ UNCHANGED <<intended, coded, fixes, dataFixes>>

Code(w) == <<w.data, w.ham, w.par>>

CheckError ==
  /\ word' = adaptive_check_error(word)
  /\ fixes' = IF Code(word') # Code(word) THEN Sooner(fixes + 1, 3) ELSE fixes
  /\ dataFixes' = IF word'.data # word.data THEN Sooner(dataFixes + 1, 3) ELSE dataFixes
  /\ target' = {}
  /\ UNCHANGED <<intended, coded>>

(* Mutant: JALR uses its base register as it is.                           *)
JumpUnchecked ==
  /\ target' = word.data
  /\ UNCHANGED <<word, intended, coded, fixes, dataFixes>>

(* JALR corrects the copy it computes with; the register keeps the error.  *)
JumpRegister ==
  /\ target' = adaptive_check_error(word).data
  /\ UNCHANGED <<word, intended, coded, fixes, dataFixes>>

Next ==
  \/ \E d \in Values, s \in Sigs : Arithmetic(d, s)
  \/ \E d \in Values : LoadProtected(d)
  \/ \E d \in Values : Link(d)
  \/ \E d \in RawValues : LoadWord(d)
  \/ \E i \in FlipBits : injectFlip(i)
  \/ \E s \in Sigs : setSig(s)
  \/ \E k \in CheckFlips : ModifyRegister(k)
  \/ CheckError
  \/ JumpRegister

Spec == Init /\ [][Next]_vars

----------------------------------------------------------------------------
(* What separates the register from the codeword of the intended data.     *)

IntendedCode  == coded /\ word.ham = Hamming(intended)
                       /\ word.par = Overall(intended, Hamming(intended))
DataErrors    == SymDiff(word.data, intended)
OneDataError  == IntendedCode /\ Cardinality(DataErrors) = 1
TwoDataErrors == IntendedCode /\ Cardinality(DataErrors) = 2

(* A single flipped data bit is put right by checkError, wherever it is    *)
(* and whatever the data; the word is a codeword again.                    *)
CheckRepairs == CheckError /\ OneDataError => word'.data = intended /\ IsCodeword(word')

SingleFlipRepaired == [][CheckRepairs]_vars

(* Two flipped data bits are never turned into a third value: checkError   *)
(* leaves them in place, and the word still is not a codeword.             *)
CheckDetects == CheckError /\ TwoDataErrors => word'.data = word.data /\ ~IsCodeword(word')

DoubleFlipDetected == [][CheckDetects]_vars

(* JALR jumps to the intended address from a link register with a flipped  *)
(* bit, although it never writes the correction back.                      *)
JumpRepairs == JumpRegister /\ OneDataError => target' = intended

JumpTargetRepaired == [][JumpRepairs]_vars

(* A second checkError changes no data and no check bit: what one check    *)
(* did is final.                                                           *)
CheckSettles ==
  coded => LET once == adaptive_check_error(word)
           IN  Code(adaptive_check_error(once)) = Code(once)

(* The two-bit error history never loses a repair of data, never invents   *)
(* one, and saturates instead of running into freq.                        *)
HistoryCounts == coded => dataFixes =< word.hist /\ word.hist =< fixes

(* A word written with a code never loses its mode, so that checkError     *)
(* goes on looking at it.                                                  *)
CodedIsChecked == coded => word.mode # MODE_NONE

(* What ecc_utils.cpp:111, "if single error", says of the branch that      *)
(* changes the data: data that is as it was written is not changed.        *)
CheckKeeps == CheckError /\ word.data = intended => word'.data = intended

CheckKeepsGoodData == [][CheckKeeps]_vars

=============================================================================
