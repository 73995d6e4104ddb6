----------------------------- MODULE EccProofs -----------------------------
(***************************************************************************)
(* Proofs about EccCodec.tla and EccRegister.tla, for every 32-bit data    *)
(* and every value of the constants.  The argument is one of parity: a     *)
(* flipped data bit i changes the parity of exactly the check bits in      *)
(* Column(i), the columns of different bits differ, and every flip changes *)
(* the overall parity.                                                     *)
(***************************************************************************)
EXTENDS EccRegister, FiniteSetTheorems, TLAPS

----------------------------------------------------------------------------
(* Sets and parity.                                                        *)

LEMMA FiniteBits ==
  /\ IsFiniteSet(DataBits)
  /\ \A S \in SUBSET DataBits : IsFiniteSet(S)
  /\ \A S \in SUBSET HamBits : IsFiniteSet(S)
<1>1. IsFiniteSet(DataBits) /\ IsFiniteSet(HamBits)
  <2>1. IsFiniteSet(0 .. 31) /\ IsFiniteSet(0 .. 5)
    BY FS_Interval, 0 \in Int, 31 \in Int, 5 \in Int
  <2> QED
    BY <2>1 DEF DataBits, HamBits
<1> QED
  BY <1>1, FS_Subset

LEMMA NextParity ==
  ASSUME NEW n \in Nat
  PROVE  (n + 1) % 2 = 1 <=> ~(n % 2 = 1)
  OBVIOUS

LEMMA OddAdd ==
  ASSUME NEW S, IsFiniteSet(S), NEW x, x \notin S
  PROVE  Odd(S \cup {x}) <=> ~Odd(S)
<1>1. Cardinality(S) \in Nat
  BY FS_CardinalityType
<1>2. Cardinality(S \cup {x}) = Cardinality(S) + 1
  BY FS_AddElement
<1> QED
  BY <1>1, <1>2, NextParity, Zenon DEF Odd

LEMMA OddFlip ==
  ASSUME NEW S, IsFiniteSet(S), NEW x
  PROVE  Odd(SymDiff(S, {x})) <=> ~Odd(S)
<1>1. CASE x \notin S
  <2>1. SymDiff(S, {x}) = S \cup {x}
    BY <1>1 DEF SymDiff
  <2> QED
    BY <1>1, <2>1, OddAdd, Zenon
<1>2. CASE x \in S
  <2>1. SymDiff(S, {x}) = S \ {x} /\ S = (S \ {x}) \cup {x}
    BY <1>2 DEF SymDiff
  <2>2. IsFiniteSet(S \ {x}) /\ x \notin S \ {x}
    BY FS_RemoveElement
  <2>3. Odd((S \ {x}) \cup {x}) <=> ~Odd(S \ {x})
    BY <2>2, OddAdd, Zenon
  <2> QED
    BY <2>1, <2>3, Zenon
<1> QED
  BY <1>1, <1>2

LEMMA OddEmpty == ~Odd({})
  BY FS_EmptySet DEF Odd

(* Symmetric difference with one set, twice, is the identity; the          *)
(* difference of two sets is empty only if they are equal.                 *)
LEMMA SymDiffTwice ==
  ASSUME NEW S, NEW T
  PROVE  /\ SymDiff(SymDiff(S, T), T) = S
         /\ SymDiff(SymDiff(S, T), S) = T
         /\ SymDiff(S, {}) = S
         /\ SymDiff(S, S) = {}
         /\ SymDiff(S, T) = {} => S = T
  BY DEF SymDiff

----------------------------------------------------------------------------
(* The columns.                                                            *)

(* A position is the sum of the powers of two whose check bits cover it.   *)
LEMMA ColumnCovers ==
  ASSUME NEW i \in DataBits
  PROVE  /\ 0 \in Column(i) <=> (i + 1) % 2 = 1
         /\ 1 \in Column(i) <=> ((i + 1) \div 2) % 2 = 1
         /\ 2 \in Column(i) <=> ((i + 1) \div 4) % 2 = 1
         /\ 3 \in Column(i) <=> ((i + 1) \div 8) % 2 = 1
         /\ 4 \in Column(i) <=> ((i + 1) \div 16) % 2 = 1
         /\ 5 \in Column(i) <=> ((i + 1) \div 32) % 2 = 1
  BY DEF Column, Coverage, HamBits, DataBits, Power2

LEMMA PositionFromBits ==
  ASSUME NEW i \in DataBits
  PROVE  i + 1 = ((i + 1) % 2) + 2 * (((i + 1) \div 2) % 2) + 4 * (((i + 1) \div 4) % 2)
                 + 8 * (((i + 1) \div 8) % 2) + 16 * (((i + 1) \div 16) % 2)
                 + 32 * (((i + 1) \div 32) % 2)
  BY DEF DataBits

LEMMA ColumnInjective ==
  ASSUME NEW i \in DataBits, NEW j \in DataBits, Column(i) = Column(j)
  PROVE  i = j
  BY ColumnCovers, PositionFromBits DEF DataBits

LEMMA ColumnNotEmpty ==
  ASSUME NEW i \in DataBits
  PROVE  Column(i) # {}
  BY ColumnCovers, PositionFromBits DEF DataBits

LEMMA LocatedColumn ==
  ASSUME NEW i \in DataBits
  PROVE  Located(Column(i)) = {i}
  BY ColumnInjective DEF Located

----------------------------------------------------------------------------
(* One flip and the code.                                                  *)

LEMMA HammingFlip ==
  ASSUME NEW d \in SUBSET DataBits, NEW i \in DataBits
  PROVE  Hamming(SymDiff(d, {i})) = SymDiff(Hamming(d), Column(i))
<1> DEFINE e == SymDiff(d, {i})
<1>1. ASSUME NEW k \in HamBits
      PROVE  k \in Hamming(e) <=> k \in SymDiff(Hamming(d), Column(i))
  <2> DEFINE S == d \cap Coverage[k]
             T == e \cap Coverage[k]
  <2>1. k \in Hamming(d) <=> Odd(S)
    BY DEF Hamming
  <2>2. k \in Hamming(e) <=> Odd(T)
    BY DEF Hamming
  <2>3. k \in Column(i) <=> i \in Coverage[k]
    BY DEF Column
  <2>4. IsFiniteSet(S)
    BY FiniteBits, S \in SUBSET DataBits
  <2>5. CASE i \in Coverage[k]
    <3>1. T = SymDiff(S, {i})
      BY <2>5 DEF SymDiff
    <3>2. Odd(T) <=> ~Odd(S)
      BY <3>1, <2>4, OddFlip
    <3> QED
      BY <2>1, <2>2, <2>3, <2>5, <3>2 DEF SymDiff
  <2>6. CASE i \notin Coverage[k]
    <3>1. T = S
      BY <2>6 DEF SymDiff
    <3> QED
      BY <2>1, <2>2, <2>3, <2>6, <3>1 DEF SymDiff
  <2> QED
    BY <2>5, <2>6
<1>2. Hamming(e) \subseteq HamBits /\ SymDiff(Hamming(d), Column(i)) \subseteq HamBits
  BY DEF Hamming, Column, SymDiff
<1> QED
  BY <1>1, <1>2

LEMMA OverallFlip ==
  ASSUME NEW d \in SUBSET DataBits, NEW i \in DataBits, NEW h
  PROVE  Overall(SymDiff(d, {i}), h) <=> ~Overall(d, h)
<1>1. Odd(SymDiff(d, {i})) <=> ~Odd(d)
  BY OddFlip, FiniteBits
<1> QED
  BY <1>1 DEF Overall, Odd

(* What compute_ecc builds is a codeword, with the other fields untouched.  *)
LEMMA EncodeCodeword ==
  ASSUME NEW w \in Words, NEW d \in SUBSET DataBits
  PROVE  /\ compute_ecc(w, d) \in Words
         /\ compute_ecc(w, d).data = d
         /\ compute_ecc(w, d).mode = w.mode
         /\ compute_ecc(w, d).hist = w.hist
         /\ compute_ecc(w, d).freq = w.freq
         /\ compute_ecc(w, d).sig = w.sig
         /\ IsCodeword(compute_ecc(w, d))
<1> DEFINE c == compute_ecc(w, d)
<1>1. c \in Words
  BY DEF compute_ecc, Words, Hamming, Overall, Odd
<1>2. c.data = d /\ c.ham = Hamming(d) /\ c.mode = w.mode /\ c.hist = w.hist
        /\ c.freq = w.freq /\ c.sig = w.sig
  BY DEF compute_ecc, Words
<1>3. c.par = Overall(d, Hamming(d))
  BY DEF compute_ecc, Words
<1>4. IsCodeword(c)
  BY <1>2, <1>3, SymDiffTwice, Zenon DEF IsCodeword, Syndrome, Mismatch
<1> QED
  BY <1>1, <1>2, <1>4

(* w is the codeword of d, except for its data.                            *)
CodeOf(w, d) == w.ham = Hamming(d) /\ w.par = Overall(d, Hamming(d))

LEMMA OneFlipSyndrome ==
  ASSUME NEW w \in Words, NEW d \in SUBSET DataBits, NEW i \in DataBits,
         CodeOf(w, d), w.data = SymDiff(d, {i})
  PROVE  Syndrome(w) = Column(i) /\ Mismatch(w)
<1>1. Syndrome(w) = Column(i)
  <2>1. Hamming(w.data) = SymDiff(Hamming(d), Column(i))
    BY HammingFlip
  <2>2. SymDiff(SymDiff(Hamming(d), Column(i)), Hamming(d)) = Column(i)
    BY SymDiffTwice
  <2> QED
    BY <2>1, <2>2 DEF Syndrome, CodeOf
<1>2. Overall(SymDiff(d, {i}), Hamming(d)) <=> ~Overall(d, Hamming(d))
  BY OverallFlip
<1> QED
  BY <1>1, <1>2, Zenon DEF Mismatch, CodeOf

LEMMA TwoFlipSyndrome ==
  ASSUME NEW w \in Words, NEW d \in SUBSET DataBits, NEW i \in DataBits, NEW j \in DataBits,
         CodeOf(w, d), w.data = SymDiff(SymDiff(d, {i}), {j}), i # j
  PROVE  Syndrome(w) # {} /\ ~Mismatch(w)
<1> DEFINE e == SymDiff(d, {i})
<1>1. e \in SUBSET DataBits
  BY DEF SymDiff
<1>2. Hamming(w.data) = SymDiff(SymDiff(Hamming(d), Column(i)), Column(j))
  BY <1>1, HammingFlip
<1>3. Column(i) # Column(j)
  BY ColumnInjective
<1>4. SymDiff(SymDiff(SymDiff(Hamming(d), Column(i)), Column(j)), Hamming(d)) # {}
  BY <1>3 DEF SymDiff
<1>5. Overall(w.data, Hamming(d)) <=> Overall(d, Hamming(d))
  <2>1. Overall(SymDiff(e, {j}), Hamming(d)) <=> ~Overall(e, Hamming(d))
    BY <1>1, OverallFlip
  <2>2. Overall(e, Hamming(d)) <=> ~Overall(d, Hamming(d))
    BY OverallFlip
  <2> QED
    BY <2>1, <2>2
<1>6. Overall(w.data, Hamming(d)) \in BOOLEAN /\ Overall(d, Hamming(d)) \in BOOLEAN
  BY Zenon DEF Overall
<1> QED
  <2>1. Syndrome(w) # {}
    BY <1>2, <1>4 DEF Syndrome, CodeOf
  <2>2. ~Mismatch(w)
    BY <1>5, <1>6 DEF Mismatch, CodeOf
  <2> QED
    BY <2>1, <2>2

----------------------------------------------------------------------------
(* checkError and adaptive_check_error.                                    *)

LEMMA CheckType ==
  ASSUME NEW w \in Words
  PROVE  /\ checkError(w) \in Words
         /\ checkError(w).hist = w.hist
         /\ checkError(w).sig = w.sig
         /\ ~Mismatch(checkError(w))
<1>1. CASE ~Mismatch(w)
  BY <1>1 DEF checkError
<1>2. CASE Mismatch(w)
  <2> DEFINE d == SymDiff(w.data, Located(Syndrome(w)))
  <2>1. d \in SUBSET DataBits
    BY DEF SymDiff, Located, Words
  <2>2. checkError(w) = compute_ecc(w, d)
    BY <1>2 DEF checkError
  <2> QED
    BY <2>1, <2>2, EncodeCodeword DEF IsCodeword
<1> QED
  BY <1>1, <1>2

LEMMA AdaptiveFields ==
  ASSUME NEW w \in Words
  PROVE  LET p == IF w.mode # MODE_NONE THEN checkError(w) ELSE w
             a == adaptive_check_error(w)
         IN  /\ a \in Words
             /\ Code(a) = Code(p)
             /\ a.data = p.data /\ a.ham = p.ham /\ a.par = p.par
             /\ a.mode # MODE_NONE
             /\ a.hist = HistAfter(w, p)
             /\ a.sig = w.sig
<1> DEFINE p == IF w.mode # MODE_NONE THEN checkError(w) ELSE w
           a == adaptive_check_error(w)
<1>1. p \in Words /\ p.hist = w.hist /\ p.sig = w.sig
  BY CheckType
<1>2. HistAfter(w, p) \in 0 .. 3
  BY DEF HistAfter, Sooner, Words
<1>3. Sooner(w.freq + 1, FREQ_MAX) \in 0 .. FREQ_MAX
  BY FreqAssumption DEF Sooner, Words
<1>4. PICK m \in {1, 2} : a = update_metadata(p, m, HistAfter(w, p),
                                             Sooner(w.freq + 1, FREQ_MAX), w.sig)
  BY DEF adaptive_check_error, MODE_SECDED, MODE_SEC
<1>5. m \in 0 .. 3 /\ w.sig \in 0 .. 63
  BY DEF Words
<1> HIDE DEF p, a
<1>6. /\ a \in Words
      /\ a.data = p.data /\ a.ham = p.ham /\ a.par = p.par
      /\ a.mode = m /\ a.hist = HistAfter(w, p) /\ a.sig = w.sig
  <2> DEFINE h == HistAfter(w, p)
             f == Sooner(w.freq + 1, FREQ_MAX)
             s == w.sig
  <2>1. p \in Words /\ m \in 0 .. 3 /\ h \in 0 .. 3 /\ f \in 0 .. FREQ_MAX /\ s \in 0 .. 63
    BY <1>1, <1>2, <1>3, <1>5
  <2>2. a = update_metadata(p, m, h, f, s)
    BY <1>4
  <2> HIDE DEF h, f, s
  <2>3. /\ a \in Words
        /\ a.data = p.data /\ a.ham = p.ham /\ a.par = p.par
        /\ a.mode = m /\ a.hist = h /\ a.sig = s
    BY <2>1, <2>2 DEF update_metadata, Words
  <2> QED
    BY <2>3 DEF h, s
<1>7. Code(a) = Code(p) /\ a.mode # MODE_NONE
  BY <1>6 DEF Code, MODE_NONE
<1> QED
  BY <1>6, <1>7 DEF a, p

(* A word that adaptive_check_error looks at is unchanged by a second      *)
(* check, as far as data and code go.                                      *)
LEMMA AdaptiveSettles ==
  ASSUME NEW w \in Words, w.mode # MODE_NONE
  PROVE  Code(adaptive_check_error(adaptive_check_error(w))) = Code(adaptive_check_error(w))
<1> DEFINE p == checkError(w)
           a == adaptive_check_error(w)
<1>1. a \in Words /\ a.data = p.data /\ a.ham = p.ham /\ a.par = p.par
        /\ a.mode # MODE_NONE
  BY AdaptiveFields
<1>2. ~Mismatch(a)
  <2>1. ~Mismatch(p)
    BY CheckType
  <2> QED
    BY <1>1, <2>1 DEF Mismatch
<1>3. checkError(a) = a
  BY <1>2 DEF checkError
<1>4. Code(adaptive_check_error(a)) = Code(checkError(a))
  BY <1>1, AdaptiveFields
<1> QED
  BY <1>3, <1>4

(* One flipped data bit: the check gives the data back, as a codeword.     *)
LEMMA AdaptiveRepairs ==
  ASSUME NEW w \in Words, NEW d \in SUBSET DataBits, NEW i \in DataBits,
         CodeOf(w, d), w.data = SymDiff(d, {i}), w.mode # MODE_NONE
  PROVE  adaptive_check_error(w).data = d /\ IsCodeword(adaptive_check_error(w))
<1> DEFINE p == checkError(w)
           a == adaptive_check_error(w)
<1>1. p = compute_ecc(w, d)
  <2>1. Syndrome(w) = Column(i) /\ Mismatch(w)
    BY OneFlipSyndrome
  <2>2. SymDiff(w.data, Located(Syndrome(w))) = d
    <3>1. Located(Column(i)) = {i}
      BY LocatedColumn
    <3>2. SymDiff(SymDiff(d, {i}), {i}) = d
      BY SymDiffTwice
    <3> QED
      BY <2>1, <3>1, <3>2
  <2> QED
    BY <2>1, <2>2 DEF checkError
<1>2. p.data = d /\ IsCodeword(p)
  BY <1>1, EncodeCodeword
<1>3. a.data = p.data /\ a.ham = p.ham /\ a.par = p.par
  BY AdaptiveFields
<1> QED
  BY <1>2, <1>3 DEF IsCodeword, Syndrome, Mismatch

(* Two flipped data bits: the check leaves the data and the alarm alone.   *)
LEMMA AdaptiveDetects ==
  ASSUME NEW w \in Words, NEW d \in SUBSET DataBits, NEW i \in DataBits, NEW j \in DataBits,
         CodeOf(w, d), w.data = SymDiff(SymDiff(d, {i}), {j}), i # j, w.mode # MODE_NONE
  PROVE  adaptive_check_error(w).data = w.data /\ ~IsCodeword(adaptive_check_error(w))
<1> DEFINE a == adaptive_check_error(w)
<1>1. Syndrome(w) # {} /\ ~Mismatch(w)
  BY TwoFlipSyndrome
<1>2. checkError(w) = w
  BY <1>1 DEF checkError
<1>3. a.data = w.data /\ a.ham = w.ham /\ a.par = w.par
  BY <1>2, AdaptiveFields
<1> QED
  BY <1>1, <1>3 DEF IsCodeword, Syndrome

----------------------------------------------------------------------------
(* The words instructions write.                                           *)

LEMMA ZeroType == ZeroWord \in Words
<1>1. MODE_NONE \in 0 .. 3 /\ 0 \in 0 .. 3 /\ 0 \in 0 .. FREQ_MAX /\ 0 \in 0 .. 63
  BY FreqAssumption DEF MODE_NONE
<1> QED
  BY <1>1, Zenon DEF ZeroWord, Words

(* What update_metadata gives.                                            *)
Updated(w, m, h, f, s) ==
  /\ update_metadata(w, m, h, f, s) \in Words
  /\ update_metadata(w, m, h, f, s).mode = m
  /\ update_metadata(w, m, h, f, s).hist = h

LEMMA UpdateType ==
  \A w \in Words, m \in 0 .. 3, h \in 0 .. 3, f \in 0 .. FREQ_MAX, s \in 0 .. 63 :
    Updated(w, m, h, f, s)
<1> TAKE w \in Words, m \in 0 .. 3, h \in 0 .. 3, f \in 0 .. FREQ_MAX, s \in 0 .. 63
<1> QED
  BY DEF Updated, update_metadata, Words

LEMMA ProtectType ==
  ASSUME NEW d \in SUBSET DataBits, NEW f \in 0 .. 1, NEW s \in 0 .. 63
  PROVE  /\ Protect(d, f, s) \in Words
         /\ Protect(d, f, s).mode = MODE_SEC
         /\ Protect(d, f, s).hist = 0
<1> DEFINE c == compute_ecc(ZeroWord, d)
<1>1. c \in Words
  BY ZeroType, EncodeCodeword
<1>2. f \in 0 .. FREQ_MAX
  BY FreqAssumption
<1>3. Protect(d, f, s) = update_metadata(c, MODE_SEC, 0, f, s)
  BY DEF Protect
<1>4. MODE_SEC \in 0 .. 3 /\ 0 \in 0 .. 3 /\ s \in 0 .. 63
  BY DEF MODE_SEC
<1> HIDE DEF c
<1>5. Updated(c, MODE_SEC, 0, f, s)
  BY <1>1, <1>2, <1>4, UpdateType, Zenon
<1> QED
  BY <1>3, <1>5 DEF Updated

LEMMA RawType ==
  ASSUME NEW d \in SUBSET DataBits
  PROVE  Raw(d) \in Words
<1>1. CASE 31 \in d
  BY <1>1, FreqAssumption DEF Raw, Words
<1>2. CASE 31 \notin d
  BY <1>2, ZeroType DEF Raw, Words
<1> QED
  BY <1>1, <1>2

----------------------------------------------------------------------------
(* The register.                                                           *)

LEMMA RepairCount ==
  ASSUME NEW n \in Repairs
  PROVE  Sooner(n + 1, 3) \in Repairs
  BY DEF Sooner, Repairs

(* The register stays a word of the declared fields (ecc_metadata.h:8-14). *)
THEOREM EccTypeOK == Spec => []TypeOK
<1> USE DEF TypeOK
<1>1. Init => TypeOK
  <2>1. Init => coded \in BOOLEAN
    BY Zenon DEF Init
  <2>2. Init => fixes \in Repairs /\ dataFixes \in Repairs
    BY DEF Init, Repairs
  <2>3. Init => word \in Words /\ target \in SUBSET DataBits /\ intended \in SUBSET DataBits
    BY ZeroType, Zenon DEF Init
  <2> QED
    BY <2>1, <2>2, <2>3
<1>2. TypeOK /\ [Next]_vars => TypeOK'
  <2> SUFFICES ASSUME TypeOK, [Next]_vars PROVE TypeOK'
    OBVIOUS
  <2>1. ASSUME NEW w \in Words, NEW d \in SUBSET DataBits, NEW c \in BOOLEAN, Write(w, d, c)
        PROVE  TypeOK'
    <3>1. fixes' \in Repairs /\ dataFixes' \in Repairs
      BY <2>1 DEF Write, Repairs
    <3> QED
      BY <2>1, <3>1, Zenon DEF Write
  <2>2. ASSUME NEW d \in Values, NEW s \in Sigs, Arithmetic(d, s) PROVE TypeOK'
    <3>1. Protect(d, 1, s) \in Words /\ d \in SUBSET DataBits
      BY ProtectType, ValuesAssumption, SigsAssumption
    <3> QED
      BY <2>1, <2>2, <3>1, Zenon DEF Arithmetic
  <2>3. ASSUME NEW d \in Values, LoadProtected(d) PROVE TypeOK'
    <3>1. Protect(d, 0, 1) \in Words /\ d \in SUBSET DataBits
      BY ProtectType, ValuesAssumption
    <3> QED
      BY <2>1, <2>3, <3>1, Zenon DEF LoadProtected
  <2>4. ASSUME NEW d \in Values, Link(d) PROVE TypeOK'
    <3>1. Protect(d, 1, SIG_POINTER) \in Words /\ d \in SUBSET DataBits
      BY ProtectType, ValuesAssumption DEF SIG_POINTER
    <3> QED
      BY <2>1, <2>4, <3>1, Zenon DEF Link
  <2>5. ASSUME NEW d \in RawValues, LoadWord(d) PROVE TypeOK'
    <3>1. Raw(d) \in Words /\ d \in SUBSET DataBits
      BY RawType, RawAssumption
    <3> QED
      BY <2>1, <2>5, <3>1, Zenon DEF LoadWord
  <2>6. ASSUME NEW i \in FlipBits, injectFlip(i) PROVE TypeOK'
    <3>1. word' \in Words
      BY <2>6, FlipAssumption DEF injectFlip, Words, SymDiff
    <3> QED
      BY <2>6, <3>1, Zenon DEF injectFlip
  <2>7. ASSUME NEW s \in Sigs, setSig(s) PROVE TypeOK'
    <3>1. word' \in Words
      BY <2>7, SigsAssumption DEF setSig, Words
    <3> QED
      BY <2>7, <3>1, Zenon DEF setSig
  <2>8. ASSUME NEW k \in CheckFlips, ModifyRegister(k) PROVE TypeOK'
    <3>1. CASE k = 6
      <4>1. word' = [word EXCEPT !.par = ~@]
        BY <2>8, <3>1 DEF ModifyRegister
      <4> QED
        BY <2>8, <4>1, Zenon DEF ModifyRegister, Words
    <3>2. CASE k # 6
      <4>1. k \in HamBits
        BY <3>2, FlipAssumption DEF HamBits
      <4>2. word' \in Words
        BY <2>8, <3>2, <4>1 DEF ModifyRegister, Words, SymDiff
      <4> QED
        BY <2>8, <4>2, Zenon DEF ModifyRegister
    <3> QED
      BY <3>1, <3>2
  <2>9. CASE CheckError
    <3>1. word' \in Words
      BY <2>9, AdaptiveFields DEF CheckError
    <3>2. fixes' \in Repairs /\ dataFixes' \in Repairs
      BY <2>9, RepairCount DEF CheckError
    <3> QED
      BY <2>9, <3>1, <3>2, Zenon DEF CheckError
  <2>10. CASE JumpRegister
    <3>1. target' \in SUBSET DataBits
      BY <2>10, AdaptiveFields DEF JumpRegister, Words
    <3> QED
      BY <2>10, <3>1, Zenon DEF JumpRegister
  <2>11. CASE UNCHANGED vars
    BY <2>11, Zenon DEF vars
  <2> QED
    BY <2>2, <2>3, <2>4, <2>5, <2>6, <2>7, <2>8, <2>9, <2>10, <2>11 DEF Next
<1> QED
  BY <1>1, <1>2, PTL DEF Spec

(* A coded word keeps a mode that checkError looks at: compute_ecc's       *)
(* callers all set MODE_SEC, and a check never sets MODE_NONE.             *)
THEOREM EccCodedIsChecked == Spec => []CodedIsChecked
<1> USE DEF CodedIsChecked
<1>1. Init => CodedIsChecked
  BY Zenon DEF Init
<1>2. TypeOK /\ CodedIsChecked /\ [Next]_vars => CodedIsChecked'
  <2> SUFFICES ASSUME TypeOK, CodedIsChecked, [Next]_vars PROVE CodedIsChecked'
    OBVIOUS
  <2>1. ASSUME NEW d \in SUBSET DataBits, NEW f \in 0 .. 1, NEW s \in 0 .. 63,
               NEW c, Write(Protect(d, f, s), d, c)
        PROVE  CodedIsChecked'
    <3>1. Protect(d, f, s).mode # MODE_NONE
      <4>1. Protect(d, f, s).mode = MODE_SEC
        BY ProtectType, Zenon
      <4> QED
        BY <4>1 DEF MODE_SEC, MODE_NONE
    <3>2. word' = Protect(d, f, s)
      BY <2>1 DEF Write
    <3> QED
      BY <3>1, <3>2
  <2>2. ASSUME NEW d \in Values, NEW s \in Sigs, Arithmetic(d, s) PROVE CodedIsChecked'
    <3>1. d \in SUBSET DataBits /\ s \in 0 .. 63 /\ 1 \in 0 .. 1
      BY ValuesAssumption, SigsAssumption
    <3> QED
      BY <2>1, <2>2, <3>1, Zenon DEF Arithmetic
  <2>3. ASSUME NEW d \in Values, LoadProtected(d) PROVE CodedIsChecked'
    <3>1. d \in SUBSET DataBits /\ 0 \in 0 .. 1 /\ 1 \in 0 .. 63
      BY ValuesAssumption
    <3> QED
      BY <2>1, <2>3, <3>1, Zenon DEF LoadProtected
  <2>4. ASSUME NEW d \in Values, Link(d) PROVE CodedIsChecked'
    <3>1. d \in SUBSET DataBits /\ 1 \in 0 .. 1 /\ SIG_POINTER \in 0 .. 63
      BY ValuesAssumption DEF SIG_POINTER
    <3> QED
      BY <2>1, <2>4, <3>1, Zenon DEF Link
  <2>5. ASSUME NEW d \in RawValues, LoadWord(d) PROVE CodedIsChecked'
    BY <2>5, Zenon DEF LoadWord, Write
  <2>6. ASSUME coded' = coded, word'.mode = word.mode PROVE CodedIsChecked'
    BY <2>6, Zenon
  <2>7. ASSUME NEW i \in FlipBits, injectFlip(i) PROVE CodedIsChecked'
    BY <2>6, <2>7 DEF injectFlip, TypeOK, Words
  <2>8. ASSUME NEW s \in Sigs, setSig(s) PROVE CodedIsChecked'
    BY <2>6, <2>8 DEF setSig, TypeOK, Words
  <2>9. ASSUME NEW k \in CheckFlips, ModifyRegister(k) PROVE CodedIsChecked'
    BY <2>6, <2>9 DEF ModifyRegister, TypeOK, Words
  <2>10. CASE CheckError
    BY <2>10, AdaptiveFields DEF CheckError, TypeOK
  <2>11. CASE JumpRegister
    BY <2>6, <2>11, Zenon DEF JumpRegister
  <2>12. CASE UNCHANGED vars
    BY <2>6, <2>12, Zenon DEF vars
  <2> QED
    BY <2>2, <2>3, <2>4, <2>5, <2>7, <2>8, <2>9, <2>10, <2>11, <2>12 DEF Next
<1> QED
  BY <1>1, <1>2, EccTypeOK, PTL DEF Spec

(* One check is final (ecc_utils.cpp, checkError).                         *)
THEOREM EccCheckSettles == Spec => []CheckSettles
<1>1. TypeOK /\ CodedIsChecked => CheckSettles
  BY AdaptiveSettles DEF TypeOK, CodedIsChecked, CheckSettles
<1> QED
  BY <1>1, EccTypeOK, EccCodedIsChecked, PTL

LEMMA OneError ==
  ASSUME TypeOK, OneDataError
  PROVE  \E i \in DataBits : CodeOf(word, intended) /\ word.data = SymDiff(intended, {i})
<1>1. DataErrors \in SUBSET DataBits
  BY DEF TypeOK, Words, DataErrors, SymDiff
<1>2. PICK i : DataErrors = {i}
  BY <1>1, FiniteBits, FS_Singleton DEF OneDataError
<1>3. i \in DataBits
  BY <1>1, <1>2
<1>4. word.data = SymDiff(intended, {i})
  BY <1>2 DEF DataErrors, SymDiff
<1> QED
  BY <1>3, <1>4 DEF OneDataError, IntendedCode, CodeOf

LEMMA TwoErrors ==
  ASSUME TypeOK, TwoDataErrors
  PROVE  \E i, j \in DataBits :
           /\ i # j
           /\ CodeOf(word, intended)
           /\ word.data = SymDiff(SymDiff(intended, {i}), {j})
<1>1. DataErrors \in SUBSET DataBits /\ Cardinality(DataErrors) = 2
  BY DEF TypeOK, Words, DataErrors, SymDiff, TwoDataErrors
<1>2. IsFiniteSet(DataErrors)
  BY <1>1, FiniteBits
<1>3. PICK i : i \in DataErrors
  BY <1>1, FS_EmptySet
<1>4. IsFiniteSet(DataErrors \ {i}) /\ Cardinality(DataErrors \ {i}) = 1
  BY <1>1, <1>2, <1>3, FS_RemoveElement
<1>5. PICK j : DataErrors \ {i} = {j}
  BY <1>4, FS_Singleton
<1>6. DataErrors = {i, j} /\ i # j
  BY <1>3, <1>5
<1>7. i \in DataBits /\ j \in DataBits
  BY <1>1, <1>6
<1>8. word.data = SymDiff(SymDiff(intended, {i}), {j})
  BY <1>6 DEF DataErrors, SymDiff
<1> QED
  BY <1>6, <1>7, <1>8 DEF TwoDataErrors, IntendedCode, CodeOf

(* Any one of the 32 data bits, of any data, is corrected.                 *)
THEOREM EccSingleFlipRepaired == Spec => SingleFlipRepaired
<1>1. TypeOK /\ CodedIsChecked /\ [Next]_vars => [CheckRepairs]_vars
  <2> SUFFICES ASSUME TypeOK, CodedIsChecked, CheckError, OneDataError
               PROVE  word'.data = intended /\ IsCodeword(word')
    BY Zenon DEF CheckRepairs
  <2>1. PICK i \in DataBits : CodeOf(word, intended) /\ word.data = SymDiff(intended, {i})
    BY OneError
  <2>2. word \in Words /\ intended \in SUBSET DataBits /\ word.mode # MODE_NONE
    BY DEF TypeOK, CodedIsChecked, OneDataError, IntendedCode
  <2>3. word' = adaptive_check_error(word)
    BY DEF CheckError
  <2> QED
    BY <2>1, <2>2, <2>3, AdaptiveRepairs
<1> QED
  BY <1>1, EccTypeOK, EccCodedIsChecked, PTL DEF Spec, SingleFlipRepaired

(* Any two of the 32 data bits, of any data, are left alone and remain     *)
(* visible as an error.                                                    *)
THEOREM EccDoubleFlipDetected == Spec => DoubleFlipDetected
<1>1. TypeOK /\ CodedIsChecked /\ [Next]_vars => [CheckDetects]_vars
  <2> SUFFICES ASSUME TypeOK, CodedIsChecked, CheckError, TwoDataErrors
               PROVE  word'.data = word.data /\ ~IsCodeword(word')
    BY Zenon DEF CheckDetects
  <2>1. PICK i \in DataBits, j \in DataBits :
          /\ i # j
          /\ CodeOf(word, intended)
          /\ word.data = SymDiff(SymDiff(intended, {i}), {j})
    BY TwoErrors
  <2>2. word \in Words /\ intended \in SUBSET DataBits /\ word.mode # MODE_NONE
    BY DEF TypeOK, CodedIsChecked, TwoDataErrors, IntendedCode
  <2>3. word' = adaptive_check_error(word)
    BY DEF CheckError
  <2> QED
    BY <2>1, <2>2, <2>3, AdaptiveDetects
<1> QED
  BY <1>1, EccTypeOK, EccCodedIsChecked, PTL DEF Spec, DoubleFlipDetected

(* A link register with one flipped bit still leads back to the caller.    *)
THEOREM EccJumpTargetRepaired == Spec => JumpTargetRepaired
<1>1. TypeOK /\ CodedIsChecked /\ [Next]_vars => [JumpRepairs]_vars
  <2> SUFFICES ASSUME TypeOK, CodedIsChecked, JumpRegister, OneDataError
               PROVE  target' = intended
    BY Zenon DEF JumpRepairs
  <2>1. PICK i \in DataBits : CodeOf(word, intended) /\ word.data = SymDiff(intended, {i})
    BY OneError
  <2>2. word \in Words /\ intended \in SUBSET DataBits /\ word.mode # MODE_NONE
    BY DEF TypeOK, CodedIsChecked, OneDataError, IntendedCode
  <2>3. target' = adaptive_check_error(word).data
    BY DEF JumpRegister
  <2> QED
    BY <2>1, <2>2, <2>3, AdaptiveRepairs
<1> QED
  BY <1>1, EccTypeOK, EccCodedIsChecked, PTL DEF Spec, JumpTargetRepaired

(* The history counts every repair of data (HistAfter saturates at 3).     *)
THEOREM EccHistoryCounts == Spec => []HistoryCounts
<1> USE DEF HistoryCounts
<1>1. Init => HistoryCounts
  BY Zenon DEF Init
<1>2. TypeOK /\ HistoryCounts /\ [Next]_vars => HistoryCounts'
  <2> SUFFICES ASSUME TypeOK, HistoryCounts, [Next]_vars PROVE HistoryCounts'
    OBVIOUS
  <2>1. ASSUME NEW d \in SUBSET DataBits, NEW f \in 0 .. 1, NEW s \in 0 .. 63,
               NEW c, Write(Protect(d, f, s), d, c)
        PROVE  HistoryCounts'
    <3>1. Protect(d, f, s).hist = 0
      BY ProtectType, Zenon
    <3>2. word'.hist = 0 /\ fixes' = 0 /\ dataFixes' = 0
      BY <2>1, <3>1, Zenon DEF Write
    <3> QED
      BY <3>2
  <2>2. ASSUME NEW d \in Values, NEW s \in Sigs, Arithmetic(d, s) PROVE HistoryCounts'
    <3>1. d \in SUBSET DataBits /\ s \in 0 .. 63 /\ 1 \in 0 .. 1
      BY ValuesAssumption, SigsAssumption
    <3> QED
      BY <2>1, <2>2, <3>1, Zenon DEF Arithmetic
  <2>3. ASSUME NEW d \in Values, LoadProtected(d) PROVE HistoryCounts'
    <3>1. d \in SUBSET DataBits /\ 0 \in 0 .. 1 /\ 1 \in 0 .. 63
      BY ValuesAssumption
    <3> QED
      BY <2>1, <2>3, <3>1, Zenon DEF LoadProtected
  <2>4. ASSUME NEW d \in Values, Link(d) PROVE HistoryCounts'
    <3>1. d \in SUBSET DataBits /\ 1 \in 0 .. 1 /\ SIG_POINTER \in 0 .. 63
      BY ValuesAssumption DEF SIG_POINTER
    <3> QED
      BY <2>1, <2>4, <3>1, Zenon DEF Link
  <2>5. ASSUME NEW d \in RawValues, LoadWord(d) PROVE HistoryCounts'
    BY <2>5, Zenon DEF LoadWord, Write
  <2>6. ASSUME UNCHANGED <<coded, fixes, dataFixes>>, word'.hist = word.hist
        PROVE  HistoryCounts'
    BY <2>6, Zenon
  <2>7. ASSUME NEW i \in FlipBits, injectFlip(i) PROVE HistoryCounts'
    BY <2>6, <2>7 DEF injectFlip, TypeOK, Words
  <2>8. ASSUME NEW s \in Sigs, setSig(s) PROVE HistoryCounts'
    BY <2>6, <2>8 DEF setSig, TypeOK, Words
  <2>9. ASSUME NEW k \in CheckFlips, ModifyRegister(k) PROVE HistoryCounts'
    BY <2>6, <2>9 DEF ModifyRegister, TypeOK, Words
  <2>10. CASE CheckError
    <3> DEFINE p == IF word.mode # MODE_NONE THEN checkError(word) ELSE word
    <3>1. /\ word'.hist = HistAfter(word, p)
          /\ word'.data = p.data /\ word'.ham = p.ham
      BY <2>10, AdaptiveFields DEF CheckError, TypeOK
    <3>2. word'.data # word.data => Masked(p) # Masked(word)
      BY <3>1 DEF Masked
    <3>3. Masked(p) # Masked(word) => Code(word') # Code(word)
      BY <3>1 DEF Masked, Code
    <3>4. word.hist \in 0 .. 3 /\ fixes \in 0 .. 3 /\ dataFixes \in 0 .. 3
      BY DEF TypeOK, Words, Repairs
    <3> HIDE DEF p
    <3>5. SUFFICES ASSUME coded PROVE dataFixes' =< word'.hist /\ word'.hist =< fixes'
      BY <2>10, Zenon DEF CheckError
    <3>6. dataFixes' = IF word'.data # word.data THEN Sooner(dataFixes + 1, 3) ELSE dataFixes
      BY <2>10 DEF CheckError
    <3>7. fixes' = IF Code(word') # Code(word) THEN Sooner(fixes + 1, 3) ELSE fixes
      BY <2>10 DEF CheckError
    <3>8. word'.hist = IF Masked(p) # Masked(word) THEN Sooner(word.hist + 1, 3) ELSE word.hist
      BY <3>1 DEF HistAfter
    <3> QED
      BY <3>2, <3>3, <3>4, <3>5, <3>6, <3>7, <3>8 DEF Sooner
  <2>11. CASE JumpRegister
    BY <2>6, <2>11, Zenon DEF JumpRegister
  <2>12. CASE UNCHANGED vars
    BY <2>6, <2>12, Zenon DEF vars
  <2> QED
    BY <2>2, <2>3, <2>4, <2>5, <2>7, <2>8, <2>9, <2>10, <2>11, <2>12 DEF Next
<1> QED
  BY <1>1, <1>2, EccTypeOK, PTL DEF Spec

=============================================================================
