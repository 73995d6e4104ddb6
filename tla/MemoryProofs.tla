---------------------------- MODULE MemoryProofs ----------------------------
(***************************************************************************)
(* Blocks implement a flat memory (BlockMemory), for every memory size,    *)
(* block size, access width and byte, as long as                           *)
(*  - the widest access fits in memory, so that memory_size_ - (n - 1)     *)
(*    does not wrap;                                                       *)
(*  - no configured block size is below the one in force at construction.  *)
(***************************************************************************)
EXTENDS BlockMemory, TLAPS

(* The two hypotheses.                                                     *)
Room == \A n \in Widths : n - 1 =< Size
Wide == \A s \in ConfigSizes : s >= BlockSize

USE DEF Addresses

(* A remainder of a number below the modulus, or just below zero.          *)
LEMMA ModBelow ==
  ASSUME NEW N \in Nat \ {0}, NEW x \in 0 .. N - 1
  PROVE  x % N = x
  OBVIOUS

LEMMA ModNegative ==
  ASSUME NEW N \in Nat \ {0}, NEW x \in (-N) .. (-1)
  PROVE  x % N = x + N
  OBVIOUS

(* Index and offset determine the address.                                 *)
LEMMA Split ==
  ASSUME NEW c \in Nat
  PROVE  /\ GetBlockIndex(c) \in Nat
         /\ GetBlockOffset(c) \in 0 .. BlockSize - 1
         /\ GetBlockIndex(c) * BlockSize + GetBlockOffset(c) = c
  BY BlockAssumption DEF GetBlockIndex, GetBlockOffset

(* The test at the head of an access is that the access fits.              *)
LEMMA PassesIsFits ==
  ASSUME NEW a \in Addresses, NEW n \in Widths, Room
  PROVE  Passes(a, n) <=> a + n =< Size
<1>1. /\ Span \in Nat \ {0}
      /\ Size \in 0 .. Span - 1
      /\ n \in 1 .. Span
      /\ n - 1 =< Size
      /\ a \in 0 .. Span - 1
  BY SpanAssumption, WidthAssumption DEF Room
<1>2. Size - (n - 1) \in 0 .. Span - 1
  BY <1>1
<1>3. Minus(Size, n - 1) = Size - (n - 1)
  BY <1>1, <1>2, ModBelow DEF Minus
<1> QED BY <1>1, <1>3 DEF Passes

(* An access that fits is carried out whole, at consecutive addresses.     *)
LEMMA FitsIsWhole ==
  ASSUME NEW a \in Addresses, NEW n \in Widths, a + n =< Size
  PROVE  /\ \A i \in 0 .. n - 1 : At(a, i) = a + i /\ At(a, i) \in 0 .. Size - 1
         /\ Done(a, n) = 0 .. n - 1
         /\ Whole(a, n)
<1>1. /\ Span \in Nat \ {0}
      /\ Size \in 0 .. Span - 1
      /\ n \in 1 .. Span
      /\ a \in 0 .. Span - 1
  BY SpanAssumption, WidthAssumption
<1>2. ASSUME NEW i \in 0 .. n - 1
      PROVE  At(a, i) = a + i /\ At(a, i) \in 0 .. Size - 1
  <2>1. a + i \in 0 .. Span - 1 /\ a + i \in 0 .. Size - 1
    BY <1>1
  <2> QED BY <1>1, <2>1, ModBelow DEF At, Plus
<1>3. \A i \in 0 .. n - 1 : \A j \in 0 .. i : At(a, j) < Size
  BY <1>1, <1>2
<1> QED BY <1>2, <1>3 DEF Done, Whole

(* Address c of memory holds byte Minus(c, a) of the access, or none.      *)
LEMMA ByteOfAccess ==
  ASSUME NEW a \in Addresses, NEW n \in Widths, a + n =< Size,
         NEW c \in 0 .. Size - 1
  PROVE  /\ Minus(c, a) \in 0 .. n - 1 <=> c - a \in 0 .. n - 1
         /\ c - a \in 0 .. n - 1 => Minus(c, a) = c - a
<1>1. /\ Span \in Nat \ {0}
      /\ Size \in 0 .. Span - 1
      /\ n \in 1 .. Span
      /\ a \in 0 .. Span - 1
  BY SpanAssumption, WidthAssumption
<1>2. CASE c >= a
  <2>1. c - a \in 0 .. Span - 1
    BY <1>1, <1>2
  <2> QED BY <1>1, <2>1, ModBelow DEF Minus
<1>3. CASE c < a
  <2>1. c - a \in (-Span) .. (-1)
    BY <1>1, <1>3
  <2>2. Minus(c, a) = c - a + Span
    BY <1>1, <2>1, ModNegative DEF Minus
  <2>3. c - a + Span >= n /\ ~(c - a \in 0 .. n - 1)
    BY <1>1, <1>3
  <2> QED BY <1>1, <2>2, <2>3
<1> QED BY <1>1, <1>2, <1>3

----------------------------------------------------------------------------
(* Blocks and their bytes.                                                 *)

(* Every block holds the offsets 0 .. BlockSize - 1, and only bytes.       *)
LEMMA BlockIsWide ==
  ASSUME TypeOK, Wide, NEW b \in DOMAIN blocks
  PROVE  /\ blocks[b] = [o \in DOMAIN blocks[b] |-> blocks[b][o]]
         /\ 0 .. BlockSize - 1 \subseteq DOMAIN blocks[b]
         /\ \A o \in DOMAIN blocks[b] : blocks[b][o] \in Bytes
<1>1. PICK s \in ConfigSizes \cup {BlockSize} : blocks[b] \in [0 .. s - 1 -> Bytes]
  BY DEF TypeOK, Blocks
<1>2. s \in Nat /\ s >= BlockSize /\ BlockSize \in Nat
  BY ConfigAssumption, BlockAssumption DEF Wide
<1> QED BY <1>1, <1>2

(* So is a block that EnsureBlockExists makes; its bytes are 0.            *)
LEMMA EnsuredIsBlock ==
  ASSUME TypeOK, Wide, NEW b
  PROVE  /\ EnsureBlockExists(b) \in Blocks
         /\ 0 .. BlockSize - 1 \subseteq DOMAIN EnsureBlockExists(b)
         /\ b \notin DOMAIN blocks =>
              \A o \in DOMAIN EnsureBlockExists(b) : EnsureBlockExists(b)[o] = 0
<1>1. CASE b \in DOMAIN blocks
  BY <1>1, BlockIsWide DEF EnsureBlockExists, TypeOK
<1>2. CASE b \notin DOMAIN blocks
  <2>1. EnsureBlockExists(b) = [o \in 0 .. block_size - 1 |-> 0]
    BY <1>2 DEF EnsureBlockExists
  <2>2. block_size \in ConfigSizes \cup {BlockSize}
    BY DEF TypeOK
  <2>3. block_size \in Nat /\ block_size >= BlockSize /\ BlockSize \in Nat
    BY <2>2, ConfigAssumption, BlockAssumption DEF Wide
  <2>4. EnsureBlockExists(b) \in [0 .. block_size - 1 -> Bytes]
    BY <2>1, ByteAssumption
  <2>5. EnsureBlockExists(b) \in Blocks
    BY <2>2, <2>4 DEF Blocks
  <2> QED BY <1>2, <2>1, <2>3, <2>5
<1> QED BY <1>1, <1>2

(* A byte of memory can be read.                                           *)
LEMMA ReadIsByte ==
  ASSUME TypeOK, Wide, NEW c \in 0 .. Size - 1
  PROVE  Inside(c) /\ Read(c) \in Bytes
<1>1. c \in Nat
  BY SpanAssumption
<1>2. GetBlockOffset(c) \in 0 .. BlockSize - 1
  BY <1>1, Split
<1>3. CASE Present(c)
  BY <1>2, <1>3, BlockIsWide DEF Present, Inside, Read
<1>4. CASE ~Present(c)
  BY <1>4, ByteAssumption DEF Inside, Read
<1> QED BY <1>3, <1>4

(* Written leaves blocks.                                                  *)
LEMMA WrittenIsBlocks ==
  ASSUME TypeOK, Wide, NEW a \in Addresses, NEW n \in Widths, a + n =< Size,
         NEW v \in Values(n)
  PROVE  LET W == Written(a, 0 .. n - 1, v) IN
         /\ DOMAIN W \subseteq {GetBlockIndex(c) : c \in 0 .. Size - 1}
         /\ W = [b \in DOMAIN W |-> W[b]]
         /\ \A b \in DOMAIN W : W[b] \in Blocks
         /\ DOMAIN W = DOMAIN blocks \cup {GetBlockIndex(At(a, i)) : i \in 0 .. n - 1}
<1> DEFINE B == Written(a, 0 .. n - 1, v)
<1>1. DOMAIN B = DOMAIN blocks \cup {GetBlockIndex(At(a, i)) : i \in 0 .. n - 1}
  BY DEF Written
<1>2. B = [b \in DOMAIN B |-> B[b]]
  BY DEF Written
<1>3. \A i \in 0 .. n - 1 : At(a, i) \in 0 .. Size - 1
  BY FitsIsWhole
<1>4. DOMAIN B \subseteq {GetBlockIndex(c) : c \in 0 .. Size - 1}
  BY <1>1, <1>3 DEF TypeOK
<1>5. ASSUME NEW b \in DOMAIN B
      PROVE  B[b] \in Blocks
  <2> DEFINE data == EnsureBlockExists(b)
  <2>1. PICK s \in ConfigSizes \cup {BlockSize} : data \in [0 .. s - 1 -> Bytes]
    BY EnsuredIsBlock DEF Blocks
  <2>2. B[b] = [o \in DOMAIN data |->
                 IF o < BlockSize /\ Minus(b * BlockSize + o, a) \in 0 .. n - 1
                 THEN v[Minus(b * BlockSize + o, a)] ELSE data[o]]
    BY <1>1 DEF Written
  <2>3. B[b] \in [0 .. s - 1 -> Bytes]
    BY <2>1, <2>2 DEF Values
  <2> QED BY <2>1, <2>3 DEF Blocks
<1> QED BY <1>1, <1>2, <1>4, <1>5

(* Of the bytes of memory, Written changes exactly those of the access.    *)
LEMMA WrittenStores ==
  ASSUME TypeOK, Wide, NEW a \in Addresses, NEW n \in Widths, a + n =< Size,
         NEW v \in Values(n), NEW c \in 0 .. Size - 1
  PROVE  LET W == Written(a, 0 .. n - 1, v) IN
         (IF GetBlockIndex(c) \in DOMAIN W THEN W[GetBlockIndex(c)][GetBlockOffset(c)] ELSE 0)
           = IF c - a \in 0 .. n - 1 THEN v[c - a] ELSE Read(c)
<1> DEFINE B == Written(a, 0 .. n - 1, v)
           b == GetBlockIndex(c)
           o == GetBlockOffset(c)
           data == EnsureBlockExists(b)
<1>1. c \in Nat /\ Size \in Nat /\ a \in Nat /\ BlockSize \in Nat
  BY SpanAssumption, BlockAssumption
<1>2. /\ o \in 0 .. BlockSize - 1
      /\ b * BlockSize + o = c
  BY <1>1, Split
<1>3. DOMAIN B = DOMAIN blocks \cup {GetBlockIndex(At(a, i)) : i \in 0 .. n - 1}
  BY WrittenIsBlocks
<1>4. /\ Minus(c, a) \in 0 .. n - 1 <=> c - a \in 0 .. n - 1
      /\ c - a \in 0 .. n - 1 => Minus(c, a) = c - a
  BY ByteOfAccess
<1>5. o \in DOMAIN data /\ o < BlockSize
  BY <1>1, <1>2, EnsuredIsBlock
<1>6. ASSUME b \in DOMAIN B
      PROVE  B[b][o] = IF Minus(c, a) \in 0 .. n - 1 THEN v[Minus(c, a)] ELSE data[o]
  <2>1. B[b] = [p \in DOMAIN data |->
                 IF p < BlockSize /\ Minus(b * BlockSize + p, a) \in 0 .. n - 1
                 THEN v[Minus(b * BlockSize + p, a)] ELSE data[p]]
    BY <1>3, <1>6 DEF Written
  <2> HIDE DEF b, o, data
  <2> QED BY <1>2, <1>5, <2>1
<1>7. CASE c - a \in 0 .. n - 1
  <2>1. At(a, c - a) = a + (c - a)
    BY <1>7, FitsIsWhole
  <2>2. At(a, c - a) = c
    BY <2>1, <1>1
  <2>3. b \in DOMAIN B
    BY <1>3, <1>7, <2>2
  <2> QED BY <1>4, <1>6, <1>7, <2>3
<1>8. CASE c - a \notin 0 .. n - 1
  <2>1. CASE b \in DOMAIN blocks
    <3>1. data[o] = Read(c)
      BY <2>1 DEF EnsureBlockExists, Read, Present
    <3> QED BY <1>3, <1>4, <1>6, <1>8, <2>1, <3>1
  <2>2. CASE b \notin DOMAIN blocks
    <3>1. Read(c) = 0
      BY <2>2 DEF Read, Present
    <3>2. data[o] = 0
      BY <2>2, <1>5, EnsuredIsBlock
    <3> QED BY <1>4, <1>6, <1>8, <3>1, <3>2
  <2> QED BY <2>1, <2>2
<1> QED BY <1>7, <1>8

----------------------------------------------------------------------------
(* The invariant.                                                          *)

IInv == TypeOK /\ InBounds

LEMMA InitInv ==
  ASSUME Init
  PROVE  IInv
<1>1. DOMAIN blocks = {} /\ blocks = [b \in DOMAIN blocks |-> blocks[b]]
  BY DEF Init
<1> QED BY <1>1 DEF Init, IInv, TypeOK, InBounds, Results

(* A read that passes the test is whole and stays inside the blocks.       *)
LEMMA ReadStep ==
  ASSUME IInv, Room, Wide, NEW a \in Addresses, NEW n \in Widths, ReadGeneric(a, n)
  PROVE  /\ UNCHANGED <<blocks, block_size>>
         /\ ~undefined'
         /\ \/ /\ a + n =< Size
               /\ out' = <<"loaded", [i \in 0 .. n - 1 |-> Read(a + i)]>>
               /\ out' \in Results
            \/ /\ ~(a + n =< Size)
               /\ out' = <<"fault">>
<1>1. UNCHANGED <<blocks, block_size>> /\ ~undefined
  BY DEF ReadGeneric
<1>2. CASE a + n =< Size
  <2>1. Passes(a, n)
    BY <1>2, PassesIsFits
  <2>2. /\ \A i \in 0 .. n - 1 : At(a, i) = a + i /\ At(a, i) \in 0 .. Size - 1
        /\ Done(a, n) = 0 .. n - 1
        /\ Whole(a, n)
    BY <1>2, FitsIsWhole
  <2>3. \A i \in 0 .. n - 1 : Inside(At(a, i)) /\ Read(At(a, i)) \in Bytes
    BY <2>2, ReadIsByte DEF IInv
  <2>4. ~undefined'
    BY <2>1, <2>2, <2>3, Zenon DEF ReadGeneric
  <2>5. out' = <<"loaded", [i \in 0 .. n - 1 |-> Read(At(a, i))]>>
    BY <2>1, <2>2, <2>4 DEF ReadGeneric
  <2>6. out' = <<"loaded", [i \in 0 .. n - 1 |-> Read(a + i)]>>
    BY <2>2, <2>5
  <2>7. [i \in 0 .. n - 1 |-> Read(At(a, i))] \in Values(n)
    BY <2>3 DEF Values
  <2>8. out' \in Results
    BY <2>5, <2>7 DEF Results
  <2> QED BY <1>1, <1>2, <2>4, <2>6, <2>8
<1>3. CASE ~(a + n =< Size)
  <2>1. ~Passes(a, n)
    BY <1>3, PassesIsFits
  <2>2. out' = <<"fault">> /\ undefined' = undefined
    BY <2>1 DEF ReadGeneric
  <2> QED BY <1>1, <1>3, <2>2
<1> QED BY <1>2, <1>3

(* A write that passes the test is whole and stays inside the blocks; one  *)
(* that does not changes nothing.                                          *)
LEMMA WriteStep ==
  ASSUME IInv, Room, Wide, NEW a \in Addresses, NEW n \in Widths, NEW v \in Values(n),
         WriteGeneric(a, n, v)
  PROVE  /\ UNCHANGED block_size
         /\ ~undefined'
         /\ \/ /\ a + n =< Size
               /\ blocks' = Written(a, 0 .. n - 1, v)
               /\ out' = <<"stored">>
            \/ /\ ~(a + n =< Size)
               /\ blocks' = blocks
               /\ out' = <<"fault">>
<1>1. UNCHANGED block_size /\ ~undefined
  BY DEF WriteGeneric
<1>2. CASE a + n =< Size
  <2>1. Passes(a, n)
    BY <1>2, PassesIsFits
  <2>2. /\ \A i \in 0 .. n - 1 : At(a, i) = a + i /\ At(a, i) \in 0 .. Size - 1
        /\ Done(a, n) = 0 .. n - 1
        /\ Whole(a, n)
    BY <1>2, FitsIsWhole
  <2>3. ASSUME NEW i \in 0 .. n - 1
        PROVE  GetBlockOffset(At(a, i))
                 \in DOMAIN EnsureBlockExists(GetBlockIndex(At(a, i)))
    <3>1. At(a, i) \in Nat
      BY <2>2, SpanAssumption
    <3>2. GetBlockOffset(At(a, i)) \in 0 .. BlockSize - 1
      BY <3>1, Split
    <3> QED BY <3>2, EnsuredIsBlock DEF IInv
  <2>4. WritesInside(a, Done(a, n))
    BY <2>2, <2>3, Zenon DEF WritesInside
  <2>5. ~undefined' /\ blocks' = Written(a, Done(a, n), v) /\ out' = <<"stored">>
    BY <2>1, <2>2, <2>4, Zenon DEF WriteGeneric
  <2> QED BY <1>1, <1>2, <2>2, <2>5, Zenon
<1>3. CASE ~(a + n =< Size)
  <2>1. ~Passes(a, n)
    BY <1>3, PassesIsFits
  <2>2. out' = <<"fault">> /\ undefined' = undefined /\ blocks' = blocks
    BY <2>1 DEF WriteGeneric
  <2> QED BY <1>1, <1>3, <2>2
<1> QED BY <1>2, <1>3

LEMMA InductiveStep ==
  ASSUME IInv, Room, Wide, [Next]_vars
  PROVE  IInv'
<1>1. CASE UNCHANGED vars
  BY <1>1 DEF vars, IInv, TypeOK, InBounds
<1>2. ASSUME NEW a \in Addresses, NEW n \in Widths, ReadGeneric(a, n)
      PROVE  IInv'
  <2>1. out' \in Results /\ UNCHANGED <<blocks, block_size>> /\ undefined' = FALSE
    <3>1. undefined' \in BOOLEAN
      BY <1>2 DEF ReadGeneric, IInv, InBounds, TypeOK
    <3> QED BY <1>2, <3>1, ReadStep DEF Results
  <2> QED BY <2>1 DEF IInv, TypeOK, InBounds
<1>3. ASSUME NEW a \in Addresses, NEW n \in Widths, NEW v \in Values(n),
             WriteGeneric(a, n, v)
      PROVE  IInv'
  <2>1. out' \in Results /\ UNCHANGED block_size /\ undefined' = FALSE
    <3>1. undefined' \in BOOLEAN
      BY <1>3 DEF WriteGeneric, IInv, InBounds, TypeOK
    <3> QED BY <1>3, <3>1, WriteStep DEF Results
  <2>2. CASE blocks' = blocks
    BY <2>1, <2>2 DEF IInv, TypeOK, InBounds
  <2>3. CASE a + n =< Size /\ blocks' = Written(a, 0 .. n - 1, v)
    <3>1. /\ DOMAIN blocks' \subseteq {GetBlockIndex(c) : c \in 0 .. Size - 1}
          /\ blocks' = [b \in DOMAIN blocks' |-> blocks'[b]]
          /\ \A b \in DOMAIN blocks' : blocks'[b] \in Blocks
      BY <2>3, WrittenIsBlocks DEF IInv
    <3> QED BY <2>1, <3>1 DEF IInv, TypeOK, InBounds
  <2> QED BY <1>3, <2>2, <2>3, WriteStep
<1>4. ASSUME Reset
      PROVE  IInv'
  <2>1. DOMAIN blocks' = {} /\ blocks' = [b \in DOMAIN blocks' |-> blocks'[b]]
    BY <1>4 DEF Reset
  <2> QED BY <1>4, <2>1 DEF Reset, IInv, TypeOK, InBounds
<1>5. ASSUME NEW s \in ConfigSizes, modifyConfig(s)
      PROVE  IInv'
  BY <1>5 DEF modifyConfig, IInv, TypeOK, InBounds
<1> QED BY <1>1, <1>2, <1>3, <1>4, <1>5 DEF Next

(* The blocks hold bytes, and only blocks of the memory appear.            *)
THEOREM MemoryTypeOK == ASSUME Room, Wide PROVE Spec => []TypeOK
<1>1. Init => IInv
  BY InitInv
<1>2. IInv /\ [Next]_vars => IInv'
  BY InductiveStep
<1>3. IInv => TypeOK
  BY DEF IInv
<1> QED BY <1>1, <1>2, <1>3, PTL DEF Spec

(* No access runs past the end of a block's vector.                        *)
THEOREM MemoryInBounds == ASSUME Room, Wide PROVE Spec => []InBounds
<1>1. Init => IInv
  BY InitInv
<1>2. IInv /\ [Next]_vars => IInv'
  BY InductiveStep
<1>3. IInv => InBounds
  BY DEF IInv
<1> QED BY <1>1, <1>2, <1>3, PTL DEF Spec

----------------------------------------------------------------------------
(* The refinement.                                                         *)

(* What Contents is after the blocks have become B.                        *)
LEMMA ContentsAfter ==
  ASSUME NEW m, Size \in Nat,
         \A c \in 0 .. Size - 1 :
           (IF GetBlockIndex(c) \in DOMAIN blocks'
            THEN blocks'[GetBlockIndex(c)][GetBlockOffset(c)] ELSE 0) = m[c]
  PROVE  Contents' = [c \in 0 .. Size - 1 |-> m[c]]
  BY DEF Contents, Read, Present, GetBlockIndex, GetBlockOffset

LEMMA CellsAre == F!Cells = 0 .. Size - 1
  BY SpanAssumption DEF F!Cells

LEMMA WriteRefines ==
  ASSUME IInv, Room, Wide, NEW a \in Addresses, NEW n \in Widths, NEW v \in Values(n),
         WriteGeneric(a, n, v)
  PROVE  F!Store(a, n, v) \/ F!Refuse(a, n)
<1>1. CASE /\ a + n =< Size
           /\ blocks' = Written(a, 0 .. n - 1, v)
           /\ out' = <<"stored">>
  <2> DEFINE m == [c \in 0 .. Size - 1 |-> IF c - a \in 0 .. n - 1 THEN v[c - a] ELSE Contents[c]]
  <2>1. ASSUME NEW c \in 0 .. Size - 1
        PROVE  (IF GetBlockIndex(c) \in DOMAIN blocks'
                THEN blocks'[GetBlockIndex(c)][GetBlockOffset(c)] ELSE 0) = m[c]
    <3>1. m[c] = IF c - a \in 0 .. n - 1 THEN v[c - a] ELSE Read(c)
      BY DEF Contents
    <3> HIDE DEF m
    <3> QED BY <1>1, <3>1, WrittenStores DEF IInv
  <2>2. Contents' = [c \in 0 .. Size - 1 |-> m[c]]
    <3> HIDE DEF m
    <3> QED BY <2>1, ContentsAfter, SpanAssumption
  <2>3. Contents' = m
    BY <2>2
  <2> QED BY <1>1, <2>3, CellsAre DEF F!Store, F!Fits
<1>2. CASE ~(a + n =< Size) /\ blocks' = blocks /\ out' = <<"fault">>
  BY <1>2 DEF F!Refuse, F!Fits, Contents, Read, Present, GetBlockIndex, GetBlockOffset
<1> QED BY <1>1, <1>2, WriteStep

LEMMA ReadRefines ==
  ASSUME IInv, Room, Wide, NEW a \in Addresses, NEW n \in Widths, ReadGeneric(a, n)
  PROVE  F!Load(a, n) \/ F!Refuse(a, n)
<1>1. Contents' = Contents
  BY ReadStep DEF Contents, Read, Present, GetBlockIndex, GetBlockOffset
<1>2. CASE a + n =< Size /\ out' = <<"loaded", [i \in 0 .. n - 1 |-> Read(a + i)]>>
  <2>1. \A i \in 0 .. n - 1 : a + i \in 0 .. Size - 1
    BY <1>2, SpanAssumption, WidthAssumption
  <2>2. \A i \in 0 .. n - 1 : Contents[a + i] = Read(a + i)
    BY <2>1 DEF Contents
  <2>3. [i \in 0 .. n - 1 |-> Read(a + i)] = [i \in 0 .. n - 1 |-> Contents[a + i]]
    BY <2>2
  <2> QED BY <1>1, <1>2, <2>3 DEF F!Load, F!Fits
<1>3. CASE ~(a + n =< Size) /\ out' = <<"fault">>
  BY <1>1, <1>3 DEF F!Refuse, F!Fits
<1> QED BY <1>2, <1>3, ReadStep

LEMMA EmptyIsZero ==
  ASSUME NEW B, B = [b \in {} |-> [o \in {} |-> 0]]
  PROVE  DOMAIN B = {}
  OBVIOUS

(* A program cannot tell the blocks from a flat memory: an access across   *)
(* blocks reaches the right bytes, a block that is not there reads as      *)
(* zeros, and an access that leaves the memory changes nothing.            *)
THEOREM MemoryImplementsFlat == ASSUME Room, Wide PROVE Spec => ImplementsFlat
<1>1. Init => IInv /\ F!Init
  <2> SUFFICES ASSUME Init PROVE F!Init
    BY InitInv
  <2>1. DOMAIN blocks = {}
    BY EmptyIsZero DEF Init
  <2>2. Contents = [c \in 0 .. Size - 1 |-> 0]
    BY <2>1 DEF Contents, Read, Present
  <2> QED BY <2>2, CellsAre DEF Init, F!Init
<1>2. IInv /\ [Next]_vars => IInv' /\ [F!Next]_(F!vars)
  <2> SUFFICES ASSUME IInv, [Next]_vars PROVE [F!Next]_(F!vars)
    BY InductiveStep
  <2>1. CASE UNCHANGED vars
    BY <2>1 DEF vars, F!vars, Contents, Read, Present, GetBlockIndex, GetBlockOffset
  <2>2. ASSUME NEW a \in Addresses, NEW n \in Widths, ReadGeneric(a, n)
        PROVE  F!Next
    BY <2>2, ReadRefines DEF F!Next
  <2>3. ASSUME NEW a \in Addresses, NEW n \in Widths, NEW v \in Values(n),
               WriteGeneric(a, n, v)
        PROVE  F!Next
    BY <2>3, WriteRefines DEF F!Next, F!Values, Values
  <2>4. ASSUME Reset
        PROVE  F!Next
    <3>1. DOMAIN blocks' = {}
      BY <2>4, EmptyIsZero DEF Reset
    <3>2. Contents' = [c \in 0 .. Size - 1 |-> 0]
      BY <3>1 DEF Contents, Read, Present, GetBlockIndex
    <3> QED BY <2>4, <3>2, CellsAre DEF Reset, F!Next, F!Clear
  <2>5. ASSUME NEW s \in ConfigSizes, modifyConfig(s)
        PROVE  UNCHANGED F!vars
    BY <2>5 DEF modifyConfig, F!vars, Contents, Read, Present, GetBlockIndex, GetBlockOffset
  <2> QED BY <2>1, <2>2, <2>3, <2>4, <2>5 DEF Next
<1> QED BY <1>1, <1>2, PTL DEF Spec, ImplementsFlat, F!Spec

=============================================================================
