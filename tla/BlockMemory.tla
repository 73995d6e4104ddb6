---------------------------- MODULE BlockMemory ----------------------------
(***************************************************************************)
(* Main memory (src/vm/main_memory.cpp, include/vm/main_memory.h): a map   *)
(* from block index to block, in which a block appears with the first byte *)
(* written to it.  One action per public access, of one byte, a halfword,  *)
(* a word or a double word (floats and doubles go through the same loops), *)
(* and the configuration command that changes the size of later blocks.    *)
(*                                                                         *)
(* Address arithmetic is that of an unsigned integer of Span values: 2^64  *)
(* in the code.  A value is the function from the place of a byte in it,   *)
(* the least significant first, to the byte.                               *)
(***************************************************************************)
EXTENDS Integers

CONSTANTS
  Span,           (* number of addresses                                   *)
  Size,           (* memory_size_                                          *)
  BlockSize,      (* block_size_: memory_block_size at construction        *)
  ConfigSizes,    (* what MODIFY_CONFIG may set memory_block_size to       *)
  Widths,         (* bytes of an access: 1, 2, 4 and 8 in the code         *)
  Bytes           (* what a byte holds                                     *)

Addresses == 0 .. Span - 1

ASSUME SpanAssumption   == Span \in Nat /\ Size \in Addresses
ASSUME BlockAssumption  == BlockSize \in Nat \ {0}
ASSUME ConfigAssumption == ConfigSizes \subseteq Nat
ASSUME WidthAssumption  == Widths \subseteq 1 .. Span
ASSUME ByteAssumption   == 0 \in Bytes

VARIABLES
  blocks,       (* blocks_: a partial function to blocks                   *)
  block_size,   (* config.memory_block_size                                *)
  out,          (* what the last access returned, or that it threw         *)
  undefined     (* an access has gone past the end of a block's vector     *)

vars == <<blocks, block_size, out, undefined>>

Values(n) == [0 .. n - 1 -> Bytes]
Blocks    == UNION {[0 .. s - 1 -> Bytes] : s \in ConfigSizes \cup {BlockSize}}
Results   == {<<"none">>, <<"stored">>, <<"fault">>}
               \cup UNION {{<<"loaded", v>> : v \in Values(n)} : n \in Widths}

GetBlockIndex(a)  == a \div BlockSize

(* Mutant: the offset follows the configuration, the index does not.       *)
GetBlockOffsetLive(a) == a % block_size

GetBlockOffset(a) == a % BlockSize

(* No block lies wholly beyond the memory.                                 *)
TypeOK ==
  /\ DOMAIN blocks \subseteq {GetBlockIndex(a) : a \in 0 .. Size - 1}
  /\ blocks = [b \in DOMAIN blocks |-> blocks[b]]
  /\ \A b \in DOMAIN blocks : blocks[b] \in Blocks
  /\ block_size \in ConfigSizes \cup {BlockSize}
  /\ out \in Results
  /\ undefined \in BOOLEAN

Init ==
  /\ blocks = [b \in {} |-> [o \in {} |-> 0]]
  /\ block_size = BlockSize
  /\ out = <<"none">>
  /\ undefined = FALSE

----------------------------------------------------------------------------
(* Address arithmetic.                                                     *)

Plus(a, i)  == (a + i) % Span
Minus(a, i) == (a - i) % Span

(* Mutant: the last byte of the access is not counted.                     *)
PassesOneOff(a, n) == a =< Minus(Size, n - 1)

(* The test at the head of every access: not a >= memory_size_ - (n - 1).  *)
Passes(a, n) == a < Minus(Size, n - 1)

(* The address of byte i of an access at a.                                *)
At(a, i) == Plus(a, i)

(* The test in Read and Write throws at the first byte beyond the memory;  *)
(* the bytes before it are done.                                           *)
Done(a, n) == {i \in 0 .. n - 1 : \A j \in 0 .. i : At(a, j) < Size}

Whole(a, n) == Done(a, n) = 0 .. n - 1

----------------------------------------------------------------------------
(* The byte at an address; a block that is not there reads as zeros.       *)

Present(a) == GetBlockIndex(a) \in DOMAIN blocks

Inside(a) == Present(a) => GetBlockOffset(a) \in DOMAIN blocks[GetBlockIndex(a)]

Read(a) == IF Present(a) THEN blocks[GetBlockIndex(a)][GetBlockOffset(a)] ELSE 0

(* Mutant: a block that is not there yet is made empty.                    *)
EnsureBlockEmpty(b) ==
  IF b \in DOMAIN blocks THEN blocks[b] ELSE [o \in {} |-> 0]

EnsureBlockExists(b) ==
  IF b \in DOMAIN blocks THEN blocks[b] ELSE [o \in 0 .. block_size - 1 |-> 0]

(* The blocks after the bytes I of v have been written from a on; byte     *)
(* Minus(c, a) of v goes to the address c.                                 *)
Written(a, I, v) ==
  [b \in DOMAIN blocks \cup {GetBlockIndex(At(a, i)) : i \in I} |->
    LET data == EnsureBlockExists(b)
    IN  [o \in DOMAIN data |->
          LET i == Minus(b * BlockSize + o, a)
          IN  IF o < BlockSize /\ i \in I THEN v[i] ELSE data[o]]]

(* The offset of every byte written lies in its block's vector.            *)
WritesInside(a, I) ==
  \A i \in I : GetBlockOffset(At(a, i)) \in DOMAIN EnsureBlockExists(GetBlockIndex(At(a, i)))

----------------------------------------------------------------------------
(* Accesses.  Once a vector is overrun anything may happen, and the model  *)
(* stops.                                                                  *)

ReadGeneric(a, n) ==
  /\ ~undefined
  /\ IF Passes(a, n)
     THEN /\ undefined' = ~(\A i \in Done(a, n) : Inside(At(a, i)))
          /\ out' = CASE undefined'   -> out
                      [] Whole(a, n)  -> <<"loaded", [i \in 0 .. n - 1 |-> Read(At(a, i))]>>
                      [] OTHER        -> <<"fault">>
     ELSE /\ out' = <<"fault">>
          /\ UNCHANGED undefined
  /\ UNCHANGED <<blocks, block_size>>

WriteGeneric(a, n, v) ==
  /\ ~undefined
  /\ IF Passes(a, n)
     THEN /\ undefined' = ~WritesInside(a, Done(a, n))
          /\ blocks' = Written(a, Done(a, n), v)
          /\ out' = IF Whole(a, n) THEN <<"stored">> ELSE <<"fault">>
     ELSE /\ out' = <<"fault">>
          /\ UNCHANGED <<blocks, undefined>>
  /\ UNCHANGED block_size

Reset ==
  /\ ~undefined
  /\ blocks' = [b \in {} |-> [o \in {} |-> 0]]
  /\ UNCHANGED <<block_size, out, undefined>>

modifyConfig(s) ==
  /\ ~undefined
  /\ block_size' = s
  /\ UNCHANGED <<blocks, out, undefined>>

Next ==
  \/ \E a \in Addresses, n \in Widths : ReadGeneric(a, n)
  \/ \E a \in Addresses, n \in Widths : \E v \in Values(n) : WriteGeneric(a, n, v)
  \/ Reset
  \/ \E s \in ConfigSizes : modifyConfig(s)

Spec == Init /\ [][Next]_vars

----------------------------------------------------------------------------

(* No access, aligned or not, runs past the end of a block's vector.       *)
InBounds == ~undefined

(* The bytes a program sees.                                               *)
Contents == [a \in 0 .. Size - 1 |-> Read(a)]

F == INSTANCE FlatMemory WITH mem <- Contents

(* Blocks that come and go cannot be told from a flat memory: an access    *)
(* across blocks reaches the right bytes, a block that is not there reads  *)
(* as zeros, and an access that leaves the memory changes nothing.         *)
ImplementsFlat == F!Spec

=============================================================================
