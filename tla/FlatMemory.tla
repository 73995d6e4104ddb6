----------------------------- MODULE FlatMemory -----------------------------
(***************************************************************************)
(* What a program expects of memory: Size bytes, zero at first, and        *)
(* accesses of several bytes that are carried out completely or, if they   *)
(* leave the memory, not at all.  A value is the function from the place   *)
(* of each byte in it, the least significant first, to the byte.           *)
(***************************************************************************)
EXTENDS Naturals

CONSTANTS
  Size,        (* bytes of memory                                          *)
  Addresses,   (* what an address can be, some beyond the memory           *)
  Widths,      (* bytes an access may have                                 *)
  Bytes        (* what a byte holds, 0 among them                          *)

VARIABLES
  mem,         (* the bytes                                                *)
  out          (* what the last access returned                            *)

vars == <<mem, out>>

Cells     == {a \in Addresses : a < Size}
Values(n) == [0 .. n - 1 -> Bytes]

Init ==
  /\ mem = [a \in Cells |-> 0]
  /\ out = <<"none">>

Fits(a, n) == a + n =< Size

Store(a, n, v) ==
  /\ Fits(a, n)
  /\ mem' = [c \in Cells |-> IF c - a \in 0 .. n - 1 THEN v[c - a] ELSE mem[c]]
  /\ out' = <<"stored">>

Load(a, n) ==
  /\ Fits(a, n)
  /\ out' = <<"loaded", [i \in 0 .. n - 1 |-> mem[a + i]]>>
  /\ UNCHANGED mem

Refuse(a, n) ==
  /\ ~Fits(a, n)
  /\ out' = <<"fault">>
  /\ UNCHANGED mem

Clear ==
  /\ mem' = [a \in Cells |-> 0]
  /\ UNCHANGED out

Next ==
  \/ \E a \in Addresses, n \in Widths :
       \/ \E v \in Values(n) : Store(a, n, v)
       \/ Load(a, n)
       \/ Refuse(a, n)
  \/ Clear

Spec == Init /\ [][Next]_vars

=============================================================================
