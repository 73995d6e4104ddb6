--------------------------- MODULE MCEccRegister ---------------------------
(***************************************************************************)
(* Values for the constants of EccRegister: 32-bit data at its real width, *)
(* with corner cases of the code.                                          *)
(***************************************************************************)
EXTENDS EccRegister

MCValues     == { {0, 1, 3, 7, 15, 31}, 0 .. 31 }
MCRawValues  == { {4}, 0 .. 31 }
MCSigs       == {0, 63}
MCFlipBits   == {0, 31}
MCCheckFlips == {5, 6}
NoValues     == {}

=============================================================================
