----------------------------- MODULE MCDebugger -----------------------------
(***************************************************************************)
(* Values for the constants of Debugger: one recorded location and one     *)
(* CSR.  An instruction writes 1; 0 comes back by RESET and by edits.      *)
(***************************************************************************)
EXTENDS Debugger

RecordedWrites == { [l \in {"x"} |-> 1] }
CsrWrites      == { [l \in {"csr"} |-> 1] }
Nothing        == { [l \in {} |-> 0] }

=============================================================================
