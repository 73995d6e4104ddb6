------------------------------ MODULE Timeline ------------------------------
(***************************************************************************)
(* What an undo/redo history promises, whatever it is made of: a present   *)
(* state between the states it can go back to and the states it can go     *)
(* forward to.  Both are stacks, with the nearest state on top.            *)
(***************************************************************************)
EXTENDS Naturals, Sequences

CONSTANT States

VARIABLES past, now, future

vars == <<past, now, future>>

Top(s) == s[Len(s)]
Pop(s) == SubSeq(s, 1, Len(s) - 1)

Init ==
  /\ past = <<>>
  /\ now \in States
  /\ future = <<>>

(* Something new happens: the present becomes past, the future is void.    *)
Advance ==
  /\ past' = Append(past, now)
  /\ now' \in States
  /\ future' = <<>>

Back ==
  /\ past # <<>>
  /\ past' = Pop(past)
  /\ now' = Top(past)
  /\ future' = Append(future, now)

Forward ==
  /\ future # <<>>
  /\ future' = Pop(future)
  /\ now' = Top(future)
  /\ past' = Append(past, now)

Restart ==
  /\ past' = <<>>
  /\ now' \in States
  /\ future' = <<>>

Next == Advance \/ Back \/ Forward \/ Restart

Spec == Init /\ [][Next]_vars

=============================================================================
