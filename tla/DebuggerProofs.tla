--------------------------- MODULE DebuggerProofs ---------------------------
(***************************************************************************)
(* Theorems about Debugger, for every session: its state is well typed,    *)
(* the retired-instruction counter does not underflow, a breakpoint is     *)
(* honoured and, if the program writes no CSR, undo and redo implement     *)
(* Timeline.                                                               *)
(***************************************************************************)
EXTENDS Debugger, SequenceTheorems, TLAPS

USE LocationsAssumption, ValuesAssumption, WritesAssumption, SizesAssumption,
    BoundsAssumption

----------------------------------------------------------------------------
(* Stacks and deltas.                                                      *)

(* A popped stack: the stack without its last element.                     *)
LEMMA PopProperties ==
  ASSUME NEW S, NEW s \in Seq(S), s # <<>>
  PROVE  /\ Top(s) \in S
         /\ Pop(s) \in Seq(S)
         /\ Len(s) \in Nat \ {0}
         /\ Len(Pop(s)) = Len(s) - 1
         /\ \A i \in 1 .. Len(s) - 1 : Pop(s)[i] = s[i]
<1>1. Len(s) \in Nat \ {0}
  OBVIOUS
<1>2. \A i \in 1 .. Len(s) - 1 : s[i] \in S
  BY <1>1
<1>3. /\ Pop(s) \in Seq(S)
      /\ Len(Pop(s)) = Len(s) - 1
      /\ \A i \in 1 .. Len(s) - 1 : Pop(s)[i] = s[i]
  <2> DEFINE n == Len(s) - 1
  <2>1. n \in Int /\ n >= 0
    BY <1>1
  <2> HIDE DEF n
  <2>2. \A i \in 1 .. n : s[i] \in S
    BY <1>2 DEF n
  <2>3. /\ SubSeq(s, 1, n) \in Seq(S)
        /\ Len(SubSeq(s, 1, n)) = IF 1 =< n THEN n - 1 + 1 ELSE 0
        /\ \A i \in 1 .. n - 1 + 1 : SubSeq(s, 1, n)[i] = s[1 + i - 1]
    BY <2>1, <2>2, SubSeqProperties
  <2>4. /\ SubSeq(s, 1, n) \in Seq(S)
        /\ Len(SubSeq(s, 1, n)) = n
        /\ \A i \in 1 .. n : SubSeq(s, 1, n)[i] = s[i]
    BY <2>1, <2>3
  <2> QED
    BY <2>4 DEF n, Pop
<1> QED
  BY <1>1, <1>3 DEF Top

(* The empty stack stays empty.                                            *)
LEMMA PopTyped ==
  ASSUME NEW S, NEW s \in Seq(S)
  PROVE  Pop(s) \in Seq(S)
<1>1. CASE s = <<>>
  <2>1. Len(s) - 1 = -1
    BY <1>1
  <2>2. Pop(s) = <<>>
    BY <2>1, SubSeqEmpty DEF Pop
  <2> QED
    BY <2>2
<1>2. CASE s # <<>>
  BY <1>2, PopProperties
<1> QED
  BY <1>1, <1>2

(* What a set of partial functions is.                                     *)
LEMMA ChangesDef ==
  ASSUME NEW f
  PROVE  f \in Changes <=> /\ f = [l \in DOMAIN f |-> f[l]]
                           /\ DOMAIN f \subseteq Recorded
                           /\ \A l \in DOMAIN f : f[l] \in [old : Values, new : Values]
  BY DEF Changes

LEMMA PartialDef ==
  ASSUME NEW f \in Partial
  PROVE  /\ DOMAIN f \subseteq Locations
         /\ \A l \in DOMAIN f : f[l] \in Values
  BY DEF Partial

(* Overwriting changes with changes, and a store with writes.              *)
LEMMA OverrideChanges ==
  ASSUME NEW f \in Changes, NEW g \in Changes
  PROVE  Override(f, g) \in Changes
<1>1. \A l \in DOMAIN f \cup DOMAIN g :
        (IF l \in DOMAIN g THEN g[l] ELSE f[l]) \in [old : Values, new : Values]
  BY ChangesDef
<1>2. DOMAIN f \cup DOMAIN g \subseteq Recorded
  BY ChangesDef
<1> QED
  BY <1>1, <1>2, ChangesDef DEF Override

LEMMA OverrideStore ==
  ASSUME NEW f \in [Locations -> Values], NEW g,
         DOMAIN g \subseteq Locations, \A l \in DOMAIN g : g[l] \in Values
  PROVE  Override(f, g) \in [Locations -> Values]
  BY DEF Override

LEMMA NoChangesTyped == NoChanges \in Changes
  BY ChangesDef DEF NoChanges

----------------------------------------------------------------------------
(* Type correctness, and the counter Undo counts down.                     *)

IInv == TypeOK /\ NoUnderflow

(* What Spec starts from.                                                  *)
LEMMA InitIInv == Init => IInv
<1> SUFFICES ASSUME Init PROVE IInv
  OBVIOUS
<1>1. store \in [Locations -> Values]
  BY DEF Init
<1>2. machine \in Machines
  BY <1>1 DEF Init, machine, Machines
<1>3. delta \in Changes
  BY NoChangesTyped DEF Init
<1>4. undo = <<>> /\ redo = <<>> /\ past = <<>> /\ future = <<>> /\ retired = 0
  BY DEF Init
<1>5. /\ undo \in Seq(Deltas) /\ redo \in Seq(Deltas)
      /\ past \in Seq(Machines) /\ future \in Seq(Machines)
      /\ retired \in Nat /\ Len(undo) =< retired
  BY <1>4
<1>6. text \in BOOLEAN /\ stop \in BOOLEAN /\ spoiled \in BOOLEAN
  BY Zenon DEF Init
<1>7. /\ size \in Sizes \cup {0}
      /\ breakpoints \in SUBSET (0 .. MaxPc) /\ chosen \in SUBSET (0 .. MaxPc)
      /\ mode \in {"idle", "run", "debug"}
      /\ executed \in Nat
  BY DEF Init
<1> QED
  BY <1>2, <1>3, <1>5, <1>6, <1>7 DEF IInv, TypeOK, NoUnderflow

(* An instruction leaves a machine, and pushes the one it found.           *)
LEMMA InstructionTyped ==
  ASSUME IInv, NEW W \in Possible, NEW n \in Targets, Instruction(W, n)
  PROVE  /\ machine' \in Machines
         /\ pc \in 0 .. MaxPc /\ n \in 0 .. MaxPc
         /\ retired' \in Nat /\ retired' = retired + 1
         /\ stop' \in BOOLEAN /\ spoiled' \in BOOLEAN
         /\ past' \in Seq(Machines) /\ future' \in Seq(Machines)
         /\ W \in Partial
<1>1. machine \in Machines /\ retired \in Nat /\ size \in 0 .. MaxPc
      /\ past \in Seq(Machines)
  BY DEF IInv, TypeOK
<1>2. pc \in 0 .. MaxPc /\ store \in [Locations -> Values]
  BY <1>1 DEF machine, Machines
<1>3. W \in Partial
  <2>1. NoWrites \in Partial
    <3>1. NoWrites \in [{} -> Values]
      BY DEF NoWrites
    <3> QED
      BY <3>1 DEF Partial
  <2> QED
    BY <2>1 DEF Possible
<1>4. n \in 0 .. MaxPc
  <2>1. pc < size
    BY DEF Instruction
  <2> QED
    BY <1>1, <1>2, <2>1 DEF Targets
<1>5. store' \in [Locations -> Values]
  BY <1>2, <1>3, PartialDef, OverrideStore DEF Instruction
<1>6. machine' \in Machines
  BY <1>4, <1>5 DEF machine, Machines, Instruction
<1>7. stop' \in BOOLEAN /\ spoiled' \in BOOLEAN
  BY Zenon DEF IInv, TypeOK, Instruction
<1>8. past' \in Seq(Machines) /\ future' \in Seq(Machines)
  <2>1. past' \in {<<>>, Append(past, machine)} /\ future' = <<>>
    BY Zenon DEF Instruction
  <2>2. <<>> \in Seq(Machines) /\ Append(past, machine) \in Seq(Machines)
    BY <1>1
  <2> QED
    BY <2>1, <2>2, Zenon
<1>9. retired' \in Nat /\ retired' = retired + 1
  BY <1>1 DEF Instruction
<1> QED
  BY <1>2, <1>3, <1>4, <1>6, <1>7, <1>8, <1>9

(* What an instruction records is what it writes, or part of it.           *)
LEMMA AccumulatedTyped ==
  ASSUME IInv, NEW W \in Partial, NEW K \in Recordings(W)
  PROVE  Accumulated(W, K) \in Changes
<1>1. K \subseteq DOMAIN W /\ K \subseteq Recorded /\ K \subseteq Locations
  BY DEF Recordings, Locations
<1>2. store \in [Locations -> Values]
  BY DEF IInv, TypeOK, machine, Machines
<1>3. \A l \in K : [old |-> store[l], new |-> W[l]] \in [old : Values, new : Values]
  BY <1>1, <1>2, PartialDef
<1>4. Recording(W, K) \in Changes
  BY <1>1, <1>3, ChangesDef DEF Recording
<1>5. delta \in Changes
  BY DEF IInv, TypeOK
<1> QED
  BY <1>4, <1>5, OverrideChanges DEF Accumulated

(* Step and DebugRun push a well-typed delta.                              *)
LEMMA PushTyped ==
  ASSUME IInv, NEW W \in Possible, NEW n \in Targets, NEW K \in Recordings(W),
         Instruction(W, n), Push(W, K, n)
  PROVE  /\ undo' \in Seq(Deltas) /\ Len(undo') = Len(undo) + 1
         /\ redo' \in Seq(Deltas)
         /\ delta' \in Changes
<1>1. pc \in 0 .. MaxPc /\ n \in 0 .. MaxPc /\ W \in Partial
  BY InstructionTyped
<1>2. Accumulated(W, K) \in Changes
  BY <1>1, AccumulatedTyped
<1>3. [old_pc |-> pc, new_pc |-> n, changes |-> Accumulated(W, K)] \in Deltas
  BY <1>1, <1>2 DEF Deltas
<1>4. undo \in Seq(Deltas)
  BY DEF IInv, TypeOK
<1> QED
  BY <1>3, <1>4, NoChangesTyped DEF Push

(* Every step keeps the types, and the counter above the undo stack.       *)
LEMMA NextIInv == IInv /\ [Next]_vars => IInv'
<1> SUFFICES ASSUME IInv, [Next]_vars PROVE IInv'
  OBVIOUS
<1> USE DEF IInv
<1>0. /\ machine \in Machines
      /\ pc \in 0 .. MaxPc /\ store \in [Locations -> Values]
      /\ undo \in Seq(Deltas) /\ redo \in Seq(Deltas) /\ delta \in Changes
      /\ past \in Seq(Machines) /\ future \in Seq(Machines)
      /\ retired \in Nat /\ executed \in Nat
      /\ Len(undo) \in Nat /\ Len(undo) =< retired
  BY DEF TypeOK, NoUnderflow, machine, Machines
<1>1. CASE Step
  <2>1. PICK W \in Possible, n \in Targets : \E K \in Recordings(W) :
          Instruction(W, n) /\ Push(W, K, n)
    BY <1>1 DEF Step
  <2>2. PICK K \in Recordings(W) : Instruction(W, n) /\ Push(W, K, n)
    BY <2>1
  <2>3. UNCHANGED <<program, marks, mode, executed>>
    BY <1>1, <2>2 DEF Step, Instruction
  <2>4. /\ machine' \in Machines /\ stop' \in BOOLEAN /\ spoiled' \in BOOLEAN
        /\ past' \in Seq(Machines) /\ future' \in Seq(Machines)
        /\ retired' = retired + 1
    BY <2>2, InstructionTyped, Zenon
  <2>5. /\ undo' \in Seq(Deltas) /\ Len(undo') = Len(undo) + 1
        /\ redo' \in Seq(Deltas) /\ delta' \in Changes
    BY <2>2, PushTyped, Zenon
  <2>6. executed' \in Nat /\ retired' \in Nat /\ Len(undo') =< retired'
    BY <1>0, <2>3, <2>4, <2>5
  <2> QED
    BY <2>3, <2>4, <2>5, <2>6 DEF TypeOK, NoUnderflow, program, marks
<1>2. CASE \E m \in {"run", "debug"} : Begin(m)
  <2>1. mode' \in {"run", "debug"} /\ executed' \in Nat
    BY <1>2 DEF Begin
  <2>2. stop' \in BOOLEAN
    BY <1>2, Zenon DEF Begin
  <2>3. UNCHANGED <<machine, program, history, retired, marks, ghosts>>
    BY <1>2 DEF Begin
  <2> QED
    BY <1>0, <2>1, <2>2, <2>3 DEF TypeOK, NoUnderflow, program, history, marks, ghosts
<1>3. CASE RunInstruction
  <2>1. PICK W \in Possible, n \in Targets : \E K \in Recordings(W) :
          Instruction(W, n) /\ delta' = Accumulated(W, K)
    BY <1>3 DEF RunInstruction
  <2>2. PICK K \in Recordings(W) : Instruction(W, n) /\ delta' = Accumulated(W, K)
    BY <2>1
  <2>3. UNCHANGED <<program, marks, undo, redo, mode>> /\ executed' = executed + 1
    BY <1>3, <2>2 DEF RunInstruction, Instruction
  <2>4. delta' \in Changes
    BY <2>2, InstructionTyped, AccumulatedTyped
  <2>5. /\ machine' \in Machines /\ stop' \in BOOLEAN /\ spoiled' \in BOOLEAN
        /\ past' \in Seq(Machines) /\ future' \in Seq(Machines)
        /\ retired' = retired + 1
    BY <2>2, InstructionTyped, Zenon
  <2>6. executed' \in Nat /\ retired' \in Nat /\ Len(undo') =< retired'
    BY <1>0, <2>3, <2>5
  <2> QED
    BY <1>0, <2>3, <2>4, <2>5, <2>6 DEF TypeOK, NoUnderflow, program, marks
<1>4. CASE DebugInstruction
  <2>1. PICK W \in Possible, n \in Targets : \E K \in Recordings(W) :
          Instruction(W, n) /\ Push(W, K, n)
    BY <1>4 DEF DebugInstruction
  <2>2. PICK K \in Recordings(W) : Instruction(W, n) /\ Push(W, K, n)
    BY <2>1
  <2>3. UNCHANGED <<program, marks, mode>> /\ executed' = executed + 1
    BY <1>4, <2>2 DEF DebugInstruction, Instruction
  <2>4. /\ machine' \in Machines /\ stop' \in BOOLEAN /\ spoiled' \in BOOLEAN
        /\ past' \in Seq(Machines) /\ future' \in Seq(Machines)
        /\ retired' = retired + 1
    BY <2>2, InstructionTyped, Zenon
  <2>5. /\ undo' \in Seq(Deltas) /\ Len(undo') = Len(undo) + 1
        /\ redo' \in Seq(Deltas) /\ delta' \in Changes
    BY <2>2, PushTyped, Zenon
  <2>6. executed' \in Nat /\ retired' \in Nat /\ Len(undo') =< retired'
    BY <1>0, <2>3, <2>4, <2>5
  <2> QED
    BY <2>3, <2>4, <2>5, <2>6 DEF TypeOK, NoUnderflow, program, marks
<1>5. CASE Halt
  <2>1. mode' = "idle" /\ executed' = 0
    BY <1>5 DEF Halt
  <2>2. UNCHANGED <<machine, program, history, retired, marks, stop, ghosts>>
    BY <1>5 DEF Halt
  <2> QED
    BY <1>0, <2>1, <2>2 DEF TypeOK, NoUnderflow, program, history, marks, ghosts
<1>6. CASE Stop
  <2>1. stop' \in BOOLEAN
    BY <1>6, Zenon DEF Stop
  <2>2. UNCHANGED <<machine, program, history, retired, marks, mode, executed, ghosts>>
    BY <1>6 DEF Stop
  <2> QED
    BY <1>0, <2>1, <2>2 DEF TypeOK, NoUnderflow, program, history, marks, ghosts
<1>7. CASE Undo
  <2> DEFINE d == Top(undo)
  <2>1. undo # <<>> /\ d \in Deltas /\ undo' \in Seq(Deltas) /\ Len(undo') = Len(undo) - 1
    BY <1>0, <1>7, PopProperties DEF Undo
  <2>2. retired' \in Nat /\ Len(undo') =< retired'
    BY <1>0, <1>7, <2>1, PopProperties DEF Undo
  <2>3. d.old_pc \in 0 .. MaxPc /\ d.changes \in Changes
    BY <2>1 DEF Deltas
  <2>4. Override(store, Olds(d)) \in [Locations -> Values]
    <3>1. /\ DOMAIN Olds(d) \subseteq Locations
          /\ \A l \in DOMAIN Olds(d) : Olds(d)[l] \in Values
      BY <2>3, ChangesDef DEF Locations, Olds
    <3> HIDE DEF d
    <3> QED
      BY <1>0, <3>1, OverrideStore
  <2>5. machine' \in Machines
    BY <1>7, <2>3, <2>4 DEF Undo, machine, Machines
  <2>6. redo' \in Seq(Deltas)
    BY <1>0, <1>7, <2>1 DEF Undo
  <2>7. past' \in Seq(Machines) /\ future' \in Seq(Machines)
    <3>1. past' = Pop(past) /\ future' \in {<<>>, Append(future, machine)}
      BY <1>7, Zenon DEF Undo
    <3>2. <<>> \in Seq(Machines) /\ Append(future, machine) \in Seq(Machines)
      BY <1>0
    <3>3. Pop(past) \in Seq(Machines)
      BY <1>0, PopTyped
    <3> QED
      BY <3>1, <3>2, <3>3, Zenon
  <2>8. UNCHANGED <<program, delta, marks, control, spoiled>>
    BY <1>7 DEF Undo
  <2> QED
    BY <1>0, <2>1, <2>2, <2>5, <2>6, <2>7, <2>8
    DEF TypeOK, NoUnderflow, program, marks, control
<1>8. CASE Redo
  <2> DEFINE d == Top(redo)
  <2>1. redo # <<>> /\ d \in Deltas /\ redo' \in Seq(Deltas)
    BY <1>0, <1>8, PopProperties DEF Redo
  <2>2. retired' = retired + 1
    BY <1>8 DEF Redo
  <2>3. d.new_pc \in 0 .. MaxPc /\ d.changes \in Changes
    BY <2>1 DEF Deltas
  <2>4. Override(store, News(d)) \in [Locations -> Values]
    <3>1. /\ DOMAIN News(d) \subseteq Locations
          /\ \A l \in DOMAIN News(d) : News(d)[l] \in Values
      BY <2>3, ChangesDef DEF Locations, News
    <3> HIDE DEF d
    <3> QED
      BY <1>0, <3>1, OverrideStore
  <2>5. machine' \in Machines
    BY <1>8, <2>3, <2>4 DEF Redo, machine, Machines
  <2>6. undo' \in Seq(Deltas) /\ Len(undo') = Len(undo) + 1
    BY <1>0, <1>8, <2>1 DEF Redo
  <2>7. past' \in Seq(Machines) /\ future' \in Seq(Machines)
    <3>1. past' \in {<<>>, Append(past, machine)} /\ future' = Pop(future)
      BY <1>8, Zenon DEF Redo
    <3>2. <<>> \in Seq(Machines) /\ Append(past, machine) \in Seq(Machines)
      BY <1>0
    <3>3. Pop(future) \in Seq(Machines)
      BY <1>0, PopTyped
    <3> QED
      BY <3>1, <3>2, <3>3, Zenon
  <2>8. UNCHANGED <<program, delta, marks, control, spoiled>>
    BY <1>8 DEF Redo
  <2> QED
    BY <1>0, <2>1, <2>2, <2>5, <2>6, <2>7, <2>8
    DEF TypeOK, NoUnderflow, program, marks, control
<1>9. CASE Reset
  <2>1. text' \in BOOLEAN /\ spoiled' \in BOOLEAN
    BY <1>9, Zenon DEF Reset
  <2>2. machine' \in Machines
    BY <1>9 DEF Reset, machine, Machines
  <2>3. /\ undo' = <<>> /\ redo' = <<>> /\ past' = <<>> /\ future' = <<>>
        /\ delta' = NoChanges /\ retired' = 0
        /\ UNCHANGED <<size, marks, control>>
    BY <1>9 DEF Reset
  <2> QED
    BY <1>0, <2>1, <2>2, <2>3, NoChangesTyped DEF TypeOK, NoUnderflow, marks, control
<1>10. CASE \E n \in Sizes, I \in Images : LoadProgram(n, I)
  <2>1. PICK n \in Sizes, I \in Images : LoadProgram(n, I)
    BY <1>10
  <2>2. text' \in BOOLEAN /\ spoiled' \in BOOLEAN
    BY <2>1, Zenon DEF LoadProgram, SpoilsHistory, TypeOK
  <2>3. store' \in [Locations -> Values]
    BY <1>0, <2>1, PartialDef, OverrideStore DEF LoadProgram
  <2>4. machine' \in Machines
    BY <1>0, <2>1, <2>3 DEF LoadProgram, machine, Machines
  <2>5. size' \in Sizes /\ breakpoints' = breakpoints \cup {n} /\ n \in 0 .. MaxPc
    BY <2>1 DEF LoadProgram
  <2>6. past' = <<>> /\ future' = <<>>
    BY <2>1 DEF LoadProgram
  <2>7. UNCHANGED <<history, retired, chosen, control>>
    BY <2>1 DEF LoadProgram
  <2> QED
    BY <1>0, <2>2, <2>4, <2>5, <2>6, <2>7 DEF TypeOK, NoUnderflow, history, control
<1>11. CASE \E b \in 0 .. MaxPc : AddBreakpoint(b) \/ RemoveBreakpoint(b)
  <2>1. /\ breakpoints' \in SUBSET (0 .. MaxPc)
        /\ chosen' \in SUBSET (0 .. MaxPc)
    BY <1>11 DEF AddBreakpoint, RemoveBreakpoint, TypeOK
  <2>2. UNCHANGED <<machine, program, history, retired, control, ghosts>>
    BY <1>11 DEF AddBreakpoint, RemoveBreakpoint
  <2> QED
    BY <1>0, <2>1, <2>2 DEF TypeOK, NoUnderflow, program, history, control, ghosts
<1>12. CASE \E l \in Locations, v \in Values : Edit(l, v)
  <2>1. store' \in [Locations -> Values] /\ pc' = pc
    BY <1>0, <1>12 DEF Edit
  <2>2. machine' \in Machines
    BY <1>0, <2>1 DEF machine, Machines
  <2>3. UNCHANGED <<program, history, retired, marks, control>>
    BY <1>12 DEF Edit
  <2>4. spoiled' \in BOOLEAN
    BY <1>12, Zenon DEF Edit, SpoilsHistory, TypeOK
  <2>5. past' = <<>> /\ future' = <<>>
    BY <1>12 DEF Edit
  <2> QED
    BY <1>0, <2>2, <2>3, <2>4, <2>5 DEF TypeOK, NoUnderflow, program, history, marks, control
<1>13. CASE UNCHANGED vars
  BY <1>13, <1>0
  DEF vars, TypeOK, NoUnderflow, program, history, marks, control, ghosts
<1> QED
  BY <1>1, <1>2, <1>3, <1>4, <1>5, <1>6, <1>7, <1>8, <1>9, <1>10, <1>11, <1>12, <1>13
  DEF Next, LoopStep

(* In every session the state has its types.                               *)
THEOREM DebuggerTypeOK == Spec => []TypeOK
<1>1. IInv => TypeOK
  BY DEF IInv
<1> QED
  BY InitIInv, NextIInv, <1>1, PTL DEF Spec

(* In every session, however RUN, STEP, UNDO, REDO, LOAD and RESET are     *)
(* mixed, Undo never counts the retired instructions below zero.           *)
THEOREM DebuggerNoUnderflow == Spec => []NoUnderflow
<1>1. IInv => NoUnderflow
  BY DEF IInv
<1> QED
  BY InitIInv, NextIInv, <1>1, PTL DEF Spec

----------------------------------------------------------------------------
(* Breakpoints.                                                            *)

(* What the user set and did not remove is a breakpoint.                   *)
ChosenAreSet == chosen \subseteq breakpoints

LEMMA ChosenAreSetInvariant == ChosenAreSet /\ [Next]_vars => ChosenAreSet'
<1> SUFFICES ASSUME ChosenAreSet, [Next]_vars PROVE ChosenAreSet'
  OBVIOUS
<1>1. CASE UNCHANGED <<breakpoints, chosen>>
  BY <1>1 DEF ChosenAreSet
<1>2. CASE \E n \in Sizes, I \in Images : LoadProgram(n, I)
  BY <1>2 DEF ChosenAreSet, LoadProgram
<1>3. CASE \E b \in 0 .. MaxPc : AddBreakpoint(b) \/ RemoveBreakpoint(b)
  BY <1>3 DEF ChosenAreSet, AddBreakpoint, RemoveBreakpoint
<1>4. CASE Step \/ LoopStep
  BY <1>1, <1>4
  DEF Step, LoopStep, RunInstruction, DebugInstruction, Halt, Instruction, marks
<1>5. CASE \/ \E m \in {"run", "debug"} : Begin(m)
           \/ Stop \/ Undo \/ Redo \/ Reset
           \/ \E l \in Locations, v \in Values : Edit(l, v)
           \/ UNCHANGED vars
  BY <1>1, <1>5 DEF Begin, Stop, Undo, Redo, Reset, Edit, marks, vars
<1> QED
  BY <1>2, <1>3, <1>4, <1>5 DEF Next

(* DebugRun never executes an instruction at a breakpoint the user set.    *)
THEOREM DebuggerBreakpointHonoured == Spec => BreakpointHonoured
<1>1. Init => ChosenAreSet
  BY DEF Init, ChosenAreSet
<1>2. ChosenAreSet /\ [Next]_vars => [StopsAtBreakpoint]_vars
  <2> SUFFICES ASSUME ChosenAreSet, Next, mode = "debug", retired' # retired
               PROVE  pc \notin chosen
    BY DEF StopsAtBreakpoint
  <2>1. DebugInstruction
    BY DEF Next, LoopStep, Step, Begin, RunInstruction, Halt, Stop, Undo, Redo, Reset,
           LoadProgram, AddBreakpoint, RemoveBreakpoint, Edit, May
  <2> QED
    BY <2>1 DEF DebugInstruction, Continues, ChosenAreSet
<1> QED
  BY <1>1, <1>2, ChosenAreSetInvariant, PTL DEF Spec, BreakpointHonoured

----------------------------------------------------------------------------
(* The refinement: the undo stack leads back through past, the redo stack  *)
(* forward through future, one delta from each state to its neighbour.     *)

(* The delta d leads from the state s to t, and back.                      *)
Link(s, d, t) ==
  /\ s[1] = d.old_pc /\ t[1] = d.new_pc
  /\ t[2] = Override(s[2], News(d))
  /\ s[2] = Override(t[2], Olds(d))

Towards(forward, s, d, t) == IF forward THEN Link(s, d, t) ELSE Link(t, d, s)

(* From each state of the stack S, its delta in D leads to the next one,   *)
(* and from the top to m.                                                  *)
Chain(forward, S, D, m) ==
  /\ Len(S) = Len(D)
  /\ \A k \in 1 .. Len(S) :
       Towards(forward, S[k], D[k], IF k = Len(S) THEN m ELSE S[k + 1])

(* A chain grows by a delta that leads on from its end.                    *)
LEMMA ChainAppend ==
  ASSUME NEW S \in Seq(Machines), NEW D \in Seq(Deltas), NEW f \in BOOLEAN,
         NEW m \in Machines, NEW d \in Deltas, NEW n,
         Chain(f, S, D, m), Towards(f, m, d, n)
  PROVE  Chain(f, Append(S, m), Append(D, d), n)
<1> DEFINE S1 == Append(S, m)
           D1 == Append(D, d)
<1>1. /\ Len(S) = Len(D) /\ Len(S) \in Nat
      /\ Len(S1) = Len(S) + 1 /\ Len(D1) = Len(S) + 1
      /\ \A k \in 1 .. Len(S) : S1[k] = S[k] /\ D1[k] = D[k]
      /\ S1[Len(S) + 1] = m /\ D1[Len(S) + 1] = d
  BY DEF Chain
<1> HIDE DEF S1, D1
<1>2. ASSUME NEW k \in 1 .. Len(S1)
      PROVE  Towards(f, S1[k], D1[k], IF k = Len(S1) THEN n ELSE S1[k + 1])
  <2>1. CASE k = Len(S) + 1
    BY <1>1, <2>1
  <2>2. CASE k = Len(S)
    <3>1. Towards(f, S[k], D[k], m)
      BY <1>1, <1>2, <2>2 DEF Chain
    <3> QED
      BY <1>1, <1>2, <2>2, <3>1
  <2>3. CASE k # Len(S) /\ k # Len(S) + 1
    <3>1. k \in 1 .. Len(S) /\ k + 1 \in 1 .. Len(S)
      BY <1>1, <1>2, <2>3
    <3>2. Towards(f, S[k], D[k], S[k + 1])
      BY <2>3, <3>1 DEF Chain
    <3> QED
      BY <1>1, <2>3, <3>1, <3>2
  <2> QED
    BY <2>1, <2>2, <2>3
<1>3. Chain(f, S1, D1, n)
  BY <1>1, <1>2 DEF Chain
<1> QED
  BY <1>3 DEF S1, D1

(* The top delta leads from the top state to the end of the chain, and the *)
(* rest of the chain to the top state.                                     *)
LEMMA ChainPop ==
  ASSUME NEW S \in Seq(Machines), NEW D \in Seq(Deltas), NEW f \in BOOLEAN,
         NEW m, Chain(f, S, D, m), D # <<>>
  PROVE  /\ S # <<>>
         /\ Towards(f, Top(S), Top(D), m)
         /\ Chain(f, Pop(S), Pop(D), Top(S))
<1>1. Len(S) = Len(D) /\ Len(D) \in Nat \ {0} /\ S # <<>>
  BY PopProperties DEF Chain
<1>2. Towards(f, Top(S), Top(D), m)
  BY <1>1 DEF Chain, Top
<1>3. /\ Len(Pop(S)) = Len(S) - 1 /\ Len(Pop(D)) = Len(S) - 1
      /\ \A k \in 1 .. Len(S) - 1 : Pop(S)[k] = S[k] /\ Pop(D)[k] = D[k]
  BY <1>1, PopProperties
<1>4. ASSUME NEW k \in 1 .. Len(S) - 1
      PROVE  Towards(f, Pop(S)[k], Pop(D)[k], IF k = Len(S) - 1 THEN Top(S) ELSE Pop(S)[k + 1])
  <2>1. Towards(f, S[k], D[k], S[k + 1])
    BY <1>1, <1>4 DEF Chain
  <2>2. CASE k = Len(S) - 1
    BY <1>1, <1>3, <2>1, <2>2 DEF Top
  <2>3. CASE k # Len(S) - 1
    BY <1>1, <1>3, <2>1, <2>3
  <2> QED
    BY <2>2, <2>3
<1>5. Chain(f, Pop(S), Pop(D), Top(S))
  BY <1>1, <1>3, <1>4 DEF Chain
<1> QED
  BY <1>1, <1>2, <1>5

(* The two stacks are chains that end in the present state.                *)
Chains ==
  /\ Chain(TRUE, past, undo, machine)
  /\ Chain(FALSE, future, redo, machine)

(* What the ghosts say while the history is exact, and after.              *)
Exact == delta = NoChanges /\ Chains
Honest == IF spoiled THEN past = <<>> /\ future = <<>> ELSE Exact

(* No history, no links.                                                   *)
LEMMA ChainEmpty ==
  ASSUME NEW f, NEW m PROVE Chain(f, <<>>, <<>>, m)
BY DEF Chain

(* An instruction's delta links the states before and after it.            *)
LEMMA InstructionLinks ==
  ASSUME Unrecorded = {}, IInv, delta = NoChanges,
         NEW W \in Possible, NEW n \in Targets, NEW K \in Recordings(W),
         Instruction(W, n)
  PROVE  Link(machine, [old_pc |-> pc, new_pc |-> n, changes |-> Accumulated(W, K)], machine')
<1> DEFINE d == [old_pc |-> pc, new_pc |-> n, changes |-> Accumulated(W, K)]
<1>1. /\ W \in Partial /\ DOMAIN W \subseteq Recorded
      /\ store \in [Locations -> Values]
      /\ K \subseteq DOMAIN W
      /\ \A l \in DOMAIN W \ K : store[l] = W[l]
  BY InstructionTyped, PartialDef
  DEF Locations, Recordings, Changed, IInv, TypeOK, machine, Machines
<1>2. Accumulated(W, K) = Recording(W, K)
  BY DEF Accumulated, NoChanges, Recording, Override
<1>3. /\ Olds(d) = [l \in K |-> store[l]]
      /\ News(d) = [l \in K |-> W[l]]
  BY <1>2 DEF Olds, News, Recording
<1>4. store' = Override(store, W) /\ pc' = n
  BY DEF Instruction
<1>5. Override(store, News(d)) = store'
  BY <1>1, <1>3, <1>4, PartialDef DEF Override
<1>6. Override(store', Olds(d)) = store
  BY <1>1, <1>3, <1>4, PartialDef DEF Override
<1>7. d.old_pc = pc /\ d.new_pc = n
  OBVIOUS
<1> HIDE DEF d
<1>8. Link(machine, d, machine')
  BY <1>4, <1>5, <1>6, <1>7 DEF Link, machine
<1> QED
  BY <1>8 DEF d

(* The invariant of the refinement.                                        *)
RInv == IInv /\ Honest

(* A step of Step or DebugRun is an Advance, and lengthens the past.       *)
LEMMA AdvanceStep ==
  ASSUME Unrecorded = {}, RInv, ~spoiled',
         NEW W \in Possible, NEW n \in Targets, NEW K \in Recordings(W),
         Instruction(W, n), Push(W, K, n)
  PROVE  T!Advance /\ Exact'
<1> DEFINE d == [old_pc |-> pc, new_pc |-> n, changes |-> Accumulated(W, K)]
<1>1. /\ machine \in Machines /\ machine' \in Machines
      /\ past \in Seq(Machines) /\ undo \in Seq(Deltas)
      /\ pc \in 0 .. MaxPc /\ n \in 0 .. MaxPc /\ W \in Partial
  BY InstructionTyped DEF RInv, IInv, TypeOK
<1>2. d \in Deltas
  BY <1>1, AccumulatedTyped DEF RInv, Deltas
<1>3. past' = Append(past, machine) /\ undo' = Append(undo, d)
      /\ future' = <<>> /\ redo' = <<>> /\ delta' = NoChanges
  BY DEF Instruction, Push
<1>0. Exact
  BY Zenon DEF RInv, Honest, Instruction
<1>4. Link(machine, d, machine')
  BY <1>0, InstructionLinks DEF RInv, Exact
<1> HIDE DEF d
<1>5. Chain(TRUE, past', undo', machine')
  <2>1. ASSUME NEW f, f = TRUE
        PROVE  Chain(f, Append(past, machine), Append(undo, d), machine')
    <3>1. f \in BOOLEAN
      BY <2>1, Zenon
    <3>2. Towards(f, machine, d, machine')
      BY <1>4, <2>1, Zenon DEF Towards
    <3>3. Chain(f, past, undo, machine)
      BY <1>0, <2>1, Zenon DEF Exact, Chains
    <3> QED
      BY <1>1, <1>2, <3>1, <3>2, <3>3, ChainAppend, Zenon
  <2> QED
    BY <1>3, <2>1, Zenon
<1>6. Chain(FALSE, future', redo', machine')
  BY <1>3, ChainEmpty, Zenon
<1> QED
  BY <1>1, <1>3, <1>5, <1>6 DEF T!Advance, Exact, Chains

(* Undo is Back.                                                           *)
LEMMA UndoStep == RInv /\ ~spoiled' /\ Undo => T!Back /\ Exact'
<1> SUFFICES ASSUME RInv, ~spoiled', Undo PROVE T!Back /\ Exact'
  OBVIOUS
<1> DEFINE d == Top(undo)
<1>1. /\ machine \in Machines
      /\ past \in Seq(Machines) /\ undo \in Seq(Deltas) /\ undo # <<>>
      /\ future \in Seq(Machines) /\ redo \in Seq(Deltas)
  BY DEF RInv, IInv, TypeOK, Undo
<1>0. ~spoiled /\ Exact
  BY Zenon DEF RInv, Honest, Undo
<1>2. d \in Deltas
  BY <1>1, PopProperties
<1>3. /\ past # <<>>
      /\ Link(Top(past), d, machine)
      /\ Chain(TRUE, Pop(past), Pop(undo), Top(past))
  <2>1. ASSUME NEW f \in BOOLEAN, f = TRUE
        PROVE  /\ past # <<>>
               /\ Towards(f, Top(past), d, machine)
               /\ Chain(f, Pop(past), Pop(undo), Top(past))
    <3>1. Chain(f, past, undo, machine)
      BY <1>0, <2>1, Zenon DEF Exact, Chains
    <3> QED
      BY <1>1, <3>1, ChainPop, Zenon
  <2> QED
    BY <2>1, Zenon DEF Towards
<1>4. machine' = Top(past)
  <2>1. Top(past) \in Machines
    BY <1>1, <1>3, PopProperties
  <2>2. pc' = Top(past)[1] /\ store' = Top(past)[2]
    BY <1>3 DEF Undo, Link, machine
  <2> QED
    BY <2>1, <2>2 DEF machine, Machines
<1>5. /\ past' = Pop(past) /\ undo' = Pop(undo)
      /\ future' = Append(future, machine) /\ redo' = Append(redo, d)
      /\ delta' = NoChanges
  BY <1>0 DEF Undo, Exact
<1> HIDE DEF d
<1>6. Chain(FALSE, future', redo', machine')
  <2>1. ASSUME NEW f \in BOOLEAN, f = FALSE
        PROVE  Chain(f, Append(future, machine), Append(redo, d), machine')
    <3>1. Chain(f, future, redo, machine)
      BY <1>0, <2>1, Zenon DEF Exact, Chains
    <3>2. Towards(f, machine, d, machine')
      BY <1>3, <1>4, <2>1, Zenon DEF Towards
    <3> QED
      BY <1>1, <1>2, <3>1, <3>2, ChainAppend, Zenon
  <2> QED
    BY <1>5, <2>1, Zenon
<1>7. Chain(TRUE, past', undo', machine')
  BY <1>3, <1>4, <1>5, Zenon
<1>8. T!Back
  BY <1>3, <1>4, <1>5 DEF T!Back, T!Top, T!Pop, Top, Pop
<1> QED
  BY <1>5, <1>6, <1>7, <1>8 DEF Exact, Chains

(* Redo is Forward.                                                        *)
LEMMA RedoStep == RInv /\ ~spoiled' /\ Redo => T!Forward /\ Exact'
<1> SUFFICES ASSUME RInv, ~spoiled', Redo PROVE T!Forward /\ Exact'
  OBVIOUS
<1> DEFINE d == Top(redo)
<1>1. /\ machine \in Machines
      /\ past \in Seq(Machines) /\ undo \in Seq(Deltas)
      /\ future \in Seq(Machines) /\ redo \in Seq(Deltas) /\ redo # <<>>
  BY DEF RInv, IInv, TypeOK, Redo
<1>0. ~spoiled /\ Exact
  BY Zenon DEF RInv, Honest, Redo
<1>2. d \in Deltas
  BY <1>1, PopProperties
<1>3. /\ future # <<>>
      /\ Link(machine, d, Top(future))
      /\ Chain(FALSE, Pop(future), Pop(redo), Top(future))
  <2>1. ASSUME NEW f \in BOOLEAN, f = FALSE
        PROVE  /\ future # <<>>
               /\ Towards(f, Top(future), d, machine)
               /\ Chain(f, Pop(future), Pop(redo), Top(future))
    <3>1. Chain(f, future, redo, machine)
      BY <1>0, <2>1, Zenon DEF Exact, Chains
    <3> QED
      BY <1>1, <3>1, ChainPop, Zenon
  <2> QED
    BY <2>1, Zenon DEF Towards
<1>4. machine' = Top(future)
  <2>1. Top(future) \in Machines
    BY <1>1, <1>3, PopProperties
  <2>2. pc' = Top(future)[1] /\ store' = Top(future)[2]
    BY <1>3 DEF Redo, Link, machine
  <2> QED
    BY <2>1, <2>2 DEF machine, Machines
<1>5. /\ future' = Pop(future) /\ redo' = Pop(redo)
      /\ past' = Append(past, machine) /\ undo' = Append(undo, d)
      /\ delta' = NoChanges
  BY <1>0 DEF Redo, Exact
<1> HIDE DEF d
<1>6. Chain(TRUE, past', undo', machine')
  <2>1. ASSUME NEW f \in BOOLEAN, f = TRUE
        PROVE  Chain(f, Append(past, machine), Append(undo, d), machine')
    <3>1. Chain(f, past, undo, machine)
      BY <1>0, <2>1, Zenon DEF Exact, Chains
    <3>2. Towards(f, machine, d, machine')
      BY <1>3, <1>4, <2>1, Zenon DEF Towards
    <3> QED
      BY <1>1, <1>2, <3>1, <3>2, ChainAppend, Zenon
  <2> QED
    BY <1>5, <2>1, Zenon
<1>7. Chain(FALSE, future', redo', machine')
  BY <1>3, <1>4, <1>5, Zenon
<1>8. T!Forward
  BY <1>3, <1>4, <1>5 DEF T!Forward, T!Top, T!Pop, Top, Pop
<1> QED
  BY <1>5, <1>6, <1>7, <1>8 DEF Exact, Chains

(* A history that is or becomes spoiled shows nothing.                     *)
LEMMA SpoiledStep ==
  ASSUME RInv, [Next]_vars, spoiled'
  PROVE  past' = <<>> /\ future' = <<>>
<1>1. CASE Step \/ RunInstruction \/ DebugInstruction
  <2>1. PICK W \in Possible, n \in Targets : Instruction(W, n)
    BY <1>1 DEF Step, RunInstruction, DebugInstruction
  <2> QED
    BY <2>1, Zenon DEF Instruction
<1>2. CASE Undo \/ Redo
  <2>1. spoiled
    BY <1>2, Zenon DEF Undo, Redo
  <2>2. past = <<>> /\ future = <<>>
    BY <2>1, Zenon DEF RInv, Honest
  <2>3. Pop(<<>>) = <<>>
    <3>1. Len(<<>>) - 1 = -1
      OBVIOUS
    <3> QED
      BY <3>1, SubSeqEmpty DEF Pop
  <2>4. past' \in {Pop(past), <<>>} /\ future' \in {Pop(future), <<>>}
    BY <1>2, <2>1, Zenon DEF Undo, Redo
  <2> QED
    BY <2>2, <2>3, <2>4
<1>3. CASE \/ Reset
           \/ \E n \in Sizes, I \in Images : LoadProgram(n, I)
           \/ \E l \in Locations, v \in Values : Edit(l, v)
  BY <1>3 DEF Reset, LoadProgram, Edit
<1>4. CASE \/ \E m \in {"run", "debug"} : Begin(m)
           \/ Halt \/ Stop
           \/ \E b \in 0 .. MaxPc : AddBreakpoint(b) \/ RemoveBreakpoint(b)
           \/ UNCHANGED vars
  <2>1. UNCHANGED ghosts
    BY <1>4 DEF Begin, Halt, Stop, AddBreakpoint, RemoveBreakpoint, vars
  <2> QED
    BY <2>1, Zenon DEF ghosts, RInv, Honest
<1> QED
  BY <1>1, <1>2, <1>3, <1>4 DEF Next, LoopStep

(* Every step is one of Timeline's, or leaves its variables alone.         *)
LEMMA RefinementStep ==
  ASSUME Unrecorded = {}, RInv, [Next]_vars
  PROVE  [T!Next]_(T!vars) /\ Honest'
<1>0. machine' \in Machines
  BY NextIInv DEF RInv, IInv, TypeOK
<1>1. CASE spoiled'
  <2>1. past' = <<>> /\ future' = <<>>
    BY <1>1, SpoiledStep
  <2> QED
    BY <1>0, <1>1, <2>1, Zenon DEF T!Next, T!Restart, Honest
<1>2. CASE ~spoiled'
  <2>1. SUFFICES [T!Next]_(T!vars) /\ Exact'
    BY <1>2, Zenon DEF Honest
  <2>2. CASE Step \/ DebugInstruction
    <3>1. PICK W \in Possible, n \in Targets : \E K \in Recordings(W) :
            Instruction(W, n) /\ Push(W, K, n)
      BY <2>2 DEF Step, DebugInstruction
    <3>2. PICK K \in Recordings(W) : Instruction(W, n) /\ Push(W, K, n)
      BY <3>1
    <3> QED
      BY <1>2, <3>2, AdvanceStep, Zenon DEF T!Next
  <2>3. ~RunInstruction
    BY <1>2, Zenon DEF RunInstruction, Instruction
  <2>4. CASE Undo \/ Redo
    BY <1>2, <2>4, UndoStep, RedoStep, Zenon DEF T!Next
  <2>5. CASE \/ Reset
             \/ \E n \in Sizes, I \in Images : LoadProgram(n, I)
             \/ \E l \in Locations, v \in Values : Edit(l, v)
    <3>1. /\ past' = <<>> /\ future' = <<>> /\ undo' = <<>> /\ redo' = <<>>
          /\ delta' = NoChanges
      <4>1. CASE Reset
        BY <4>1 DEF Reset
      <4>2. CASE ~Reset
        <5>1. /\ past' = <<>> /\ future' = <<>>
              /\ SpoilsHistory /\ UNCHANGED history
          BY <2>5, <4>2 DEF LoadProgram, Edit
        <5>2. ~spoiled /\ undo = <<>> /\ redo = <<>>
          BY <1>2, <5>1, Zenon DEF SpoilsHistory
        <5> QED
          BY <5>1, <5>2, Zenon DEF history, RInv, Honest, Exact
      <4> QED
        BY <4>1, <4>2
    <3> QED
      BY <1>0, <3>1, ChainEmpty, Zenon DEF T!Next, T!Restart, Exact, Chains
  <2>6. CASE \/ \E m \in {"run", "debug"} : Begin(m)
             \/ Halt \/ Stop
             \/ \E b \in 0 .. MaxPc : AddBreakpoint(b) \/ RemoveBreakpoint(b)
             \/ UNCHANGED vars
    <3>1. UNCHANGED <<machine, history, ghosts>>
      BY <2>6 DEF Begin, Halt, Stop, AddBreakpoint, RemoveBreakpoint, vars
    <3>2. Exact
      BY <1>2, <3>1, Zenon DEF ghosts, RInv, Honest
    <3> QED
      BY <3>1, <3>2 DEF T!vars, ghosts, history, Exact, Chains
  <2> QED
    BY <2>2, <2>3, <2>4, <2>5, <2>6 DEF Next, LoopStep
<1> QED
  BY <1>1, <1>2

(* If the program writes no CSR, every undo restores exactly the state     *)
(* before the step, every redo the state after it, over any sequence of    *)
(* them, in every session: from the beginning, and from each RESET, until  *)
(* RUN executes or a LOAD or an edit finds a history.                      *)
THEOREM DebuggerImplementsTimeline ==
  ASSUME Unrecorded = {}
  PROVE  Spec => ImplementsTimeline
<1>1. Init => T!Init /\ RInv
  <2> SUFFICES ASSUME Init PROVE T!Init /\ RInv
    OBVIOUS
  <2>1. IInv
    BY InitIInv
  <2>2. T!Init
    BY <2>1 DEF Init, T!Init, IInv, TypeOK
  <2>3. Exact
    BY ChainEmpty, Zenon DEF Init, Exact, Chains
  <2>4. ~spoiled
    BY Zenon DEF Init
  <2> QED
    BY <2>1, <2>2, <2>3, <2>4, Zenon DEF RInv, Honest
<1>2. RInv /\ [Next]_vars => RInv' /\ [T!Next]_(T!vars)
  BY RefinementStep, NextIInv DEF RInv
<1> QED
  BY <1>1, <1>2, PTL DEF Spec, ImplementsTimeline, T!Spec

=============================================================================
