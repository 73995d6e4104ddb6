------------------------------ MODULE Debugger ------------------------------
(***************************************************************************)
(* Executing a program under the debugger: Run, DebugRun, Step, Undo and   *)
(* Redo of src/vm/rvss/rvss_vm.cpp with the deltas they record, LOAD,      *)
(* RESET and the breakpoints of src/vm/vm_base.cpp, and the commands that  *)
(* edit the machine.  Steps are single instructions; the two threads and   *)
(* what happens between them are in Session.tla, where it is proved that   *)
(* UNDO and REDO do not overlap with the vm thread.  LOAD, RESET and edits *)
(* given while the vm thread runs are data races and are not modelled.     *)
(*                                                                         *)
(* Addresses count instructions (pc / 4).  What an instruction computes is *)
(* abstracted to the locations it writes and the pc it leaves.             *)
(***************************************************************************)
EXTENDS Naturals, Sequences

CONSTANTS
  Recorded,     (* locations whose writes become part of the delta         *)
  Unrecorded,   (* the others: CSRs, and GPRs written by CSR instructions  *)
  Values,       (* what a location holds; Zero after reset                 *)
  Zero,
  Writes,       (* what an instruction may write: partial functions        *)
  Images,       (* what LOAD may put into the data section: the same       *)
  Sizes,        (* program sizes                                           *)
  Limit,        (* instruction_execution_limit                             *)
  MaxPc,        (* bound: addresses a jump may reach                       *)
  MaxRetired,   (* bound: instructions retired since the last reset, which *)
                (* the last turn of a loop may pass by one                 *)
  Commands      (* the commands the user may give                          *)

AllCommands ==
  { "run", "debug", "step", "undo", "redo", "reset", "breakpoint",
    "load",
    "edit" }     (* modify_register and modify_memory                      *)

Locations == Recorded \cup Unrecorded
Partial   == UNION {[L -> Values] : L \in SUBSET Locations}

ASSUME LocationsAssumption == Recorded \cap Unrecorded = {}
ASSUME ValuesAssumption    == Zero \in Values
ASSUME WritesAssumption    == Writes \subseteq Partial /\ Images \subseteq Partial
ASSUME SizesAssumption     == Sizes \subseteq 0 .. MaxPc
ASSUME BoundsAssumption    == Limit \in Nat /\ MaxPc \in Nat /\ MaxRetired \in Nat
ASSUME CommandsAssumption  == Commands \subseteq AllCommands

VARIABLES
  pc,            (* program_counter_                                       *)
  store,         (* registers_ and memory_controller_                      *)
  size,          (* program_size_                                          *)
  text,          (* the program is in memory                               *)
  undo,          (* undo_stack_, top last                                  *)
  redo,          (* redo_stack_, top last                                  *)
  delta,         (* current_delta_, without its pcs                        *)
  retired,       (* instructions_retired_ and cycle_s_                     *)
  breakpoints,   (* breakpoints_                                           *)
  mode,          (* "idle", or the loop that is executing                  *)
  stop,          (* stop_requested_                                        *)
  executed,      (* instruction_executed, of the last loop                 *)
  spoiled,       (* history: since the last reset, something was changed   *)
                 (* that the deltas kept do not say                        *)
  past, future,  (* history: the states the user has left by executing or  *)
                 (* undoing, as Timeline keeps them; none once spoiled     *)
  chosen         (* history: breakpoints the user set                      *)

machine  == <<pc, store>>
program  == <<size, text>>
history  == <<undo, redo, delta>>
ghosts   == <<spoiled, past, future>>
marks    == <<breakpoints, chosen>>
control  == <<mode, stop, executed>>
vars == <<machine, program, history, retired, marks, control, ghosts>>

Machines == (0 .. MaxPc) \X [Locations -> Values]

(* A delta maps each location it holds to the old and new value of its     *)
(* last entry: Undo and Redo both replay the entries first to last.        *)
Changes == UNION {[L -> [old : Values, new : Values]] : L \in SUBSET Recorded}
Deltas  == [old_pc : 0 .. MaxPc, new_pc : 0 .. MaxPc, changes : Changes]

(* What Undo and Redo write.                                               *)
Olds(d) == [l \in DOMAIN d.changes |-> d.changes[l].old]
News(d) == [l \in DOMAIN d.changes |-> d.changes[l].new]

Top(s) == s[Len(s)]
Pop(s) == SubSeq(s, 1, Len(s) - 1)

Override(f, g) ==
  [l \in DOMAIN f \cup DOMAIN g |-> IF l \in DOMAIN g THEN g[l] ELSE f[l]]

NoChanges == [l \in {} |-> [old |-> Zero, new |-> Zero]]
NoWrites  == [l \in {} |-> Zero]

TypeOK ==
  /\ machine \in Machines
  /\ size \in Sizes \cup {0}
  /\ text \in BOOLEAN
  /\ undo \in Seq(Deltas)
  /\ redo \in Seq(Deltas)
  /\ delta \in Changes
  /\ retired \in Nat
  /\ breakpoints \in SUBSET (0 .. MaxPc)
  /\ mode \in {"idle", "run", "debug"}
  /\ stop \in BOOLEAN
  /\ executed \in Nat
  /\ past \in Seq(Machines)
  /\ future \in Seq(Machines)
  /\ spoiled \in BOOLEAN
  /\ chosen \in SUBSET (0 .. MaxPc)

Init ==
  /\ pc = 0
  /\ store = [l \in Locations |-> Zero]
  /\ size = 0
  /\ text = FALSE
  /\ undo = <<>>
  /\ redo = <<>>
  /\ delta = NoChanges
  /\ retired = 0
  /\ breakpoints = {}
  /\ mode = "idle"
  /\ stop = FALSE
  /\ executed = 0
  /\ past = <<>>
  /\ future = <<>>
  /\ spoiled = FALSE
  /\ chosen = {}

May(c) == mode = "idle" /\ c \in Commands

----------------------------------------------------------------------------
(* One instruction: Fetch, Decode, Execute, WriteMemory and WriteBack.     *)

(* Mutant: the old value is read after the write.                          *)
RecordingLate(W, K) == [l \in K |-> [old |-> W[l], new |-> W[l]]]

(* What the instruction adds to current_delta_ for the locations K.        *)
Recording(W, K) == [l \in K |-> [old |-> store[l], new |-> W[l]]]

(* A register or a store is recorded if it changes; a store that changes   *)
(* records all its bytes, and SYSCALL_READ its buffer in any case.         *)
Changed(W)     == {l \in DOMAIN W \cap Recorded : store[l] # W[l]}
Recordings(W)  == {K \in SUBSET (DOMAIN W \cap Recorded) : Changed(W) \subseteq K}

(* After RESET the memory is zero, and a zero word does nothing.           *)
Possible == IF text THEN Writes ELSE {NoWrites}
Targets  == IF text THEN 0 .. MaxPc ELSE {pc + 1}

(* An ecall leaves stop_requested_ set.                                    *)
Instruction(W, n) ==
  /\ pc < size
  /\ pc' = n
  /\ store' = Override(store, W)
  /\ retired' = retired + 1
  /\ stop' \in {stop, TRUE}
  /\ spoiled' = (spoiled \/ mode = "run")
  /\ past' = IF spoiled' THEN <<>> ELSE Append(past, machine)
  /\ future' = <<>>
  /\ UNCHANGED <<program, marks>>

Accumulated(W, K) == Override(delta, Recording(W, K))

(* Mutant: the redo stack is not emptied by a new instruction.             *)
PushKeepsRedo(W, K, n) ==
  /\ undo' = Append(undo, [old_pc |-> pc, new_pc |-> n, changes |-> Accumulated(W, K)])
  /\ UNCHANGED redo
  /\ delta' = NoChanges

Push(W, K, n) ==
  /\ undo' = Append(undo, [old_pc |-> pc, new_pc |-> n, changes |-> Accumulated(W, K)])
  /\ redo' = <<>>
  /\ delta' = NoChanges

(* Mutant: a breakpoint is not tested at the first instruction.            *)
ContinuesFromBreakpoint ==
  /\ ~stop
  /\ pc < size
  /\ executed =< Limit
  /\ mode = "debug" /\ executed > 0 => pc \notin breakpoints

(* The loops of Run and DebugRun go on.                                    *)
Continues ==
  /\ ~stop
  /\ pc < size
  /\ executed =< Limit
  /\ mode = "debug" => pc \notin breakpoints

Step ==
  /\ May("step")
  /\ retired < MaxRetired
  /\ \E W \in Possible, n \in Targets : \E K \in Recordings(W) :
       Instruction(W, n) /\ Push(W, K, n)
  /\ UNCHANGED <<mode, executed>>

Begin(m) ==
  /\ May(m)
  /\ retired + Limit =< MaxRetired
  /\ mode' = m
  /\ stop' = FALSE
  /\ executed' = 0
  /\ UNCHANGED <<machine, program, history, retired, marks, ghosts>>

(* Run leaves its changes in current_delta_ and touches neither stack.     *)
RunInstruction ==
  /\ mode = "run" /\ Continues
  /\ \E W \in Possible, n \in Targets : \E K \in Recordings(W) :
       Instruction(W, n) /\ delta' = Accumulated(W, K)
  /\ executed' = executed + 1
  /\ UNCHANGED <<undo, redo, mode>>

DebugInstruction ==
  /\ mode = "debug" /\ Continues
  /\ \E W \in Possible, n \in Targets : \E K \in Recordings(W) :
       Instruction(W, n) /\ Push(W, K, n)
  /\ executed' = executed + 1
  /\ UNCHANGED mode

(* Mutant: DebugRun does not break at a breakpoint but tests it again.     *)
HaltNotAtBreakpoint ==
  /\ mode # "idle" /\ (stop \/ pc >= size \/ executed > Limit)
  /\ mode' = "idle"
  /\ executed' = 0
  /\ UNCHANGED <<machine, program, history, retired, marks, stop, ghosts>>

Halt ==
  /\ mode # "idle" /\ ~Continues
  /\ mode' = "idle"
  /\ executed' = 0
  /\ UNCHANGED <<machine, program, history, retired, marks, stop, ghosts>>

Stop ==
  /\ mode # "idle"
  /\ stop' = TRUE
  /\ UNCHANGED <<machine, program, history, retired, marks, mode, executed, ghosts>>

----------------------------------------------------------------------------
(* Undo, Redo and Reset.                                                   *)

Undo ==
  /\ May("undo") /\ undo # <<>>
  /\ LET d == Top(undo)
     IN  /\ pc' = d.old_pc
         /\ store' = Override(store, Olds(d))
         /\ redo' = Append(redo, d)
  /\ undo' = Pop(undo)
  /\ retired' = retired - 1
  /\ past' = Pop(past)
  /\ future' = IF spoiled THEN <<>> ELSE Append(future, machine)
  /\ UNCHANGED <<program, delta, marks, control, spoiled>>

(* Mutant: Redo counts down, as Undo does.                                 *)
RedoMiscounts ==
  /\ May("redo") /\ redo # <<>>
  /\ LET d == Top(redo)
     IN  /\ pc' = d.new_pc
         /\ store' = Override(store, News(d))
         /\ undo' = Append(undo, d)
  /\ redo' = Pop(redo)
  /\ retired' = retired - 1
  /\ past' = IF spoiled THEN <<>> ELSE Append(past, machine)
  /\ future' = Pop(future)
  /\ UNCHANGED <<program, delta, marks, control, spoiled>>

Redo ==
  /\ May("redo") /\ redo # <<>>
  /\ LET d == Top(redo)
     IN  /\ pc' = d.new_pc
         /\ store' = Override(store, News(d))
         /\ undo' = Append(undo, d)
  /\ redo' = Pop(redo)
  /\ retired' = retired + 1
  /\ past' = IF spoiled THEN <<>> ELSE Append(past, machine)
  /\ future' = Pop(future)
  /\ UNCHANGED <<program, delta, marks, control, spoiled>>

(* Mutant: the history is not cleared.                                     *)
ResetKeepsHistory ==
  /\ May("reset")
  /\ pc' = 0
  /\ store' = [l \in Locations |-> Zero]
  /\ text' = FALSE
  /\ retired' = 0
  /\ past' = <<>>
  /\ future' = <<>>
  /\ spoiled' = FALSE
  /\ UNCHANGED <<size, history, marks, control>>

(* RESET clears the memory, the program in it included, but not the        *)
(* program size and not the breakpoints.                                   *)
Reset ==
  /\ May("reset")
  /\ pc' = 0
  /\ store' = [l \in Locations |-> Zero]
  /\ text' = FALSE
  /\ undo' = <<>>
  /\ redo' = <<>>
  /\ delta' = NoChanges
  /\ retired' = 0
  /\ past' = <<>>
  /\ future' = <<>>
  /\ spoiled' = FALSE
  /\ UNCHANGED <<size, marks, control>>

----------------------------------------------------------------------------
(* LOAD, breakpoints and edits.                                            *)

(* Deltas on the stacks know nothing of what is done beside them.          *)
SpoilsHistory == spoiled' = (spoiled \/ undo # <<>> \/ redo # <<>>)

(* LoadProgram leaves pc, registers and history as they are, and sets a    *)
(* breakpoint after the last instruction.                                  *)
LoadProgram(n, I) ==
  /\ May("load")
  /\ size' = n
  /\ text' = TRUE
  /\ store' = Override(store, I)
  /\ breakpoints' = breakpoints \cup {n}
  /\ past' = <<>>
  /\ future' = <<>>
  /\ SpoilsHistory
  /\ UNCHANGED <<pc, history, retired, chosen, control>>

(* A line of the loaded file is an instruction of the program.             *)
AddBreakpoint(b) ==
  /\ May("breakpoint") /\ b < size /\ b \notin breakpoints
  /\ breakpoints' = breakpoints \cup {b}
  /\ chosen' = chosen \cup {b}
  /\ UNCHANGED <<machine, program, history, retired, control, ghosts>>

RemoveBreakpoint(b) ==
  /\ May("breakpoint") /\ b < size /\ b \in breakpoints
  /\ breakpoints' = breakpoints \ {b}
  /\ chosen' = chosen \ {b}
  /\ UNCHANGED <<machine, program, history, retired, control, ghosts>>

Edit(l, v) ==
  /\ May("edit")
  /\ store' = [store EXCEPT ![l] = v]
  /\ past' = <<>>
  /\ future' = <<>>
  /\ SpoilsHistory
  /\ UNCHANGED <<pc, program, history, retired, marks, control>>

----------------------------------------------------------------------------

LoopStep == RunInstruction \/ DebugInstruction \/ Halt

Next ==
  \/ Step
  \/ \E m \in {"run", "debug"} : Begin(m)
  \/ LoopStep
  \/ Stop
  \/ Undo
  \/ Redo
  \/ Reset
  \/ \E n \in Sizes, I \in Images : LoadProgram(n, I)
  \/ \E b \in 0 .. MaxPc : AddBreakpoint(b) \/ RemoveBreakpoint(b)
  \/ \E l \in Locations, v \in Values : Edit(l, v)

(* The vm thread executes; the user owes no command.                       *)
Spec == Init /\ [][Next]_vars /\ WF_vars(LoopStep)

----------------------------------------------------------------------------
(* What holds whatever commands are given.                                 *)

(* instructions_retired_ and cycle_s_, unsigned counters that Undo counts  *)
(* down, never pass below zero: there is an executed instruction for every *)
(* delta on the undo stack.                                                *)
NoUnderflow == Len(undo) =< retired

(* DebugRun never executes the instruction at a breakpoint the user set,   *)
(* not even as its first.                                                  *)
StopsAtBreakpoint == mode = "debug" /\ retired' # retired => pc \notin chosen

BreakpointHonoured == [][StopsAtBreakpoint]_vars

(* Run and DebugRun come to an end, even in a program that loops forever:  *)
(* the limit counts every instruction, and a breakpoint breaks the loop.   *)
LoopsHalt == (mode # "idle") ~> (mode = "idle")

T == INSTANCE Timeline WITH States <- Machines, now <- machine

(* Undo and Redo lead exactly through the states the user has seen, over   *)
(* any sequence of steps, undos and redos; a new step voids the redos.  It *)
(* is so until the history is spoiled, by an instruction of RUN or by LOAD *)
(* or an edit while there is a history.  Of a spoiled history nothing is   *)
(* said; RESET, which empties the stacks and current_delta_ alike, makes   *)
(* it exact again.  The program writes no CSR (see UndoReverts).           *)
ImplementsTimeline == T!Spec

----------------------------------------------------------------------------
(* What COMMANDS.md says.                                                  *)

(* COMMANDS.md:17: "Reverts the last executed step in the loaded file."    *)
Reverts == Undo => past # <<>> /\ machine' = Top(past)

UndoReverts == [][Reverts]_vars

=============================================================================
