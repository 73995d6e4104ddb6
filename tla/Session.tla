------------------------------ MODULE Session ------------------------------
(***************************************************************************)
(* The two threads of the simulator and what they share.                   *)
(*                                                                         *)
(* The main thread (src/main.cpp) reads one command at a time.  RUN,       *)
(* DEBUG_RUN and STEP are carried out by a second thread, the vm thread,   *)
(* which executes RVSSVM::Run, DebugRun or Step; every other command is    *)
(* carried out by the main thread, beside a vm thread that may be running. *)
(* The threads share vm_running, stop_requested_, the queue of stdin       *)
(* lines with its condition variable, and the machine with its undo and    *)
(* redo stacks.                                                            *)
(*                                                                         *)
(* The program being simulated is abstracted to what one instruction can   *)
(* do to the threads (Outcomes); pc and registers are in Debugger.tla.     *)
(* Commands the code ignores, and commands that touch nothing modelled     *)
(* here, are stuttering steps and have no action.                          *)
(***************************************************************************)
EXTENDS Naturals

CONSTANTS
  Outcomes,   (* what an instruction of the program may do                 *)
  Limit,      (* instruction_execution_limit                               *)
  MaxInput,   (* bound: stdin lines queued at once                         *)
  MaxUndo     (* bound: depth counted on the undo and on the redo stack    *)

AllOutcomes ==
  { "plain",    (* anything that is not an ecall                           *)
    "ecall",    (* a system call that neither reads stdin nor exits        *)
    "read",     (* SYSCALL_READ on descriptor 0                            *)
    "exit",     (* SYSCALL_EXIT                                            *)
    "fault" }   (* an out_of_range thrown by the memory, caught by nobody  *)

ASSUME OutcomesAssumption == Outcomes \subseteq AllOutcomes /\ Outcomes # {}
ASSUME BoundsAssumption == Limit \in Nat /\ MaxInput \in Nat /\ MaxUndo \in Nat

VARIABLES
  process,  (* "up", or how the process ended                              *)
  main,     (* where the command loop is                                   *)
  request,  (* what launch_vm_thread will launch once its join returns     *)
  thread,   (* where the vm thread is; "absent" is a non-joinable handle   *)
  mode,     (* which of Run, DebugRun and Step the vm thread executes      *)
  running,  (* vm_running                                                  *)
  stop,     (* RVSSVM::stop_requested_                                     *)
  input,    (* length of input_queue_                                      *)
  undo,     (* height of undo_stack_                                       *)
  redo,     (* height of redo_stack_                                       *)
  executed, (* instruction_executed of Run and DebugRun                    *)
  asked,    (* history: what became of the main thread's request to stop   *)
            (* the vm thread in its function: "none", "kept" or "erased"   *)
  late      (* history: instructions that thread began after the request   *)

vars == <<process, main, request, thread, mode, running, stop, input,
          undo, redo, executed, asked, late>>

mainVars   == <<process, main, request>>
threadVars == <<thread, mode, running>>
histVars   == <<undo, redo>>
countVars  == <<executed, asked, late>>
askVars    == <<asked, late>>

Modes == {"run", "debug", "step"}
Loops == {"run", "debug"}

(* "born": created, not yet in its function.  "loop": at the test of the   *)
(* while loop.  "exec": about to fetch.  "want": in SYSCALL_READ, about to *)
(* lock input_mutex_.  "asleep": waiting on input_cv_.  "served": a line   *)
(* was popped.  "commit": the instruction is executed, its delta not yet   *)
(* pushed.  "tail": after the loop.  "done": the function has returned.    *)
InFunction  == {"born", "loop", "exec", "want", "asleep", "served", "commit", "tail"}
ThreadState == {"absent", "done"} \cup InFunction

Joinable == thread # "absent"
Joining  == main \in {"joinLaunch", "joinExit"}
Ready    == process = "up" /\ main = "ready"

Least(a, b) == IF a =< b THEN a ELSE b

TypeOK ==
  /\ process \in {"up", "exited", "aborted"}
  /\ main \in {"ready", "joinLaunch", "joinExit", "exited"}
  /\ request \in Modes
  /\ thread \in ThreadState
  /\ mode \in Modes
  /\ running \in BOOLEAN
  /\ stop \in BOOLEAN
  /\ input \in 0 .. MaxInput
  /\ undo \in 0 .. MaxUndo
  /\ redo \in 0 .. MaxUndo
  /\ executed \in 0 .. Limit + 1
  /\ asked \in {"none", "kept", "erased"}
  /\ late \in Nat

Init ==
  /\ process = "up"
  /\ main = "ready"
  /\ request = "run"
  /\ thread = "absent"
  /\ mode = "run"
  /\ running = FALSE
  /\ stop = FALSE
  /\ input = 0
  /\ undo = 0
  /\ redo = 0
  /\ executed = 0
  /\ asked = "none"
  /\ late = 0

----------------------------------------------------------------------------
(* The main thread: launching and joining.                                 *)

(* RequestStop, called by the main thread.  A second request changes       *)
(* nothing unless the first was erased.                                    *)
RequestStop ==
  /\ stop' = TRUE
  /\ IF thread \in InFunction /\ asked # "kept"
     THEN asked' = "kept" /\ late' = 0
     ELSE UNCHANGED askVars

(* Mutant: vm_running is not set before the thread is created.             *)
SpawnQuietly(m) ==
  /\ UNCHANGED running
  /\ thread' = "born"
  /\ mode' = m
  /\ asked' = "none"
  /\ late' = 0

Spawn(m) ==
  /\ running' = TRUE
  /\ thread' = "born"
  /\ mode' = m
  /\ asked' = "none"
  /\ late' = 0

(* Mutant: the handle is reassigned without joining a running thread.      *)
LaunchWithoutJoin(m) ==
  /\ Ready
  /\ Spawn(m)
  /\ UNCHANGED <<mainVars, stop, input, histVars, executed>>

launch_vm_thread(m) ==
  /\ Ready
  /\ \/ /\ ~Joinable
        /\ Spawn(m)
        /\ UNCHANGED <<mainVars, stop>>
     \/ /\ Joinable
        /\ RequestStop
        /\ main' = "joinLaunch"
        /\ request' = m
        /\ UNCHANGED <<process, threadVars>>
  /\ UNCHANGED <<input, histVars, executed>>

Run      == launch_vm_thread("run")
DebugRun == launch_vm_thread("debug")
Step     == ~running /\ launch_vm_thread("step")

JoinForLaunch ==
  /\ process = "up" /\ main = "joinLaunch" /\ thread = "done"
  /\ Spawn(request)
  /\ main' = "ready"
  /\ UNCHANGED <<process, request, stop, input, histVars, executed>>

Exit ==
  /\ Ready
  /\ RequestStop
  /\ IF Joinable
     THEN main' = "joinExit" /\ UNCHANGED process
     ELSE main' = "exited" /\ process' = "exited"
  /\ UNCHANGED <<request, threadVars, input, histVars, executed>>

JoinForExit ==
  /\ process = "up" /\ main = "joinExit" /\ thread = "done"
  /\ thread' = "absent"
  /\ main' = "exited"
  /\ process' = "exited"
  /\ UNCHANGED <<request, mode, running, stop, input, histVars, countVars>>

----------------------------------------------------------------------------
(* The main thread: the commands it carries out itself.                    *)

Stop ==
  /\ Ready
  /\ RequestStop
  /\ UNCHANGED <<mainVars, threadVars, input, histVars, executed>>

(* Mutant: the vm_running test before UNDO and REDO is left out.           *)
MayRewindAlways == Ready

MayRewind == Ready /\ ~running

Undo ==
  /\ MayRewind
  /\ undo > 0
  /\ undo' = undo - 1
  /\ redo' = Least(redo + 1, MaxUndo)
  /\ UNCHANGED <<mainVars, threadVars, stop, input, countVars>>

Redo ==
  /\ MayRewind
  /\ redo > 0
  /\ redo' = redo - 1
  /\ undo' = Least(undo + 1, MaxUndo)
  /\ UNCHANGED <<mainVars, threadVars, stop, input, countVars>>

(* RESET is not guarded by vm_running and leaves stop_requested_ alone.    *)
Reset ==
  /\ Ready
  /\ undo' = 0
  /\ redo' = 0
  /\ UNCHANGED <<mainVars, threadVars, stop, input, countVars>>

(* Mutant: the line is queued and nobody is notified.                      *)
PushWithoutNotify ==
  /\ Ready
  /\ input < MaxInput
  /\ input' = input + 1
  /\ UNCHANGED <<mainVars, threadVars, stop, histVars, countVars>>

(* The queue is locked for the whole of PushInput, so that it is atomic    *)
(* with respect to the reader's own critical section.                      *)
PushInput ==
  /\ Ready
  /\ input < MaxInput
  /\ input' = input + 1
  /\ thread' = IF thread = "asleep" THEN "want" ELSE thread
  /\ UNCHANGED <<mainVars, mode, running, stop, histVars, countVars>>

MainCommand ==
  \/ Run
  \/ DebugRun
  \/ Step
  \/ Stop
  \/ Undo
  \/ Redo
  \/ Reset
  \/ PushInput
  \/ Exit

MainJoin == JoinForLaunch \/ JoinForExit

----------------------------------------------------------------------------
(* The vm thread.                                                          *)

(* Run and DebugRun begin with ClearStop, which erases a stop requested    *)
(* since the thread was created; Step does not.                            *)
Enter ==
  /\ process = "up" /\ thread = "born"
  /\ \/ /\ mode \in Loops
        /\ stop' = FALSE
        /\ asked' = IF asked = "kept" THEN "erased" ELSE asked
        /\ executed' = 0
        /\ thread' = "loop"
     \/ /\ mode = "step"
        /\ thread' \in {"exec", "tail"}       (* tail: pc is past the end  *)
        /\ UNCHANGED <<stop, asked, executed>>
  /\ UNCHANGED <<mainVars, mode, running, input, histVars, late>>

(* Mutant: the loop test does not look at stop_requested_.                 *)
LoopIgnoresStop ==
  /\ process = "up" /\ thread = "loop"
  /\ \/ executed =< Limit /\ thread' = "exec"
     \/ thread' = "tail"
  /\ UNCHANGED <<mainVars, mode, running, stop, input, histVars, countVars>>

(* Mutant: the limit is not tested.                                        *)
LoopUnlimited ==
  /\ process = "up" /\ thread = "loop"
  /\ \/ ~stop /\ thread' = "exec"
     \/ thread' = "tail"
  /\ UNCHANGED <<mainVars, mode, running, stop, input, histVars, countVars>>

(* Besides stop_requested_ and the limit, which lets Limit + 1             *)
(* instructions through, the loop ends at the end of the program and, in   *)
(* DebugRun, at a breakpoint.                                              *)
Loop ==
  /\ process = "up" /\ thread = "loop"
  /\ \/ ~stop /\ executed =< Limit /\ thread' = "exec"
     \/ thread' = "tail"
  /\ UNCHANGED <<mainVars, mode, running, stop, input, histVars, countVars>>

(* Execute sets stop_requested_ after every system call it returns from.   *)
(* PromptStop keeps late below Limit + 2; Least does so in the mutants.    *)
Execute(o) ==
  /\ process = "up" /\ thread = "exec"
  /\ late' = IF asked = "none" THEN late ELSE Least(late + 1, Limit + 2)
  /\ \/ /\ o \in {"plain", "ecall"}
        /\ thread' = "commit"
        /\ stop' = (stop \/ o = "ecall")
        /\ UNCHANGED process
     \/ /\ o = "read"
        /\ thread' = "want"
        /\ UNCHANGED <<process, stop>>
     \/ /\ o \in {"exit", "fault"}
        /\ process' = IF o = "exit" THEN "exited" ELSE "aborted"
        /\ UNCHANGED <<thread, stop>>
  /\ UNCHANGED <<main, request, mode, running, input, histVars, executed, asked>>

(* Mutant: wait without its predicate, so that an empty queue is popped.   *)
ReadWithoutPredicate ==
  /\ process = "up" /\ thread = "want"
  /\ \/ input' = input - 1 /\ thread' = "served"
     \/ thread' = "asleep" /\ UNCHANGED input
  /\ UNCHANGED <<mainVars, mode, running, stop, histVars, countVars>>

(* The critical section of SYSCALL_READ: pop a line, or give the mutex up  *)
(* and sleep in one step, as condition_variable::wait does.                *)
ReadStdin ==
  /\ process = "up" /\ thread = "want"
  /\ \/ /\ input > 0
        /\ input' = input - 1
        /\ thread' = "served"
     \/ /\ input = 0
        /\ thread' = "asleep"
        /\ UNCHANGED input
  /\ UNCHANGED <<mainVars, mode, running, stop, histVars, countVars>>

(* wait may return without a notification; the predicate is tested again.  *)
SpuriousWakeup ==
  /\ process = "up" /\ thread = "asleep"
  /\ thread' = "want"
  /\ UNCHANGED <<mainVars, mode, running, stop, input, histVars, countVars>>

(* The line, already popped, is copied into the buffer of the program,     *)
(* which throws when the buffer leaves the memory.                         *)
FinishRead ==
  /\ process = "up" /\ thread = "served"
  /\ \/ /\ stop' = TRUE
        /\ thread' = "commit"
        /\ UNCHANGED process
     \/ /\ "fault" \in Outcomes
        /\ process' = "aborted"
        /\ UNCHANGED <<thread, stop>>
  /\ UNCHANGED <<main, request, mode, running, input, histVars, countVars>>

(* Run keeps no history; DebugRun and Step push a delta and drop the redos. *)
(* The loop test keeps executed in its range; Least does so in the mutant. *)
Commit ==
  /\ process = "up" /\ thread = "commit"
  /\ IF mode = "run"
     THEN UNCHANGED histVars
     ELSE undo' = Least(undo + 1, MaxUndo) /\ redo' = 0
  /\ IF mode = "step"
     THEN thread' = "tail" /\ UNCHANGED executed
     ELSE thread' = "loop" /\ executed' = Least(executed + 1, Limit + 1)
  /\ UNCHANGED <<mainVars, mode, running, stop, input, askVars>>

Return ==
  /\ process = "up" /\ thread = "tail"
  /\ running' = FALSE
  /\ thread' = "done"
  /\ UNCHANGED <<mainVars, mode, stop, input, histVars, countVars>>

ThreadStep ==
  \/ Enter
  \/ Loop
  \/ \E o \in Outcomes : Execute(o)
  \/ ReadStdin
  \/ FinishRead
  \/ Commit
  \/ Return

----------------------------------------------------------------------------

Next ==
  \/ MainCommand
  \/ MainJoin
  \/ ThreadStep
  \/ SpuriousWakeup

(* The operating system schedules both threads; the user owes no command   *)
(* and the implementation of wait owes no spurious wake-up.                *)
Fairness == WF_vars(ThreadStep) /\ WF_vars(MainJoin)

Spec == Init /\ [][Next]_vars /\ Fairness

----------------------------------------------------------------------------
(* Safety.                                                                 *)

(* While the vm thread is inside Run, DebugRun or Step, the stacks change  *)
(* only when it pushes its own delta, or when RESET empties them: UNDO and *)
(* REDO never walk a std::stack the thread is using (main.cpp, the         *)
(* vm_running tests before vm.Undo and vm.Redo).                           *)
ThreadOwnsHistory ==
  thread \in InFunction /\ <<undo, redo>>' # <<undo, redo>> =>
    \/ thread = "commit" /\ thread' # "commit"
    \/ <<undo, redo>>' = <<0, 0>>

RewindExcludesThread == [][ThreadOwnsHistory]_vars

(* What makes it so: vm_running holds as long as the function runs.        *)
RunningCoversFunction ==
  process = "up" /\ thread \in InFunction => running

(* A std::thread that is still joinable is never assigned over, which      *)
(* would call std::terminate: a vm thread begins only where there was none *)
(* or where the last one has returned and been joined.                     *)
OneVmThread ==
  [][thread' = "born" /\ thread # "born" => thread \in {"absent", "done"}]_vars

(* Once the main thread has requested a stop of the vm thread, by STOP or  *)
(* before joining it, that thread begins at most one more instruction: the *)
(* one already past the loop test.  This is so only while the request      *)
(* stands.  One made before the ClearStop at the head of Run or DebugRun   *)
(* is erased by it; then only the limit ends the loop, after Limit + 1     *)
(* instructions, and a later STOP lets one more begin again.               *)
PromptStop == late =< IF asked = "erased" THEN Limit + 1 ELSE 1

(* No lost wake-up: the reader never sleeps on input_cv_ while a line is   *)
(* queued.                                                                 *)
NoLostWakeup == ~(thread = "asleep" /\ input > 0)

(* What a stop does not end: a vm thread that waits for stdin.             *)
Blocked == thread = "asleep"

(* What the comment at the join of EXIT says, "ensure clean exit", asks of *)
(* a vm thread that waits for stdin: the main thread, the only one that    *)
(* could queue a line, must not wait for it.                               *)
ExitNotBlocked == ~(main = "joinExit" /\ thread = "asleep" /\ input = 0)

(* Liveness.                                                               *)

(* launch_vm_thread and EXIT come back from their join unless the program  *)
(* waits for stdin.  A stop requested before the ClearStop at the head of  *)
(* Run or DebugRun is erased; it is the limit that ends the loop then.     *)
JoinReturns == Joining ~> (~Joining \/ Blocked \/ process # "up")

=============================================================================
