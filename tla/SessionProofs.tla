--------------------------- MODULE SessionProofs ---------------------------
(***************************************************************************)
(* Proofs about Session.tla, for every set of Outcomes and every bound.    *)
(***************************************************************************)
EXTENDS Session, TLAPS


LEMMA LeastBound ==
  ASSUME NEW n \in Nat, NEW x \in 0 .. n
  PROVE  Least(x + 1, n) \in 0 .. n
  BY DEF Least

(* Every variable of the two threads keeps its range (the declarations of  *)
(* main.cpp and rvss_vm.h).                                                *)
THEOREM SessionTypeOK == Spec => []TypeOK
<1> USE DEF TypeOK, Modes, Loops, ThreadState, InFunction
<1>1. Init => TypeOK
  <2> SUFFICES ASSUME Init PROVE TypeOK
    OBVIOUS
  <2>1. running \in BOOLEAN /\ stop \in BOOLEAN
    BY Zenon DEF Init
  <2>2. input \in 0 .. MaxInput /\ undo \in 0 .. MaxUndo /\ redo \in 0 .. MaxUndo /\ late \in Nat
        /\ executed \in 0 .. Limit + 1
    BY BoundsAssumption DEF Init, BoundsAssumption
  <2> QED
    BY <2>1, <2>2, Zenon DEF Init
<1>2. TypeOK /\ [Next]_vars => TypeOK'
  <2> SUFFICES ASSUME TypeOK, [Next]_vars PROVE TypeOK'
    OBVIOUS
  <2> USE DEF mainVars, threadVars, histVars, countVars, askVars, Spawn
  <2>0. ASSUME RequestStop
        PROVE  stop' \in BOOLEAN /\ asked' \in {"none", "kept", "erased"} /\ late' \in Nat
    <3>1. stop' \in BOOLEAN
      BY <2>0, Zenon DEF RequestStop
    <3>2. asked' \in {"none", "kept", "erased"} /\ late' \in Nat
      BY <2>0 DEF RequestStop
    <3> QED
      BY <3>1, <3>2
  <2>1. ASSUME NEW m \in Modes, launch_vm_thread(m) PROVE TypeOK'
    <3>1. CASE Joinable
      BY <2>0, <2>1, <3>1, Zenon DEF launch_vm_thread
    <3>2. CASE ~Joinable
      <4>1. running' \in BOOLEAN
        BY <2>1, <3>2, Zenon DEF launch_vm_thread
      <4>2. late' \in Nat
        BY <2>1, <3>2 DEF launch_vm_thread
      <4> QED
        BY <2>1, <3>2, <4>1, <4>2, Zenon DEF launch_vm_thread
    <3> QED
      BY <3>1, <3>2
  <2>2. CASE Run \/ DebugRun \/ Step
    BY <2>1, <2>2 DEF Run, DebugRun, Step
  <2>3. CASE Stop
    BY <2>0, <2>3, Zenon DEF Stop
  <2>4. CASE Undo
    BY <2>4, BoundsAssumption, LeastBound DEF Undo, MayRewind, BoundsAssumption
  <2>5. CASE Redo
    BY <2>5, BoundsAssumption, LeastBound DEF Redo, MayRewind, BoundsAssumption
  <2>6. CASE Reset
    BY <2>6, BoundsAssumption DEF Reset, BoundsAssumption
  <2>7. CASE PushInput
    BY <2>7, BoundsAssumption DEF PushInput, BoundsAssumption
  <2>8. CASE Exit
    BY <2>0, <2>8, Zenon DEF Exit
  <2>9. CASE JoinForLaunch \/ JoinForExit
    <3>1. CASE JoinForLaunch
      <4>1. running' \in BOOLEAN
        BY <3>1, Zenon DEF JoinForLaunch
      <4>2. late' \in Nat
        BY <3>1 DEF JoinForLaunch
      <4> QED
        BY <3>1, <4>1, <4>2, Zenon DEF JoinForLaunch
    <3>2. CASE JoinForExit
      BY <3>2 DEF JoinForExit
    <3> QED
      BY <2>9, <3>1, <3>2
  <2>10. CASE Enter
    <3>1. stop' \in BOOLEAN
      BY <2>10, Zenon DEF Enter
    <3>2. asked' \in {"none", "kept", "erased"} /\ late' \in Nat /\ executed' \in 0 .. Limit + 1
      BY <2>10, BoundsAssumption DEF Enter, BoundsAssumption
    <3>3. thread' \in ThreadState
      BY <2>10, Zenon DEF Enter
    <3> QED
      BY <2>10, <3>1, <3>2, <3>3, Zenon DEF Enter
  <2>11. CASE Loop
    BY <2>11 DEF Loop
  <2>12. ASSUME NEW o \in Outcomes, Execute(o) PROVE TypeOK'
    <3>1. stop' \in BOOLEAN
      BY <2>12, Zenon DEF Execute
    <3>2. late' \in Nat
      BY <2>12, BoundsAssumption DEF Execute, Least, BoundsAssumption
    <3>3. thread' \in ThreadState /\ process' \in {"up", "exited", "aborted"}
      BY <2>12, Zenon DEF Execute
    <3> QED
      BY <2>12, <3>1, <3>2, <3>3, Zenon DEF Execute
  <2>13. CASE ReadStdin
    BY <2>13, BoundsAssumption DEF ReadStdin, BoundsAssumption
  <2>14. CASE FinishRead \/ SpuriousWakeup
    <3>1. CASE FinishRead
      <4>1. stop' \in BOOLEAN
        BY <3>1, Zenon DEF FinishRead
      <4> QED
        BY <3>1, <4>1, Zenon DEF FinishRead
    <3>2. CASE SpuriousWakeup
      BY <3>2 DEF SpuriousWakeup
    <3> QED
      BY <2>14, <3>1, <3>2
  <2>15. CASE Commit
    <3>1. executed' \in 0 .. Limit + 1
      BY <2>15, BoundsAssumption DEF Commit, BoundsAssumption, Least
    <3> QED
      BY <2>15, <3>1, BoundsAssumption, LeastBound DEF Commit, BoundsAssumption
  <2>16. CASE Return
    BY <2>16 DEF Return
  <2>17. CASE UNCHANGED vars
    BY <2>17 DEF vars
  <2> QED
    BY <2>2, <2>3, <2>4, <2>5, <2>6, <2>7, <2>8, <2>9, <2>10, <2>11, <2>12,
       <2>13, <2>14, <2>15, <2>16, <2>17
    DEF Next, MainCommand, MainJoin, ThreadStep
<1> QED
  BY <1>1, <1>2, PTL DEF Spec

(* vm_running is set before the vm thread exists and cleared by its last   *)
(* statement (main.cpp, launch_vm_thread), so it covers the function.      *)
THEOREM SessionRunning == Spec => []RunningCoversFunction
<1> USE DEF RunningCoversFunction, InFunction
<1>1. Init => RunningCoversFunction
  BY Zenon DEF Init
<1>2. TypeOK /\ RunningCoversFunction /\ [Next]_vars => RunningCoversFunction'
  <2> SUFFICES ASSUME TypeOK, RunningCoversFunction, [Next]_vars
               PROVE  RunningCoversFunction'
    OBVIOUS
  <2> USE DEF mainVars, threadVars, Spawn
  <2>1. ASSUME NEW m, launch_vm_thread(m) PROVE RunningCoversFunction'
    BY <2>1 DEF launch_vm_thread
  <2>2. CASE MainCommand
    <3>1. CASE Run \/ DebugRun \/ Step
      BY <2>1, <3>1 DEF Run, DebugRun, Step
    <3>2. CASE Stop \/ Undo \/ Redo \/ Reset
      BY <3>2 DEF Stop, Undo, Redo, Reset
    <3>3. CASE PushInput
      BY <3>3 DEF PushInput
    <3>4. CASE Exit
      BY <3>4 DEF Exit
    <3> QED
      BY <2>2, <3>1, <3>2, <3>3, <3>4 DEF MainCommand
  <2>3. CASE MainJoin
    BY <2>3 DEF MainJoin, JoinForLaunch, JoinForExit
  <2>4. CASE ThreadStep
    BY <2>4 DEF ThreadStep, Enter, Loop, Execute, ReadStdin, FinishRead, Commit, Return
  <2>5. CASE SpuriousWakeup
    BY <2>5 DEF SpuriousWakeup
  <2>6. CASE UNCHANGED vars
    BY <2>6 DEF vars
  <2> QED
    BY <2>2, <2>3, <2>4, <2>5, <2>6 DEF Next
<1> QED
  BY <1>1, <1>2, SessionTypeOK, PTL DEF Spec

(* UNDO and REDO run only while no vm thread is in its function: the test  *)
(* of vm_running and RunningCoversFunction exclude each other.             *)
THEOREM SessionRewind == Spec => RewindExcludesThread
<1>1. TypeOK /\ RunningCoversFunction /\ [Next]_vars => [ThreadOwnsHistory]_vars
  <2> SUFFICES ASSUME TypeOK, RunningCoversFunction, Next, thread \in InFunction,
                      <<undo, redo>>' # <<undo, redo>>
               PROVE  \/ thread = "commit" /\ thread' # "commit"
                      \/ <<undo, redo>>' = <<0, 0>>
    BY Zenon DEF ThreadOwnsHistory
  <2> USE DEF histVars
  <2>1. ASSUME NEW m, launch_vm_thread(m) PROVE FALSE
    BY <2>1 DEF launch_vm_thread
  <2>2. CASE MainCommand
    <3>1. CASE Run \/ DebugRun \/ Step
      BY <2>1, <3>1 DEF Run, DebugRun, Step
    <3>2. CASE Undo \/ Redo
      BY <3>2 DEF Undo, Redo, MayRewind, Ready, RunningCoversFunction
    <3>3. CASE Reset
      BY <3>3 DEF Reset
    <3>4. CASE Stop \/ PushInput \/ Exit
      BY <3>4 DEF Stop, PushInput, Exit
    <3> QED
      BY <2>2, <3>1, <3>2, <3>3, <3>4 DEF MainCommand
  <2>3. CASE MainJoin
    BY <2>3 DEF MainJoin, JoinForLaunch, JoinForExit
  <2>4. CASE ThreadStep
    <3>1. CASE Commit
      BY <3>1 DEF Commit
    <3>2. CASE ~Commit
      BY <2>4, <3>2 DEF ThreadStep, Enter, Loop, Execute, ReadStdin, FinishRead, Return
    <3> QED
      BY <3>1, <3>2
  <2>5. CASE SpuriousWakeup
    BY <2>5 DEF SpuriousWakeup
  <2> QED
    BY <2>2, <2>3, <2>4, <2>5 DEF Next
<1> QED
  BY <1>1, SessionTypeOK, SessionRunning, PTL DEF Spec, RewindExcludesThread

(* Every line queued finds the reader awake: PushInput queues and notifies *)
(* in one critical section (vm_base.h), and the reader decides to sleep in *)
(* one of its own (rvss_vm.cpp, SYSCALL_READ).                             *)
THEOREM SessionNoLostWakeup == Spec => []NoLostWakeup
<1> USE DEF NoLostWakeup
<1>1. Init => NoLostWakeup
  BY Zenon DEF Init
<1>2. TypeOK /\ NoLostWakeup /\ [Next]_vars => NoLostWakeup'
  <2> SUFFICES ASSUME TypeOK, NoLostWakeup, [Next]_vars PROVE NoLostWakeup'
    OBVIOUS
  <2> USE DEF mainVars, threadVars, Spawn
  <2>1. ASSUME NEW m, launch_vm_thread(m) PROVE NoLostWakeup'
    BY <2>1 DEF launch_vm_thread
  <2>2. CASE MainCommand
    <3>1. CASE Run \/ DebugRun \/ Step
      BY <2>1, <3>1 DEF Run, DebugRun, Step
    <3>2. CASE Stop \/ Undo \/ Redo \/ Reset \/ Exit
      BY <3>2 DEF Stop, Undo, Redo, Reset, Exit
    <3>3. CASE PushInput
      BY <3>3 DEF PushInput
    <3> QED
      BY <2>2, <3>1, <3>2, <3>3 DEF MainCommand
  <2>3. CASE MainJoin
    BY <2>3 DEF MainJoin, JoinForLaunch, JoinForExit
  <2>4. CASE ThreadStep
    <3>1. CASE ReadStdin
      BY <3>1 DEF ReadStdin
    <3>2. CASE ~ReadStdin
      BY <2>4, <3>2 DEF ThreadStep, Enter, Loop, Execute, FinishRead, Commit, Return
    <3> QED
      BY <3>1, <3>2
  <2>5. CASE SpuriousWakeup
    BY <2>5 DEF SpuriousWakeup
  <2>6. CASE UNCHANGED vars
    BY <2>6 DEF vars
  <2> QED
    BY <2>2, <2>3, <2>4, <2>5, <2>6 DEF Next
<1> QED
  BY <1>1, <1>2, SessionTypeOK, PTL DEF Spec

(* launch_vm_thread and EXIT join a thread before its handle is used again *)
(* (main.cpp), so that none is ever assigned over a joinable one.          *)
THEOREM SessionOneVmThread == Spec => OneVmThread
<1>1. ASSUME TypeOK, Next, thread' = "born", thread # "born"
      PROVE  thread \in {"absent", "done"}
  <2> USE DEF mainVars, threadVars, Spawn
  <2>1. ASSUME NEW m, launch_vm_thread(m) PROVE thread = "absent"
    BY <1>1, <2>1 DEF launch_vm_thread, Joinable
  <2>2. CASE MainCommand
    <3>1. CASE Run \/ DebugRun \/ Step
      BY <2>1, <3>1 DEF Run, DebugRun, Step
    <3>2. CASE Stop \/ Undo \/ Redo \/ Reset \/ PushInput \/ Exit
      BY <1>1, <3>2 DEF Stop, Undo, Redo, Reset, PushInput, Exit
    <3> QED
      BY <2>2, <3>1, <3>2 DEF MainCommand
  <2>3. CASE MainJoin
    BY <1>1, <2>3 DEF MainJoin, JoinForLaunch, JoinForExit
  <2>4. CASE ThreadStep \/ SpuriousWakeup
    BY <1>1, <2>4 DEF ThreadStep, SpuriousWakeup, Enter, Loop, Execute, ReadStdin, FinishRead, Commit, Return
  <2> QED
    BY <1>1, <2>2, <2>3, <2>4 DEF Next
<1>2. TypeOK /\ [Next]_vars
      => [thread' = "born" /\ thread # "born" => thread \in {"absent", "done"}]_vars
  BY <1>1
<1> QED
  BY <1>2, SessionTypeOK, PTL DEF Spec, OneVmThread

(* PromptStop is not inductive.  What carries it: a request that stands    *)
(* leaves stop_requested_ set, so that the loop test lets no instruction   *)
(* begin after the late one; after one that was erased, the instructions   *)
(* begun are those executed and the one being executed.                    *)
Iteration == {"exec", "want", "asleep", "served", "commit"}
Underway  == IF thread \in Iteration \ {"exec"} THEN 1 ELSE 0

LateInv ==
  /\ asked = "none" => late = 0
  /\ thread = "born" => late = 0 /\ asked # "erased"
  /\ asked = "kept" /\ thread \in InFunction => stop
  /\ process = "up" /\ asked = "kept" /\ thread = "exec" => late = 0
  /\ process = "up" /\ mode \in Loops /\ thread \in Iteration => executed =< Limit
  /\ asked = "erased" => mode \in Loops
  /\ process = "up" /\ asked = "erased" /\ thread \in InFunction =>
       late =< executed + Underway

(* A stop the main thread requests lets the vm thread begin at most one    *)
(* more instruction while it stands (the loop test of rvss_vm.cpp), and at *)
(* most Limit + 1 when the ClearStop at the head of Run or DebugRun erased *)
(* it.  LateInv is the inductive strengthening.                            *)
THEOREM SessionPromptStop == Spec => []PromptStop
<1> DEFINE PInv == LateInv /\ PromptStop
<1> USE DEF PromptStop, LateInv, Loops, InFunction, Iteration, Underway
<1>1. Init => PInv
  <2> SUFFICES ASSUME Init PROVE PInv
    OBVIOUS
  <2>1. thread = "absent" /\ asked = "none" /\ late = 0
    BY Zenon DEF Init
  <2> QED
    BY <2>1
<1>2. TypeOK /\ PInv /\ [Next]_vars => PInv'
  <2> SUFFICES ASSUME TypeOK, PInv, [Next]_vars
               PROVE  PInv'
    OBVIOUS
  <2>0. late \in Nat /\ executed \in Nat /\ Limit \in Nat
    BY BoundsAssumption DEF TypeOK, BoundsAssumption
  <2> USE <2>0 DEF mainVars, threadVars, countVars, askVars, Spawn, RequestStop
  <2>1. ASSUME NEW m, launch_vm_thread(m) PROVE PInv'
    <3>1. CASE Joinable
      BY <2>1, <3>1 DEF launch_vm_thread
    <3>2. CASE ~Joinable
      BY <2>1, <3>2 DEF launch_vm_thread
    <3> QED
      BY <3>1, <3>2
  <2>2. CASE MainCommand
    <3>1. CASE Run \/ DebugRun \/ Step
      BY <2>1, <3>1 DEF Run, DebugRun, Step
    <3>2. CASE Stop
      BY <3>2 DEF Stop
    <3>3. CASE Undo \/ Redo \/ Reset
      BY <3>3 DEF Undo, Redo, Reset
    <3>4. CASE PushInput
      BY <3>4 DEF PushInput
    <3>5. CASE Exit
      BY <3>5 DEF Exit
    <3> QED
      BY <2>2, <3>1, <3>2, <3>3, <3>4, <3>5 DEF MainCommand
  <2>3. CASE MainJoin
    BY <2>3 DEF MainJoin, JoinForLaunch, JoinForExit
  <2>4. CASE Enter
    BY <2>4 DEF Enter
  <2>5. CASE Loop
    BY <2>5 DEF Loop
  <2>6. ASSUME NEW o \in Outcomes, Execute(o) PROVE PInv'
    <3>1. /\ process = "up" /\ thread = "exec"
          /\ mode' = mode /\ executed' = executed /\ asked' = asked
          /\ late' = IF asked = "none" THEN late ELSE Least(late + 1, Limit + 2)
          /\ thread' \in {"commit", "want", "exec"}
          /\ thread' = "exec" => process' # "up"
      BY <2>6, Zenon DEF Execute
    <3>2. asked = "kept" => stop /\ stop'
      BY <2>6, <3>1, Zenon DEF Execute
    <3>3. CASE asked = "none"
      BY <3>1, <3>3
    <3>4. CASE asked = "kept"
      <4>1. asked' = "kept" /\ late' = 1
        BY <3>1, <3>4 DEF Least
      <4> QED
        BY <3>1, <3>2, <3>4, <4>1
    <3>5. CASE asked = "erased"
      <4>1. late =< executed /\ executed =< Limit /\ mode \in Loops
        BY <3>1, <3>5
      <4>2. asked' = "erased" /\ late' =< executed' + 1 /\ late' =< Limit + 1
        BY <3>1, <3>5, <4>1 DEF Least
      <4> QED
        BY <3>1, <4>1, <4>2
    <3> QED
      BY <3>3, <3>4, <3>5 DEF TypeOK
  <2>7. CASE ReadStdin \/ SpuriousWakeup
    BY <2>7 DEF ReadStdin, SpuriousWakeup
  <2>8. CASE FinishRead
    BY <2>8 DEF FinishRead
  <2>9. CASE Commit
    BY <2>9 DEF Commit, Least
  <2>10. CASE Return
    BY <2>10 DEF Return
  <2>11. CASE UNCHANGED vars
    BY <2>11 DEF vars
  <2> QED
    BY <2>2, <2>3, <2>4, <2>5, <2>6, <2>7, <2>8, <2>9, <2>10, <2>11 DEF Next, ThreadStep
<1>3. PInv => PromptStop
  OBVIOUS
<1> QED
  BY <1>1, <1>2, <1>3, SessionTypeOK, PTL DEF Spec

=============================================================================
