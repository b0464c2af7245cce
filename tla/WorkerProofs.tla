---------------------------- MODULE WorkerProofs ----------------------------
(* Theorems about Worker for any depth of nesting, any number of workers,  *)
(* fan duties and tests, with their proofs.                                *)
EXTENDS Worker, TLAPS

-----------------------------------------------------------------------------
(* The stack of frames.                                                    *)

LEMMA SetTopType ==
    ASSUME TypeOK, depth > 0, NEW f \in Frame, SetTop(f)
    PROVE  depth' \in 0 .. MaxNest /\ frame' \in [1 .. MaxNest -> Frame]
BY DEF TypeOK, SetTop

LEMMA NoFrameType == BoundsAssumption => NoFrame \in Frame
BY DEF BoundsAssumption, NoFrame, Frame, FanCmds, Waiting, Between

LEMMA ReturnType ==
    ASSUME TypeOK, depth > 0, Return
    PROVE  depth' \in 0 .. MaxNest /\ frame' \in [1 .. MaxNest -> Frame]
BY BoundsAssumption, NoFrameType DEF TypeOK, Return

LEMMA TopType ==
    ASSUME TypeOK, depth > 0
    PROVE  top \in Frame /\ depth \in 1 .. MaxNest
BY DEF TypeOK, top

LEMMA StartType ==
    ASSUME TypeOK, depth > 0, NEW f \in Frame, startWorkInAThread(f)
    PROVE  /\ depth' \in 0 .. MaxNest /\ frame' \in [1 .. MaxNest -> Frame]
           /\ thread' \in [Jobs -> ThreadAt]
<1>1. CASE Return /\ UNCHANGED thread
  BY <1>1, ReturnType DEF TypeOK
<1>2. CASE CreateWorker(f)
  <2>1. PICK j \in Jobs : /\ SetTop([f EXCEPT !.job = j, !.at = "check"])
                          /\ thread' = [thread EXCEPT ![j] = "run"]
    BY <1>2 DEF CreateWorker, Free
  <2>2. [f EXCEPT !.job = j, !.at = "check"] \in Frame
    BY DEF Frame, Waiting, Between
  <2> QED BY <1>2, <2>1, <2>2, SetTopType DEF TypeOK, ThreadAt
<1> QED BY <1>1, <1>2 DEF startWorkInAThread

-----------------------------------------------------------------------------
(* Type correctness.                                                       *)

Record == [job : Jobs \cup {NoJob}, at : Waiting \cup Between,
           cmds : 0 .. FanCmds, tests : 0 .. MaxTests, duties : 0 .. MaxDuties,
           tested : BOOLEAN]

LEMMA FrameRecord ==
    ASSUME NEW f PROVE f \in Frame <=> f \in Record /\ (f.at \in Waiting => f.job \in Jobs)
BY DEF Frame, Record

LEMMA RunTestFrame ==
    ASSUME TypeOK, RunTest
    PROVE  [top EXCEPT !.tests = @ - 1, !.tested = TRUE] \in Frame
<1> DEFINE f == [top EXCEPT !.tests = @ - 1, !.tested = TRUE]
<1>1. top \in Record /\ top.at \in {"step", "go"} /\ top.tests > 0
  BY TopType, FrameRecord DEF RunTest
<1>2. top.tests - 1 \in 0 .. MaxTests
  BY <1>1, BoundsAssumption DEF BoundsAssumption, Record
<1>3. f \in Record
  BY <1>1, <1>2, Zenon DEF Record
<1>4. f.at = top.at
  BY <1>1, Zenon DEF Record
<1> QED BY <1>1, <1>3, <1>4, FrameRecord DEF Waiting

LEMMA BatchType ==
    ASSUME TypeOK, StartBatch \/ setFanDuty \/ pauseBar \/ PauseOver \/ RunTest \/ DutyOver \/ ScriptFails
    PROVE  TypeOK'
<1> USE DEF guiVars, workerVars, closeVars
<1>1. CASE StartBatch
  <2>1. PICK d \in 1 .. MaxDuties, t \in 0 .. MaxTests :
            frame' = [frame EXCEPT ![depth + 1] =
                    [NoFrame EXCEPT !.cmds = FanCmds, !.tests = t, !.duties = d]]
    BY <1>1 DEF StartBatch
  <2>2. [NoFrame EXCEPT !.cmds = FanCmds, !.tests = t, !.duties = d] \in Frame
    <3> DEFINE f == [NoFrame EXCEPT !.cmds = FanCmds, !.tests = t, !.duties = d]
    <3>1. FanCmds \in 0 .. FanCmds /\ t \in 0 .. MaxTests /\ d \in 0 .. MaxDuties
      BY BoundsAssumption DEF BoundsAssumption, FanCmds
    <3>2. NoFrame \in Record
      BY NoFrameType, BoundsAssumption, FrameRecord
    <3>3. f \in Record
      BY <3>1, <3>2, Zenon DEF Record
    <3>4. f.at = "step"
      BY DEF NoFrame
    <3> QED BY <3>3, <3>4, FrameRecord DEF Waiting
  <2>3. \E f \in Frame : frame' = [frame EXCEPT ![depth + 1] = f]
    BY <2>1, <2>2, Zenon
  <2>4. depth' \in 0 .. MaxNest /\ frame' \in [1 .. MaxNest -> Frame]
    <3>1. PICK f \in Frame : frame' = [frame EXCEPT ![depth + 1] = f]
      BY <2>3
    <3>2. frame' \in [1 .. MaxNest -> Frame]
      BY <3>1, Zenon DEF TypeOK
    <3>3. depth' = depth + 1 /\ depth < MaxNest
      BY <1>1 DEF StartBatch
    <3> QED BY <3>2, <3>3, BoundsAssumption DEF BoundsAssumption, TypeOK
  <2> QED BY <1>1, <2>4 DEF StartBatch, TypeOK
<1>2. CASE setFanDuty
  <2>1. [top EXCEPT !.cmds = @ - 1] \in Frame
    BY <1>2, TopType DEF setFanDuty, Frame, FanCmds, Waiting, Between
  <2> QED BY <1>2, <2>1, StartType DEF setFanDuty, TypeOK
<1>3. CASE pauseBar
  <2>1. [top EXCEPT !.at = "pause"] \in Frame
    BY <1>3, TopType DEF pauseBar, Frame, Waiting, Between
  <2> QED BY <1>3, <2>1, SetTopType DEF pauseBar, TypeOK
<1>4. CASE PauseOver
  <2>1. [top EXCEPT !.at = "go"] \in Frame
    BY <1>4, TopType DEF PauseOver, Frame, Waiting, Between
  <2> QED BY <1>4, <2>1, SetTopType DEF PauseOver, TypeOK
<1>5. CASE RunTest
  <2>1. [top EXCEPT !.tests = @ - 1, !.tested = TRUE] \in Frame
    BY <1>5, RunTestFrame
  <2> QED BY <1>5, <2>1, StartType DEF RunTest, TypeOK
<1>6. CASE DutyOver
  <2>1. ASSUME top.duties > 1, NEW t \in 0 .. MaxTests
        PROVE  [top EXCEPT !.duties = @ - 1, !.cmds = FanCmds, !.tests = t] \in Frame
    <3> DEFINE f == [top EXCEPT !.duties = @ - 1, !.cmds = FanCmds, !.tests = t]
    <3>1. top \in Record /\ top.at = "step"
      BY <1>6, TopType, FrameRecord DEF DutyOver
    <3>2. top.duties - 1 \in 0 .. MaxDuties /\ FanCmds \in 0 .. FanCmds
      BY <2>1, <3>1, BoundsAssumption DEF BoundsAssumption, Record, FanCmds
    <3>3. f \in Record
      BY <2>1, <3>1, <3>2, Zenon DEF Record
    <3>4. f.at = top.at
      BY <3>1, Zenon DEF Record
    <3> QED BY <3>1, <3>3, <3>4, FrameRecord DEF Waiting
  <2> QED BY <1>6, <2>1, SetTopType, ReturnType DEF DutyOver, ScriptFails, TypeOK
<1>7. CASE ScriptFails
  BY <1>7, ReturnType DEF ScriptFails, TypeOK
<1> QED BY <1>1, <1>2, <1>3, <1>4, <1>5, <1>6, <1>7

LEMMA WaitType ==
    ASSUME TypeOK, CheckFinished \/ killProcess \/ Terminate
    PROVE  TypeOK'
<1> USE DEF workerVars, closeVars
<1>1. CASE CheckFinished
  <2>1. /\ [top EXCEPT !.at = "step", !.job = NoJob] \in Frame
        /\ [top EXCEPT !.at = "events"] \in Frame
    BY <1>1, TopType DEF CheckFinished, Frame, Between, Waiting
  <2> QED BY <1>1, <2>1, SetTopType, ReturnType DEF CheckFinished, TypeOK
<1>2. CASE killProcess
  <2>1. \A a \in Waiting : [top EXCEPT !.at = a] \in Frame
    BY <1>2, TopType DEF killProcess, Frame, Waiting, Between
  <2>2. \/ dangling' = TRUE /\ UNCHANGED <<depth, frame>>
        \/ UNCHANGED dangling /\ \E a \in Waiting : SetTop([top EXCEPT !.at = a])
    BY <1>2 DEF killProcess, Waiting
  <2> QED BY <1>2, <2>1, <2>2, SetTopType DEF killProcess, TypeOK
<1>3. CASE Terminate
  <2>1. [top EXCEPT !.at = "check"] \in Frame
    BY <1>3, TopType DEF Terminate, Frame, Waiting, Between
  <2>2. CASE thread[top.job] \in {"new", "wait"}
    <3>1. SetTop([top EXCEPT !.at = "check"]) /\ UNCHANGED dangling
      BY <1>3, <2>2 DEF Terminate
    <3>2. m_killed' \subseteq Jobs
      BY <1>3, <2>2, TopType DEF Terminate, TypeOK, Frame, Waiting
    <3>3. proc' \in [Jobs -> {"none", "running", "signalled", "ended"}]
      BY <1>3, <2>2 DEF Terminate, TypeOK
    <3> QED BY <1>3, <2>1, <3>1, <3>2, <3>3, SetTopType DEF Terminate, TypeOK
  <2>3. CASE thread[top.job] \notin {"new", "wait"}
    BY <1>3, <2>3 DEF Terminate, TypeOK
  <2> QED BY <2>2, <2>3
<1> QED BY <1>1, <1>2, <1>3
LEMMA RunType ==
    ASSUME TypeOK, NEW j \in Jobs,
           Run(j) \/ ProgramEnds(j) \/ WaitFails(j) \/ DeliverFinished(j) \/ closeEvent
    PROVE  TypeOK'
<1> USE DEF guiVars, workerVars, TypeOK, ThreadAt
<1>1. CASE Construct(j) \/ StartProgram(j)
  BY <1>1 DEF Construct, StartProgram, closeVars
<1>2. CASE Collect(j) \/ WaitFails(j) \/ Finish(j) \/ ProgramEnds(j)
  BY <1>2 DEF Collect, WaitFails, Finish, ProgramEnds, closeVars
<1>3. CASE DeliverFinished(j)
  BY <1>3 DEF DeliverFinished, closeVars
<1>4. CASE closeEvent
  BY <1>4 DEF closeEvent
<1> QED BY <1>1, <1>2, <1>3, <1>4 DEF Run

LEMMA TypeStep ==
    ASSUME TypeOK, [Next]_vars
    PROVE  TypeOK'
<1>1. CASE StartBatch \/ setFanDuty \/ pauseBar \/ PauseOver \/ RunTest \/ DutyOver \/ ScriptFails
  BY <1>1, BatchType
<1>2. CASE CheckFinished \/ killProcess \/ Terminate
  BY <1>2, WaitType
<1>3. CASE \E j \in Jobs : Run(j) \/ ProgramEnds(j) \/ WaitFails(j) \/ DeliverFinished(j)
  BY <1>3, RunType
<1>4. CASE closeEvent
  BY <1>4 DEF closeEvent, TypeOK, guiVars, workerVars
<1>5. CASE UNCHANGED vars
  BY <1>5 DEF vars, guiVars, workerVars, closeVars, TypeOK
<1> QED BY <1>1, <1>2, <1>3, <1>4, <1>5 DEF Next, Gui

(* The locals of every frame stay in their ranges, in particular the loop  *)
(* counters of the batch handlers.                                         *)
THEOREM TypeCorrect == Spec => []TypeOK
<1>1. Init => TypeOK
  <2> SUFFICES ASSUME Init PROVE TypeOK
    OBVIOUS
  <2>1. depth \in 0 .. MaxNest
    BY BoundsAssumption DEF BoundsAssumption, Init
  <2>2. frame \in [1 .. MaxNest -> Frame]
    BY BoundsAssumption, NoFrameType, Zenon DEF Init
  <2>3. thread \in [Jobs -> ThreadAt] /\ proc \in [Jobs -> {"none", "running", "signalled", "ended"}]
    BY DEF Init, ThreadAt
  <2> QED BY <2>1, <2>2, <2>3 DEF Init, TypeOK
<1>2. TypeOK /\ [Next]_vars => TypeOK'
  BY TypeStep
<1> QED BY <1>1, <1>2, PTL DEF Spec

-----------------------------------------------------------------------------
(* NoOrphan is not inductive: a program is started by a thread, and that   *)
(* thread may be started long before.  Its frame waits from the creation   *)
(* of the worker until run has returned.                                   *)
Awaited(j) == \E i \in 1 .. depth : frame[i].job = j /\ frame[i].at \in Waiting

OrphanInv ==
    \A j \in Jobs :
        /\ proc[j] # "none" => thread[j] = "wait"
        /\ thread[j] \in {"run", "new", "wait", "freed"} => Awaited(j)
        /\ j \in posted => thread[j] = "done"

(* A frame that waits goes on waiting while its worker runs.               *)
LEMMA KeepsWaiting ==
    ASSUME TypeOK, [Next]_vars, NEW j \in Jobs, Awaited(j),
           thread[j] \in {"run", "new", "wait", "freed"}
    PROVE  Awaited(j)'
<1>1. PICK i \in 1 .. depth : frame[i].job = j /\ frame[i].at \in Waiting
  BY DEF Awaited
<1> USE DEF TypeOK
<1>0. depth \in Nat /\ depth <= MaxNest /\ i \in 1 .. MaxNest
  BY BoundsAssumption DEF BoundsAssumption
<1>2. ASSUME depth' \in Nat, i <= depth', frame'[i].job = frame[i].job,
             frame'[i].at \in Waiting
      PROVE  Awaited(j)'
  BY <1>1, <1>2 DEF Awaited
<1>3. ASSUME i # depth, depth > 0,
             (\E f : SetTop(f)) \/ Return
      PROVE  Awaited(j)'
  <2>2. frame'[i] = frame[i] /\ depth' \in Nat /\ i <= depth'
    <3>1. CASE \E f : SetTop(f)
      BY <1>0, <1>3, <3>1 DEF SetTop
    <3>2. CASE Return
      <4>1. frame'[i] = frame[i]
        BY <1>0, <1>3, <3>2 DEF Return
      <4>2. depth' = depth - 1
        BY <3>2 DEF Return
      <4> QED BY <1>0, <1>3, <4>1, <4>2
    <3> QED BY <1>3, <3>1, <3>2
  <2> QED BY <1>1, <1>2, <2>2
<1>4. CASE StartBatch
  <2>1. frame'[i] = frame[i] /\ depth' = depth + 1
    BY <1>4 DEF StartBatch
  <2> QED BY <1>1, <1>2, <2>1
<1>5. CASE setFanDuty \/ pauseBar \/ PauseOver \/ RunTest \/ DutyOver \/ ScriptFails
  <2>1. i # depth /\ depth > 0
    BY <1>1, <1>5 DEF setFanDuty, pauseBar, PauseOver, RunTest, DutyOver, ScriptFails, Waiting, top
  <2>2. (\E f : SetTop(f)) \/ Return
    BY <1>5 DEF setFanDuty, pauseBar, PauseOver, RunTest, DutyOver, ScriptFails,
                startWorkInAThread, CreateWorker
  <2> QED BY <1>3, <2>1, <2>2
<1>6. CASE CheckFinished \/ killProcess \/ Terminate
  <2>1. CASE UNCHANGED <<depth, frame>>
    BY <1>1, <1>2, <2>1
  <2>2. CASE \E a \in Waiting : SetTop([top EXCEPT !.at = a])
    <3>1. PICK a \in Waiting : SetTop([top EXCEPT !.at = a])
      BY <2>2
    <3>2. top \in Frame
      BY <1>6, TopType DEF CheckFinished, killProcess, Terminate
    <3>3. [top EXCEPT !.at = a].job = top.job /\ [top EXCEPT !.at = a].at = a
      BY <3>2 DEF Frame
    <3>4. frame'[i].job = frame[i].job /\ frame'[i].at \in Waiting
      BY <1>1, <3>1, <3>3 DEF SetTop, top
    <3> QED BY <1>1, <1>2, <3>1, <3>4 DEF SetTop
  <2>3. CASE CheckFinished /\ isFinished(top.job)
    <3>1. i # depth
      BY <1>1, <2>3 DEF isFinished, top
    <3>2. (\E f : SetTop(f)) \/ Return
      BY <2>3 DEF CheckFinished, isFinished
    <3> QED BY <1>3, <2>3, <3>1, <3>2 DEF CheckFinished
  <2> QED BY <1>6, <2>1, <2>2, <2>3 DEF CheckFinished, killProcess, Terminate, Waiting
<1>7. CASE UNCHANGED guiVars
  BY <1>1, <1>2, <1>7 DEF guiVars
<1> QED BY <1>4, <1>5, <1>6, <1>7
        DEF Next, Gui, Run, closeEvent, DeliverFinished, Construct, StartProgram,
            ProgramEnds, Collect, WaitFails, Finish, vars

(* The worker startWorkInAThread creates is awaited at once.               *)
LEMMA CreateAwaits ==
    ASSUME TypeOK, depth > 0, NEW f \in Frame, CreateWorker(f),
           NEW j \in Jobs, thread'[j] # thread[j]
    PROVE  Awaited(j)' /\ thread[j] = "none"
<1>1. PICK k \in Free : /\ SetTop([f EXCEPT !.job = k, !.at = "check"])
                        /\ thread' = [thread EXCEPT ![k] = "run"]
  BY DEF CreateWorker
<1>2. k = j
  BY <1>1 DEF TypeOK
<1>3. [f EXCEPT !.job = k, !.at = "check"].job = k /\ [f EXCEPT !.job = k, !.at = "check"].at = "check"
  BY DEF Frame
<1>4. depth \in 1 .. MaxNest
  BY TopType
<1>5. frame'[depth].job = j /\ frame'[depth].at \in Waiting /\ depth' = depth
  BY <1>1, <1>2, <1>3, <1>4 DEF SetTop, TypeOK, Waiting
<1> QED BY <1>1, <1>2, <1>4, <1>5 DEF Awaited, Free

(* What a step does to a thread.                                           *)
LEMMA ThreadSteps ==
    ASSUME TypeOK, [Next]_vars, NEW j \in Jobs, thread'[j] # thread[j]
    PROVE  \/ thread[j] = "none" /\ Awaited(j)' /\ UNCHANGED proc
           \/ j \in posted /\ thread'[j] = "none" /\ j \notin posted' /\ UNCHANGED proc
           \/ thread[j] = "freed" /\ thread'[j] = "done" /\ UNCHANGED proc
           \/ thread[j] = "run" /\ thread'[j] = "new" /\ UNCHANGED proc
           \/ thread[j] = "new" /\ thread'[j] = "wait"
           \/ thread[j] = "new" /\ thread'[j] = "freed" /\ UNCHANGED proc
           \/ thread[j] = "wait" /\ thread'[j] = "freed" /\ proc'[j] = "none"
<1> USE DEF TypeOK, guiVars, workerVars
<1>1. CASE setFanDuty \/ RunTest
  <2>1. depth > 0 /\ top \in Frame /\ UNCHANGED proc
    BY <1>1, TopType DEF setFanDuty, RunTest
  <2>2. \E f : CreateWorker(f) /\ f \in Frame
    <3>1. CASE setFanDuty
      <4>1. [top EXCEPT !.cmds = @ - 1] \in Frame
        BY <3>1, TopType DEF setFanDuty, Frame, FanCmds, Waiting, Between
      <4> QED BY <3>1, <4>1 DEF setFanDuty, startWorkInAThread
    <3>2. CASE RunTest
      <4>1. [top EXCEPT !.tests = @ - 1, !.tested = TRUE] \in Frame
        BY <3>2, RunTestFrame
      <4> QED BY <3>2, <4>1 DEF RunTest, startWorkInAThread
    <3> QED BY <1>1, <3>1, <3>2
  <2> QED BY <2>1, <2>2, CreateAwaits
<1>2. CASE \E k \in Jobs : Run(k)
  <2>1. PICK k \in Jobs : Run(k)
    BY <1>2
  <2> QED BY <2>1 DEF Run, Construct, StartProgram, Collect, Finish
<1>3. CASE \E k \in Jobs : DeliverFinished(k) \/ ProgramEnds(k) \/ WaitFails(k)
  BY <1>3 DEF DeliverFinished, ProgramEnds, WaitFails
<1>4. CASE \/ StartBatch \/ closeEvent \/ pauseBar \/ PauseOver \/ DutyOver \/ ScriptFails
           \/ CheckFinished \/ killProcess \/ Terminate \/ UNCHANGED vars
  BY <1>4 DEF StartBatch, closeEvent, pauseBar, PauseOver, DutyOver, ScriptFails, CheckFinished,
              killProcess, Terminate, vars
<1> QED BY <1>1, <1>2, <1>3, <1>4 DEF Next, Gui

(* What a step does to a child process.                                    *)
LEMMA ProcSteps ==
    ASSUME TypeOK, [Next]_vars, NEW j \in Jobs, proc'[j] # proc[j]
    PROVE  \/ proc'[j] = "none"
           \/ proc[j] # "none" /\ UNCHANGED thread
           \/ thread'[j] = "wait"
<1> USE DEF TypeOK, guiVars, workerVars
<1>1. CASE \E k \in Jobs : Run(k) \/ ProgramEnds(k) \/ WaitFails(k)
  BY <1>1 DEF Run, Construct, StartProgram, Collect, WaitFails, Finish, ProgramEnds
<1>2. CASE Terminate
  BY <1>2 DEF Terminate
<1>3. CASE \/ StartBatch \/ closeEvent \/ setFanDuty \/ pauseBar \/ PauseOver \/ RunTest
           \/ DutyOver \/ ScriptFails \/ CheckFinished \/ killProcess \/ UNCHANGED vars
           \/ \E k \in Jobs : DeliverFinished(k)
  BY <1>3 DEF StartBatch, closeEvent, setFanDuty, pauseBar, PauseOver, RunTest, DutyOver, ScriptFails,
              CheckFinished, killProcess, vars, DeliverFinished
<1> QED BY <1>1, <1>2, <1>3 DEF Next, Gui

LEMMA PostedSteps ==
    ASSUME TypeOK, [Next]_vars, NEW j \in Jobs, j \in posted' \ posted
    PROVE  thread'[j] = "done"
<1> USE DEF TypeOK, guiVars, workerVars
<1>1. CASE \E k \in Jobs : Run(k) \/ ProgramEnds(k) \/ WaitFails(k) \/ DeliverFinished(k)
  BY <1>1 DEF Run, Construct, StartProgram, Collect, WaitFails, Finish, ProgramEnds, DeliverFinished
<1>2. CASE \/ StartBatch \/ closeEvent \/ setFanDuty \/ pauseBar \/ PauseOver \/ RunTest
           \/ DutyOver \/ ScriptFails \/ CheckFinished \/ killProcess \/ Terminate \/ UNCHANGED vars
  BY <1>2 DEF StartBatch, closeEvent, setFanDuty, pauseBar, PauseOver, RunTest, DutyOver, ScriptFails,
              CheckFinished, killProcess, Terminate, vars
<1> QED BY <1>1, <1>2 DEF Next, Gui

LEMMA OrphanStep ==
    ASSUME TypeOK, OrphanInv, [Next]_vars
    PROVE  OrphanInv'
<1> SUFFICES ASSUME NEW j \in Jobs
             PROVE  /\ proc'[j] # "none" => thread'[j] = "wait"
                    /\ thread'[j] \in {"run", "new", "wait", "freed"} => Awaited(j)'
                    /\ j \in posted' => thread'[j] = "done"
  BY DEF OrphanInv
<1>0. /\ proc[j] # "none" => thread[j] = "wait"
      /\ thread[j] \in {"run", "new", "wait", "freed"} => Awaited(j)
      /\ j \in posted => thread[j] = "done"
  BY DEF OrphanInv
<1>1. thread[j] \in {"run", "new", "wait", "freed"} => Awaited(j)'
  BY <1>0, KeepsWaiting
<1>2. j \in posted' \ posted => thread'[j] = "done"
  BY PostedSteps
<1>3. CASE thread'[j] = thread[j]
  BY <1>0, <1>1, <1>2, <1>3, ProcSteps
<1>4. CASE thread'[j] # thread[j]
  <2>1. CASE thread[j] = "none" /\ Awaited(j)' /\ UNCHANGED proc
    BY <1>0, <1>2, <1>4, <2>1
  <2>2. CASE j \in posted /\ thread'[j] = "none" /\ j \notin posted' /\ UNCHANGED proc
    BY <1>0, <2>2
  <2>3. CASE thread[j] = "freed" /\ thread'[j] = "done" /\ UNCHANGED proc
    BY <1>0, <2>3
  <2>4. CASE \/ thread[j] = "run" /\ thread'[j] = "new" /\ UNCHANGED proc
             \/ thread[j] = "new" /\ thread'[j] = "wait"
             \/ thread[j] = "new" /\ thread'[j] = "freed" /\ UNCHANGED proc
             \/ thread[j] = "wait" /\ thread'[j] = "freed" /\ proc'[j] = "none"
    BY <1>0, <1>1, <1>2, <2>4
  <2> QED BY <1>4, <2>1, <2>2, <2>3, <2>4, ThreadSteps
<1> QED BY <1>3, <1>4

(* Every running program is one some startWorkInAThread still waits for.   *)
THEOREM NoOrphanSafe == Spec => []NoOrphan
<1>1. Init => OrphanInv
  BY DEF Init, OrphanInv
<1>2. OrphanInv => NoOrphan
  BY DEF OrphanInv, NoOrphan, Awaited
<1> QED BY <1>1, <1>2, OrphanStep, TypeCorrect, PTL DEF Spec

(* Closing the window sets m_closed, nothing resets it, and every worker   *)
(* is created after reading it.                                            *)
THEOREM NoneAfterClose == Spec => NoJobAfterClose
<1> DEFINE CloseInv == closed => m_closed
<1>1. Init => CloseInv
  BY DEF Init
<1>2. CloseInv /\ [Next]_vars => CloseInv'
  BY DEF Next, Gui, Run, StartBatch, closeEvent, setFanDuty, pauseBar, PauseOver, RunTest,
         DutyOver, ScriptFails, CheckFinished, killProcess, Terminate, Construct, StartProgram, Collect,
         WaitFails, Finish, ProgramEnds, DeliverFinished, closeVars, vars
<1>3. TypeOK /\ CloseInv /\ [Next]_vars =>
        [closed => \A j \in Jobs : thread'[j] = "run" => thread[j] = "run"]_vars
  <2> SUFFICES ASSUME TypeOK, CloseInv, [Next]_vars, closed, NEW j \in Jobs,
                      thread'[j] = "run", thread[j] # "run"
               PROVE  FALSE
    OBVIOUS
  <2>1. CASE setFanDuty \/ RunTest
    BY <2>1 DEF setFanDuty, RunTest, startWorkInAThread
  <2>2. CASE \E k \in Jobs : Run(k) \/ ProgramEnds(k) \/ WaitFails(k) \/ DeliverFinished(k)
    BY <2>2 DEF Run, Construct, StartProgram, Collect, WaitFails, Finish, ProgramEnds,
                DeliverFinished, TypeOK
  <2>3. CASE \/ StartBatch \/ closeEvent \/ pauseBar \/ PauseOver \/ DutyOver \/ ScriptFails
             \/ CheckFinished \/ killProcess \/ Terminate \/ UNCHANGED vars
    BY <2>3 DEF StartBatch, closeEvent, pauseBar, PauseOver, DutyOver, ScriptFails, CheckFinished,
                killProcess, Terminate, vars, guiVars, workerVars
  <2> QED BY <2>1, <2>2, <2>3 DEF Next, Gui
<1> QED BY <1>1, <1>2, <1>3, TypeCorrect, PTL DEF Spec, NoJobAfterClose

-----------------------------------------------------------------------------
(* Worker implements Calls.  Beside OrphanInv it needs that no two waiting *)
(* frames wait for one worker.                                             *)
CallInv ==
    /\ \A m, n \in 1 .. depth :
          frame[m].at \in Waiting /\ frame[n].at \in Waiting /\ frame[m].job = frame[n].job
             => m = n
    /\ closed => m_closed

(* A step that at most moves the program of one worker on.                 *)
LEMMA ProgramMoves ==
    ASSUME TypeOK, CallInv, UNCHANGED <<guiVars, closed>>, NEW j \in Jobs,
           \A k \in Jobs \ {j} : ProgramAt(k)' = ProgramAt(k),
           \/ ProgramAt(j)' = ProgramAt(j)
           \/ <<ProgramAt(j), ProgramAt(j)'>> \in Abstract!Runs
    PROVE  [Abstract!CallsNext]_(Abstract!callVars)
<1>1. depth \in Nat /\ depth <= MaxNest /\ depth' = depth /\ frame' = frame
  BY BoundsAssumption DEF TypeOK, guiVars
<1>2. ASSUME NEW n \in 1 .. depth, frame[n].at \in Waiting
      PROVE  frame[n].job \in Jobs
  <2>1. frame[n] \in Frame
    <3>1. n \in 1 .. MaxNest
      BY <1>1, BoundsAssumption
    <3>2. frame \in [1 .. MaxNest -> Frame]
      BY DEF TypeOK
    <3> QED BY <3>1, <3>2
  <2> QED BY <1>2, <2>1, FrameRecord
<1>3. \A n \in 1 .. MaxNest : CallAt(n)' # CallAt(n) =>
         /\ n \in 1 .. depth /\ frame[n].at \in Waiting /\ frame[n].job = j
         /\ CallAt(n) = ProgramAt(j) /\ CallAt(n)' = ProgramAt(j)'
  <2> SUFFICES ASSUME NEW n \in 1 .. MaxNest, CallAt(n)' # CallAt(n)
               PROVE  /\ n \in 1 .. depth /\ frame[n].at \in Waiting /\ frame[n].job = j
                      /\ CallAt(n) = ProgramAt(j) /\ CallAt(n)' = ProgramAt(j)'
    OBVIOUS
  <2>1. n \in 1 .. depth /\ frame[n].at \in Waiting
    BY <1>1 DEF CallAt
  <2>2. CallAt(n) = ProgramAt(frame[n].job) /\ CallAt(n)' = ProgramAt(frame[n].job)'
    BY <1>1, <2>1 DEF CallAt
  <2>3. frame[n].job = j
    <3>1. ProgramAt(frame[n].job)' # ProgramAt(frame[n].job)
      BY <2>2
    <3>2. CASE frame[n].job # j
      <4>1. PICK k \in Jobs \ {j} : k = frame[n].job
        BY <1>2, <2>1, <3>2
      <4>2. ProgramAt(k)' = ProgramAt(k)
        BY <4>1
      <4>3. frame'[n].job = k
        BY <1>1, <4>1
      <4> QED BY <3>1, <4>1, <4>2, <4>3 DEF ProgramAt
    <3> QED BY <3>2
  <2> QED BY <1>1, <2>1, <2>2, <2>3 DEF ProgramAt
<1>4. CASE \A n \in 1 .. MaxNest : CallAt(n)' = CallAt(n)
  BY <1>4 DEF Abstract!callVars
<1>5. ASSUME NEW n \in 1 .. MaxNest, CallAt(n)' # CallAt(n)
      PROVE  Abstract!Move(n)
  <2>1. \A m \in 1 .. MaxNest : m # n => CallAt(m)' = CallAt(m)
    BY <1>3, <1>5 DEF CallInv
  <2>2. <<CallAt(n), CallAt(n)'>> \in Abstract!Runs
    BY <1>3, <1>5
  <2>3. CallAt(n) # "none" /\ CallAt(n)' # "asked" /\ <<CallAt(n), CallAt(n)'>> \notin Abstract!Stacks
    BY <2>2 DEF Abstract!Runs, Abstract!Stacks
  <2> QED BY <2>1, <2>2, <2>3 DEF Abstract!Move, Abstract!Step, Abstract!Moves
<1> QED BY <1>4, <1>5 DEF Abstract!CallsNext, Abstract!Levels

(* What the handler on top does.                                           *)
LEMMA TopMoves ==
    ASSUME TypeOK, NEW n \in 1 .. MaxNest, UNCHANGED closed,
           \A m \in 1 .. MaxNest : m < n => CallAt(m) # "none",
           \A m \in 1 .. MaxNest : m > n => CallAt(m) = "none",
           \A m \in 1 .. MaxNest : m # n => CallAt(m)' = CallAt(m),
           \/ CallAt(n)' = CallAt(n)
           \/ <<CallAt(n), CallAt(n)'>> \in Abstract!Stacks,
           CallAt(n) = "none" \/ CallAt(n)' = "asked" => ~closed
    PROVE  [Abstract!CallsNext]_(Abstract!callVars)
<1>1. CASE CallAt(n)' = CallAt(n)
  BY <1>1 DEF Abstract!callVars
<1>2. CASE <<CallAt(n), CallAt(n)'>> \in Abstract!Stacks
  <2>1. Abstract!Move(n)
    BY <1>2 DEF Abstract!Move, Abstract!Step, Abstract!Moves, Abstract!Above, Abstract!Beneath, Abstract!Levels
  <2> QED BY <2>1 DEF Abstract!CallsNext, Abstract!Levels
<1> QED BY <1>1, <1>2

LEMMA Stacked ==
    ASSUME TypeOK
    PROVE  /\ depth \in Nat /\ depth <= MaxNest /\ MaxNest \in Nat
           /\ \A m \in 1 .. MaxNest : /\ m <= depth => CallAt(m) # "none"
                                      /\ m > depth => CallAt(m) = "none"
<1>1. depth \in Nat /\ depth <= MaxNest /\ MaxNest \in Nat
  BY BoundsAssumption DEF TypeOK
<1>2. \A m \in 1 .. MaxNest : /\ m <= depth => CallAt(m) # "none"
                              /\ m > depth => CallAt(m) = "none"
  BY <1>1 DEF CallAt, ProgramAt
<1> QED BY <1>1, <1>2

(* The calls below the top stand still.                                    *)
LEMMA BelowKept ==
    ASSUME TypeOK, depth > 0, (\E f : SetTop(f)) \/ Return,
           \A k \in Jobs : (\E m \in 1 .. depth : m # depth /\ frame[m].job = k)
                    => ProgramAt(k)' = ProgramAt(k)
    PROVE  \A m \in 1 .. MaxNest : m # depth => CallAt(m)' = CallAt(m)
<1>1. depth \in Nat /\ depth <= MaxNest /\ MaxNest \in Nat
  BY Stacked
<1>2. depth' \in {depth, depth - 1}
  BY DEF SetTop, Return
<1> SUFFICES ASSUME NEW m \in 1 .. MaxNest, m # depth
             PROVE  CallAt(m)' = CallAt(m)
  OBVIOUS
<1>3. CASE m > depth
  BY <1>1, <1>2, <1>3 DEF CallAt
<1>4. CASE m < depth
  <2>1. frame'[m] = frame[m] /\ m <= depth'
    BY <1>1, <1>2, <1>4 DEF SetTop, Return, TypeOK
  <2>2. PICK k : k = frame[m].job
    OBVIOUS
  <2>3. frame[m].at \in Waiting => ProgramAt(k)' = ProgramAt(k)
    <3>1. frame[m] \in Frame
      BY DEF TypeOK
    <3>2. frame[m].at \in Waiting => k \in Jobs
      BY <2>2, <3>1, FrameRecord
    <3> QED BY <1>1, <1>4, <2>2, <3>2
  <2>4. CallAt(m) = IF frame[m].at \notin Waiting THEN "own" ELSE ProgramAt(k)
    BY <1>1, <1>4, <2>2 DEF CallAt
  <2>5. CallAt(m)' = IF frame[m].at \notin Waiting THEN "own" ELSE ProgramAt(k)'
    BY <1>1, <1>2, <1>4, <2>1, <2>2 DEF CallAt, ProgramAt
  <2> QED BY <2>3, <2>4, <2>5
<1> QED BY <1>1, <1>3, <1>4

LEMMA TopReturns ==
    ASSUME TypeOK, depth > 0, Return, UNCHANGED <<thread, proc, closed>>,
           CallAt(depth) \in {"own", "over"}
    PROVE  [Abstract!CallsNext]_(Abstract!callVars)
<1>1. PICK n \in 1 .. MaxNest : n = depth
  BY Stacked
<1>2. n > depth' /\ CallAt(n) \in {"own", "over"}
  BY <1>1, Stacked DEF Return
<1>3. CallAt(n)' = "none"
  BY <1>2 DEF CallAt
<1>4. \A m \in 1 .. MaxNest : m # n => CallAt(m)' = CallAt(m)
  BY <1>1, BelowKept DEF ProgramAt
<1>5. <<CallAt(n), CallAt(n)'>> \in Abstract!Stacks
  BY <1>2, <1>3 DEF Abstract!Stacks
<1>6. /\ \A m \in 1 .. MaxNest : m < n => CallAt(m) # "none"
      /\ \A m \in 1 .. MaxNest : m > n => CallAt(m) = "none"
  BY <1>1, Stacked
<1>7. ~(CallAt(n) = "none" \/ CallAt(n)' = "asked")
  BY <1>2, <1>3
<1> QED BY <1>4, <1>5, <1>6, <1>7, TopMoves

LEMMA TopSets ==
    ASSUME TypeOK, depth > 0, NEW f, SetTop(f), UNCHANGED closed,
           \A k \in Jobs : (\E m \in 1 .. depth : m # depth /\ frame[m].job = k)
                    => ProgramAt(k)' = ProgramAt(k),
           NEW to, to = IF f.at \notin Waiting THEN "own" ELSE ProgramAt(f.job)',
           to = CallAt(depth) \/ <<CallAt(depth), to>> \in Abstract!Stacks,
           to = "asked" => ~closed \/ CallAt(depth) = to
    PROVE  [Abstract!CallsNext]_(Abstract!callVars)
<1>1. PICK n \in 1 .. MaxNest : n = depth
  BY Stacked
<1>2. depth' = n /\ frame'[n] = f
  BY <1>1 DEF SetTop, TypeOK
<1>3. CallAt(n)' = to
  BY <1>2 DEF CallAt, ProgramAt
<1>4. \A m \in 1 .. MaxNest : m # n => CallAt(m)' = CallAt(m)
  BY <1>1, BelowKept
<1>5. CASE to = CallAt(n)
  <2>1. \A m \in 1 .. MaxNest : CallAt(m)' = CallAt(m)
    BY <1>3, <1>4, <1>5
  <2> QED BY <2>1 DEF Abstract!callVars
<1>6. CASE to # CallAt(n)
  <2>1. <<CallAt(n), CallAt(n)'>> \in Abstract!Stacks
    BY <1>1, <1>3, <1>6
  <2>2. /\ \A m \in 1 .. MaxNest : m < n => CallAt(m) # "none"
        /\ \A m \in 1 .. MaxNest : m > n => CallAt(m) = "none"
        /\ CallAt(n) # "none"
    BY <1>1, Stacked
  <2>3. CallAt(n) = "none" \/ CallAt(n)' = "asked" => ~closed
    BY <1>1, <1>3, <1>6, <2>2
  <2> QED BY <1>4, <2>1, <2>2, <2>3, TopMoves
<1> QED BY <1>5, <1>6

(* What a handler that does not wait and one whose worker is done show.    *)
LEMMA TopCall ==
    ASSUME TypeOK, OrphanInv, depth > 0
    PROVE  /\ top = frame[depth]
           /\ top.at \notin Waiting => CallAt(depth) = "own"
           /\ top.at \in Waiting => top.job \in Jobs /\ CallAt(depth) = ProgramAt(top.job)
           /\ \A j \in Jobs : thread[j] \in {"freed", "done", "none"} => ProgramAt(j) = "over"
<1>1. \A j \in Jobs : thread[j] \in {"freed", "done", "none"} => ProgramAt(j) = "over"
  BY DEF OrphanInv, ProgramAt
<1>2. top.at \in Waiting => top.job \in Jobs
  BY TopType, FrameRecord
<1> QED BY <1>1, <1>2, Stacked DEF top, CallAt

(* A call is made where nobody waits for the new worker.                   *)
LEMMA CallMade ==
    ASSUME TypeOK, OrphanInv, CallInv, depth > 0, top.at \notin Waiting,
           NEW f \in Frame, startWorkInAThread(f), UNCHANGED <<proc, closed>>
    PROVE  [Abstract!CallsNext]_(Abstract!callVars)
<1>1. CallAt(depth) = "own"
  BY TopCall
<1>2. CASE Return /\ UNCHANGED thread
  BY <1>1, <1>2, TopReturns
<1>3. CASE ~m_closed /\ CreateWorker(f)
  <2>1. PICK j \in Free : /\ SetTop([f EXCEPT !.job = j, !.at = "check"])
                          /\ thread' = [thread EXCEPT ![j] = "run"]
    BY <1>3 DEF CreateWorker
  <2>2. PICK g : g = [f EXCEPT !.job = j, !.at = "check"]
    OBVIOUS
  <2>3. SetTop(g) /\ g.at = "check" /\ g.job = j
    BY <2>1, <2>2 DEF Frame
  <2>4. \A k \in Jobs : (\E m \in 1 .. depth : m # depth /\ frame[m].job = k) => ProgramAt(k)' = ProgramAt(k)
    BY <2>1 DEF Free, ProgramAt, TypeOK
  <2>5. ProgramAt(j)' = "asked"
    BY <2>1 DEF Free, ProgramAt, TypeOK
  <2>6. PICK to : to = IF g.at \notin Waiting THEN "own" ELSE ProgramAt(g.job)'
    OBVIOUS
  <2>7. to = "asked"
    BY <2>3, <2>5, <2>6 DEF Waiting
  <2>8. <<CallAt(depth), to>> \in Abstract!Stacks /\ ~closed
    BY <1>1, <1>3, <2>7 DEF Abstract!Stacks, CallInv
  <2> QED BY <2>3, <2>4, <2>6, <2>8, TopSets
<1> QED BY <1>2, <1>3 DEF startWorkInAThread

(* A handler goes on with its own work, or goes on waiting.                *)
LEMMA TopGoesOn ==
    ASSUME TypeOK, OrphanInv, depth > 0, NEW f, SetTop(f), UNCHANGED <<thread, closed>>,
           \A k \in Jobs : ProgramAt(k)' = ProgramAt(k),
           \/ f.at \notin Waiting /\ CallAt(depth) \in {"own", "over"}
           \/ f.at \in Waiting /\ top.at \in Waiting /\ f.job = top.job
    PROVE  [Abstract!CallsNext]_(Abstract!callVars)
<1>1. \A k \in Jobs : ProgramAt(k)' = ProgramAt(k)
  OBVIOUS
<1>2. PICK to : to = IF f.at \notin Waiting THEN "own" ELSE ProgramAt(f.job)'
  OBVIOUS
<1>3. CASE f.at \notin Waiting
  <2>1. to = "own"
    BY <1>2, <1>3
  <2>2. to = CallAt(depth) \/ <<CallAt(depth), to>> \in Abstract!Stacks
    BY <1>3, <2>1 DEF Abstract!Stacks
  <2> QED BY <1>1, <1>2, <2>1, <2>2, TopSets
<1>4. CASE f.at \in Waiting
  <2>1. to = ProgramAt(f.job)
    BY <1>1, <1>2, <1>4, TopCall
  <2>2. to = CallAt(depth)
    BY <1>4, <2>1, TopCall
  <2> QED BY <1>1, <1>2, <2>2, TopSets
<1> QED BY <1>3, <1>4

LEMMA CallsStep ==
    ASSUME TypeOK, OrphanInv, CallInv, [Next]_vars
    PROVE  [Abstract!CallsNext]_(Abstract!callVars)
<1>1. ASSUME NEW j \in Jobs, DeliverFinished(j) \/ Run(j) \/ ProgramEnds(j) \/ WaitFails(j)
      PROVE  [Abstract!CallsNext]_(Abstract!callVars)
  <2>1. UNCHANGED <<guiVars, closed>>
    BY <1>1 DEF DeliverFinished, Run, Construct, StartProgram, Collect, WaitFails, Finish, ProgramEnds,
                closeVars, guiVars
  <2>2. \A k \in Jobs \ {j} : thread'[k] = thread[k] /\ proc'[k] = proc[k]
    BY <1>1 DEF DeliverFinished, Run, Construct, StartProgram, Collect, WaitFails, Finish, ProgramEnds, TypeOK
  <2>3. \A k \in Jobs \ {j} : ProgramAt(k)' = ProgramAt(k)
    BY <2>2 DEF ProgramAt
  <2>4. /\ proc[j] # "none" => thread[j] = "wait"
        /\ j \in posted => thread[j] = "done"
    BY DEF OrphanInv
  <2>5. \/ ProgramAt(j)' = ProgramAt(j)
        \/ <<ProgramAt(j), ProgramAt(j)'>> \in Abstract!Runs
    <3>1. CASE DeliverFinished(j) \/ Construct(j) \/ Collect(j) \/ Finish(j)
      <4>1. ProgramAt(j)' = ProgramAt(j)
        BY <2>4, <3>1 DEF DeliverFinished, Construct, Collect, Finish, ProgramAt, TypeOK
      <4> QED BY <4>1
    <3>2. CASE StartProgram(j)
      <4>1. ProgramAt(j) = "asked" /\ ProgramAt(j)' \in {"running", "over"}
        BY <2>4, <3>2 DEF StartProgram, ProgramAt, TypeOK
      <4> QED BY <4>1 DEF Abstract!Runs
    <3>3. CASE ProgramEnds(j)
      <4>1. ProgramAt(j) = "running" /\ ProgramAt(j)' = "over"
        BY <2>4, <3>3 DEF ProgramEnds, ProgramAt, TypeOK
      <4> QED BY <4>1 DEF Abstract!Runs
    <3>4. CASE WaitFails(j)
      <4>1. ProgramAt(j) \in {"running", "over"} /\ ProgramAt(j)' = "over"
        BY <3>4 DEF WaitFails, ProgramAt, TypeOK
      <4> QED BY <4>1 DEF Abstract!Runs
    <3> QED BY <1>1, <3>1, <3>2, <3>3, <3>4 DEF Run
  <2> QED BY <2>1, <2>3, <2>5, ProgramMoves
<1>2. CASE closeEvent
  <2>1. \A n \in 1 .. MaxNest : CallAt(n)' = CallAt(n)
    BY <1>2 DEF closeEvent, guiVars, workerVars, CallAt, ProgramAt
  <2> QED BY <1>2, <2>1 DEF closeEvent, Abstract!CallsNext, Abstract!Close
<1>3. CASE StartBatch
  <2>1. PICK n \in 1 .. MaxNest : n = depth + 1
    BY <1>3, Stacked DEF StartBatch
  <2>2. /\ depth' = n /\ UNCHANGED <<thread, proc, closed>> /\ ~closed
        /\ \E f : frame' = [frame EXCEPT ![n] = f] /\ f.at = "step"
    <3>1. PICK d \in 1 .. MaxDuties, t \in 0 .. MaxTests :
             frame' = [frame EXCEPT ![n] =
                         [NoFrame EXCEPT !.cmds = FanCmds, !.tests = t, !.duties = d]]
      BY <1>3, <2>1 DEF StartBatch
    <3>2. [NoFrame EXCEPT !.cmds = FanCmds, !.tests = t, !.duties = d].at = "step"
      BY DEF NoFrame
    <3>3. depth' = n /\ UNCHANGED <<thread, proc, closed>> /\ ~closed
      BY <1>3, <2>1 DEF StartBatch, workerVars, closeVars
    <3> QED BY <3>1, <3>2, <3>3
  <2>3. frame'[n].at = "step"
    BY <2>2 DEF TypeOK
  <2>4. CallAt(n) = "none" /\ CallAt(n)' = "own"
    BY <2>1, <2>2, <2>3, Stacked DEF CallAt, Waiting
  <2>5. \A m \in 1 .. MaxNest : m # n => CallAt(m)' = CallAt(m)
    <3> SUFFICES ASSUME NEW m \in 1 .. MaxNest, m # n PROVE CallAt(m)' = CallAt(m)
      OBVIOUS
    <3>1. frame'[m] = frame[m]
      BY <2>2 DEF TypeOK
    <3>2. m > depth' <=> m > depth
      BY <2>1, <2>2, Stacked
    <3> QED BY <2>2, <3>1, <3>2 DEF CallAt, ProgramAt
  <2>6. /\ \A m \in 1 .. MaxNest : m < n => CallAt(m) # "none"
        /\ \A m \in 1 .. MaxNest : m > n => CallAt(m) = "none"
    BY <2>1, Stacked
  <2> QED BY <2>2, <2>4, <2>5, <2>6, TopMoves DEF Abstract!Stacks
<1>4. CASE setFanDuty
  <2>1. depth > 0 /\ top.at = "step" /\ top.cmds > 0 /\ UNCHANGED <<proc, closed>>
        /\ startWorkInAThread([top EXCEPT !.cmds = @ - 1])
    BY <1>4 DEF setFanDuty
  <2>2. PICK f : f = [top EXCEPT !.cmds = @ - 1]
    OBVIOUS
  <2>3. f \in Frame
    BY <2>1, <2>2, TopType DEF Frame, FanCmds, Waiting, Between
  <2> QED BY <2>1, <2>2, <2>3, CallMade DEF Waiting
<1>5. CASE RunTest
  <2>1. depth > 0 /\ top.at \in {"step", "go"} /\ UNCHANGED <<proc, closed>>
        /\ startWorkInAThread([top EXCEPT !.tests = @ - 1, !.tested = TRUE])
    BY <1>5 DEF RunTest
  <2>2. PICK f : f = [top EXCEPT !.tests = @ - 1, !.tested = TRUE]
    OBVIOUS
  <2>3. f \in Frame
    BY <1>5, <2>2, RunTestFrame
  <2> QED BY <2>1, <2>2, <2>3, CallMade DEF Waiting
<1>6. ASSUME depth > 0, UNCHANGED <<thread, proc, closed>>, Return,
             top.at \notin Waiting \/ (top.at \in Waiting /\ isFinished(top.job))
      PROVE  [Abstract!CallsNext]_(Abstract!callVars)
  BY <1>6, TopCall, TopReturns DEF isFinished
<1>7. ASSUME depth > 0, UNCHANGED <<thread, proc, closed>>, NEW f, SetTop(f),
             f.at \notin Waiting,
             top.at \notin Waiting \/ (top.at \in Waiting /\ isFinished(top.job))
      PROVE  [Abstract!CallsNext]_(Abstract!callVars)
  BY <1>7, TopCall, TopGoesOn DEF isFinished, ProgramAt
<1>8. CASE pauseBar \/ PauseOver \/ ScriptFails \/ DutyOver
  <2>1. depth > 0 /\ UNCHANGED <<thread, proc, closed>> /\ top.at \notin Waiting /\ top \in Frame
    BY <1>8, TopType DEF pauseBar, PauseOver, ScriptFails, DutyOver, workerVars, closeVars, Waiting
  <2>2. CASE Return
    BY <1>6, <2>1, <2>2
  <2>3. CASE pauseBar \/ PauseOver
    <3>1. PICK f : SetTop(f) /\ (f = [top EXCEPT !.at = "pause"] \/ f = [top EXCEPT !.at = "go"])
      BY <2>3 DEF pauseBar, PauseOver
    <3>2. f.at \notin Waiting
      BY <2>1, <3>1 DEF Waiting, Frame
    <3> QED BY <1>7, <2>1, <3>1, <3>2
  <2>4. CASE DutyOver /\ ~Return
    <3>1. top.at = "step" /\ \E t \in 0 .. MaxTests :
             SetTop([top EXCEPT !.duties = @ - 1, !.cmds = FanCmds, !.tests = t])
      BY <2>4 DEF DutyOver
    <3>2. PICK t \in 0 .. MaxTests : 
             SetTop([top EXCEPT !.duties = @ - 1, !.cmds = FanCmds, !.tests = t])
      BY <3>1
    <3>3. PICK f : f = [top EXCEPT !.duties = @ - 1, !.cmds = FanCmds, !.tests = t]
      OBVIOUS
    <3>4. f.at \notin Waiting
      BY <2>1, <3>1, <3>3 DEF Waiting, Frame
    <3> QED BY <1>7, <2>1, <3>2, <3>3, <3>4
  <2> QED BY <1>8, <2>2, <2>3, <2>4 DEF ScriptFails
<1>9. CASE CheckFinished \/ killProcess \/ Terminate
  <2>1. depth > 0 /\ UNCHANGED <<thread, closed>> /\ top.at \in Waiting /\ top \in Frame
    BY <1>9, TopType DEF CheckFinished, killProcess, Terminate, workerVars, closeVars, Waiting
  <2>2. \A k \in Jobs : ProgramAt(k)' = ProgramAt(k)
    BY <1>9 DEF CheckFinished, killProcess, Terminate, workerVars, ProgramAt, TypeOK
  <2>3. ASSUME NEW a \in Waiting, SetTop([top EXCEPT !.at = a])
        PROVE  [Abstract!CallsNext]_(Abstract!callVars)
    <3>1. PICK f : f = [top EXCEPT !.at = a]
      OBVIOUS
    <3>2. SetTop(f) /\ f.at = a /\ f.job = top.job
      BY <2>1, <2>3, <3>1 DEF Frame
    <3> QED BY <2>1, <2>2, <2>3, <3>2, TopGoesOn
  <2>4. CASE UNCHANGED <<depth, frame>>
    <3>1. \A n \in 1 .. MaxNest : CallAt(n)' = CallAt(n)
      <4> SUFFICES ASSUME NEW n \in 1 .. MaxNest PROVE CallAt(n)' = CallAt(n)
        OBVIOUS
      <4>1. PICK k : k = frame[n].job
        OBVIOUS
      <4>2. frame[n].at \in Waiting => k \in Jobs
        <5>1. frame[n] \in Frame
          BY DEF TypeOK
        <5> QED BY <4>1, <5>1, FrameRecord
      <4>3. frame[n].at \in Waiting => ProgramAt(k)' = ProgramAt(k)
        BY <2>2, <4>2
      <4>4. CallAt(n) = IF n > depth THEN "none"
                        ELSE IF frame[n].at \notin Waiting THEN "own" ELSE ProgramAt(k)
        BY <4>1 DEF CallAt
      <4>5. CallAt(n)' = IF n > depth THEN "none"
                         ELSE IF frame[n].at \notin Waiting THEN "own" ELSE ProgramAt(k)'
        BY <2>4, <4>1 DEF CallAt, ProgramAt
      <4> QED BY <4>3, <4>4, <4>5
    <3> QED BY <2>1, <3>1 DEF Abstract!callVars
  <2>5. CASE CheckFinished /\ isFinished(top.job)
    <3>1. UNCHANGED <<thread, proc, closed>>
      BY <2>5 DEF CheckFinished, workerVars, closeVars
    <3>2. CASE Return
      BY <1>6, <2>1, <2>5, <3>1, <3>2
    <3>3. CASE SetTop([top EXCEPT !.at = "step", !.job = NoJob])
      <4>1. PICK f : f = [top EXCEPT !.at = "step", !.job = NoJob]
        OBVIOUS
      <4>2. f.at \notin Waiting
        BY <2>1, <4>1 DEF Waiting, Frame
      <4> QED BY <1>7, <2>1, <2>5, <3>1, <3>3, <4>1, <4>2
    <3> QED BY <2>5, <3>2, <3>3 DEF CheckFinished, isFinished
  <2> QED BY <1>9, <2>3, <2>4, <2>5 DEF CheckFinished, killProcess, Terminate, Waiting
<1>10. CASE UNCHANGED vars
  <2>1. \A n \in 1 .. MaxNest : CallAt(n)' = CallAt(n)
    BY <1>10 DEF vars, guiVars, workerVars, CallAt, ProgramAt
  <2> QED BY <1>10, <2>1 DEF vars, closeVars, Abstract!callVars
<1> QED BY <1>1, <1>2, <1>3, <1>4, <1>5, <1>8, <1>9, <1>10 DEF Next, Gui

LEMMA CallStart == Init => CallInv /\ Abstract!CallsInit
<1> SUFFICES ASSUME Init PROVE CallInv /\ Abstract!CallsInit
  OBVIOUS
<1>1. depth = 0 /\ closed = FALSE
  BY DEF Init
<1>2. \A n \in 1 .. MaxNest : CallAt(n) = "none"
  BY <1>1 DEF CallAt
<1> QED BY <1>1, <1>2 DEF CallInv, Abstract!CallsInit, Abstract!Levels

LEMMA CallInvStep ==
    ASSUME TypeOK, CallInv, [Next]_vars
    PROVE  CallInv'
<1>1. (closed => m_closed)'
  BY DEF CallInv, Next, Gui, Run, StartBatch, closeEvent, setFanDuty, pauseBar, PauseOver, RunTest,
         DutyOver, ScriptFails, CheckFinished, killProcess, Terminate, Construct, StartProgram, Collect,
         WaitFails, Finish, ProgramEnds, DeliverFinished, closeVars, vars
<1>2. depth \in Nat /\ depth <= MaxNest /\ MaxNest \in Nat
  BY Stacked
<1>3. ASSUME depth' \in Nat, depth' <= depth,
             \A m \in 1 .. depth' : frame'[m].at \in Waiting =>
                 frame[m].at \in Waiting /\ frame'[m].job = frame[m].job
      PROVE  CallInv'
  BY <1>1, <1>2, <1>3 DEF CallInv
<1>4. CASE UNCHANGED guiVars
  BY <1>2, <1>3, <1>4 DEF guiVars
<1>5. CASE Return /\ depth > 0
  BY <1>2, <1>3, <1>5 DEF Return, TypeOK
<1>6. ASSUME depth > 0, NEW f, SetTop(f),
             f.at \in Waiting => top.at \in Waiting /\ f.job = top.job
      PROVE  CallInv'
  <2>1. depth' = depth /\ \A m \in 1 .. depth : frame'[m] = IF m = depth THEN f ELSE frame[m]
    BY <1>2, <1>6 DEF SetTop, TypeOK
  <2> QED BY <1>2, <1>3, <1>6, <2>1 DEF top
<1>7. CASE StartBatch
  <2>1. PICK n \in 1 .. MaxNest : n = depth + 1
    BY <1>7, Stacked DEF StartBatch
  <2>2. PICK d \in 1 .. MaxDuties, t \in 0 .. MaxTests :
           frame' = [frame EXCEPT ![n] =
                       [NoFrame EXCEPT !.cmds = FanCmds, !.tests = t, !.duties = d]]
    BY <1>7, <2>1 DEF StartBatch
  <2>3. [NoFrame EXCEPT !.cmds = FanCmds, !.tests = t, !.duties = d].at = "step"
    BY DEF NoFrame
  <2>4. frame'[n].at \notin Waiting
    BY <2>2, <2>3 DEF TypeOK, Waiting
  <2>5. \A m \in 1 .. depth : frame'[m] = frame[m]
    BY <1>2, <2>1, <2>2 DEF TypeOK
  <2>6. \A m \in 1 .. depth' : frame'[m].at \in Waiting => m \in 1 .. depth
    BY <1>2, <1>7, <2>1, <2>4 DEF StartBatch
  <2>7. (\A m, n_1 \in 1 .. depth :
          frame[m].at \in Waiting /\ frame[n_1].at \in Waiting /\ frame[m].job = frame[n_1].job
             => m = n_1)'
    BY <2>5, <2>6 DEF CallInv
  <2> QED BY <1>1, <2>7 DEF CallInv
<1>8. ASSUME depth > 0, NEW f \in Frame, CreateWorker(f) PROVE CallInv'
  <2>1. PICK j \in Free : SetTop([f EXCEPT !.job = j, !.at = "check"])
    BY <1>8 DEF CreateWorker
  <2>2. PICK g : g = [f EXCEPT !.job = j, !.at = "check"]
    OBVIOUS
  <2>3. SetTop(g) /\ g.job = j
    BY <2>1, <2>2 DEF Frame
  <2>4. depth' = depth /\ \A m \in 1 .. depth : frame'[m] = IF m = depth THEN g ELSE frame[m]
    BY <1>2, <1>8, <2>3 DEF SetTop, TypeOK
  <2>5. \A m \in 1 .. depth : frame[m].job # j
    BY DEF Free
  <2>6. (\A m, n \in 1 .. depth :
          frame[m].at \in Waiting /\ frame[n].at \in Waiting /\ frame[m].job = frame[n].job
             => m = n)'
    BY <2>3, <2>4, <2>5 DEF CallInv
  <2> QED BY <1>1, <2>6 DEF CallInv
<1>9. ASSUME depth > 0, NEW f \in Frame, startWorkInAThread(f) PROVE CallInv'
  BY <1>5, <1>8, <1>9 DEF startWorkInAThread
<1>10. CASE setFanDuty
  <2>1. depth > 0 /\ top.at = "step" /\ top.cmds > 0 /\ startWorkInAThread([top EXCEPT !.cmds = @ - 1])
    BY <1>10 DEF setFanDuty
  <2>2. [top EXCEPT !.cmds = @ - 1] \in Frame
    BY <2>1, TopType DEF Frame, FanCmds, Waiting, Between
  <2> QED BY <1>9, <2>1, <2>2
<1>11. CASE RunTest
  BY <1>9, <1>11, RunTestFrame DEF RunTest
<1>12. CASE \/ pauseBar \/ PauseOver \/ ScriptFails \/ DutyOver \/ CheckFinished
            \/ killProcess \/ Terminate
  <2>1. depth > 0 /\ top \in Frame
    BY <1>12, TopType DEF pauseBar, PauseOver, ScriptFails, DutyOver, CheckFinished,
                          killProcess, Terminate
  <2>2. CASE pauseBar \/ PauseOver
    <3>1. PICK f : SetTop(f) /\ (f = [top EXCEPT !.at = "pause"] \/ f = [top EXCEPT !.at = "go"])
      BY <2>2 DEF pauseBar, PauseOver
    <3>2. f.at \notin Waiting
      BY <2>1, <3>1 DEF Waiting, Frame
    <3> QED BY <1>6, <2>1, <3>1, <3>2
  <2>3. CASE DutyOver /\ ~Return
    <3>1. top.at = "step" /\ \E t \in 0 .. MaxTests :
             SetTop([top EXCEPT !.duties = @ - 1, !.cmds = FanCmds, !.tests = t])
      BY <2>3 DEF DutyOver
    <3>2. PICK t \in 0 .. MaxTests :
             SetTop([top EXCEPT !.duties = @ - 1, !.cmds = FanCmds, !.tests = t])
      BY <3>1
    <3>3. PICK f : f = [top EXCEPT !.duties = @ - 1, !.cmds = FanCmds, !.tests = t]
      OBVIOUS
    <3>4. f.at \notin Waiting
      BY <2>1, <3>1, <3>3 DEF Waiting, Frame
    <3> QED BY <1>6, <2>1, <3>2, <3>3, <3>4
  <2>4. ASSUME NEW a \in Waiting, top.at \in Waiting, SetTop([top EXCEPT !.at = a])
        PROVE  CallInv'
    <3>1. PICK f : f = [top EXCEPT !.at = a]
      OBVIOUS
    <3>2. SetTop(f) /\ f.job = top.job
      BY <2>1, <2>4, <3>1 DEF Frame
    <3> QED BY <1>6, <2>1, <2>4, <3>2
  <2>5. CASE SetTop([top EXCEPT !.at = "step", !.job = NoJob])
    <3>1. PICK f : f = [top EXCEPT !.at = "step", !.job = NoJob]
      OBVIOUS
    <3>2. f.at \notin Waiting
      BY <2>1, <3>1 DEF Waiting, Frame
    <3> QED BY <1>6, <2>1, <2>5, <3>1, <3>2
  <2>6. CASE Return
    BY <1>5, <2>1, <2>6
  <2>7. CASE UNCHANGED <<depth, frame>>
    BY <1>4, <2>7 DEF guiVars
  <2> QED BY <1>12, <2>2, <2>3, <2>4, <2>5, <2>6, <2>7
          DEF ScriptFails, CheckFinished, killProcess, Terminate, Waiting
<1> QED BY <1>4, <1>7, <1>10, <1>11, <1>12
        DEF Next, Gui, Run, closeEvent, DeliverFinished, Construct, StartProgram,
            ProgramEnds, Collect, WaitFails, Finish, vars

(* Whatever is nested, killed, thrown or closed, in any number of threads: *)
(* to a batch startWorkInAThread is a call that runs its program once and  *)
(* comes back after it (startWorkInAThread, WorkerThread::run).            *)
THEOREM CallsImplemented == Spec => ImplementsCalls
<1>1. Init => OrphanInv
  BY DEF Init, OrphanInv
<1> QED BY <1>1, CallStart, CallInvStep, CallsStep, OrphanStep, TypeCorrect, PTL
        DEF Spec, ImplementsCalls, Abstract!CallsSpec

=============================================================================
