------------------------------- MODULE Worker -------------------------------
(***************************************************************************)
(* Running external programs without blocking the window: WorkerThread     *)
(* (worker.h), Widget::startWorkInAThread, pauseBar, closeEvent and the    *)
(* two batch handlers that call them, autofio_wls and btnFio2GoClicked.    *)
(*                                                                         *)
(* startWorkInAThread waits by delivering events in a loop.  A click that  *)
(* is delivered there starts another batch handler inside the waiting one, *)
(* so the GUI thread is a stack of frames of which only the top one runs.  *)
(* Every test has a thread and a child process of its own, which run       *)
(* beside the GUI thread.                                                  *)
(***************************************************************************)
EXTENDS Integers

CONSTANTS
    MaxWorkers,  \* bound on WorkerThread objects that exist at a time
    MaxNest,     \* bound on handlers waiting inside each other
    MaxDuties,   \* fan duties a batch goes through (autofio_wls; 1 for FIO2)
    MaxTests     \* tests per fan duty

FanCmds == 2     \* setFanDuty runs ipmitool twice
NoJob == 0
Jobs == 1 .. MaxWorkers    \* where a WorkerThread is allocated

ASSUME BoundsAssumption ==
    MaxWorkers \in Nat /\ MaxNest \in Nat /\ MaxDuties \in Nat /\ MaxTests \in Nat

VARIABLES
    depth,       \* batch handlers on the stack of the GUI thread
    frame,       \* their locals and program counters; frame[depth] runs
    thread,      \* per worker, where its thread is (see below)
    proc,        \* per worker, its child process
    m_killed,    \* workers whose m_killed is set
    m_errMsg,    \* workers whose m_errMsg is not empty
    posted,      \* workers whose finished signal is queued for the GUI thread
    due,         \* those queued when the running event loop was entered
    m_closed,    \* Widget::m_closed # 0
    closed,      \* the window's close button was pressed
    dangling     \* a deleted object was used: no behaviour is defined further

guiVars == <<depth, frame>>
workerVars == <<thread, proc, m_killed, m_errMsg>>
closeVars == <<m_closed, closed>>
vars == <<guiVars, workerVars, posted, due, closeVars, dangling>>

(* none: there is no worker; run: started, m_process is null; new: the     *)
(* QProcess is constructed and m_process set; wait: the program was        *)
(* started; freed: QProcess deleted, m_process not yet null; done: run has *)
(* returned.  The queued deleteLater makes it none again.                  *)
ThreadAt == {"none", "run", "new", "wait", "freed", "done"}

Waiting == {"check", "events", "term"}
Between == {"step", "pause", "go"}

(* job: the worker of the running startWorkInAThread; cmds: ipmitool calls *)
(* and tests: fio tests left at this fan duty; duties: fan duties left.    *)
Frame ==
    {f \in [job : Jobs \cup {NoJob}, at : Waiting \cup Between,
            cmds : 0 .. FanCmds, tests : 0 .. MaxTests, duties : 0 .. MaxDuties,
            tested : BOOLEAN] : f.at \in Waiting => f.job \in Jobs}

TypeOK ==
    /\ depth \in 0 .. MaxNest
    /\ frame \in [1 .. MaxNest -> Frame]
    /\ thread \in [Jobs -> ThreadAt]
    /\ proc \in [Jobs -> {"none", "running", "signalled", "ended"}]
    /\ m_killed \subseteq Jobs /\ m_errMsg \subseteq Jobs
    /\ posted \subseteq Jobs /\ due \subseteq posted
    /\ m_closed \in BOOLEAN /\ closed \in BOOLEAN
    /\ dangling \in BOOLEAN

NoFrame == [job |-> NoJob, at |-> "step", cmds |-> 0, tests |-> 0, duties |-> 0,
            tested |-> FALSE]

(* No constructor sets m_closed, and main keeps the window on its stack:   *)
(* it starts with any value.                                               *)
Init ==
    /\ depth = 0 /\ frame = [i \in 1 .. MaxNest |-> NoFrame]
    /\ thread = [j \in Jobs |-> "none"] /\ proc = [j \in Jobs |-> "none"]
    /\ m_killed = {} /\ m_errMsg = {}
    /\ posted = {} /\ due = {}
    /\ m_closed \in BOOLEAN
    /\ closed = FALSE /\ dangling = FALSE

top == frame[depth]
SetTop(f) == frame' = [frame EXCEPT ![depth] = f] /\ UNCHANGED depth
Return == depth' = depth - 1 /\ frame' = [frame EXCEPT ![depth] = NoFrame]

(* The GUI thread is delivering events: in exec, processEvents or pauseBar.*)
Serving == depth = 0 \/ (depth > 0 /\ top.at \in {"events", "pause"})

-----------------------------------------------------------------------------
(* The events.                                                             *)

(* A "Go" or "List" click: a batch over some selected devices, of which    *)
(* those under an expander without a path get no test.  Its frame comes on *)
(* top of whoever was delivering the click.                                *)
StartBatch ==
    /\ Serving /\ ~closed
    /\ depth < MaxNest
    /\ \E d \in 1 .. MaxDuties, t \in 0 .. MaxTests :
        frame' = [frame EXCEPT ![depth + 1] =
                    [NoFrame EXCEPT !.cmds = FanCmds, !.tests = t, !.duties = d]]
    /\ depth' = depth + 1
    /\ UNCHANGED <<workerVars, posted, due, closeVars, dangling>>

closeEvent ==
    /\ Serving /\ ~closed
    /\ closed' = TRUE /\ m_closed' = TRUE
    /\ UNCHANGED <<guiVars, workerVars, posted, due, dangling>>

(* The queued finished() calls deleteLater.  That call is made one level   *)
(* inside the loop that delivers it, so the same loop deletes the worker.  *)
DeliverFinished(j) ==
    /\ Serving /\ j \in posted
    /\ posted' = posted \ {j} /\ due' = due \ {j}
    /\ thread' = [thread EXCEPT ![j] = "none"]
    /\ m_killed' = m_killed \ {j} /\ m_errMsg' = m_errMsg \ {j}
    /\ UNCHANGED <<guiVars, proc, closeVars, dangling>>

-----------------------------------------------------------------------------
(* The batch handlers.                                                     *)

(* A new worker is allocated where there is none, and not where a deleted  *)
(* one was that a waiting frame still points to.                           *)
Free == {j \in Jobs : thread[j] = "none" /\ \A i \in 1 .. depth : frame[i].job # j}

CreateWorker(f) ==
    \E j \in Free :
        /\ \A k \in Free : j <= k
        /\ SetTop([f EXCEPT !.job = j, !.at = "check"])
        /\ thread' = [thread EXCEPT ![j] = "run"]

startWorkInAThread_Late(f) == CreateWorker(f)

(* startWorkInAThread up to its loop, the caller's locals being f.         *)
startWorkInAThread(f) ==
    \/ m_closed /\ Return /\ UNCHANGED thread
    \/ ~m_closed /\ CreateWorker(f)

setFanDuty ==
    /\ depth > 0 /\ top.at = "step" /\ top.cmds > 0
    /\ startWorkInAThread([top EXCEPT !.cmds = @ - 1])
    /\ UNCHANGED <<proc, m_killed, m_errMsg, posted, due, m_closed, closed, dangling>>

(* Before every test but the first of a batch.                             *)
pauseBar ==
    /\ depth > 0 /\ top.at = "step" /\ top.cmds = 0 /\ top.tests > 0 /\ top.tested
    /\ SetTop([top EXCEPT !.at = "pause"])
    /\ due' = posted
    /\ UNCHANGED <<workerVars, posted, closeVars, dangling>>

(* Its time is over, or its 100 ms loop sees m_closed.                     *)
PauseOver ==
    /\ depth > 0 /\ top.at = "pause" /\ due = {}
    /\ SetTop([top EXCEPT !.at = "go"])
    /\ UNCHANGED <<workerVars, posted, due, closeVars, dangling>>

RunTest_OffByOne ==
    /\ depth > 0 /\ top.at \in {"step", "go"} /\ top.cmds = 0 /\ top.tests >= 0
    /\ startWorkInAThread([top EXCEPT !.tests = @ - 1, !.tested = TRUE])
    /\ UNCHANGED <<proc, m_killed, m_errMsg, posted, due, m_closed, closed, dangling>>

(* The pause is skipped when the user set none.                            *)
RunTest ==
    /\ depth > 0 /\ top.at \in {"step", "go"} /\ top.cmds = 0 /\ top.tests > 0
    /\ startWorkInAThread([top EXCEPT !.tests = @ - 1, !.tested = TRUE])
    /\ UNCHANGED <<proc, m_killed, m_errMsg, posted, due, m_closed, closed, dangling>>

(* The script of the next test cannot be written: the batch is given up.   *)
ScriptFails ==
    /\ depth > 0 /\ top.at \in {"step", "go"} /\ top.cmds = 0 /\ top.tests > 0
    /\ Return
    /\ UNCHANGED <<workerVars, posted, due, closeVars, dangling>>

(* The next fan duty, for the devices that are selected by then; or the    *)
(* end: "Batch test is completed!".                                        *)
DutyOver ==
    /\ depth > 0 /\ top.at = "step" /\ top.cmds = 0 /\ top.tests = 0
    /\ \/ /\ top.duties > 1
          /\ \E t \in 0 .. MaxTests :
                SetTop([top EXCEPT !.duties = @ - 1, !.cmds = FanCmds, !.tests = t])
       \/ /\ top.duties = 1
          /\ Return
    /\ UNCHANGED <<workerVars, posted, due, closeVars, dangling>>

-----------------------------------------------------------------------------
(* The loop of startWorkInAThread, and what follows it.                    *)

isFinished(j) == thread[j] = "done"

(* while (false == workerThread->isFinished()), then m_errMsg is thrown.   *)
CheckFinished ==
    /\ depth > 0 /\ top.at = "check"
    /\ \/ /\ thread[top.job] = "none"
          /\ dangling' = TRUE
          /\ UNCHANGED <<depth, frame, due>>
       \/ /\ isFinished(top.job)
          /\ IF top.job \in m_errMsg THEN Return
             ELSE SetTop([top EXCEPT !.at = "step", !.job = NoJob])
          /\ UNCHANGED <<due, dangling>>
       \/ /\ thread[top.job] # "none" /\ ~isFinished(top.job)
          /\ SetTop([top EXCEPT !.at = "events"])
          /\ due' = posted
          /\ UNCHANGED dangling
    /\ UNCHANGED <<workerVars, posted, closeVars>>

HasProcess(j) == thread[j] \in {"new", "wait", "freed"}

killProcess_Throw ==
    /\ depth > 0 /\ top.at = "events" /\ due = {}
    /\ IF m_closed THEN Return ELSE SetTop([top EXCEPT !.at = "check"])
    /\ UNCHANGED <<workerVars, posted, due, closeVars, dangling>>

killProcess_Never ==
    /\ depth > 0 /\ top.at = "events" /\ due = {}
    /\ SetTop([top EXCEPT !.at = "check"])
    /\ UNCHANGED <<workerVars, posted, due, closeVars, dangling>>

(* processEvents returns once what was queued has been delivered.  After a *)
(* close it is followed by killProcess, whose test of m_process and        *)
(* m_killed and whose call of terminate are two steps: the worker's thread *)
(* runs beside them.                                                       *)
killProcess ==
    /\ depth > 0 /\ top.at = "events" /\ due = {}
    /\ IF m_closed /\ thread[top.job] = "none"
       THEN dangling' = TRUE /\ UNCHANGED <<depth, frame>>
       ELSE /\ SetTop([top EXCEPT !.at =
                   IF m_closed /\ HasProcess(top.job) /\ top.job \notin m_killed
                   THEN "term" ELSE "check"])
            /\ UNCHANGED dangling
    /\ UNCHANGED <<workerVars, posted, due, closeVars>>

Terminate_NoWait ==
    /\ depth > 0 /\ top.at = "term"
    /\ LET j == top.job
       IN  IF thread[j] \in {"new", "wait"}
           THEN /\ m_killed' = m_killed \cup {j}
                /\ proc' = [proc EXCEPT ![j] = IF @ = "running" THEN "signalled" ELSE @]
                /\ Return
                /\ UNCHANGED dangling
           ELSE /\ dangling' = TRUE
                /\ UNCHANGED <<m_killed, proc, depth, frame>>
    /\ UNCHANGED <<thread, m_errMsg, posted, due, closeVars>>

(* QProcess::terminate signals the program if there is one by now.  The    *)
(* QProcess may be deleted by now.                                         *)
Terminate ==
    /\ depth > 0 /\ top.at = "term"
    /\ LET j == top.job
       IN  IF thread[j] \in {"new", "wait"}
           THEN /\ m_killed' = m_killed \cup {j}
                /\ proc' = [proc EXCEPT ![j] = IF @ = "running" THEN "signalled" ELSE @]
                /\ SetTop([top EXCEPT !.at = "check"])
                /\ UNCHANGED dangling
           ELSE /\ dangling' = TRUE
                /\ UNCHANGED <<m_killed, proc, depth, frame>>
    /\ UNCHANGED <<thread, m_errMsg, posted, due, closeVars>>

-----------------------------------------------------------------------------
(* WorkerThread::run, and the program it runs.                             *)

Construct(j) ==
    /\ thread[j] = "run"
    /\ thread' = [thread EXCEPT ![j] = "new"]
    /\ UNCHANGED <<guiVars, proc, m_killed, m_errMsg, posted, due, closeVars, dangling>>

(* start and waitForStarted.  A program that fails to start is given up,   *)
(* the QProcess deleted.                                                   *)
StartProgram(j) ==
    /\ thread[j] = "new"
    /\ \/ /\ thread' = [thread EXCEPT ![j] = "wait"]
          /\ proc' = [proc EXCEPT ![j] = "running"]
          /\ UNCHANGED m_errMsg
       \/ /\ thread' = [thread EXCEPT ![j] = "freed"]
          /\ m_errMsg' = m_errMsg \cup {j}
          /\ UNCHANGED proc
    /\ UNCHANGED <<guiVars, m_killed, posted, due, closeVars, dangling>>

ProgramEnds(j) ==
    /\ proc[j] \in {"running", "signalled"}
    /\ proc' = [proc EXCEPT ![j] = "ended"]
    /\ UNCHANGED <<guiVars, thread, m_killed, m_errMsg, posted, due, closeVars, dangling>>

(* waitForFinished reaps the child; the QProcess is deleted.               *)
Collect(j) ==
    /\ thread[j] = "wait" /\ proc[j] = "ended"
    /\ thread' = [thread EXCEPT ![j] = "freed"]
    /\ proc' = [proc EXCEPT ![j] = "none"]
    /\ UNCHANGED <<guiVars, m_killed, m_errMsg, posted, due, closeVars, dangling>>

(* waitForFinished gives up instead ("not finished!"): the destructor of   *)
(* the QProcess kills a program that still runs.  Nobody may count on it.  *)
WaitFails(j) ==
    /\ thread[j] = "wait"
    /\ thread' = [thread EXCEPT ![j] = "freed"]
    /\ proc' = [proc EXCEPT ![j] = "none"]
    /\ m_errMsg' = m_errMsg \cup {j}
    /\ UNCHANGED <<guiVars, m_killed, posted, due, closeVars, dangling>>

(* m_process = nullptr and run returns: isFinished() holds from now on and *)
(* finished() is emitted.                                                  *)
Finish(j) ==
    /\ thread[j] = "freed"
    /\ thread' = [thread EXCEPT ![j] = "done"]
    /\ posted' = posted \cup {j}
    /\ UNCHANGED <<guiVars, proc, m_killed, m_errMsg, due, closeVars, dangling>>

-----------------------------------------------------------------------------
Gui ==
    \/ setFanDuty \/ pauseBar \/ PauseOver \/ RunTest \/ ScriptFails \/ DutyOver
    \/ CheckFinished \/ killProcess \/ Terminate
    \/ \E j \in Jobs : DeliverFinished(j)

Run(j) == Construct(j) \/ StartProgram(j) \/ Collect(j) \/ Finish(j)

Next ==
    /\ ~dangling
    /\ \/ StartBatch \/ closeEvent \/ Gui
       \/ \E j \in Jobs : Run(j) \/ ProgramEnds(j) \/ WaitFails(j)

Spec == Init /\ [][Next]_vars

(* The threads run.  A program owes nothing until it gets SIGTERM (a fio   *)
(* test takes minutes), and the user owes nothing.                         *)
Fairness ==
    /\ WF_vars(~dangling /\ Gui)
    /\ \A j \in Jobs : WF_vars(~dangling /\ Run(j))
    /\ \A j \in Jobs : WF_vars(~dangling /\ proc[j] = "signalled" /\ ProgramEnds(j))

FairSpec == Spec /\ Fairness

-----------------------------------------------------------------------------
(* Properties.                                                             *)

(* A program never outlives the call that waits for it: whichever of the   *)
(* nested handlers return, throw or are closed upon, a running program is  *)
(* one some startWorkInAThread still waits for ("too premature to end the  *)
(* thread").                                                               *)
NoOrphan ==
    \A j \in Jobs : proc[j] \in {"running", "signalled"} =>
        \E i \in 1 .. depth : frame[i].job = j /\ frame[i].at \in Waiting

(* Once the window was closed no batch on the stack, however deep below    *)
(* the one that was served, starts another worker: startWorkInAThread.     *)
NoJobAfterClose ==
    [][closed => \A j \in Jobs : thread'[j] = "run" => thread[j] = "run"]_vars

(* Where the call of each handler on the stack is, for Calls.              *)
ProgramAt(j) ==
    IF thread[j] \in {"run", "new"} THEN "asked"
    ELSE IF proc[j] \in {"running", "signalled"} THEN "running"
    ELSE "over"

CallAt(n) ==
    IF n > depth THEN "none"
    ELSE IF frame[n].at \notin Waiting THEN "own"
    ELSE ProgramAt(frame[n].job)

Abstract == INSTANCE Calls WITH call <- [n \in 1 .. MaxNest |-> CallAt(n)]

(* To the batches startWorkInAThread is a plain call of a program: it is   *)
(* run once, nothing above a call is left when it comes back, and neither  *)
(* a kill, a throw nor a close brings it back before its program has ended *)
(* (startWorkInAThread with WorkerThread::run).                            *)
ImplementsCalls == Abstract!CallsSpec

(* killProcess gave up on a program that did not run yet.                  *)
KillLost == \E j \in m_killed : proc[j] = "running"

(* Closing the window ends every handler on the stack, though the programs *)
(* would run for ever, unless a kill was lost or a deleted worker used     *)
(* (see the two properties below).                                         *)
CloseUnwinds == closed ~> (depth = 0 \/ KillLost \/ dangling)

(* "Just kill the process and wait the thread to be finished instead": a   *)
(* worker that counts as killed has no program running on unharmed         *)
(* (comment in startWorkInAThread).                                        *)
KillReaches == ~KillLost

(* "a member m_errMsg is created and used for message passing between      *)
(* threads": the worker whose members the loop reads is not deleted        *)
(* (comment of startWorkInAThread).                                        *)
WorkerAlive ==
    \A i \in 1 .. depth : frame[i].at \in Waiting => thread[frame[i].job] # "none"

=============================================================================
