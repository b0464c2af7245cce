------------------------------ MODULE FioBatch ------------------------------
(***************************************************************************)
(* The test batches over the window's picture of the slots: autofio_wls,   *)
(* btnFio2GoClicked and btnListSdxClicked of widget.cpp, with the scripts  *)
(* they write (sdxlist_wl1, _wl2), setFanDuty and pauseBar.                *)
(*                                                                         *)
(* Window is what Canvas promises of that picture.  A batch reads it       *)
(* between its programs, and while a program, a pause or a message box     *)
(* lasts the window is refreshed, clicked and closed, and another batch    *)
(* may be started on top of the waiting one.  How a program is run is      *)
(* Worker's subject: here it takes any time and succeeds or fails.         *)
(*                                                                         *)
(* Data kept of a script: the drives it has a job for and those the test   *)
(* is aimed at.  The time in its name tells it from every other; nobody    *)
(* reads the fio2 scripts and the listings again, and they are not kept.   *)
(***************************************************************************)
EXTENDS Window, SequencesExt

CONSTANTS
    FD,          \* fan duties, the last is 100% (6 in the program)
    RW_ALL,      \* tests of an fio2 batch over all RW actions (4)
    MaxNest,     \* bound on handlers waiting inside each other
    MaxChanges,  \* bound on later refreshes and on clicks of single boxes
    MaxErrors    \* bound on batches that are thrown out of

ASSUME BatchAssumption ==
    /\ NEXPDR \in Nat \ {0} /\ NSLOT_PEREXP \in Nat \ {0}
    /\ FD \in Nat \ {0} /\ RW_ALL \in Nat \ {0}
    /\ MaxNest \in Nat /\ MaxChanges \in Nat /\ MaxErrors \in Nat
    /\ NoDev \notin Drive

VARIABLES
    stack,       \* the handlers on the GUI thread; the last one runs
    fd,          \* cb_fd50 .. cb_fd100: isChecked()
    fdEnabled,   \* their isEnabled(), which is set for all at once
    fan,         \* the duty the fans turn at, 0: the board's own
    scripts,     \* autofio scripts on the disk, by their time
    errors,      \* messages of batches that were thrown out of
    m_closed,    \* Widget::m_closed # 0
    closed,      \* the window's close button was pressed
    changes      \* how many of these there were

batchVars == <<stack, fd, fdEnabled, fan, scripts, errors>>
closeVars == <<m_closed, closed>>
vars == <<winVars, batchVars, closeVars, changes>>

Duties == 1 .. FD
Handler == {"autofio", "fio2", "list"}

(* Where events are delivered: a modal box is open, or a program or a      *)
(* pause lasts ("fan2" becomes "set" when the board has obeyed).           *)
Boxes == {"ask", "told"}
Programs == {"fan1", "fan2", "set", "test"}
Waits == Boxes \cup Programs \cup {"pause"}
Runs == {"begin", "duty", "expander", "slot", "round", "write", "written", "over"}

Script == [jobs : SUBSET Drive, aim : SUBSET Drive]
NoScript == [jobs |-> {}, aim |-> {}]

(* What a handler read and nothing came between: the window, when it began,*)
(* when it entered the expander and when it looked at the slot; the fans it*)
(* has set, as long as no other batch begins on top of it.                 *)
Fresh == {"begin", "expander", "slot", "fan"}

(* sl: the slot the loops have reached; loops and devCount: the factors of *)
(* the announced total; time: that of its script on the disk, 0 for none.  *)
Frame == [kind : Handler, at : Waits \cup Runs, duty : 1 .. FD + 1, sl : 0 .. NSLOT,
          devCount : 0 .. NSLOT, loops : 0 .. FD + RW_ALL, processed : Nat,
          tested : BOOLEAN, script : Script, time : 0 .. MaxErrors, fresh : SUBSET Fresh]

TypeOK ==
    /\ stack \in Seq(Frame) /\ Len(stack) <= MaxNest
    /\ fd \in [Duties -> BOOLEAN] /\ fdEnabled \in BOOLEAN
    /\ fan \in 0 .. FD
    /\ scripts \subseteq 1 .. MaxErrors /\ errors \in 0 .. MaxErrors
    /\ m_closed \in BOOLEAN /\ closed \in BOOLEAN

NewFrame(kind, at) ==
    [kind |-> kind, at |-> at, duty |-> 1, sl |-> 0, devCount |-> 0, loops |-> 0,
     processed |-> 0, tested |-> FALSE, script |-> NoScript, time |-> 0, fresh |-> {}]

(* The form has every fan duty checked; m_closed is not initialised.       *)
Init ==
    /\ WinInit
    /\ stack = <<>> /\ scripts = {} /\ errors = 0 /\ changes = 0
    /\ fd = [l \in Duties |-> TRUE] /\ fdEnabled = TRUE
    /\ fan = 0
    /\ m_closed \in BOOLEAN /\ closed = FALSE

-----------------------------------------------------------------------------
Expander(sl) == sl \div NSLOT_PEREXP
Occupied == {sl \in Slots : pic[sl] # NoDev}
Selected == {sl \in Occupied : checked[sl]}
Testable == {sl \in Selected : Expander(sl) \in pathed}

(* block(i) of each of the slots.                                          *)
Blocks(slots) == {pic[sl] : sl \in slots}

(* sdxlist_sit: every drive of the expanders with a working path.          *)
sdxlist_sit == Blocks({sl \in Occupied : Expander(sl) \in pathed})

sdxlist_wl_Next(slots) ==
    [jobs |-> sdxlist_sit,
     aim |-> Blocks({sl \in Occupied : Expander(sl) \in pathed /\ sl - 1 \in slots})]

(* sdxlist_wl1 and sdxlist_wl2: a job for each of them, and the workload's *)
(* write job for the target slots.                                         *)
sdxlist_wl(slots) ==
    [jobs |-> sdxlist_sit,
     aim |-> Blocks({sl \in slots : sl \in Occupied /\ Expander(sl) \in pathed})]

top == Last(stack)
SetTop(f) == stack' = [stack EXCEPT ![Len(stack)] = f]

(* The end of a handler; autofio_wls enables the fan duties again.         *)
Leave ==
    /\ stack' = Front(stack)
    /\ fdEnabled' = (fdEnabled \/ top.kind = "autofio")

Throw == Leave /\ errors' = errors + 1

(* startWorkInAThread refuses when the window is closed.                   *)
StartProgram(f) ==
    \/ m_closed /\ Throw
    \/ ~m_closed /\ SetTop(f) /\ UNCHANGED <<fdEnabled, errors>>

Running(kinds, at) ==
    /\ ~busy /\ stack # <<>> /\ top.kind \in kinds /\ top.at = at

Batches == {"autofio", "fio2"}
Undisturbed == UNCHANGED <<winVars, closeVars, changes>>

-----------------------------------------------------------------------------
(* The window, while nobody is in the way.                                 *)

Serving == ~busy /\ (stack # <<>> => top.at \in Waits)
Clickable == Serving /\ ~closed /\ (stack # <<>> => top.at \notin Boxes)

(* Something comes between: no handler on the stack is told of it.         *)
ComesBetween ==
    stack' = [n \in DOMAIN stack |->
                [stack[n] EXCEPT !.fresh = @ \ {"begin", "expander", "slot"}]]

Disturb ==
    /\ ComesBetween
    /\ changes < MaxChanges /\ changes' = changes + 1
    /\ UNCHANGED <<fd, fdEnabled, fan, scripts, errors, closeVars>>

(* filloutCanvas keeps the check marks when the watcher calls it.          *)
showModified ==
    Serving /\ checked' = checked /\ BeginRefresh /\ Disturb

btnRefreshClicked ==
    Clickable /\ checked' = Unchecked /\ BeginRefresh /\ Disturb

filloutCanvas ==
    /\ \/ EndRefresh
       \/ \E sl \in Slots : Hide(sl) \/ \E d \in Drive : Show(sl, d)
       \/ \E el \in Expdrs : Reach({el})
    /\ UNCHANGED <<batchVars, closeVars, changes>>

ClickSlot(sl) ==
    Clickable /\ Click([checked EXCEPT ![sl] = ~@]) /\ Disturb

(* The boxes that are enabled on the FIO tabs: the occupied slots'.        *)
btnSelectAllClicked ==
    /\ Clickable /\ Click([sl \in Slots |-> checked[sl] \/ sl \in Occupied])
    /\ ComesBetween
    /\ UNCHANGED <<fd, fdEnabled, fan, scripts, errors, closeVars, changes>>

ClickDuty(l) ==
    /\ Clickable /\ fdEnabled
    /\ fd' = [fd EXCEPT ![l] = ~@]
    /\ changes < MaxChanges /\ changes' = changes + 1
    /\ UNCHANGED <<winVars, stack, fdEnabled, fan, scripts, errors, closeVars>>

closeEvent ==
    /\ Clickable
    /\ closed' = TRUE /\ m_closed' = TRUE
    /\ UNCHANGED <<winVars, batchVars, changes>>

-----------------------------------------------------------------------------
(* The beginning of the handlers.                                          *)

Push(f) ==
    /\ Clickable
    /\ Len(stack) < MaxNest /\ errors + Len(stack) < MaxErrors
    /\ stack' = Append(stack, f)
    /\ UNCHANGED <<fd, fdEnabled, fan, scripts, errors>> /\ Undisturbed

(* The listing is written first; the message box shows its name.           *)
btnListSdxClicked ==
    \/ Push(NewFrame("autofio", "ask"))
    \/ \E list \in {[jobs |-> sdxlist_sit, aim |-> {}], sdxlist_wl(Selected)} :
          Push([NewFrame("list", "told") EXCEPT !.script = list])

btnFio2GoClicked == Push(NewFrame("fio2", "begin"))

(* The box is answered: OK, or Cancel.                                     *)
Answer ==
    /\ \/ Running({"autofio"}, "ask") /\ SetTop([top EXCEPT !.at = "begin"])
       \/ (Running({"autofio"}, "ask") \/ Running({"list"}, "told")) /\ stack' = Front(stack)
    /\ UNCHANGED <<fd, fdEnabled, fan, scripts, errors>> /\ Undisturbed

(* Whoever waits below gets to know of nothing: neither that the fans are  *)
(* set nor, after an autofio batch, that the fan duties are enabled.       *)
Begin(f) ==
    stack' = [n \in DOMAIN stack |->
                IF n = Len(stack) THEN f
                ELSE [stack[n] EXCEPT !.fresh =
                        @ \ (IF f.kind = "autofio" THEN {"fan", "begin"} ELSE {"fan"})]]

Disabled_Never == UNCHANGED fdEnabled
Disabled == fdEnabled' = FALSE

(* autofio_wls up to its loops.  Without a fan duty it takes 100%.         *)
BeginAutofio ==
    /\ Running({"autofio"}, "begin")
    /\ fd' = IF \E l \in Duties : fd[l] THEN fd ELSE [fd EXCEPT ![FD] = TRUE]
    /\ \/ Selected = {} /\ Throw
       \/ /\ Selected # {} /\ Disabled /\ UNCHANGED errors
          /\ Begin([top EXCEPT !.at = "duty", !.fresh = {"begin"}, !.devCount = Cardinality(Selected),
                               !.loops = Cardinality({l \in Duties : fd'[l]})])
    /\ UNCHANGED <<fan, scripts>> /\ Undisturbed

BeginFio2 ==
    /\ Running({"fio2"}, "begin")
    /\ \/ (Selected = {} \/ m_closed) /\ Throw
       \/ /\ Selected # {} /\ ~m_closed /\ UNCHANGED <<fdEnabled, errors>>
          /\ Begin([top EXCEPT !.at = "fan1", !.fresh = {"fan"}, !.duty = FD,
                               !.devCount = Cardinality(Selected)])
    /\ UNCHANGED <<fd, fan, scripts>> /\ Undisturbed

-----------------------------------------------------------------------------
(* The programs, for whichever handler waits for one.                      *)

(* The board obeys the second ipmitool command, which may come late.       *)
FanTurns(n) ==
    /\ ~busy /\ stack[n].at = "fan2"
    /\ fan' = stack[n].duty
    /\ stack' = [stack EXCEPT ![n].at = "set"]
    /\ UNCHANGED <<fd, fdEnabled, scripts, errors>> /\ Undisturbed

Fails_Ignored ==
    /\ \/ \E at \in Programs \ {"fan2"} : Running(Batches, at) /\ Throw
       \/ /\ Running(Batches, "fan2") /\ SetTop([top EXCEPT !.at = "set"])
          /\ UNCHANGED <<fdEnabled, errors>>
    /\ UNCHANGED <<fd, fan, scripts>> /\ Undisturbed

(* Its message is thrown: the batch is over.                               *)
Fails ==
    /\ \E at \in Programs : Running(Batches, at) /\ Throw
    /\ UNCHANGED <<fd, fan, scripts>> /\ Undisturbed

(* setFanDuty's first command is followed by its second.                   *)
Commanded ==
    /\ Running(Batches, "fan1") /\ StartProgram([top EXCEPT !.at = "fan2"])
    /\ UNCHANGED <<fd, fan, scripts>> /\ Undisturbed

(* After setFanDuty the autofio batch walks the expanders; an fio2 batch   *)
(* looks how many tests are asked for.                                     *)
FanSet ==
    /\ Running(Batches, "set")
    /\ \/ top.kind = "autofio" /\ SetTop([top EXCEPT !.at = "expander", !.sl = 0])
       \/ /\ top.kind = "fio2"
          /\ \E n \in {1, RW_ALL} : SetTop([top EXCEPT !.at = "round", !.loops = n])
    /\ UNCHANGED <<fd, fdEnabled, fan, scripts, errors>> /\ Undisturbed

PastSlot_NoEnd(f) == [f EXCEPT !.sl = @ + 1, !.at = "slot", !.fresh = @ \ {"slot"}]

(* sl is done: the next one of the expander, or the next expander.         *)
PastSlot(f) ==
    IF (f.sl + 1) % NSLOT_PEREXP = 0
    THEN [f EXCEPT !.sl = @ + 1, !.at = "expander", !.fresh = @ \ {"slot", "expander"}]
    ELSE [f EXCEPT !.sl = @ + 1, !.at = "slot", !.fresh = @ \ {"slot"}]

Removed_Kept(time) == scripts
Removed(time) == scripts \ {time}

(* The test succeeded; an autofio script is removed.                       *)
Tested ==
    /\ Running(Batches, "test")
    /\ scripts' = Removed(top.time)
    /\ LET f == [top EXCEPT !.script = NoScript, !.time = 0]
       IN  SetTop(IF f.kind = "autofio" THEN PastSlot(f) ELSE [f EXCEPT !.at = "round"])
    /\ UNCHANGED <<fd, fdEnabled, fan, errors>> /\ Undisturbed

-----------------------------------------------------------------------------
(* The loops.                                                              *)

(* for l: the next checked fan duty, or the end of the batch.              *)
NextDuty ==
    /\ Running({"autofio"}, "duty")
    /\ \/ /\ top.duty > FD /\ SetTop([top EXCEPT !.at = "over"])
          /\ UNCHANGED <<fdEnabled, errors>>
       \/ /\ top.duty <= FD /\ ~fd[top.duty] /\ SetTop([top EXCEPT !.duty = @ + 1])
          /\ UNCHANGED <<fdEnabled, errors>>
       \/ /\ top.duty <= FD /\ fd[top.duty]
          /\ StartProgram([top EXCEPT !.at = "fan1", !.fresh = @ \cup {"fan"}])
    /\ UNCHANGED <<fd, fan, scripts>> /\ Undisturbed

(* for k: the expander's path is looked at once, on entering it.           *)
NextExpander ==
    /\ Running({"autofio"}, "expander")
    /\ \/ /\ top.sl = NSLOT
          /\ SetTop([top EXCEPT !.at = "duty", !.duty = @ + 1])
       \/ /\ top.sl < NSLOT /\ Expander(top.sl) \notin pathed
          /\ SetTop([top EXCEPT !.sl = @ + NSLOT_PEREXP])
       \/ /\ top.sl < NSLOT /\ Expander(top.sl) \in pathed
          /\ SetTop([top EXCEPT !.at = "slot", !.fresh = @ \cup {"expander"}])
    /\ UNCHANGED <<fd, fdEnabled, fan, scripts, errors>> /\ Undisturbed

(* Before every test but the first there is a pause, unless it is set to 0.*)
PauseOrWrite(f) ==
    \E at \in {"write"} \cup (IF f.tested THEN {"pause"} ELSE {}) :
        SetTop([f EXCEPT !.at = at, !.tested = TRUE])

(* for i: the occupied and checked slots are tested.                       *)
NextSlot ==
    /\ Running({"autofio"}, "slot")
    /\ \/ top.sl \notin Selected /\ SetTop(PastSlot(top))
       \/ top.sl \in Selected /\ PauseOrWrite([top EXCEPT !.fresh = @ \cup {"slot"}])
    /\ UNCHANGED <<fd, fdEnabled, fan, scripts, errors>> /\ Undisturbed

(* for m: the next RW action, or the end of the batch.                     *)
NextRound ==
    /\ Running({"fio2"}, "round")
    /\ \/ top.processed = top.loops /\ SetTop([top EXCEPT !.at = "over"])
       \/ top.processed < top.loops /\ PauseOrWrite(top)
    /\ UNCHANGED <<fd, fdEnabled, fan, scripts, errors>> /\ Undisturbed

(* pauseBar: the time is over, or its 100 ms loop sees m_closed.           *)
pauseBar ==
    /\ Running(Batches, "pause") /\ SetTop([top EXCEPT !.at = "write"])
    /\ UNCHANGED <<fd, fdEnabled, fan, scripts, errors>> /\ Undisturbed

Listing(f) ==
    IF f.kind = "autofio" THEN sdxlist_wl({f.sl})
    ELSE [jobs |-> Blocks(Testable), aim |-> Blocks(Testable)]

(* The test is announced, (processed/total), and its script written.       *)
WriteScript ==
    /\ Running(Batches, "write")
    /\ \/ Throw /\ UNCHANGED scripts
       \/ LET time == IF top.kind = "autofio"
                       THEN CHOOSE t \in 1 .. MaxErrors : t \notin scripts ELSE 0
          IN  /\ SetTop([top EXCEPT !.at = "written", !.processed = @ + 1, !.time = time,
                                    !.script = Listing(top)])
              /\ scripts' = scripts \cup ({time} \ {0})
              /\ UNCHANGED <<fdEnabled, errors>>
    /\ UNCHANGED <<fd, fan>> /\ Undisturbed

RunTest ==
    /\ Running(Batches, "written") /\ StartProgram([top EXCEPT !.at = "test"])
    /\ UNCHANGED <<fd, fan, scripts>> /\ Undisturbed

(* "Batch test is completed!"                                              *)
EndBatch ==
    /\ Running(Batches, "over") /\ Leave
    /\ UNCHANGED <<fd, fan, scripts, errors>> /\ Undisturbed

-----------------------------------------------------------------------------
Next ==
    \/ showModified \/ btnRefreshClicked \/ filloutCanvas
    \/ \E sl \in Slots : ClickSlot(sl)
    \/ btnSelectAllClicked
    \/ \E l \in Duties : ClickDuty(l)
    \/ closeEvent \/ btnListSdxClicked \/ btnFio2GoClicked \/ Answer
    \/ BeginAutofio \/ BeginFio2
    \/ \E n \in DOMAIN stack : FanTurns(n)
    \/ Fails \/ Commanded \/ FanSet \/ Tested
    \/ NextDuty \/ NextExpander \/ NextSlot \/ NextRound \/ pauseBar
    \/ WriteScript \/ RunTest \/ EndBatch

Spec == Init /\ [][Next]_vars

-----------------------------------------------------------------------------
(* Properties.                                                             *)

Frames == {stack[n] : n \in DOMAIN stack}

(* "Batch test is completed!" in a window that nobody touched and nothing  *)
(* refreshed: an autofio batch made one test per fan duty and selected     *)
(* drive whose expander has a path, no matter that the announced total     *)
(* counts the others too, and did not exceed that total; the boxes of the  *)
(* fan duties could not be changed meanwhile (autofio_wls).                *)
Complete ==
    \A f \in Frames : (f.kind = "autofio" /\ f.at = "over" /\ "begin" \in f.fresh) =>
        /\ f.processed = f.loops * Cardinality(Testable)
        /\ f.processed <= f.loops * f.devCount

(* What an autofio test writes to, when its script has been written.  The  *)
(* box and the drive were looked at before the pause and the path even     *)
(* before the expander's first test: as long as nothing came between, the  *)
(* slot is still selected, and the script is aimed at its drive and at     *)
(* nothing else (autofio_wls, sdxlist_wl1, sdxlist_wl2).                   *)
AimedAtSelected ==
    \A f \in Frames : (f.kind = "autofio" /\ f.at = "written") =>
        /\ "slot" \in f.fresh => f.sl \in Selected
        /\ "expander" \in f.fresh => f.script.aim = {pic[f.sl]}
        /\ f.script.aim \subseteq Blocks({f.sl}) \cap f.script.jobs

(* A script that is still on the disk is that of a test that runs, or one  *)
(* an error message tells of: batches that go through, nested or not, and  *)
(* tests that are cancelled leave none (autofio_wls).                      *)
ScriptsExplained ==
    Cardinality(scripts) <= errors + Cardinality({n \in DOMAIN stack : stack[n].time # 0})

(* A test runs at the fan duty its name tells, though the fans are set     *)
(* once per duty, unless another batch began on top of it since, or it is  *)
(* itself on top of one whose ipmitool is still to take effect.            *)
DutyHeld ==
    \A n \in DOMAIN stack : (stack[n].at = "written" /\ "fan" \in stack[n].fresh) =>
        \/ fan = stack[n].duty
        \/ \E m \in 1 .. n - 1 : stack[m].at \in {"fan1", "fan2", "set"}

=============================================================================
