# Formal models of myDino

myDino is a Qt program that shows the drives behind SAS expanders, one check
box per slot, switches their phys off and on, and runs fio tests on them. These
TLA+ modules model it: what the window shows while drives come and go, what the
batches of tests make of it, what happens to background programs while the
window is used and closed, and how adapters and expanders are asked. TLC checks
them on small machines; TLAPS proves some of the properties for every machine.

All paths below are relative to `src/`.

## 1. Inventory

| Component | Source | State | Operations |
|---|---|---|---|
| Slot and expander tables | `widget.h:49-152`, `widget.cpp:29-243` | `DeviceFunc`: per slot name, DISCOVER response, check box; a counter. `ExpanderFunc`: per box name, address, working path; a counter | `clear`, three `setSlot`s, `setDiscoverResp`, `setController`, `setBsgPath` |
| Listing | `lsscsi.cpp` | globals `cardType`, `enclosure_device` | `list_sdevices`: scan sysfs, tell enclosures from devices, place devices, ask the RAID tool when nothing was found |
| Slot discovery | `smp_discover.cpp:947-1022, 1260-1373`, `mpi3mr_app.cpp:427-461` | none of its own | `slot_discover` (HBA9500), `mpi3mr_slot_discover` (HBA9600), both through `do_multiple_slot` |
| Adapter information | `mpi3mr_app.cpp:463-1044` | `adpinfo`, `ioc_facts`, `hba_sas_exp`, `ioc_cnt` | `mpi3mr_iocfacts` (which also registers working paths), `get_infofacts` |
| Event handlers | `widget.cpp:342-372, 748-774, 888-1008` | `lastIndex` of `tabSelected` | refresh, select all, tab change, watcher, phy control |
| Background programs | `worker.h`, `widget.cpp:487-532` | `m_process`, `m_killed`, `m_errMsg`, `m_closed` | `startWorkInAThread`, `run`, `killProcess`, `closeEvent` |
| Test batches | `widget.cpp:374-485, 534-741, 776-886` | locals of the handlers | `autofio_wls`, `btnFio2GoClicked`, `setFanDuty`, `pauseBar` |
| SMP frames | `smp_discover.cpp:635-1022`, `mpi3mr_app.cpp:784-853` | the response buffer | `get_num_phys`, `do_discover`, `smp_report_manufacturer`, default lengths |
| Transport | `smp_discover.cpp:375-606, 1024-1138`, `mpi3mr_app.cpp:53-363` | `smp_target_obj`, descriptors | `smp_initiator_open`, `_close`, `smp_send_req` and its three ways to send |
| Console discovery | `smp_discover.cpp:797-890`, `mpi3mr_app.cpp:395-426` | none | `mpi3mr_discover`, `do_multiple` |
| MPT path | `smp_discover.cpp:1140-1258` | none | `mpt_discover`, `smp_discover`, which no code calls |
| Entry point, layout, headers | `main.cpp`, `widget.ui`, `mpi*.h` | - | third-party or without state |

How they interact: the constructor, the Refresh button, the watcher on
`/dev/bsg` and the phy control button call `filloutCanvas`, which clears both
tables, calls `list_sdevices`, and then the slot discovery the card type asks
for. Both fill the tables through the global objects `gDevices` and
`gControllers`. The tab and phy control handlers, and the batches, read what the
last refresh left there. A batch calls `startWorkInAThread`, which starts a
thread and waits for it in a loop of `processEvents`: every other handler may
run inside it. A listing, a slot discovery and the queries of adapters are
sequences of `ioctl`s, each of which may fail or be cut short.

What makes it hard:

- *The hardware does not wait.* A refresh reads sysfs entry by entry and asks
  the expanders phy by phy; between two reads drives, expanders and the
  kernel's view of them change. The kernel lags behind the hardware.
- *Handlers run inside handlers*: in the delay loop of the phy control button, in
  the loop of `startWorkInAThread`, in `pauseBar`.
- *Three parties without a lock*: the GUI thread, the worker thread and the
  child process, with `deleteLater` as a fourth hand on the worker.
- *Globals survive*: `cardType` and `enclosure_device` decide how the next
  refresh works; the adapter tables are those of the last query.
- *Four ways to fail*: an `ioctl` that fails, a status word, a short answer and
  a refusal take different ways through the checks and back to the loops.

What makes each part correct: a slot shows the drive that sits in it (tables,
listing); what is known to be off is not shown as present, the announced counts
are the shown ones, and the window settles on what is there (refresh); the right
boxes can be clicked (tabs); only phys of slots the user sees checked are
controlled (phy control); a test writes to the drive whose box is checked, and a
batch that says it is complete is (test batches); no program outlives the
handler that waits for it, and a close ends everything (background programs); an
answer is the answer to the request just sent (frames); what is shown of an
adapter and a box is theirs, and nothing is left out or left open (discoveries).

`PROJECT.json` lists the hazards one by one, each at its line.

## 2. Modules

| Module | Role |
|---|---|
| `SlotTable` | the two tables; operations as actions on their variables |
| `Window` | the abstract picture the tables give to those who read them |
| `Canvas` | `EXTENDS SlotTable`: refresh, event handlers, hardware and kernel; implements `Window` |
| `MCCanvas` | small machines for TLC |
| `EmptyRead`, `MCEmptyRead` | `EXTENDS Canvas`: an enclosure that vanishes between the `fopen` and the `fgets` of its address |
| `CanvasProofs`, `CountProofs`, `PhyProofs` | theorems about `Canvas` |
| `WindowProofs` | `Canvas` implements `Window` |
| `FioBatch`, `MCFioBatch` | `EXTENDS Window`: the test batches that read the picture |
| `FioBatchProofs` | theorems about `FioBatch` |
| `Calls` | what `startWorkInAThread` promises to the batches that call it |
| `Worker`, `WorkerProofs` | threads, programs, nested batches, close; implements `Calls` |
| `SmpFrames`, `SmpFramesProofs` | pure operators: what arrives in a response buffer and what the checks make of it |
| `SmpSession` | `EXTENDS SlotTable, SmpFrames`: one conversation with an expander |
| `HbaQuery`, `MCHbaQuery` | `EXTENDS SmpSession`: the discoveries, with the query of the adapters |
| `HbaQueryProofs` | theorems about `HbaQuery` |

Three compositions hold them together. `Canvas` and `HbaQuery` work on the same
tables, `SlotTable`; what `Canvas` does in one step `DiscoverPhy`, which may
fail, `HbaQuery` does with the frames on the wire. `FioBatch` is written over
`Window`, and `Canvas` implements `Window`: what holds of a batch over any such
picture holds over the tables. `FioBatch` lets a program take any time and end
well or badly, under the handler that asked for it; `Worker` is how that program
is started, waited for and killed, and implements `Calls`, which is what
`FioBatch` relies on.

### SlotTable and Canvas

`d_name`, `resp`, `enabled`, `checked` are the members of `SlotInfo` that later
code reads; `ctrl` and `bsg_path` those of `GboxInfo` (the address is the
property of the enclosure named in `ctrl`); `devCount` and `expCount` are the
`myCount`s. A response is reduced to the phy it came from and the link state:
`off` (negotiated rate 1), `empty` (attached type 0) or `on`.

`plugged`, `off` and `sysfs` are outside the program: what is there, which phys
are disabled, and what the kernel lists. `HotSwap` changes the first,
`btnSmpDoitClicked` the second, and `KernelSync` brings the third in line, one
device at a time, leaving a pending `directoryChanged` (`dirty`).

A refresh is a sequence of actions, cut where the code reads sysfs or sends a
request (`pc`):

| `pc` | Actions | Code |
|---|---|---|
| `idle` / `start` | `BeginRefresh` in the handlers and `Construct` | clears, `scandir` of `list_sdevices` |
| `list` | `ListDevice`, `ListEnclosure`, `ListEnd` | the loop over `namelist`, in `cmp_hctl` order |
| `wwid` | `ExpanderWwid` | `expander_wwid` |
| `place` | `PlaceDevice`, `PlaceEnd` | the inner loop over `namelist[prev .. k-1]` |
| `raid` | `RaidDrive`, `RaidEnd` | the RAID branch |
| `fill` | `DispatchHBA9600`, `DispatchHBA9500`, `DispatchNone` | the rest of `filloutCanvas`, `mpi3mr_iocfacts`, scan of `/dev/bsg` |
| `disc` | `OpenExpander`, `DiscoverPhy`, `CloseExpander`, `EndRefresh` | both slot discoveries with `do_multiple_slot` |

Everything runs on the GUI thread, so user handlers need `pc = "idle"`. The
delay loop of the phy control button is a second kind of idleness: `awaiting`
counts the handlers inside it, and `DelayOver` is what each does afterwards.

`HardwareAssumption` says what machine the program is written for: expanders
with distinct index bits, each phy wired to at most one slot of its own
expander, slot phys from 4 on.

### Window

`pic` is the drive each slot shows, `checked` its box, `pathed` the expanders
with a working path, and `busy` that a refresh runs. A refresh begins with
nothing shown; while it runs drives appear in their own slots (`Show`), a slot
whose phy is off is emptied and unchecked (`Hide`), paths are found (`Reach`);
after it only boxes change (`Click`). `Canvas!Win` maps `d_name`, `checked`, the
expanders with a `bsg_path`, and `pc # "idle"` to these. The promise is what a
handler needs to be written as if the tables stood still between refreshes; that
no drive moves to another slot is half of it, and that nothing but a refresh
changes the picture, the delay loop of the phy control button included, is the
other half.

### FioBatch

`stack` holds the handlers on the GUI thread, batches and the listing button,
the last one running; a frame's `at` is its place in the code:

| `at` | Place in `autofio_wls` and `btnFio2GoClicked` | Actions |
|---|---|---|
| `ask`, `told` | a modal message box is open | `Answer` |
| `begin` | checks before the loops | `BeginAutofio`, `BeginFio2` |
| `duty` | `for l` over the fan duties | `NextDuty` |
| `fan1`, `fan2`, `set` | the two `ipmitool`s of `setFanDuty`; the board has obeyed | `Commanded`, `FanTurns`, `FanSet` |
| `expander`, `slot` | `for k`, `for i` | `NextExpander`, `NextSlot` |
| `round` | `for m` over the RW actions | `NextRound` |
| `pause` | `pauseBar` | `pauseBar` |
| `write`, `written` | around `sdxlist_wl1`, `_wl2` | `WriteScript`, `RunTest` |
| `test` | fio runs | `Tested`, `Fails` |
| `over` | "Batch test is completed!" | `EndBatch` |

`Waits` are the places where events are delivered: there the window may be
refreshed, clicked and closed, and other handlers start. `fresh` records what a
frame has read since when nothing came between; no action's guard reads it, it
only says in the properties which promise a batch can still keep. `scripts` are
the files on the disk, `errors` the batches that ended by a message.

### SmpFrames, SmpSession, HbaQuery

A frame keeps the fields the program reads, each with the offset of its last
byte. An `Outcome` is what one `ioctl` may do; `send_req_lin_bsg`,
`send_req_mpt` and `send_req_mpi3mr_bsg` say what it leaves in the caller's
buffer and in the counters; `Checked` is the common body of the three callers
that examine a response; `FunctionResult` is what the loops recover from it.

`SmpSession` has the object and the descriptors (`tobj`, `fds`), the two walks
over the phys, and an environment in which nodes and expanders come and go
(`MaxChanges`) and requests fail in each of the ways of `Spoilt` (`MaxFaults`).
`HbaQuery` makes of it the five discoveries:

| `pc` | Actions | Code |
|---|---|---|
| `idle` | `Start` | the callers: `filloutCanvas`, the Discover button |
| `node` | `OpenNode`, `NodesDone` | the loop over `/dev/bsg` or `/dev` |
| `addr` | `NextAddress`, `AddressesDone` | console discoveries: each known expander through each node |
| `path` | `OpenPath`, `PathsDone` | the loop of `mpi3mr_slot_discover` |
| `general`, `phy` | `ReportGeneral`, `AskPhy` | `do_multiple` |
| `slot` | `AskSlotPhy` | `do_multiple_slot` |
| `walked`, `close` | `Walked`, `Close` | after a walk |
| `adpinfo`, `facts` | `populate_adpinfo`, `issue_iocfacts` | one adapter in `mpi3mr_iocfacts` |
| `encl`, `qcmd` | `cfg_get_enclosure_pg0`, `mpi3mr_qcmd` | enclosure pages, READ BUFFER of the SES processor |
| `exp`, `manu` | `cfg_get_sas_exp_pg0`, `report_manufacturer` | expander pages, REPORT MANUFACTURER |
| `closeIoc` | `CloseIoc` | the next adapter |

Of the data of `adpinfo`, `ioc_facts` and `hba_sas_exp` the model keeps whose it
is: `exps[c][x].encl` is the box whose logical id stands in entry `x` of row
`c`, and so on. `Shown` are the entries `get_infofacts` prints.

### Worker

`frame[1 .. depth]` is the stack of batch handlers on the GUI thread; only the
top one runs. `at` is its program counter: `check` (the `isFinished` test),
`events` (in `processEvents`), `term` (between the tests of `killProcess` and
its call of `terminate`), `pause` (in `pauseBar`), `step` and `go` (between
calls). `thread[j]` is where the worker's `run` is, `proc[j]` its program.
`posted` are the queued `finished` signals and `due` those that a running event
loop must still deliver before it returns. Where C++ leaves the behaviour
undefined (a deleted worker or `QProcess` is used) `dangling` is set and the
model stops.

Both batch handlers are one machine: two `ipmitool` calls per fan duty, then the
tests, with a pause before each but the first of the batch. `btnFio2GoClicked`
is the case of one fan duty. How many tests there are is chosen here, since the
slots a batch tests are read from the tables as it goes; which they are is
`FioBatch`'s subject.

### Calls

`Worker` shows a batch four parties at work; a batch should see a procedure call.
`Calls` says so: per handler on the stack the place of its call is `none` (there
is no such handler), `own` (it is not in a call), `asked`, `running` or `over`.
A program may start, fail to start or end at any time, also under a handler that
others were started on top of (`Runs`); handlers come, call, and get their calls
back only on top of the stack (`Stacks`); nothing is called after a close.
`CallAt` maps `Worker` to it: the handler's place, and for one that waits the
state of its worker's thread and program. A kill, a deletion, a delivery of
`finished` and the way through the waiting loop are stutters. The mapping leaves
no way to come back from a call whose program runs, to run a program twice, or to
answer a call with the end of another's program.

## 3. Runs

| Run | Question | Bounds |
|---|---|---|
| `HBA9600` | `TypeOK`, `RightSlot`, `PhyOffVacant`, `CountsMatch`, `Controllable`, `PhyControlAsShown`, `Converges`, `ImplementsWindow` | two expanders of two slots, disks in slots 2 and 3, a boot disk on another host; the SMP tab; requests may fail; two changes |
| `HBA9500` | `RightSlot`, `CountsMatch`, `TabEnables`, `PhyControlAsShown` | as `HBA9600`, with a virtual device without a wwid, and the tabs SMP, FIO2 and Info |
| `RAID9x60` | `RightSlot`, `CountsMatch`, `Converges` | four drives, one slot number off the table, one drive not reported, one change |
| `Worker` | `TypeOK`, `NoOrphan`, `NoJobAfterClose`, `CloseUnwinds`, `ImplementsCalls` | two nested batches, fan duties, one test each, three workers |
| `FioBatch` | `TypeOK`, `Complete`, `AimedAtSelected`, `ScriptsExplained`, `DutyHeld` | two drives in one of two expanders, two fan duties, two RW actions, one batch on top of another, one refresh or click beside "select all", two errors |
| `HbaQuery` | `TypeOK`, `SameBox`, `OwnAnswer`, `NoLeak`, `NoStaleInfo`, `NothingLost`, `AsDiscoverPhy` | three adapters and three expanders, tables of two by two, four phys, two MPT nodes, one change and one fault |

What the less obvious properties say:

- `PhyControlAsShown` (an action property): whatever phys change, they are those
  of slots the user sees checked, or none.
- `Complete`: "Batch test is completed!" in a window nobody touched means one
  test per fan duty and selected drive that can be reached.
- `AimedAtSelected`: the drive a script writes to, in terms of what the batch
  looked at before the pause and before the expander's first test.
- `ScriptsExplained`: what is left on the disk is explained by a test that
  runs or by a message that was shown.
- `DutyHeld`: tests run at the fan duty their name tells, and the cases of
  nesting in which they may not.
- `ImplementsCalls`: to a batch each of its programs is a plain call, whatever is
  nested, killed or closed meanwhile.
- `SameBox`: `iexp` counts enclosures and `e` expanders, and either loop may end
  early; the two still number the boxes alike.
- `NothingLost`: without a fault every slot that can be reached is asked, has
  its path and its entry, at the limits of all loops.
- `AsDiscoverPhy`: request, transport, checks and storing together write what
  `Canvas!DiscoverPhy` writes in one step, or nothing, under every failure. This
  is the seam between the two models: `Canvas` takes a DISCOVER for one step (and
  writes the expander itself for its path, where `HbaQuery` has the node).

Why these bounds are enough for the interesting cases. Two expanders give a
neighbour whose slots a device could land in; an empty bay and a phy without a
slot number are present; the expander can vanish between being listed and being
asked. Two changes (hot swaps or phy control rounds) allow to pull and return,
to disable and pull, to disable and enable. `MaxNest = 1` in `Canvas` lets every
handler run inside one delay loop. In `Worker` three workers are needed: one the
outer batch waits for, one the inner batch has just finished with and that is
not deleted yet, and one it starts next. In `FioBatch` two drives in one
expander let the pause, the path looked at too early and a slot that is no
longer selected meet; the second expander has no drives but may have or lack a
path; two duties make the fans turn twice and the announced total a product; two
errors let an inner batch fail, and then the outer. In `HbaQuery` the first
adapter fills its row of two expanders, the third adapter finds no room, walks
end by NO PHY, at a vacant phy and at the last phy asked, and the one change is
an expander, an adapter, or all of them (which leaves `/dev/bsg` without a node
and `mpi3mr_iocfacts` on its early return). One fault suffices, because the
properties that allow faults are about each answer, and the ones that do not
start again with the next discovery.

Deadlock is checked in the `Canvas` runs and in `HbaQuery`. It is not in the
`Worker` and `FioBatch` runs: after the close, when all batches have returned,
the program ends, and in `Worker` there is no step after `dangling`.

### Fairness

`Canvas!Fairness`: the GUI thread goes on with a refresh it has started (WF); the
kernel catches up with each device (WF per device); a posted event is not
overtaken for ever (SF on `showModified` and `DelayOver`), because Qt's event
queue is first in, first out while the user may click for ever. The user and the
hardware owe nothing. Hardware changes end because `MaxChanges` ends them:
`Converges` is about what happens then.

`Worker!Fairness`: the GUI thread and each worker thread run (WF); a program that
got SIGTERM ends (WF). A program without SIGTERM owes nothing: `CloseUnwinds`
must not depend on fio's run time. Nor does anything owe a `waitForFinished` that
gives up (`WaitFails`), which would end a program without a kill. Delivering an event counts as the GUI
thread's step; a frame leaves `processEvents` only when what was queued on entry
is delivered, so the loop cannot be held by later clicks.

### Disagreements with the program's own comments

Six runs expect a violation of what a comment says; `PROJECT.json` has the
quotes.

- `bug_9500_boot`: on an HBA9500 a disk without an `enclosure_device` link gets
  the slot the previous linked disk named (`lsscsi.cpp:599`).
- `bug_card_sticky`: one refresh that finds nothing turns an HBA9600 into an
  `UNKNOWN` card for the rest of the session (`lsscsi.cpp:605`).
- `bug_lost_kill`: a close between `new QProcess` and the program's start loses
  the only `terminate` (`worker.h:75`).
- `bug_worker_deleted`: the waiting loop itself delivers the worker's
  `deleteLater` and then uses the worker (`widget.cpp:502, 513`).
- `bug_empty_wwid`: an enclosure that vanishes between the `fopen` and the
  `fgets` of its `sas_address` gets the address 0x3F, of which no error is
  reported: its drives are shown in the slots of the expander with index 0, over
  the drives that are there (`lsscsi.cpp:332-337, 365, 586`). The module of this
  run follows such a refresh to the end of its listing; what later discoveries
  and phy control make of the address 0x3F is not modelled.
- `bug_do_multiple`: "Returns 0 if ok, else function result", but when REPORT
  GENERAL fails no phy is asked and 0 is returned, and a vacant last phy makes
  the result 22 (`smp_discover.cpp:801, 823, 838`).

The passing runs stay clear of the first two by their machines, which are
ordinary ones: the HBA9500 has no boot disk with a wwid, and of two expanders on
the HBA9600 only one is removable. `CloseUnwinds` names the next two as its
exceptions. An empty read cannot happen in the passing runs, since `Canvas`
takes the read of an address for one step (`ExpanderWwid`): its properties hold
of refreshes in which no address is read empty.

### Behaviour worth knowing

The properties are stated around these:

- `m_closed` is never initialised (`widget.h:197`) and the window is on the stack
  of `main`: if what is there is not 0, every batch ends at once with "Close
  button is pressed!" in a window nobody closed. `Worker` starts with either
  value, and its properties hold for both; one step shows the defect, so no run
  is spent on it.
- A slot that is unchecked while the pause before its test lasts is still
  tested: the box is read before the pause (`widget.cpp:639`).
- A selected drive whose expander has no path counts in the announced total and
  is passed over; the batch completes with fewer tests, or none
  (`widget.cpp:609, 631`).
- A batch started on top of another sets the fans for both, and an autofio batch
  on top enables the fan duty boxes while the outer batch still walks them
  (`widget.cpp:626, 687`).
- A batch that is thrown out of leaves its script on the disk
  (`widget.cpp:672`).
- When `/dev/bsg` has no node the counter of adapters keeps its old value; the
  rows it counts are blank (`mpi3mr_app.cpp:874`).
- `open_mpt_device` forgets a descriptor it refuses (`smp_discover.cpp:1058`);
  `NoLeak` names those nodes.

## 4. Proofs

Every theorem holds for all values of the constants that satisfy the assumptions
of the modules it extends:

- `Canvas`: `TableAssumption` (the tables are not empty, the kinds of names are
  disjoint), `HardwareAssumption` (section 2) and `BoundsAssumption` (the bounds
  are numbers).
- `FioBatch`: `BatchAssumption`, `Worker`: `BoundsAssumption`: sizes and bounds
  are numbers, "no drive" is not a drive.
- `HbaQuery`: `TableAssumption`, `SessionAssumption` (four boxes, expanders with
  distinct index bits whose phys are numbered from 0, at most the 32 phys
  `do_multiple_slot` asks for, and fewer slots than the byte of a slot number can
  tell from "none") and `QueryAssumption` (the rooms of the tables are positive,
  an expander node has one expander behind it, the adapter's own enclosure is no
  expander). How many adapters and nodes there are, what is behind which, and
  the room of the tables are left open.
- `SmpFrames` has no assumption: its theorems are about any request and any
  outcome of it.

Two hypotheses are not assumptions but stand in the theorems that need them.
`TargetsFollowBays` (`RightSlotSafe`, `CountsSafe`, `WindowImplemented`): target
numbers follow the bays as `setSlot` expects, drives on a RAID card are in no
expander's bay, and every disk with a wwid on an HBA9500 has its enclosure link
(`bug_9500_boot` shows what happens without that). `OneDrivePerSlot`
(`CountsSafe`): no two drives share a bay or a reported slot.
`MCCanvas!MachineAssumption` has TLC confirm both for the machines of the runs.

| Theorem | Statement |
|---|---|
| `CanvasProofs!TypeCorrect` | `Spec => [](TypeOK /\ PhaseInv)` |
| `CanvasProofs!PhyOffSafe` | `Spec => []PhyOffVacant` |
| `CanvasProofs!TabSafe` | `Spec => []TabEnables` |
| `CanvasProofs!RightSlotSafe` | `TargetsFollowBays` implies `Spec => []RightSlot` |
| `CountProofs!CountsSafe` | `TargetsFollowBays` and `OneDrivePerSlot` imply `Spec => []CountsMatch` |
| `CountProofs!ControllableSafe` | `Spec => []Controllable` |
| `PhyProofs!PhyControlSafe` | `Spec => PhyControlAsShown` |
| `WindowProofs!WindowImplemented` | `TargetsFollowBays` implies `Spec => ImplementsWindow` |
| `FioBatchProofs!TypeCorrect` | `Spec => []TypeOK` |
| `FioBatchProofs!ScriptsSafe` | `Spec => []ScriptsExplained` |
| `FioBatchProofs!AimSafe` | `Spec => []AimedAtSelected` |
| `FioBatchProofs!DutySafe` | `Spec => []DutyHeld` |
| `FioBatchProofs!CompleteSafe` | `Spec => []Complete` |
| `WorkerProofs!TypeCorrect` | `Spec => []TypeOK` |
| `WorkerProofs!NoOrphanSafe` | `Spec => []NoOrphan` |
| `WorkerProofs!NoneAfterClose` | `Spec => NoJobAfterClose` |
| `WorkerProofs!CallsImplemented` | `Spec => ImplementsCalls` |
| `SmpFramesProofs!LengthCovered` | an accepted length covers a header and no more than what arrived |
| `SmpFramesProofs!FunctionResultRecovered` | the loops see the function result that was sent |
| `SmpFramesProofs!NothingStale` | in a zeroed buffer every byte is zero or of this answer |
| `SmpFramesProofs!SlotNumberIsTheAnswers` | over Linux bsg the slot number is of this answer, zeroed or not |
| `SmpFramesProofs!PacketsFit` | the packets for mpi3mr add up and fit the pools |
| `HbaQueryProofs!NoLeakSafe` | `Spec => []NoLeak` |
| `HbaQueryProofs!OwnAnswerSafe` | `Spec => []OwnAnswer` |
| `HbaQueryProofs!NoStaleInfoSafe` | `Spec => []NoStaleInfo` |
| `HbaQueryProofs!SameBoxSafe` | `Spec => []SameBox` |
| `HbaQueryProofs!TypeCorrect` | `Spec => []TypeOK` |
| `HbaQueryProofs!NothingLostSafe` | `Spec => []NothingLost` |
| `HbaQueryProofs!DiscoverPhyTold` | `Spec => AsDiscoverPhy` |

The arguments:

- *PhyOffVacant* is not inductive: placing a device in a slot with an old "off"
  response would break it. `PhaseInv` adds that no response is stored before
  the discovery phase of a refresh (`clear` removed them all), and that an
  enclosure being worked on is one. Placement happens only before that phase,
  and in the discovery phase slots only become vacant.
- *TabEnables* speaks of idle moments and of `tab`, but `tabSelected` decides by
  `lastIndex`, which SG3 and Info do not change. `TabInv` states, also in the
  middle of a refresh, what a vacant slot with a response looks like for each
  pair of tab and `lastIndex` that can occur; it needs `PhaseInv` again.
- *RightSlot* by itself does not know which computation placed the drive.
  `SlotInv` adds that only an HBA9500 makes `cardType` that, so the slot named by
  the last `enclosure_device` link is the entry's own, and that on the RAID path
  only reported drives are left. `PhaseInv` says that the enclosure placing a
  drive is one, whatever was pulled since the scan.
- *CountsMatch*: the counters go up without looking whether the slot or box was
  vacant, and down when a lagging drive is removed. `CountInv` says at every step
  of a refresh that they equal what is shown, which holds because a drive finds
  its slot vacant: nothing shown is still to be placed (`todo`, `pend`), and by
  `OneDrivePerSlot` no other drive has its slot. An enclosure finds its box empty
  in the same way. The RAID path begins with nothing shown.
- *Controllable*: `PathInv` follows a path from where it is found to where it is
  used. Path and box of one index belong to the same expander, the expanders
  still to be asked in the discovery have theirs already, and only a RAID
  card has dummy paths.
- *PhyControlAsShown* combines three invariants: `WiredInv` (a stored response
  names the phy wired to its slot), `TabInv` (what can be checked is enabled) and
  `PathInv`. A slot number belongs to one phy of one expander, so the phys of
  other slots are not reached.
- *ImplementsWindow*: step by step, with `SlotInv` for the drive that appears
  (it appears in its own slot), `PhaseInv` for slots that are emptied in the
  discovery only, and `StartInv` for a refresh that begins with nothing shown. A
  hardware or kernel event is a stutter.
- *TypeOK* of `FioBatch` contains that there is always a free name for a script;
  it rests on `BatchInv`, which bounds the stack and says what each place of a
  handler implies for its loop variables.
- *ScriptsExplained* compares two numbers. `BatchInv` has the sets: a script that
  no waiting frame owns is an error's, two frames own two scripts, and one
  error leaves at most one.
- *AimedAtSelected* and *DutyHeld* speak of what a frame has read when nothing
  came between (`fresh`). `AimInv` says of each frame what it still knows by
  which entry of `fresh`, that frames below the top wait, and that a refresh in
  progress has taken the claims away. For the fans `DutyInv` says that a frame
  that has set them and keeps the claim finds them so, unless a lower frame's
  `ipmitool` is to take effect; a batch that begins takes every lower one's claim.
- *Complete* speaks of the end of four nested loops. `CompleteInv` counts the tests
  on the way (`Tallied`): every fan duty behind is worth all testable slots, the
  present one those before the slot the loops are at, and one more while its test
  runs. What it counts stays as it is meanwhile: a batch that keeps its claim has
  seen no refresh or click, the boxes of the fan duties are disabled, and an
  autofio batch on top of it, which enables them when it ends, takes the claim.
- *NoOrphan* is not inductive: the program is started by a thread that was
  started long before. `OrphanInv` says that a program belongs to a thread at
  `wait`, that a thread which has not returned is awaited by a frame from its
  creation on, and that only a thread that is done has a queued `finished`, so
  that only such a worker is deleted. A waiting frame keeps its place on the
  stack because only the top frame moves, and it leaves the loop only when its
  worker is done.
- *NoJobAfterClose* needs that `closed` implies `m_closed`, by which every
  `startWorkInAThread` is refused.
- *ImplementsCalls* needs `OrphanInv` and `CallInv`: no two waiting frames share
  a worker, so a step of a thread or a program moves one call only, and `closed`
  implies `m_closed`. A frame leaves its waiting loop only when its worker is
  done, whose program is over. The rest shows that the step of a handler on top
  leaves the calls below alone (`BelowKept`), and moves its own as `Stacks` allows.
- *NoLeak* needs `LeakInv`: between two conversations (`pc` in `idle`, `node`,
  `path`) the object is closed, so an open never overwrites a node that is open.
- *OwnAnswer* needs of the frames (`AnswerOrLittle`, from `LengthCovered`) that a
  DISCOVER which passes the checks leaves the whole answer, or so little of it
  that its initiator bits and slot number are still the zeros of the buffer: then
  neither a path nor a response is stored. Of the discoveries it needs that the
  expander that answers is one behind the open node (`PeerReached`), and that the
  address `report_manufacturer` registers a path by is that of such an expander
  (`AnswerInv`, from the page just read).
- *NoStaleInfo* needs to know which rows are done, being filled, and blank.
  `InfoInv` says that the row being filled speaks of the open node, which is one
  the query found (`seen`), that the rows above it are blank, and that they are
  blank before each adapter as long as the directory has one left. The counter,
  which keeps its old value when there is no adapter, then counts blank rows.
- *SameBox* compares fields two loops filled, so `SameInv` says what either loop
  does: the number of an entry is the number of expander pages before its page
  (`Placed`). That number belongs to one box (`PlaceIsOne`), and in both loops the
  counter equals the number of expander pages up to the handle reached
  (`Counted`): the adapter's own enclosure, which one list has and the other has
  not, comes before all of them, and is the only page the loop over enclosures
  passes over without counting.
- *TypeOK* of `HbaQuery` rests on the invariants above and on `StepsInv`: which
  steps each discovery has, that the loop over the expanders is within its bound
  where a conversation is held (`InLoop`), and that the variables of a walk are at
  rest elsewhere. `TypeInv` adds a type for each group of variables, narrower than
  `TypeOK` where a step needs it: a walk counts to `NUM_PHY` only, a page still to
  be used has a number, and an entry is written only while there is room for it.
- *NothingLost* speaks of the end of a refresh, `LostInv` of what is done at each
  place on the way, as long as nothing failed or moved (`Clean`):
  `AskedInv` of the walk (the phys below `k` of the expander talked to have told
  what they are for, and one expander at most is talked to), `PassedInv` of the
  nodes of `slot_discover`, and, of `mpi3mr_slot_discover`, `FilledInv` of the
  row being filled, `AdaptersInv` of the adapters read and `PathsInv` of the
  paths asked. The step that closes an adapter (`RowShows`) needs a count: the
  entries filled are as many as the expanders listed or as there is room for, so
  the entry with the number of an expander (`Placed`, from *SameBox*) has been
  filled, in all four fields and with that expander's data. `TurnBehind` counts
  the adapters: those the full tables leave out are beyond `NUM_IOC` in the
  order of the directory, where the property does not ask for them. That the
  response stored for a slot is that of the slot's own phy is *OwnAnswer*, with
  the slots of two expanders being apart (`SlotsApart`). No step takes away what
  another has stored (`Onward`). TLC has checked `LostInv` as an invariant of the
  machine of the run `HbaQuery`.
- *AsDiscoverPhy* has two cases for the frame that passed the checks
  (`AnswerOrLittle`): it is the answer, and then the fields that are read say what
  the phy is wired to (`SeenAsWired`), or it is too short to name an initiator or
  a slot, and then nothing is stored (`NoSlotTold`).

Only model-checked: `Converges` and `CloseUnwinds`, which need fairness and are
beyond the prover. Every safety property of a passing run, every action property
and both refinements are theorems.

## 5. What is not modelled

- Labels, colours, the wording of messages and of the Info tab, and
  `cbxSlotIndexChanged` and `btnClearTBClicked`, which change nothing else; the
  lines that console discoveries print.
- The text of `storcli64`, `lsblk` and sysfs: what is in it is modelled, not how
  it is parsed. The RAID tool and `lsblk` are asked at one time.
- A heap that is exhausted (`smp_memalign` failing), and `get_all_tgt_info`,
  whose only call is compiled out (`#if 0`).
- Header and page of a configuration page are one request in `HbaQuery`: both
  fail alike, and nothing is kept between them.
- The scripts of `btnFio2GoClicked` and of the listings are not kept: one name is
  overwritten each time. Names of autofio scripts are told apart by the second in
  which they are written; the model gives a script any free name.
- Phy control on top of a batch: `Canvas` has phy control, `FioBatch` has the
  refresh it ends with.
- Devices with several LUNs, two expanders with the same index bits, and RAID
  enclosures whose slot numbers collide: `HardwareAssumption` or the machine of
  the run excludes them.
- Rewiring: a drive that is pulled returns to its own bay.
- On a RAID card a drive that is pulled and returned between the reading of the
  RAID tool's list and the kernel's notice leaves no trace for the watcher, and
  its slot stays vacant until the next refresh. `RAID9x60` allows one change, so
  `Converges` does not claim otherwise.
- `main.cpp`, the form and the build, and third-party headers.

What the model assumes of the firmware: it lists the adapter's own enclosure
first, then those of the expanders in the order of the expander pages, and only
its own enclosure lacks a SES processor. `SameBox` depends on this, and the code
does too: it pairs by position what comes from two lists (`mpi3mr_app.cpp:939`).

`OwnAnswer` does not show why `do_discover` zeroes its buffer: the bytes of
another phy's answer would be rejected by other checks in every outcome
`SmpSession` has. `NothingStale` is the theorem about the zeroing.

The discoveries over MPT (`mpt_discover`, `smp_discover`) are called by no code.
They are modelled as operations like the others.

## 6. Plan

1. `Calls` under `FioBatch`, in place of the steps `Commanded` and `Tested`.
2. `HbaQuery!Start` as the listing of `Canvas`, as `AsDiscoverPhy` has its
   discovery.
