------------------------------- MODULE Canvas -------------------------------
(***************************************************************************)
(* The main window between the hardware and the tables: filloutCanvas with *)
(* everything it calls (list_sdevices, slot_discover, mpi3mr_slot_discover *)
(* and do_multiple_slot), the event handlers that start it or read its     *)
(* results, and the hardware and kernel that change while it runs.         *)
(*                                                                         *)
(* All handlers run on the GUI thread, so a handler only starts when no    *)
(* other one runs (pc = "idle").  The hardware is not on that thread: a    *)
(* refresh is cut at every point where it reads sysfs or sends a request,  *)
(* and drives come and go between any two steps of it.                     *)
(***************************************************************************)
EXTENDS SlotTable

CONSTANTS
    Card,        \* the adapter that is installed
    Hctl,        \* <<host, channel, target, lun>> of each SCSI device
    Index,       \* WWID_TO_INDEX of each expander's SAS address
    Wiring,      \* per expander, phy -> slot number, HbaPhy or NoSlot
    Bay,         \* the <<expander, phy>> a disk is plugged into, or NoBay
    RaidSlot,    \* the slot a RAID card reports for a drive, or NoRaid
    NoWwid,      \* disks without a wwid attribute ("Virtual" BMC devices)
    Removable,   \* devices that are plugged and pulled
    SmpMayFail,  \* whether a request to a present expander can fail
    Tabs,        \* tabs the user opens
    MaxChanges,  \* bound on hot plugs and phy control rounds
    MaxNest      \* bound on nested delays of the SMP "Do it" button

HbaPhy == 0
NoSlot == -1
NoBay == <<NoDev, -1>>
NoRaid == -1
ENUM_CARDTYPE == {"UNKNOWN", "HBA9500", "HBA9600", "RAID9x60"}

AllPhys == {b \in Ses \X PhyIds : b[2] \in DOMAIN Wiring[b[1]]}
BaySlot(b) == Wiring[b[1]][b[2]] - 1

(* The hardware the program is written for: expanders in distinct index    *)
(* ranges, each phy wired to at most one slot of its own expander, slot    *)
(* phys numbered from 4 ("a resonable phy id (4 - 31)").                   *)
ASSUME HardwareAssumption ==
    /\ Card \in {"HBA9500", "HBA9600", "RAID9x60"}
    /\ Hctl \in [DName -> Nat \X Nat \X Nat \X Nat]
    /\ \A a, b \in DName : Hctl[a] = Hctl[b] => a = b
    /\ Index \in [Ses -> Expdrs]
    /\ \A s, t \in Ses : Index[s] = Index[t] => s = t
    /\ \A s \in Ses : /\ DOMAIN Wiring[s] \subseteq PhyIds
                      /\ \A p \in DOMAIN Wiring[s] :
                            \/ Wiring[s][p] \in {HbaPhy, NoSlot}
                            \/ /\ Wiring[s][p] - 1 \in SlotsOf(Index[s])
                               /\ p > 3
    /\ \A a, b \in AllPhys : BaySlot(a) = BaySlot(b) /\ BaySlot(a) \in Slots => a = b
    /\ Bay \in [Disk -> AllPhys \cup {NoBay}]
    /\ \A d \in Disk : Bay[d] # NoBay => BaySlot(Bay[d]) \in Slots
    /\ RaidSlot \in [Disk -> Int]
    /\ NoWwid \subseteq Disk /\ Removable \subseteq DName
    /\ SmpMayFail \in BOOLEAN
    /\ Tabs \subseteq ENUM_TAB
    /\ MaxChanges \in Nat /\ MaxNest \in Nat

VARIABLES
    plugged,     \* hardware: devices present
    off,         \* hardware: phys disabled by PHY CONTROL
    changes,     \* counts towards MaxChanges
    sysfs,       \* kernel: names in /sys/bus/scsi/devices; lags the hardware
    dirty,       \* a directoryChanged signal of m_Watcher is pending
    cardType,    \* the global of that name
    enclSlot,    \* slot named by the global enclosure_device.name, -1 at first
    lastIndex,   \* the static of tabSelected
    awaiting,    \* "Do it" handlers inside their delay loop
    pc,          \* where the GUI thread is
    todo,        \* names, drives or expanders the current loop has left
    pend,        \* namelist[prev .. k-1]: listed, not yet placed
    top,         \* the enclosure being placed, or the expander being explored
    left         \* phys do_multiple_slot has left to ask about

hwVars == <<plugged, off, changes, sysfs>>
loopVars == <<todo, pend, top, left>>
vars == <<slotVars, ctrlVars, tab, hwVars, dirty, cardType, enclSlot,
          lastIndex, awaiting, pc, loopVars>>

(* A disk answers when its expander is there and its phy is not disabled.  *)
Live == {d \in plugged : d \in Disk /\ Bay[d] # NoBay =>
                             Bay[d][1] \in plugged /\ Bay[d] \notin off}

(* What DISCOVER reports of phy p of expander s.                           *)
LinkOf(s, p) ==
    IF <<s, p>> \in off THEN "off"
    ELSE IF \E d \in plugged \cap Disk : Bay[d] = <<s, p>> THEN "on"
    ELSE "empty"

TypeOK ==
    /\ TableTypeOK
    /\ plugged \subseteq DName /\ sysfs \subseteq DName
    /\ off \subseteq Ses \X PhyIds
    /\ changes \in Nat /\ awaiting \in Nat
    /\ dirty \in BOOLEAN
    /\ cardType \in ENUM_CARDTYPE
    /\ enclSlot \in Int
    /\ lastIndex \in ENUM_TAB
    /\ pc \in {"start", "idle", "list", "wwid", "place", "raid", "fill", "disc"}
    /\ todo \subseteq DName /\ pend \subseteq DName
    /\ top \in Ses \cup {NoDev}
    /\ left \subseteq PhyIds

Init ==
    /\ TableInit
    /\ plugged \in {DName, DName \ Removable}
    /\ off = {} /\ changes = 0 /\ sysfs = Live
    /\ dirty = FALSE
    /\ cardType = "HBA9600" /\ enclSlot = -1
    /\ lastIndex = "SMP" /\ awaiting = 0
    /\ pc = "start"
    /\ todo = {} /\ pend = {} /\ top = NoDev /\ left = {}

-----------------------------------------------------------------------------
(* The environment.                                                        *)

(* A removable device is pulled or put back.                               *)
HotSwap(d) ==
    /\ d \in Removable /\ changes < MaxChanges
    /\ plugged' = IF d \in plugged THEN plugged \ {d} ELSE plugged \cup {d}
    /\ changes' = changes + 1
    /\ UNCHANGED <<slotVars, ctrlVars, tab, off, sysfs, dirty, cardType,
                   enclSlot, lastIndex, awaiting, pc, loopVars>>

(* The SCSI layer catches up on one device.  Its node in /dev/bsg comes or *)
(* goes with it, which the watcher reports; pending reports are merged.    *)
KernelSync(d) ==
    /\ (d \in sysfs) # (d \in Live)
    /\ sysfs' = IF d \in sysfs THEN sysfs \ {d} ELSE sysfs \cup {d}
    /\ dirty' = TRUE
    /\ UNCHANGED <<slotVars, ctrlVars, tab, plugged, off, changes, cardType,
                   enclSlot, lastIndex, awaiting, pc, loopVars>>

-----------------------------------------------------------------------------
(* filloutCanvas(uncheck) up to the scandir of list_sdevices.  When the    *)
(* SCSI mid level is not loaded the directory is missing and the listing   *)
(* returns at once, before its RAID branch.                                *)
BeginRefresh(uncheck) ==
    /\ ClearDevices(uncheck)
    /\ ClearControllers
    /\ \/ pc' = "list" /\ todo' = sysfs
       \/ pc' = "fill" /\ todo' = {} /\ sysfs = {}
    /\ pend' = {} /\ top' = NoDev /\ left' = {}
    /\ UNCHANGED <<tab, hwVars, cardType, enclSlot>>

(* The order of the listing, cmp_hctl.                                     *)
cmp_hctl(a, b) ==
    LET x == Hctl[a]
        y == Hctl[b]
    IN  \E i \in 1 .. 4 : x[i] < y[i] /\ \A j \in 1 .. i - 1 : x[j] = y[j]

First(d, S) == d \in S /\ \A e \in S \ {d} : cmp_hctl(d, e)

(* The enclosure_device:ArrayDevice link an HBA9500 disk has, as a slot.   *)
HasEnclosureLink(d) ==
    Card = "HBA9500" /\ d \in Disk /\ d \in sysfs /\ Bay[d] # NoBay

CardAfter(d) == IF HasEnclosureLink(d) THEN "HBA9500" ELSE cardType
EnclSlotAfter_First(d) ==
    IF HasEnclosureLink(d) /\ enclSlot = -1 THEN BaySlot(Bay[d]) ELSE enclSlot
EnclSlotAfter(d) == IF HasEnclosureLink(d) THEN BaySlot(Bay[d]) ELSE enclSlot

HasWwid(d) == d \in sysfs /\ d \notin NoWwid

(* One iteration of list_sdevices' loop, for an entry that is no (longer   *)
(* an) enclosure.  Looking for "enclosure" may find "enclosure_device",    *)
(* which makes the card an HBA9500 and names a slot; on an HBA9500 the     *)
(* entry then goes to the slot named last.                                 *)
ListDevice(d) ==
    /\ pc = "list" /\ First(d, todo)
    /\ d \notin Ses \cap sysfs
    /\ todo' = todo \ {d}
    /\ pend' = pend \cup {d}
    /\ cardType' = CardAfter(d) /\ enclSlot' = EnclSlotAfter(d)
    /\ IF cardType' = "HBA9500" /\ HasWwid(d)
       THEN SetSlot(enclSlot', d)
       ELSE UNCHANGED slotVars
    /\ UNCHANGED <<ctrlVars, tab, hwVars, dirty, lastIndex, awaiting, pc, top, left>>

ListEnclosure(s) ==
    /\ pc = "list" /\ First(s, todo)
    /\ s \in Ses \cap sysfs
    /\ todo' = todo \ {s}
    /\ top' = s /\ pc' = "wwid"
    /\ UNCHANGED <<slotVars, ctrlVars, tab, hwVars, dirty, cardType, enclSlot,
                   lastIndex, awaiting, pend, left>>

(* expander_wwid of the enclosure.  If it cannot be read any more, the     *)
(* entry stays in namelist[prev .. k-1] for the next enclosure.  (It may   *)
(* also vanish between open and read: EmptyRead.)                          *)
ExpanderWwid ==
    /\ pc = "wwid"
    /\ \/ /\ top \notin sysfs
          /\ pend' = pend \cup {top} /\ top' = NoDev /\ pc' = "list"
          /\ UNCHANGED ctrlVars
       \/ /\ top \in sysfs /\ cardType = "HBA9600"
          /\ pc' = "place"
          /\ UNCHANGED <<ctrlVars, pend, top>>
       \/ /\ top \in sysfs /\ cardType # "HBA9600"
          /\ SetController(Index[top], top)
          /\ top' = NoDev /\ pc' = "list"
          /\ pend' = pend \cup {top}
    /\ UNCHANGED <<slotVars, tab, hwVars, dirty, cardType, enclSlot, lastIndex,
                   awaiting, todo, left>>

compute_device_index(d, s) ==
    LET x == Hctl[d]
        y == Hctl[s]
    IN  IF x[1] = y[1] /\ x[2] = y[2] THEN y[3] - x[3] ELSE -1

SlotUnder_NoRange(d, s) ==
    (Index[s] + 1) * NSLOT_PEREXP - compute_device_index(d, s)

(* setSlot(dir, device, expander, wwid): the slot device d goes to when    *)
(* enclosure s claims it, -1 when it is not within s's domain.             *)
SlotUnder(d, s) ==
    LET i == compute_device_index(d, s)
    IN  IF i <= 0 \/ i > NSLOT_PEREXP THEN -1
        ELSE (Index[s] + 1) * NSLOT_PEREXP - i

PlaceDevice(d) ==
    /\ pc = "place" /\ First(d, pend)
    /\ pend' = pend \ {d}
    /\ IF HasWwid(d) THEN SetSlot(SlotUnder(d, top), d) ELSE UNCHANGED slotVars
    /\ UNCHANGED <<ctrlVars, tab, hwVars, dirty, cardType, enclSlot, lastIndex,
                   awaiting, pc, todo, top, left>>

PlaceEnd ==
    /\ pc = "place" /\ pend = {}
    /\ SetController(Index[top], top)
    /\ top' = NoDev /\ pc' = "list"
    /\ UNCHANGED <<slotVars, tab, hwVars, dirty, cardType, enclSlot, lastIndex,
                   awaiting, todo, pend, left>>

(* The loop is over.  With nothing found, the drives the RAID tool reports *)
(* are looked up.                                                          *)
ListEnd ==
    /\ pc = "list" /\ todo = {}
    /\ \/ /\ expCount = 0 /\ devCount = 0
          /\ cardType' = "RAID9x60"
          /\ pc' = "raid"
          /\ todo' = {d \in plugged \cap Disk : RaidSlot[d] # NoRaid}
       \/ /\ expCount # 0 \/ devCount # 0
          /\ pc' = "fill"
          /\ UNCHANGED <<cardType, todo>>
    /\ pend' = {}
    /\ UNCHANGED <<slotVars, ctrlVars, tab, hwVars, dirty, enclSlot, lastIndex,
                   awaiting, top, left>>

ReportedSlot_OffByOne(d) == RaidSlot[d]
ReportedSlot(d) == RaidSlot[d] - 1

(* One reported drive, in the tool's order: it is shown if the kernel      *)
(* lists a disk of that serial number and the slot is within the table.    *)
RaidDrive(d) ==
    /\ pc = "raid" /\ d \in todo
    /\ todo' = todo \ {d}
    /\ IF d \in sysfs THEN SetSlot(ReportedSlot(d), d) ELSE UNCHANGED slotVars
    /\ UNCHANGED <<ctrlVars, tab, hwVars, dirty, cardType, enclSlot, lastIndex,
                   awaiting, pc, pend, top, left>>

RaidEnd ==
    /\ pc = "raid" /\ todo = {}
    /\ \/ /\ devCount = 0
          /\ cardType' = "UNKNOWN"
          /\ UNCHANGED bsg_path
       \/ /\ devCount # 0
          /\ bsg_path' = [el \in Expdrs |-> DummyPath]
          /\ UNCHANGED cardType
    /\ pc' = "fill"
    /\ UNCHANGED <<slotVars, ctrl, expCount, tab, hwVars, dirty, enclSlot,
                   lastIndex, awaiting, loopVars>>

-----------------------------------------------------------------------------
(* The rest of filloutCanvas: slot discovery, chosen by the card type.     *)

(* mpi3mr_iocfacts: the expanders found in the HBA's configuration pages   *)
(* get its node as working path.  Only an mpi3mr adapter has such nodes.   *)
Explored == IF Card = "HBA9600" THEN plugged \cap Ses ELSE {}

DispatchHBA9600 ==
    /\ pc = "fill" /\ cardType = "HBA9600"
    /\ \E found \in IF SmpMayFail THEN SUBSET Explored ELSE {Explored} :
        bsg_path' = [el \in Expdrs |-> IF \E s \in found : Index[s] = el
                                      THEN CHOOSE s \in found : Index[s] = el
                                      ELSE bsg_path[el]]
    /\ todo' = {ctrl[el] : el \in {e \in Expdrs : bsg_path'[e] # NoPath}} \ {NoDev}
    /\ pc' = "disc"
    /\ UNCHANGED <<slotVars, ctrl, expCount, tab, hwVars, dirty, cardType,
                   enclSlot, lastIndex, awaiting, pend, top, left>>

(* slot_discover: the expander nodes of /dev/bsg, opened one by one.       *)
DispatchHBA9500 ==
    /\ pc = "fill" /\ cardType = "HBA9500"
    /\ todo' = plugged \cap Ses
    /\ pc' = "disc"
    /\ UNCHANGED <<slotVars, ctrlVars, tab, hwVars, dirty, cardType, enclSlot,
                   lastIndex, awaiting, pend, top, left>>

DispatchNone ==
    /\ pc = "fill" /\ cardType \notin {"HBA9500", "HBA9600"}
    /\ pc' = "idle"
    /\ UNCHANGED <<slotVars, ctrlVars, tab, hwVars, dirty, cardType, enclSlot,
                   lastIndex, awaiting, loopVars>>

(* An expander is opened: on an HBA9600 in the order of the group boxes,    *)
(* on an HBA9500 in the order of the node names, which says nothing of it. *)
OpenExpander(s) ==
    /\ pc = "disc" /\ top = NoDev /\ s \in todo
    /\ cardType = "HBA9600" => \A t \in todo : Index[s] <= Index[t]
    /\ todo' = todo \ {s} /\ top' = s /\ left' = DOMAIN Wiring[s]
    /\ UNCHANGED <<slotVars, ctrlVars, tab, hwVars, dirty, cardType, enclSlot,
                   lastIndex, awaiting, pc, pend>>

(* do_multiple_slot: one DISCOVER.  The phy cabled to the HBA yields the   *)
(* working path, every other phy the response of the slot it names.        *)
DiscoverPhy(p) ==
    /\ pc = "disc" /\ top # NoDev /\ top \in plugged
    /\ p \in left /\ \A q \in left : p <= q
    /\ left' = left \ {p}
    /\ IF Wiring[top][p] = HbaPhy
       THEN SetBsgPath(Index[top], top) /\ UNCHANGED slotVars
       ELSE /\ SetDiscoverResp(Wiring[top][p], [phy |-> p, link |-> LinkOf(top, p)])
            /\ UNCHANGED ctrlVars
    /\ UNCHANGED <<tab, hwVars, dirty, cardType, enclSlot, lastIndex, awaiting,
                   pc, todo, pend, top>>

(* The expander is done with, or a request (or the open) failed and its    *)
(* remaining phys are skipped.                                             *)
CloseExpander ==
    /\ pc = "disc" /\ top # NoDev
    /\ left = {} \/ top \notin plugged \/ SmpMayFail
    /\ top' = NoDev /\ left' = {}
    /\ UNCHANGED <<slotVars, ctrlVars, tab, hwVars, dirty, cardType, enclSlot,
                   lastIndex, awaiting, pc, todo, pend>>

EndRefresh ==
    /\ pc = "disc" /\ top = NoDev /\ todo = {}
    /\ pc' = "idle" /\ pend' = {}
    /\ UNCHANGED <<slotVars, ctrlVars, tab, hwVars, dirty, cardType, enclSlot,
                   lastIndex, awaiting, todo, top, left>>

Refreshing ==
    \/ \E d \in DName : ListDevice(d) \/ PlaceDevice(d) \/ RaidDrive(d)
    \/ \E s \in Ses : ListEnclosure(s) \/ OpenExpander(s)
    \/ \E p \in PhyIds : DiscoverPhy(p)
    \/ ExpanderWwid \/ PlaceEnd \/ ListEnd \/ RaidEnd
    \/ DispatchHBA9600 \/ DispatchHBA9500 \/ DispatchNone
    \/ CloseExpander \/ EndRefresh

-----------------------------------------------------------------------------
(* The event handlers of the window.                                       *)

(* The constructor, the Refresh button and the watcher's showModified.     *)
Construct ==
    /\ pc = "start" /\ BeginRefresh(TRUE)
    /\ UNCHANGED <<dirty, lastIndex, awaiting>>

btnRefreshClicked ==
    /\ pc = "idle" /\ BeginRefresh(TRUE)
    /\ UNCHANGED <<dirty, lastIndex, awaiting>>

showModified_NoRefresh ==
    /\ pc = "idle" /\ dirty
    /\ dirty' = FALSE
    /\ UNCHANGED <<slotVars, ctrlVars, tab, hwVars, cardType, enclSlot,
                   lastIndex, awaiting, pc, loopVars>>

showModified ==
    /\ pc = "idle" /\ dirty
    /\ dirty' = FALSE
    /\ BeginRefresh(FALSE)
    /\ UNCHANGED <<lastIndex, awaiting>>

ClickSlot(sl) ==
    /\ pc = "idle" /\ enabled[sl]
    /\ checked' = [checked EXCEPT ![sl] = ~@]
    /\ UNCHANGED <<d_name, resp, enabled, devCount, ctrlVars, tab, hwVars,
                   dirty, cardType, enclSlot, lastIndex, awaiting, pc, loopVars>>

btnSelectAllClicked ==
    /\ pc = "idle"
    /\ checked' = [sl \in Slots |-> checked[sl] \/ enabled[sl]]
    /\ UNCHANGED <<d_name, resp, enabled, devCount, ctrlVars, tab, hwVars,
                   dirty, cardType, enclSlot, lastIndex, awaiting, pc, loopVars>>

RememberTab_All(t) == t
RememberTab(t) == IF t \in {"SMP"} \cup FioTabs THEN t ELSE lastIndex

(* tabSelected.  Vacant slots can be checked for phy control only, so the  *)
(* FIO tabs grey them out and coming back to SMP revives them.  SG3 and    *)
(* Info leave lastIndex alone.                                             *)
tabSelected(t) ==
    LET spare(sl) == slotVacant(sl) /\ slotPhyId(sl) > 0
    IN  /\ pc = "idle" /\ t # tab
        /\ tab' = t
        /\ lastIndex' = RememberTab(t)
        /\ enabled' = [sl \in Slots |->
              IF t = "SMP" /\ lastIndex \in FioTabs /\ spare(sl) THEN TRUE
              ELSE IF t \in FioTabs /\ spare(sl) THEN FALSE
              ELSE enabled[sl]]
        /\ UNCHANGED <<d_name, resp, checked, devCount, ctrlVars, hwVars, dirty,
                       cardType, enclSlot, awaiting, pc, loopVars>>

(* phySetDisabled.  An expander is opened for its first checked slot; the  *)
(* dummy path and the node of a vanished HBA9500 expander do not open.     *)
Opens(el) ==
    /\ bsg_path[el] \in Ses
    /\ cardType = "HBA9500" => bsg_path[el] \in plugged
    /\ \E sl \in SlotsOf(el) : checked[sl]

(* An HBA9500 expander is addressed by its own node, others by wwid64.     *)
Addressed(el) == IF cardType = "HBA9500" THEN bsg_path[el] ELSE ctrl[el]

Controlled_Unchecked(el) ==
    {<<Addressed(el), slotPhyId(sl)>> :
        sl \in {i \in SlotsOf(el) : slotPhyId(i) \in 4 .. 31}}

(* The phys that get a PHY CONTROL request: "a resonable phy id (4 - 31)". *)
Controlled(el) ==
    {<<Addressed(el), slotPhyId(sl)>> :
        sl \in {i \in SlotsOf(el) : checked[i] /\ slotPhyId(i) \in 4 .. 31}}

Obeying == {b \in UNION {Controlled(el) : el \in {e \in Expdrs : Opens(e)}} :
                b[1] \in plugged}

(* btnSmpDoitClicked for "disable" and "reset", up to the delay loop.  The *)
(* button is on the SMP tab.                                               *)
btnSmpDoitClicked(disable) ==
    /\ pc = "idle" /\ tab = "SMP"
    /\ awaiting < MaxNest /\ changes < MaxChanges
    /\ \E el \in Expdrs : Opens(el)
    /\ \E done \in IF SmpMayFail THEN SUBSET Obeying ELSE {Obeying} :
            off' = IF disable THEN off \cup done ELSE off \ done
    /\ checked' = [sl \in Slots |->
            checked[sl] /\ ~\E el \in Expdrs : sl \in SlotsOf(el) /\ Opens(el)]
    /\ awaiting' = awaiting + 1
    /\ changes' = changes + 1
    /\ UNCHANGED <<d_name, resp, enabled, devCount, ctrlVars, tab, plugged,
                   sysfs, dirty, cardType, enclSlot, lastIndex, pc, loopVars>>

DelayOver_Again ==
    /\ pc = "idle"
    /\ awaiting' = awaiting - 1
    /\ BeginRefresh(TRUE)
    /\ UNCHANGED <<dirty, lastIndex>>

(* Its delay loop, which delivers other events meanwhile, quits: refresh.  *)
DelayOver ==
    /\ pc = "idle" /\ awaiting > 0
    /\ awaiting' = awaiting - 1
    /\ BeginRefresh(TRUE)
    /\ UNCHANGED <<dirty, lastIndex>>

User ==
    \/ btnRefreshClicked \/ btnSelectAllClicked
    \/ \E sl \in Slots : ClickSlot(sl)
    \/ \E t \in Tabs : tabSelected(t)
    \/ \E disable \in BOOLEAN : btnSmpDoitClicked(disable)

Environment == \E d \in DName : HotSwap(d) \/ KernelSync(d)

Next == Construct \/ Refreshing \/ showModified \/ DelayOver \/ User \/ Environment

Spec == Init /\ [][Next]_vars

(* The GUI thread runs a handler it has started to the end, the kernel     *)
(* catches up with every device, and a posted event is not overtaken for   *)
(* ever by others (the Qt event queue is first in, first out).  The user   *)
(* and the drives owe nothing.                                             *)
Fairness ==
    /\ WF_vars(Construct \/ Refreshing)
    /\ \A d \in DName : WF_vars(KernelSync(d))
    /\ SF_vars(showModified)
    /\ SF_vars(DelayOver)

FairSpec == Spec /\ Fairness

-----------------------------------------------------------------------------
(* Properties.                                                             *)

(* The slot a disk sits in.                                                *)
Home(d) == IF Bay[d] # NoBay THEN BaySlot(Bay[d]) ELSE RaidSlot[d] - 1

(* The machines RightSlot is meant for: target numbers follow the bays as  *)
(* setSlot expects, a drive the RAID tool reports is in no expander's bay, *)
(* and every disk of an HBA9500 with a wwid has its enclosure link.        *)
TargetsFollowBays ==
    /\ \A d \in DName, s \in Ses :
          LET below == Hctl[s][3] - Hctl[d][3]
          IN  Hctl[d][1] = Hctl[s][1] /\ Hctl[d][2] = Hctl[s][2]
                  /\ below \in 1 .. NSLOT_PEREXP
              => d \in Disk /\ Home(d) = (Index[s] + 1) * NSLOT_PEREXP - below
    /\ \A d \in Disk : RaidSlot[d] # NoRaid => Bay[d] = NoBay
    /\ Card = "HBA9500" => \A d \in Disk \ NoWwid : Bay[d] # NoBay

(* Machines in which no two drives are at home in one slot.                *)
OneDrivePerSlot ==
    \A d, e \in Disk : Home(d) = Home(e) /\ Home(d) \in Slots => d = e

(* A slot only ever shows a drive that sits in it, although placement is   *)
(* computed from target numbers and devices vanish between listing and     *)
(* placing: list_sdevices, the three setSlot overloads.                    *)
RightSlot ==
    \A sl \in Occupied : d_name[sl] \in Disk /\ Home(d_name[sl]) = sl

(* No slot whose phy was reported off still shows the drive the lagging    *)
(* SCSI layer lists: DeviceFunc::setDiscoverResp.                          *)
PhyOffVacant == \A sl \in Slots : resp[sl].link = "off" => d_name[sl] = NoDev

(* After a refresh the counters the Refresh button announces ("Found %d    *)
(* expanders and %d devices") are what the tables show.                    *)
CountsMatch ==
    pc = "idle" => /\ devCount = Cardinality(Occupied)
                   /\ expCount = Cardinality({el \in Expdrs : ctrl[el] # NoDev})

(* Between handlers, a vacant slot that can be phy controlled is clickable *)
(* on the SMP tab and never on the FIO tabs, whatever tabs were visited    *)
(* and on whichever the slots were last refreshed: tabSelected with        *)
(* setDiscoverResp.                                                        *)
TabEnables ==
    pc = "idle" => \A sl \in Slots :
        slotVacant(sl) /\ slotPhyId(sl) > 0 =>
            /\ tab = "SMP" => enabled[sl]
            /\ tab \in FioTabs => ~enabled[sl]

(* On an HBA9600 every slot the user can pick for phy control can be       *)
(* controlled: the path mpi3mr_iocfacts found and the address              *)
(* list_sdevices read belong to the one expander that answered for it.     *)
Controllable ==
    cardType = "HBA9600" => \A sl \in Slots : resp[sl] # NoResp =>
        \E el \in Expdrs : /\ sl \in SlotsOf(el)
                           /\ bsg_path[el] \in Ses /\ ctrl[el] = bsg_path[el]
                           /\ sl = BaySlot(<<ctrl[el], slotPhyId(sl)>>)

(* Disabling or resetting phys only reaches phys wired to slots that are   *)
(* checked and whose box the user can see enabled: phySetDisabled acting   *)
(* on stored responses.                                                    *)
PhyControlAsShown ==
    [][\A b \in (off \ off') \cup (off' \ off) :
           BaySlot(b) \in Slots /\ checked[BaySlot(b)] /\ enabled[BaySlot(b)]]_vars

(* What the window should show for the hardware as it is.                  *)
Matches ==
    /\ \A d \in Live \cap Disk : Home(d) \in Slots => d_name[Home(d)] = d
    /\ \A sl \in Occupied : d_name[sl] \in Live
    /\ \A el \in Expdrs : ctrl[el] # NoDev <=> \E s \in Live \cap Ses : Index[s] = el

(* When drives stop coming and going the window ends up showing exactly    *)
(* the drives that are there, without a click: the watcher on /dev/bsg,    *)
(* showModified and the refresh after the "Do it" delay.                   *)
Converges == <>[](pc = "idle" => Matches)

(* The window keeps its promise to the handlers that read it: every slot   *)
(* shows nothing or its own drive, a drive once shown is only taken back   *)
(* because its phy is off, and from one refresh to the next the picture    *)
(* stands still whatever handlers run: filloutCanvas under every handler.  *)
Win == INSTANCE Window WITH
    Drive <- Disk, Seat <- [d \in Disk |-> Home(d)],
    pic <- d_name,
    pathed <- {el \in Expdrs : bsg_path[el] # NoPath},
    busy <- pc # "idle"

ImplementsWindow == Win!WinSpec

(* "If no devices found by methods of HBA9500/HBA9600, possibly a RAID     *)
(* card is present": the RAID and unknown card types are for tables in     *)
(* which those methods found nothing (comment in list_sdevices).           *)
NoneFoundByHba ==
    pc = "idle" /\ cardType \in {"RAID9x60", "UNKNOWN"} => expCount = 0

(* "HBA9500 disk has enclosure_device:ArrayDevicexx": a disk without that  *)
(* link is none of the HBA's and gets no slot (comment in list_sdevices).  *)
OnlyEnclosureDisks ==
    pc = "idle" /\ cardType = "HBA9500" =>
        \A sl \in Occupied : Bay[d_name[sl]] # NoBay

=============================================================================
