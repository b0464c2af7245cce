----------------------------- MODULE SlotTable -----------------------------
(***************************************************************************)
(* The two tables behind the main window: DeviceFunc (one entry per drive  *)
(* slot) and ExpanderFunc (one entry per expander group box), both in      *)
(* widget.h and widget.cpp.  The operations are stated as actions on the   *)
(* variables of the tables; Canvas composes them into the event handlers   *)
(* of the window.                                                          *)
(*                                                                         *)
(* Data kept: which device a slot shows, the DISCOVER response stored for  *)
(* the slot, whether its check box is enabled and checked, the two         *)
(* counters, the enclosure and the working path registered per expander.   *)
(* Labels, style sheets and titles are left out.                           *)
(***************************************************************************)
EXTENDS Integers, FiniteSets

CONSTANTS
    NEXPDR,         \* number of expander group boxes (4 in the program)
    NSLOT_PEREXP,   \* slots per expander (28 in the program)
    Disk,           \* drives, by the name the program shows for them
    Ses,            \* SCSI enclosure devices, one per expander
    NoDev           \* the empty d_name

DName == Disk \cup Ses
NSLOT == NEXPDR * NSLOT_PEREXP
Slots == 0 .. NSLOT - 1
Expdrs == 0 .. NEXPDR - 1
PhyIds == 0 .. 31

(* A stored DISCOVER response: the phy it came from and its link state,    *)
(* "off" for negotiated rate 1 (phy disabled), "empty" for attached device *)
(* type 0, "on" when a device is attached.  A slot only ever stores frames *)
(* longer than 108 bytes (the slot number is byte 108), so resp_len is     *)
(* either 0 (NoResp) or long enough for every field read from it.          *)
Link == {"on", "off", "empty"}
Response == [phy : PhyIds, link : Link]
NoResp == [phy |-> -1, link |-> "unset"]

NoPath == "no path"
DummyPath == "dummy path for raid"

ENUM_TAB == {"SMP", "SG3", "FIO", "FIO2", "Info"}
FioTabs == {"FIO", "FIO2"}

ASSUME TableAssumption ==
    /\ NEXPDR \in Nat \ {0}
    /\ NSLOT_PEREXP \in Nat \ {0}
    /\ Disk \cap Ses = {}
    /\ NoDev \notin DName
    /\ {NoPath, DummyPath} \cap DName = {}

VARIABLES
    d_name,     \* SlotInfo[sl].d_name, with the wwid and block set beside it
    resp,       \* SlotInfo[sl].discover_resp and resp_len
    enabled,    \* SlotInfo[sl].cb_slot->isEnabled()
    checked,    \* SlotInfo[sl].cb_slot->isChecked()
    devCount,   \* DeviceFunc::myCount
    ctrl,       \* GboxInfo[el].d_name, whose address is GboxInfo[el].wwid64
    bsg_path,   \* GboxInfo[el].bsg_path
    expCount,   \* ExpanderFunc::myCount
    tab         \* gTab->currentIndex(), which setDiscoverResp consults

slotVars == <<d_name, resp, enabled, checked, devCount>>
ctrlVars == <<ctrl, bsg_path, expCount>>

SlotTypeOK ==
    /\ d_name \in [Slots -> DName \cup {NoDev}]
    /\ resp \in [Slots -> Response \cup {NoResp}]
    /\ enabled \in [Slots -> BOOLEAN]
    /\ checked \in [Slots -> BOOLEAN]
    /\ devCount \in Int

CtrlTypeOK ==
    /\ ctrl \in [Expdrs -> Ses \cup {NoDev}]
    /\ bsg_path \in [Expdrs -> Ses \cup {NoPath, DummyPath}]
    /\ expCount \in Nat

TableTypeOK == SlotTypeOK /\ CtrlTypeOK /\ tab \in ENUM_TAB

(* What the constructor leaves: gDevices and gControllers are globals.     *)
TableInit ==
    /\ d_name = [sl \in Slots |-> NoDev]
    /\ resp = [sl \in Slots |-> NoResp]
    /\ enabled = [sl \in Slots |-> FALSE]
    /\ checked = [sl \in Slots |-> FALSE]
    /\ devCount = 0
    /\ ctrl = [el \in Expdrs |-> NoDev]
    /\ bsg_path = [el \in Expdrs |-> NoPath]
    /\ expCount = 0
    /\ tab = "SMP"

-----------------------------------------------------------------------------
slotVacant(sl) == sl \in Slots /\ d_name[sl] = NoDev
Occupied == {sl \in Slots : d_name[sl] # NoDev}

(* -1 when nothing was stored for the slot.                                *)
slotPhyId(sl) == resp[sl].phy

(* The slots of expander el, as every loop over an expander walks them.    *)
SlotsOf(el) == el * NSLOT_PEREXP .. (el + 1) * NSLOT_PEREXP - 1

ClearDevices_KeepCount(uncheck) ==
    /\ d_name' = [sl \in Slots |-> NoDev]
    /\ resp' = [sl \in Slots |-> NoResp]
    /\ enabled' = [sl \in Slots |-> FALSE]
    /\ checked' = IF uncheck THEN [sl \in Slots |-> FALSE] ELSE checked
    /\ devCount' = devCount - NSLOT

ClearDevices_KeepResp(uncheck) ==
    /\ d_name' = [sl \in Slots |-> NoDev]
    /\ enabled' = [sl \in Slots |-> FALSE]
    /\ checked' = IF uncheck THEN [sl \in Slots |-> FALSE] ELSE checked
    /\ devCount' = 0
    /\ UNCHANGED resp

(* DeviceFunc::clear: clrSlot on every slot, then the counter is zeroed.   *)
ClearDevices(uncheck) ==
    /\ d_name' = [sl \in Slots |-> NoDev]
    /\ resp' = [sl \in Slots |-> NoResp]
    /\ enabled' = [sl \in Slots |-> FALSE]
    /\ checked' = IF uncheck THEN [sl \in Slots |-> FALSE] ELSE checked
    /\ devCount' = 0

SetSlot_CountAll(sl, dev) ==
    /\ IF sl \in Slots
       THEN /\ d_name' = [d_name EXCEPT ![sl] = dev]
            /\ enabled' = [enabled EXCEPT ![sl] = TRUE]
       ELSE UNCHANGED <<d_name, enabled>>
    /\ devCount' = devCount + 1
    /\ UNCHANGED <<resp, checked>>

(* The tail shared by the three setSlot overloads: occupy slot sl.         *)
(* valiIndex rejects an index outside the table and nothing is set.        *)
SetSlot(sl, dev) ==
    IF sl \in Slots
    THEN /\ d_name' = [d_name EXCEPT ![sl] = dev]
         /\ enabled' = [enabled EXCEPT ![sl] = TRUE]
         /\ devCount' = devCount + 1
         /\ UNCHANGED <<resp, checked>>
    ELSE UNCHANGED slotVars

(* "SCSI driver lags refreshing device info": the phy is disabled, yet the *)
(* slot still shows a device.                                              *)
Lagging_Never(sl, r) == FALSE
Lagging(sl, r) == r.link = "off" /\ d_name[sl] # NoDev

(* DeviceFunc::setDiscoverResp for slot number dsn (-1 when the response   *)
(* names none).  A lagging slot is cleared, which unchecks it too.  The    *)
(* check box is enabled unless a FIO tab is shown.                         *)
SetDiscoverResp(dsn, r) ==
    LET sl == dsn - 1
    IN  IF sl \in Slots
        THEN /\ IF Lagging(sl, r)
                THEN /\ d_name' = [d_name EXCEPT ![sl] = NoDev]
                     /\ checked' = [checked EXCEPT ![sl] = FALSE]
                     /\ devCount' = devCount - 1
                ELSE UNCHANGED <<d_name, checked, devCount>>
             /\ resp' = [resp EXCEPT ![sl] = r]
             /\ enabled' = [enabled EXCEPT ![sl] =
                                tab \notin FioTabs \/ (@ /\ ~Lagging(sl, r))]
        ELSE UNCHANGED slotVars

ClearControllers_KeepPath ==
    /\ ctrl' = [el \in Expdrs |-> NoDev]
    /\ expCount' = 0
    /\ UNCHANGED bsg_path

(* ExpanderFunc::clear.                                                    *)
ClearControllers ==
    /\ ctrl' = [el \in Expdrs |-> NoDev]
    /\ bsg_path' = [el \in Expdrs |-> NoPath]
    /\ expCount' = 0

(* ExpanderFunc::setController, el being WWID_TO_INDEX of the address.     *)
SetController(el, ses) ==
    /\ ctrl' = [ctrl EXCEPT ![el] = ses]
    /\ expCount' = expCount + 1
    /\ UNCHANGED bsg_path

(* ExpanderFunc::setBsgPath, and the part of ExpanderFunc::setDiscoverResp *)
(* that later code reads: the working path of expander el.                 *)
SetBsgPath(el, path) ==
    /\ bsg_path' = [bsg_path EXCEPT ![el] = path]
    /\ UNCHANGED <<ctrl, expCount>>

=============================================================================
