---------------------------- MODULE CountProofs ----------------------------
(***************************************************************************)
(* What is counted and what can be controlled: the counters the Refresh    *)
(* button announces are those of the tables, and on an HBA9600 every slot  *)
(* that can be picked for phy control can be controlled.                   *)
(***************************************************************************)
EXTENDS CanvasProofs, FiniteSetTheorems

-----------------------------------------------------------------------------
(* Counting slots and boxes.                                               *)

Boxed == {el \in Expdrs : ctrl[el] # NoDev}

LEMMA TablesFinite ==
    \A S : S \subseteq Slots \/ S \subseteq Expdrs => IsFiniteSet(S)
<1> SUFFICES ASSUME NEW S, S \subseteq Slots \/ S \subseteq Expdrs
             PROVE  IsFiniteSet(S)
  OBVIOUS
<1>1. NSLOT - 1 \in Int /\ NEXPDR - 1 \in Int
  BY TableAssumption DEF NSLOT
<1>2. IsFiniteSet(Slots) /\ IsFiniteSet(Expdrs)
  BY <1>1, FS_Interval DEF Slots, Expdrs
<1> QED BY <1>2, FS_Subset

(* The three ways a slot is touched.                                       *)
LEMMA FillVacant ==
    ASSUME SlotTypeOK, NEW d \in DName, NEW sl \in Slots, SetSlot(sl, d),
           d_name[sl] = NoDev, devCount = Cardinality(Occupied)
    PROVE  devCount' = Cardinality(Occupied')
<1>1. d_name' = [d_name EXCEPT ![sl] = d] /\ devCount' = devCount + 1
  BY DEF SetSlot
<1>2. Occupied' = Occupied \cup {sl}
  BY <1>1, TableAssumption DEF Occupied, SlotTypeOK
<1>3. sl \notin Occupied /\ IsFiniteSet(Occupied)
  BY TablesFinite DEF Occupied
<1>4. Cardinality(Occupied \cup {sl}) = Cardinality(Occupied) + 1
  BY <1>3, FS_AddElement
<1> QED BY <1>1, <1>2, <1>4

LEMMA EmptyOccupied ==
    ASSUME SlotTypeOK, NEW dsn, NEW r, SetDiscoverResp(dsn, r),
           devCount = Cardinality(Occupied)
    PROVE  devCount' = Cardinality(Occupied')
<1> DEFINE sl == dsn - 1
<1>1. CASE sl \in Slots /\ Lagging(sl, r)
  <2>1. d_name' = [d_name EXCEPT ![sl] = NoDev] /\ devCount' = devCount - 1
    BY <1>1 DEF SetDiscoverResp
  <2>2. sl \in Occupied
    BY <1>1 DEF Lagging, Occupied
  <2> HIDE DEF sl
  <2>3. Occupied' = Occupied \ {sl} /\ IsFiniteSet(Occupied)
    BY <2>1, <2>2, TablesFinite DEF Occupied, SlotTypeOK
  <2>4. Cardinality(Occupied \ {sl}) = Cardinality(Occupied) - 1
    BY <2>2, <2>3, FS_RemoveElement
  <2> QED BY <2>1, <2>3, <2>4
<1>2. CASE ~(sl \in Slots /\ Lagging(sl, r))
  <2>1. UNCHANGED <<d_name, devCount>>
    BY <1>2 DEF SetDiscoverResp, slotVars
  <2> QED BY <2>1 DEF Occupied
<1> QED BY <1>1, <1>2

LEMMA FillBox ==
    ASSUME CtrlTypeOK, NEW s \in Ses, SetController(Index[s], s),
           ctrl[Index[s]] = NoDev, expCount = Cardinality(Boxed)
    PROVE  expCount' = Cardinality(Boxed')
<1>1. ctrl' = [ctrl EXCEPT ![Index[s]] = s] /\ expCount' = expCount + 1
  BY DEF SetController
<1>2. Index[s] \in Expdrs /\ s # NoDev
  BY HardwareAssumption, TableAssumption DEF DName
<1>3. Boxed' = Boxed \cup {Index[s]}
  BY <1>1, <1>2 DEF Boxed, CtrlTypeOK
<1>4. Index[s] \notin Boxed /\ IsFiniteSet(Boxed)
  BY TablesFinite DEF Boxed
<1>5. Cardinality(Boxed \cup {Index[s]}) = Cardinality(Boxed) + 1
  BY <1>4, FS_AddElement
<1> QED BY <1>1, <1>3, <1>5

-----------------------------------------------------------------------------
(* CountsMatch alone is not inductive: a drive that is placed must find    *)
(* its slot vacant, an enclosure its box.  So nothing is shown that is     *)
(* still to be listed, nor, where the enclosures place the drives, that is *)
(* still to be placed.                                                     *)
Shown == {d_name[sl] : sl \in Occupied}
Known == {ctrl[el] : el \in Boxed}

CountInv ==
    /\ devCount = Cardinality(Occupied)
    /\ expCount = Cardinality(Boxed)
    /\ \A el \in Boxed : Index[ctrl[el]] = el
    /\ pc \in {"list", "wwid", "place"} =>
          /\ Shown \cap todo = {} /\ Known \cap todo = {}
          /\ pend \cap todo = {}
          /\ cardType = "HBA9600" => Shown \cap pend = {}
    /\ pc \in {"wwid", "place"} => top \notin Known \cup todo
    /\ pc = "place" => cardType = "HBA9600"
    /\ pc = "raid" => Shown \cap todo = {}

LEMMA ShownAfter ==
    ASSUME SlotTypeOK, NEW d \in DName, NEW sl, SetSlot(sl, d)
    PROVE  Shown' \subseteq Shown \cup {d}
<1>1. CASE sl \in Slots
  BY <1>1 DEF SetSlot, Shown, Occupied, SlotTypeOK
<1>2. CASE sl \notin Slots
  BY <1>2 DEF SetSlot, Shown, Occupied, slotVars
<1> QED BY <1>1, <1>2

(* A drive that is not shown finds its slot vacant.                        *)
LEMMA PlacedCounted ==
    ASSUME OneDrivePerSlot, SlotTypeOK, RightSlot, NEW d \in DName, NEW sl,
           SetSlot(sl, d), sl \in Slots => d \in Disk /\ Home(d) = sl,
           d \notin Shown, devCount = Cardinality(Occupied)
    PROVE  devCount' = Cardinality(Occupied')
<1>1. CASE sl \notin Slots
  BY <1>1 DEF SetSlot, slotVars, Occupied
<1>2. CASE sl \in Slots
  <2>1. d_name[sl] = NoDev
    <3> SUFFICES ASSUME sl \in Occupied PROVE FALSE
      BY <1>2 DEF Occupied
    <3>1. d_name[sl] \in Disk /\ Home(d_name[sl]) = sl
      BY DEF RightSlot
    <3>2. d_name[sl] = d
      BY <1>2, <3>1 DEF OneDrivePerSlot
    <3> QED BY <3>2 DEF Shown
  <2> QED BY <1>2, <2>1, FillVacant
<1> QED BY <1>1, <1>2

LEMMA SameSlots ==
    ASSUME UNCHANGED <<d_name, devCount>>
    PROVE  Occupied' = Occupied /\ Shown' = Shown
BY DEF Occupied, Shown

LEMMA SameBoxes ==
    ASSUME UNCHANGED <<ctrl, expCount>>
    PROVE  Boxed' = Boxed /\ Known' = Known
BY DEF Boxed, Known

LEMMA ListDeviceCounted ==
    ASSUME TargetsFollowBays, OneDrivePerSlot, TypeOK, SlotInv, CountInv,
           NEW d \in DName, ListDevice(d)
    PROVE  CountInv'
<1> USE DEF TypeOK, TableTypeOK, ctrlVars
<1>1. /\ pc = "list" /\ pc' = "list" /\ d \in todo /\ todo' = todo \ {d}
      /\ pend' = pend \cup {d} /\ UNCHANGED <<ctrl, expCount>>
  BY DEF ListDevice, First
<1>2. d \notin Shown /\ Boxed' = Boxed /\ Known' = Known
  BY <1>1, SameBoxes DEF CountInv
<1>3. CASE cardType' = "HBA9500" /\ HasWwid(d)
  <2>1. SetSlot(enclSlot', d) /\ Card = "HBA9500"
    BY <1>3 DEF ListDevice, CardAfter, HasEnclosureLink, SlotInv
  <2>2. d \in Disk
    BY <1>3 DEF ListDevice, HasWwid, DName
  <2>3. Bay[d] # NoBay
    BY <1>3, <2>1, <2>2 DEF TargetsFollowBays, HasWwid
  <2>4. enclSlot' = Home(d)
    BY <1>3, <2>1, <2>2, <2>3 DEF ListDevice, EnclSlotAfter, HasEnclosureLink, HasWwid, Home
  <2>5. devCount' = Cardinality(Occupied')
    BY <1>2, <2>1, <2>2, <2>4, PlacedCounted DEF SlotInv, CountInv
  <2>6. Shown' \subseteq Shown \cup {d}
    BY <2>1, ShownAfter
  <2> QED BY <1>1, <1>2, <1>3, <2>5, <2>6 DEF CountInv
<1>4. CASE ~(cardType' = "HBA9500" /\ HasWwid(d))
  <2>1. UNCHANGED slotVars
    BY <1>4 DEF ListDevice
  <2>2. cardType' = "HBA9600" => cardType = "HBA9600"
    BY DEF ListDevice, CardAfter
  <2>3. Shown' = Shown /\ Occupied' = Occupied /\ devCount' = devCount
    BY <2>1, SameSlots DEF slotVars
  <2> QED BY <1>1, <1>2, <2>2, <2>3 DEF CountInv
<1> QED BY <1>3, <1>4

LEMMA PlaceDeviceCounted ==
    ASSUME TargetsFollowBays, OneDrivePerSlot, TypeOK, PhaseInv, SlotInv, CountInv,
           NEW d \in DName, PlaceDevice(d)
    PROVE  CountInv'
<1> USE DEF TypeOK, TableTypeOK, ctrlVars
<1>1. /\ pc = "place" /\ pc' = "place" /\ d \in pend /\ pend' = pend \ {d}
      /\ UNCHANGED <<ctrl, expCount, todo, top, cardType>>
  BY DEF PlaceDevice, First
<1>2. d \notin Shown /\ d \notin todo /\ Boxed' = Boxed /\ Known' = Known
  BY <1>1, SameBoxes DEF CountInv
<1>3. CASE SetSlot(SlotUnder(d, top), d)
  <2>1. SlotUnder(d, top) \in Slots => d \in Disk /\ Home(d) = SlotUnder(d, top)
    BY <1>1, SlotUnderRight DEF PhaseInv
  <2>2. devCount' = Cardinality(Occupied')
    BY <1>2, <1>3, <2>1, PlacedCounted DEF SlotInv, CountInv
  <2>3. Shown' \subseteq Shown \cup {d}
    BY <1>3, ShownAfter
  <2> QED BY <1>1, <1>2, <2>2, <2>3 DEF CountInv
<1>4. CASE UNCHANGED slotVars
  <2>1. Shown' = Shown /\ Occupied' = Occupied /\ devCount' = devCount
    BY <1>4, SameSlots DEF slotVars
  <2> QED BY <1>1, <1>2, <2>1 DEF CountInv
<1> QED BY <1>3, <1>4 DEF PlaceDevice

LEMMA RaidDriveCounted ==
    ASSUME TargetsFollowBays, OneDrivePerSlot, TypeOK, SlotInv, CountInv,
           NEW d \in DName, RaidDrive(d)
    PROVE  CountInv'
<1> USE DEF TypeOK, TableTypeOK, ctrlVars
<1>1. /\ pc = "raid" /\ pc' = "raid" /\ d \in todo /\ todo' = todo \ {d}
      /\ UNCHANGED <<ctrl, expCount, pend, top, cardType>>
  BY DEF RaidDrive
<1>2. d \notin Shown /\ Boxed' = Boxed /\ Known' = Known
  BY <1>1, SameBoxes DEF CountInv
<1>3. CASE SetSlot(ReportedSlot(d), d)
  <2>1. d \in Disk /\ Home(d) = ReportedSlot(d)
    BY <1>1 DEF SlotInv, TargetsFollowBays, Home, ReportedSlot
  <2>2. devCount' = Cardinality(Occupied')
    BY <1>2, <1>3, <2>1, PlacedCounted DEF SlotInv, CountInv
  <2>3. Shown' \subseteq Shown \cup {d}
    BY <1>3, ShownAfter
  <2> QED BY <1>1, <1>2, <2>2, <2>3 DEF CountInv
<1>4. CASE UNCHANGED slotVars
  <2>1. Shown' = Shown /\ Occupied' = Occupied /\ devCount' = devCount
    BY <1>4, SameSlots DEF slotVars
  <2> QED BY <1>1, <1>2, <2>1 DEF CountInv
<1> QED BY <1>3, <1>4 DEF RaidDrive

(* An enclosure that is not known yet finds its box empty.                 *)
LEMMA BoxedCounted ==
    ASSUME TypeOK, CountInv, top \in Ses, top \notin Known,
           SetController(Index[top], top)
    PROVE  /\ expCount' = Cardinality(Boxed')
           /\ Known' \subseteq Known \cup {top}
           /\ \A el \in Boxed' : Index[ctrl'[el]] = el
<1> USE DEF TypeOK, TableTypeOK
<1>1. Index[top] \in Expdrs /\ ctrl' = [ctrl EXCEPT ![Index[top]] = top]
  BY HardwareAssumption DEF SetController
<1>2. ctrl[Index[top]] = NoDev
  <2> SUFFICES ASSUME Index[top] \in Boxed PROVE FALSE
    BY <1>1 DEF Boxed
  <2>1. ctrl[Index[top]] \in Ses /\ Index[ctrl[Index[top]]] = Index[top]
    BY DEF CountInv, CtrlTypeOK, Boxed
  <2>2. ctrl[Index[top]] = top
    BY <2>1, HardwareAssumption
  <2> QED BY <2>2 DEF Known
<1>3. expCount' = Cardinality(Boxed')
  BY <1>2, FillBox DEF CountInv
<1>4. Known' \subseteq Known \cup {top}
  BY <1>1 DEF Known, Boxed, CtrlTypeOK
<1>5. \A el \in Boxed' : Index[ctrl'[el]] = el
  BY <1>1 DEF CountInv, Boxed, CtrlTypeOK
<1> QED BY <1>3, <1>4, <1>5

LEMMA EnclosureCounted ==
    ASSUME TypeOK, PhaseInv, SlotInv, CountInv,
           \/ \E s \in Ses : ListEnclosure(s)
           \/ ExpanderWwid \/ PlaceEnd \/ ListEnd
    PROVE  CountInv'
<1> USE DEF ctrlVars, slotVars
<1>1. ASSUME NEW s \in Ses, ListEnclosure(s) PROVE CountInv'
  <2>1. Known' = Known /\ Boxed' = Boxed /\ Shown' = Shown /\ Occupied' = Occupied
    BY <1>1, SameSlots, SameBoxes DEF ListEnclosure
  <2> QED BY <1>1, <2>1 DEF ListEnclosure, First, CountInv
<1>2. CASE ExpanderWwid
  <2>1. pc = "wwid" /\ top \in Ses /\ top \notin Known /\ top \notin todo
    BY <1>2 DEF ExpanderWwid, PhaseInv, CountInv
  <2>2. Shown' = Shown /\ Occupied' = Occupied /\ devCount' = devCount
    BY <1>2, SameSlots DEF ExpanderWwid
  <2>3. CASE SetController(Index[top], top) /\ top \in sysfs /\ cardType # "HBA9600"
             /\ pc' = "list" /\ pend' = pend \cup {top}
    BY <1>2, <2>1, <2>2, <2>3, BoxedCounted DEF ExpanderWwid, CountInv
  <2>4. CASE UNCHANGED ctrlVars
    <3>1. Known' = Known /\ Boxed' = Boxed
      BY <2>4, SameBoxes
    <3>2. top \notin Shown
      BY <2>1, TableAssumption DEF SlotInv, RightSlot, Shown
    <3> QED BY <1>2, <2>1, <2>2, <2>4, <3>1, <3>2 DEF ExpanderWwid, CountInv
  <2> QED BY <1>2, <2>3, <2>4 DEF ExpanderWwid
<1>3. CASE PlaceEnd
  <2>1. pc = "place" /\ top \in Ses /\ top \notin Known /\ top \notin todo
    BY <1>3 DEF PlaceEnd, PhaseInv, CountInv
  <2>2. Shown' = Shown /\ Occupied' = Occupied /\ devCount' = devCount
    BY <1>3, SameSlots DEF PlaceEnd
  <2> QED BY <1>3, <2>1, <2>2, BoxedCounted DEF PlaceEnd, CountInv
<1>4. CASE ListEnd
  <2>1. Known' = Known /\ Boxed' = Boxed /\ Shown' = Shown /\ Occupied' = Occupied
    BY <1>4, SameSlots, SameBoxes DEF ListEnd
  <2>2. devCount = 0 => Shown = {}
    <3>1. IsFiniteSet(Occupied)
      BY TablesFinite DEF Occupied
    <3> QED BY <3>1, FS_EmptySet DEF CountInv, Shown
  <2> QED BY <1>4, <2>1, <2>2 DEF ListEnd, CountInv
<1> QED BY <1>1, <1>2, <1>3, <1>4

LEMMA CountStep ==
    ASSUME TargetsFollowBays, OneDrivePerSlot
    PROVE  TypeOK /\ PhaseInv /\ SlotInv /\ CountInv /\ [Next]_vars => CountInv'
<1> SUFFICES ASSUME TypeOK, PhaseInv, SlotInv, CountInv, [Next]_vars
             PROVE  CountInv'
  OBVIOUS
<1> USE DEF slotVars, ctrlVars, loopVars
<1>1. ASSUME NEW u \in BOOLEAN, BeginRefresh(u) PROVE CountInv'
  <2>1. Occupied' = {} /\ Boxed' = {}
    BY <1>1 DEF BeginRefresh, ClearDevices, ClearControllers, Occupied, Boxed
  <2>2. Shown' = {} /\ Known' = {}
    BY <2>1 DEF Shown, Known
  <2> QED BY <1>1, <2>1, <2>2, FS_EmptySet
          DEF BeginRefresh, ClearDevices, ClearControllers, CountInv
<1>2. ASSUME NEW d \in DName, ListDevice(d) \/ PlaceDevice(d) \/ RaidDrive(d)
      PROVE  CountInv'
  BY <1>2, ListDeviceCounted, PlaceDeviceCounted, RaidDriveCounted
<1>3. CASE (\E s \in Ses : ListEnclosure(s)) \/ ExpanderWwid \/ PlaceEnd \/ ListEnd
  BY <1>3, EnclosureCounted
<1>4. ASSUME NEW p \in PhyIds, DiscoverPhy(p) PROVE CountInv'
  <2>1. pc = "disc" /\ pc' = "disc" /\ UNCHANGED <<ctrl, expCount>>
    BY <1>4 DEF DiscoverPhy, SetBsgPath
  <2>2. Boxed' = Boxed
    BY <2>1, SameBoxes
  <2>3. devCount' = Cardinality(Occupied')
    <3>1. CASE UNCHANGED slotVars
      BY <3>1, SameSlots DEF CountInv
    <3>2. CASE SetDiscoverResp(Wiring[top][p], [phy |-> p, link |-> LinkOf(top, p)])
      BY <3>2, EmptyOccupied DEF CountInv, TypeOK, TableTypeOK
    <3> QED BY <1>4, <3>1, <3>2 DEF DiscoverPhy
  <2> QED BY <2>1, <2>2, <2>3 DEF CountInv
<1>5. CASE \/ RaidEnd \/ DispatchHBA9600 \/ DispatchHBA9500 \/ DispatchNone
           \/ (\E s \in Ses : OpenExpander(s)) \/ CloseExpander \/ EndRefresh
  <2>1. /\ UNCHANGED <<d_name, devCount, ctrl, expCount>>
        /\ pc' \in {"fill", "disc", "idle"}
    BY <1>5 DEF RaidEnd, DispatchHBA9600, DispatchHBA9500, DispatchNone,
                OpenExpander, CloseExpander, EndRefresh
  <2>2. Occupied' = Occupied /\ Boxed' = Boxed
    BY <2>1, SameSlots, SameBoxes
  <2> QED BY <2>1, <2>2 DEF CountInv
<1>6. CASE \/ btnSelectAllClicked \/ (\E sl \in Slots : ClickSlot(sl))
           \/ (\E t \in Tabs : tabSelected(t))
           \/ (\E disable \in BOOLEAN : btnSmpDoitClicked(disable))
           \/ Environment \/ UNCHANGED vars
  <2>1. UNCHANGED <<d_name, devCount, ctrl, expCount, cardType, pc, todo, pend, top>>
    BY <1>6 DEF btnSelectAllClicked, ClickSlot, tabSelected, btnSmpDoitClicked,
                Environment, HotSwap, KernelSync, vars
  <2>2. Occupied' = Occupied /\ Boxed' = Boxed /\ Shown' = Shown /\ Known' = Known
    BY <2>1, SameSlots, SameBoxes
  <2> QED BY <2>1, <2>2 DEF CountInv
<1>7. CASE Construct \/ btnRefreshClicked \/ showModified \/ DelayOver
  BY <1>7, <1>1 DEF Construct, btnRefreshClicked, showModified, DelayOver
<1> QED BY <1>2, <1>3, <1>4, <1>5, <1>6, <1>7 DEF Next, Refreshing, User

(* The numbers the Refresh button announces are those of the slots and     *)
(* boxes shown, on every machine whose target numbers follow the bays and  *)
(* whose drives do not share slots: DeviceFunc's and ExpanderFunc's        *)
(* myCount.                                                                *)
THEOREM CountsSafe ==
    ASSUME TargetsFollowBays, OneDrivePerSlot
    PROVE  Spec => []CountsMatch
<1>1. Init => SlotInv /\ CountInv
  <2> SUFFICES ASSUME Init PROVE SlotInv /\ CountInv
    OBVIOUS
  <2>1. Occupied = {} /\ Boxed = {}
    BY DEF Init, TableInit, Occupied, Boxed
  <2>2. SlotInv
    BY <2>1 DEF Init, TableInit, SlotInv, RightSlot
  <2> QED BY <2>1, <2>2, FS_EmptySet DEF Init, TableInit, CountInv
<1>2. CountInv => CountsMatch
  BY DEF CountInv, CountsMatch, Boxed
<1> QED BY <1>1, <1>2, SlotStep, CountStep, TypeCorrect, PTL DEF Spec

-----------------------------------------------------------------------------
(* Controllable relates a stored response to the path and the box of the   *)
(* expander that gave it.  Both are known by the expander's index, which   *)
(* no other expander has; while slots are asked, every expander still to   *)
(* be asked has both; and the dummy path of a RAID card comes only with    *)
(* that card type, which no later refresh turns back into an HBA9600.      *)
Ready == {s \in Ses : ctrl[Index[s]] = s /\ bsg_path[Index[s]] = s}

PathInv ==
    /\ \A el \in Boxed : Index[ctrl[el]] = el
    /\ \A el \in Expdrs : bsg_path[el] \in Ses => Index[bsg_path[el]] = el
    /\ pc \in {"list", "raid", "fill"} => top = NoDev
    /\ pc = "raid" => cardType = "RAID9x60"
    /\ cardType = "HBA9600" =>
          /\ \A el \in Expdrs : bsg_path[el] # DummyPath
          /\ pc = "disc" => todo \subseteq Ready /\ top \in Ready \cup {NoDev}
    /\ Controllable

LEMMA ControllableStays ==
    ASSUME Controllable, UNCHANGED <<resp, ctrl, bsg_path>>,
           cardType' = "HBA9600" => cardType = "HBA9600"
    PROVE  Controllable'
BY DEF Controllable, slotPhyId, BaySlot

LEMMA ReadyStays ==
    ASSUME UNCHANGED <<ctrl, bsg_path>>
    PROVE  Ready' = Ready /\ Boxed' = Boxed
BY DEF Ready, Boxed

(* The boxes change only while no slot has a response.                     *)
LEMMA BoxStep ==
    ASSUME TypeOK, PathInv, resp' = [sl \in Slots |-> NoResp],
           pc' = "list", top' = NoDev,
           UNCHANGED <<bsg_path, cardType>>, top \in Ses,
           SetController(Index[top], top)
    PROVE  PathInv'
<1>1. Controllable'
  BY DEF Controllable
<1>2. \A el \in Boxed' : Index[ctrl'[el]] = el
  BY HardwareAssumption DEF SetController, PathInv, Boxed, TypeOK, TableTypeOK, CtrlTypeOK
<1> QED BY <1>1, <1>2 DEF PathInv

LEMMA DispatchPaths ==
    ASSUME TypeOK, PhaseInv, PathInv, DispatchHBA9600
    PROVE  PathInv'
<1> USE DEF TypeOK, TableTypeOK, CtrlTypeOK
<1>1. PICK found \in SUBSET Explored :
        bsg_path' = [el \in Expdrs |-> IF \E s \in found : Index[s] = el
                                      THEN CHOOSE s \in found : Index[s] = el
                                      ELSE bsg_path[el]]
  <2> DEFINE Registered(found) ==
        bsg_path' = [el \in Expdrs |-> IF \E s \in found : Index[s] = el
                                      THEN CHOOSE s \in found : Index[s] = el
                                      ELSE bsg_path[el]]
  <2>1. \E found \in IF SmpMayFail THEN SUBSET Explored ELSE {Explored} : Registered(found)
    BY Zenon DEF DispatchHBA9600
  <2> HIDE DEF Registered
  <2>2. \E found \in SUBSET Explored : Registered(found)
    BY <2>1
  <2> QED BY <2>2, Zenon DEF Registered
<1>2. \A el \in Expdrs : \/ bsg_path'[el] \in Ses /\ Index[bsg_path'[el]] = el
                         \/ bsg_path'[el] = bsg_path[el]
  <2> SUFFICES ASSUME NEW el \in Expdrs, \E s \in found : Index[s] = el
               PROVE  bsg_path'[el] \in Ses /\ Index[bsg_path'[el]] = el
    BY <1>1
  <2> DEFINE w == CHOOSE s \in found : Index[s] = el
  <2>1. w \in found /\ Index[w] = el /\ bsg_path'[el] = w
    BY <1>1
  <2> HIDE DEF w
  <2> QED BY <1>1, <2>1 DEF Explored
<1>3. /\ UNCHANGED <<resp, ctrl, cardType, top>> /\ pc = "fill" /\ pc' = "disc"
      /\ cardType = "HBA9600"
      /\ todo' = {ctrl[el] : el \in {e \in Expdrs : bsg_path'[e] # NoPath}} \ {NoDev}
  BY DEF DispatchHBA9600, slotVars
<1>4. \A el \in Expdrs : bsg_path'[el] \in Ses \cup {NoPath}
  BY <1>2, <1>3, TableAssumption DEF PathInv, DName
<1>5. \A el \in Expdrs : bsg_path'[el] \in Ses => Index[bsg_path'[el]] = el
  BY <1>2 DEF PathInv
<1>6. \A el \in Boxed' : Index[ctrl'[el]] = el
  BY <1>3 DEF PathInv, Boxed
<1>7. todo' \subseteq Ready'
  <2> SUFFICES ASSUME NEW el \in Expdrs, bsg_path'[el] # NoPath, ctrl[el] # NoDev
               PROVE  ctrl[el] \in Ready'
    BY <1>3
  <2>1. ctrl[el] \in Ses /\ Index[ctrl[el]] = el
    BY <1>6, <1>3 DEF Boxed
  <2>2. bsg_path'[el] \in Ses /\ Index[bsg_path'[el]] = el
    BY <1>4, <1>5
  <2>3. bsg_path'[el] = ctrl[el]
    BY <2>1, <2>2, HardwareAssumption
  <2> QED BY <1>3, <2>1, <2>3 DEF Ready
<1>8. Controllable'
  BY <1>3 DEF Controllable, PhaseInv, BeforeDiscovery
<1>9. top' = NoDev
  BY <1>3 DEF PathInv
<1>10. \A el \in Expdrs : bsg_path'[el] # DummyPath
  BY <1>4, TableAssumption DEF DName, NoPath, DummyPath
<1> QED BY <1>3, <1>5, <1>6, <1>7, <1>8, <1>9, <1>10 DEF PathInv

LEMMA DiscoverPaths ==
    ASSUME TypeOK, PhaseInv, PathInv, NEW p \in PhyIds, DiscoverPhy(p)
    PROVE  PathInv'
<1> USE DEF TypeOK, TableTypeOK, CtrlTypeOK, SlotTypeOK
<1>1. /\ top \in Ses /\ p \in DOMAIN Wiring[top] /\ Index[top] \in Expdrs
      /\ pc = "disc" /\ pc' = "disc" /\ UNCHANGED <<cardType, todo, top>>
  BY HardwareAssumption DEF DiscoverPhy, PhaseInv
<1>2. CASE Wiring[top][p] = HbaPhy
  <2>1. /\ bsg_path' = [bsg_path EXCEPT ![Index[top]] = top]
        /\ UNCHANGED <<ctrl, resp>>
    BY <1>2 DEF DiscoverPhy, SetBsgPath, slotVars
  <2>2. \A el \in Expdrs : bsg_path'[el] \in Ses => Index[bsg_path'[el]] = el
    BY <1>1, <2>1 DEF PathInv
  <2>3. \A el \in Boxed' : Index[ctrl'[el]] = el
    BY <2>1 DEF PathInv, Boxed
  <2>4. ASSUME cardType = "HBA9600" PROVE bsg_path' = bsg_path
    <3>1. bsg_path[Index[top]] = top
      BY <1>1, <2>4, TableAssumption DEF PathInv, Ready, DName
    <3> QED BY <2>1, <3>1
  <2>5. Controllable'
    BY <1>1, <2>1, <2>4 DEF PathInv, Controllable, slotPhyId, BaySlot
  <2>6. cardType = "HBA9600" => Ready' = Ready
    BY <2>1, <2>4, ReadyStays
  <2> QED BY <1>1, <2>2, <2>3, <2>4, <2>5, <2>6 DEF PathInv
<1>3. CASE Wiring[top][p] # HbaPhy
  <2> DEFINE sl == Wiring[top][p] - 1
             r == [phy |-> p, link |-> LinkOf(top, p)]
  <2>1. SetDiscoverResp(Wiring[top][p], r) /\ UNCHANGED <<ctrl, bsg_path>>
    BY <1>3 DEF DiscoverPhy, ctrlVars
  <2>2. \A i \in Slots : resp'[i] = resp[i] \/ (i = sl /\ resp'[i] = r)
    BY <2>1 DEF SetDiscoverResp, slotVars
  <2>3. Controllable'
    <3> SUFFICES ASSUME cardType = "HBA9600", NEW i \in Slots, resp'[i] # NoResp
                 PROVE  \E el \in Expdrs :
                          /\ i \in SlotsOf(el)
                          /\ bsg_path[el] \in Ses /\ ctrl[el] = bsg_path[el]
                          /\ i = BaySlot(<<ctrl[el], resp'[i].phy>>)
      BY <1>1, <2>1 DEF Controllable, slotPhyId, BaySlot
    <3>1. CASE resp'[i] = resp[i]
      BY <3>1 DEF PathInv, Controllable, slotPhyId
    <3>2. CASE resp'[i] # resp[i]
      <4>1. i = sl /\ resp'[i].phy = p
        BY <2>2, <3>2
      <4>2. i \in SlotsOf(Index[top])
        <5>1. Wiring[top][p] # NoSlot
          BY <4>1 DEF Slots, NoSlot
        <5> QED BY <1>1, <1>3, <4>1, <5>1, HardwareAssumption
      <4>3. top \in Ready
        BY <1>1, TableAssumption DEF PathInv, DName
      <4>4. i = BaySlot(<<top, p>>)
        BY <4>1 DEF BaySlot
      <4> QED BY <1>1, <4>1, <4>2, <4>3, <4>4 DEF Ready
    <3> QED BY <3>1, <3>2
  <2>4. Ready' = Ready /\ Boxed' = Boxed
    BY <2>1, ReadyStays
  <2> QED BY <1>1, <2>1, <2>3, <2>4 DEF PathInv
<1> QED BY <1>2, <1>3

LEMMA PathStep == TypeOK /\ PhaseInv /\ PathInv /\ [Next]_vars => PathInv'
<1> SUFFICES ASSUME TypeOK, PhaseInv, PathInv, [Next]_vars PROVE PathInv'
  OBVIOUS
<1> USE DEF slotVars, ctrlVars, loopVars
<1>1. ASSUME NEW u \in BOOLEAN, BeginRefresh(u) PROVE PathInv'
  <2>1. Boxed' = {} /\ Controllable'
    BY <1>1 DEF BeginRefresh, ClearDevices, ClearControllers, Boxed, Controllable
  <2>2. \A el \in Expdrs : bsg_path'[el] = NoPath
    BY <1>1 DEF BeginRefresh, ClearControllers
  <2>3. NoPath \notin Ses /\ NoPath # DummyPath
    BY TableAssumption DEF DName, NoPath, DummyPath
  <2> QED BY <1>1, <2>1, <2>2, <2>3 DEF BeginRefresh, PathInv
<1>2. ASSUME NEW d \in DName, ListDevice(d) \/ PlaceDevice(d) \/ RaidDrive(d)
      PROVE  PathInv'
  <2>1. resp' = resp /\ UNCHANGED <<ctrl, bsg_path, top, pc>>
    BY <1>2, SetSlotKeepsResp DEF ListDevice, PlaceDevice, RaidDrive
  <2>2. pc # "disc" /\ (cardType' = "HBA9600" => cardType = "HBA9600")
        /\ (pc = "raid" => cardType' = cardType)
    BY <1>2 DEF ListDevice, PlaceDevice, RaidDrive, CardAfter
  <2>3. Controllable' /\ Boxed' = Boxed
    BY <2>1, <2>2, ControllableStays, ReadyStays DEF PathInv
  <2> QED BY <2>1, <2>2, <2>3 DEF PathInv
<1>3. CASE (\E s \in Ses : ListEnclosure(s)) \/ ListEnd
  <2>1. /\ UNCHANGED <<resp, ctrl, bsg_path>>
        /\ pc' \in {"wwid", "raid", "fill"}
        /\ pc' # "wwid" => UNCHANGED top /\ pc = "list"
        /\ pc' = "raid" => cardType' = "RAID9x60"
        /\ cardType' = "HBA9600" => cardType = "HBA9600"
    BY <1>3 DEF ListEnclosure, ListEnd
  <2>2. Controllable' /\ Boxed' = Boxed
    BY <2>1, ControllableStays, ReadyStays DEF PathInv
  <2> QED BY <2>1, <2>2 DEF PathInv
<1>4. CASE ExpanderWwid \/ PlaceEnd
  <2>1. /\ pc \in {"wwid", "place"} /\ top \in Ses
        /\ UNCHANGED <<resp, bsg_path, cardType>>
        /\ resp' = [sl \in Slots |-> NoResp]
    BY <1>4 DEF ExpanderWwid, PlaceEnd, PhaseInv, BeforeDiscovery, SetController
  <2>2. CASE SetController(Index[top], top) /\ pc' = "list" /\ top' = NoDev
    BY <2>1, <2>2, BoxStep
  <2>3. CASE UNCHANGED ctrlVars
    <3>1. Controllable' /\ Boxed' = Boxed
      BY <2>1, <2>3, ControllableStays, ReadyStays DEF PathInv
    <3> QED BY <1>4, <2>1, <2>3, <3>1 DEF PathInv, ExpanderWwid, PlaceEnd
  <2> QED BY <1>4, <2>2, <2>3 DEF ExpanderWwid, PlaceEnd
<1>5. CASE RaidEnd
  <2>1. /\ UNCHANGED <<resp, ctrl, top>> /\ pc = "raid" /\ pc' = "fill"
        /\ cardType' # "HBA9600"
        /\ bsg_path' = bsg_path \/ bsg_path' = [el \in Expdrs |-> DummyPath]
    BY <1>5 DEF RaidEnd, PathInv
  <2>2. Boxed' = Boxed /\ Controllable' /\ DummyPath \notin Ses
    BY <2>1, TableAssumption DEF Boxed, Controllable, DName
  <2> QED BY <2>1, <2>2 DEF PathInv
<1>6. CASE DispatchHBA9600
  BY <1>6, DispatchPaths
<1>7. ASSUME NEW p \in PhyIds, DiscoverPhy(p) PROVE PathInv'
  BY <1>7, DiscoverPaths
<1>8. CASE \/ DispatchHBA9500 \/ DispatchNone \/ (\E s \in Ses : OpenExpander(s))
           \/ CloseExpander \/ EndRefresh
  <2>1. /\ UNCHANGED <<resp, ctrl, bsg_path, cardType>>
        /\ pc' \in {"disc", "idle"}
        /\ cardType = "HBA9600" /\ pc' = "disc" =>
              pc = "disc" /\ todo' \subseteq todo /\ top' \in todo \cup {NoDev}
    BY <1>8 DEF DispatchHBA9500, DispatchNone, OpenExpander, CloseExpander, EndRefresh
  <2>2. Controllable' /\ Ready' = Ready /\ Boxed' = Boxed
    BY <2>1, ControllableStays, ReadyStays DEF PathInv
  <2> QED BY <2>1, <2>2 DEF PathInv
<1>9. CASE \/ btnSelectAllClicked \/ (\E sl \in Slots : ClickSlot(sl))
           \/ (\E t \in Tabs : tabSelected(t))
           \/ (\E disable \in BOOLEAN : btnSmpDoitClicked(disable))
           \/ Environment \/ UNCHANGED vars
  <2>1. UNCHANGED <<resp, ctrl, bsg_path, cardType, pc, todo, top>>
    BY <1>9 DEF btnSelectAllClicked, ClickSlot, tabSelected, btnSmpDoitClicked,
                Environment, HotSwap, KernelSync, vars
  <2>2. Controllable' /\ Ready' = Ready /\ Boxed' = Boxed
    BY <2>1, ControllableStays, ReadyStays DEF PathInv
  <2> QED BY <2>1, <2>2 DEF PathInv
<1>10. CASE Construct \/ btnRefreshClicked \/ showModified \/ DelayOver
  BY <1>10, <1>1 DEF Construct, btnRefreshClicked, showModified, DelayOver
<1> QED BY <1>2, <1>3, <1>4, <1>5, <1>6, <1>7, <1>8, <1>9, <1>10
        DEF Next, Refreshing, User

LEMMA InitPaths == Init => PathInv
<1> SUFFICES ASSUME Init PROVE PathInv
  OBVIOUS
<1>1. Boxed = {} /\ Controllable
  BY DEF Init, TableInit, Boxed, Controllable
<1>2. NoPath \notin Ses /\ NoPath # DummyPath
  BY TableAssumption DEF DName, NoPath, DummyPath
<1> QED BY <1>1, <1>2 DEF Init, TableInit, PathInv

(* Whatever was plugged, pulled, disabled or lost since, a stored response *)
(* on an HBA9600 belongs to an expander whose path and address are those   *)
(* phy control will use, and names its slot's phy: mpi3mr_iocfacts,        *)
(* list_sdevices and do_multiple_slot together.                            *)
THEOREM ControllableSafe == Spec => []Controllable
<1>1. PathInv => Controllable
  BY DEF PathInv
<1> QED BY <1>1, InitPaths, PathStep, TypeCorrect, PTL DEF Spec

=============================================================================
