---------------------------- MODULE WindowProofs ----------------------------
(***************************************************************************)
(* Canvas implements Window, for any number of expanders, slots, drives    *)
(* and phys, on the machines of TargetsFollowBays.                         *)
(***************************************************************************)
EXTENDS CanvasProofs

(* What the constructor finds when it refreshes for the first time.        *)
StartInv ==
    pc = "start" => /\ d_name = [sl \in Slots |-> NoDev]
                    /\ checked = [sl \in Slots |-> FALSE]
                    /\ bsg_path = [el \in Expdrs |-> NoPath]

Paths == {el \in Expdrs : bsg_path[el] # NoPath}

-----------------------------------------------------------------------------
(* What the operations are to a reader of the window.                      *)

LEMMA SetSlotShows ==
    ASSUME pc # "idle", pc' # "idle", bsg_path' = bsg_path, SlotTypeOK,
           NEW d \in DName, NEW sl, SetSlot(sl, d),
           sl \in Slots => d \in Disk /\ Home(d) = sl
    PROVE  [Win!WinNext]_(Win!winVars)
<1>1. CASE sl \in Slots
  <2>1. d \in Disk /\ Home(d) = sl
    BY <1>1
  <2>2. d_name' = [d_name EXCEPT ![sl] = d] /\ checked' = checked
    BY <1>1 DEF SetSlot
  <2>3. Win!Show(sl, d)
    BY <2>1, <2>2 DEF Win!Show
  <2> QED BY <1>1, <2>1, <2>3 DEF Win!WinNext, Win!Slots, Win!NSLOT, Slots, NSLOT
<1>2. CASE sl \notin Slots
  BY <1>2 DEF SetSlot, slotVars, Win!winVars
<1> QED BY <1>1, <1>2

LEMMA BeginRefreshBegins ==
    ASSUME pc = "idle", NEW u \in BOOLEAN, BeginRefresh(u)
    PROVE  Win!WinNext
<1>1. /\ d_name' = Win!Blank /\ pc' # "idle"
      /\ checked' \in {checked, Win!Unchecked}
  BY DEF BeginRefresh, ClearDevices, Win!Blank, Win!Unchecked,
         Win!Slots, Win!NSLOT, Slots, NSLOT
<1>2. Paths' = {}
  BY DEF BeginRefresh, ClearControllers, Paths
<1> QED BY <1>1, <1>2 DEF Win!WinNext, Win!BeginRefresh, Paths

LEMMA StutterShows ==
    ASSUME UNCHANGED <<d_name, checked, bsg_path, pc>>
    PROVE  UNCHANGED Win!winVars
BY DEF Win!winVars

(* A handler that only touches boxes.                                      *)
LEMMA ClickShows ==
    ASSUME pc = "idle", UNCHANGED <<d_name, bsg_path, pc>>,
           checked' \in [Slots -> BOOLEAN]
    PROVE  Win!WinNext
<1>1. Win!Click(checked')
  BY DEF Win!Click
<1> QED BY <1>1 DEF Win!WinNext, Win!Slots, Win!NSLOT, Slots, NSLOT

LEMMA ReachShows ==
    ASSUME pc # "idle", pc' # "idle", UNCHANGED <<d_name, checked>>,
           NEW found \in SUBSET Expdrs, Paths' = Paths \cup found
    PROVE  Win!WinNext
<1>1. Win!Reach(found)
  BY DEF Win!Reach, Paths
<1> QED BY <1>1 DEF Win!WinNext, Win!Expdrs, Expdrs

-----------------------------------------------------------------------------
(* The steps of a refresh.                                                 *)

LEMMA ListingShows ==
    ASSUME TargetsFollowBays, TypeOK, PhaseInv, SlotInv, NEW d \in DName,
           ListDevice(d) \/ PlaceDevice(d) \/ RaidDrive(d)
    PROVE  [Win!WinNext]_(Win!winVars)
<1> USE DEF TypeOK, TableTypeOK, ctrlVars
<1>1. /\ pc # "idle" /\ pc' # "idle" /\ bsg_path' = bsg_path
  BY DEF ListDevice, PlaceDevice, RaidDrive
<1>2. CASE UNCHANGED slotVars
  BY <1>1, <1>2 DEF slotVars, Win!winVars
<1>3. CASE ListDevice(d) /\ ~UNCHANGED slotVars
  <2>1. cardType' = "HBA9500" /\ HasWwid(d) /\ SetSlot(enclSlot', d)
    BY <1>3 DEF ListDevice
  <2>2. Card = "HBA9500"
    BY <1>3, <2>1 DEF ListDevice, CardAfter, HasEnclosureLink, SlotInv
  <2>3. d \in Disk /\ Bay[d] # NoBay
    BY <1>3, <2>1, <2>2 DEF ListDevice, HasWwid, DName, TargetsFollowBays
  <2>4. enclSlot' = Home(d)
    BY <1>3, <2>1, <2>2, <2>3 DEF ListDevice, EnclSlotAfter, HasEnclosureLink, HasWwid, Home
  <2> QED BY <1>1, <2>1, <2>3, <2>4, SetSlotShows
<1>4. CASE PlaceDevice(d) /\ ~UNCHANGED slotVars
  <2>1. SetSlot(SlotUnder(d, top), d) /\ top \in Ses
    BY <1>4 DEF PlaceDevice, PhaseInv
  <2>2. SlotUnder(d, top) \in Slots => d \in Disk /\ Home(d) = SlotUnder(d, top)
    BY <2>1, SlotUnderRight
  <2> QED BY <1>1, <2>1, <2>2, SetSlotShows
<1>5. CASE RaidDrive(d) /\ ~UNCHANGED slotVars
  <2>1. SetSlot(ReportedSlot(d), d) /\ pc = "raid" /\ d \in todo
    BY <1>5 DEF RaidDrive
  <2>2. d \in Disk /\ Home(d) = ReportedSlot(d)
    BY <2>1 DEF SlotInv, TargetsFollowBays, Home, ReportedSlot
  <2> QED BY <1>1, <2>1, <2>2, SetSlotShows
<1> QED BY <1>2, <1>3, <1>4, <1>5

LEMMA DiscoverShows ==
    ASSUME TypeOK, NEW p \in PhyIds, DiscoverPhy(p)
    PROVE  [Win!WinNext]_(Win!winVars)
<1> USE DEF TypeOK, TableTypeOK, SlotTypeOK, CtrlTypeOK
<1>1. pc # "idle" /\ pc' # "idle" /\ top \in Ses
  BY DEF DiscoverPhy
<1>2. CASE Wiring[top][p] = HbaPhy
  <2>1. /\ bsg_path' = [bsg_path EXCEPT ![Index[top]] = top]
        /\ UNCHANGED <<d_name, checked>>
    BY <1>2 DEF DiscoverPhy, SetBsgPath, slotVars
  <2>2. Index[top] \in Expdrs /\ top # NoPath
    BY <1>1, HardwareAssumption, TableAssumption DEF DName
  <2>3. Paths' = Paths \cup {Index[top]}
    BY <2>1, <2>2 DEF Paths
  <2>4. {Index[top]} \in SUBSET Expdrs
    BY <2>2
  <2> QED BY <1>1, <2>1, <2>3, <2>4, ReachShows
<1>3. CASE Wiring[top][p] # HbaPhy
  <2> DEFINE sl == Wiring[top][p] - 1
             r == [phy |-> p, link |-> LinkOf(top, p)]
  <2>1. SetDiscoverResp(Wiring[top][p], r) /\ bsg_path' = bsg_path
    BY <1>3 DEF DiscoverPhy, ctrlVars
  <2>2. CASE sl \in Slots /\ Lagging(sl, r)
    <3>1. /\ d_name' = [d_name EXCEPT ![sl] = NoDev]
          /\ checked' = [checked EXCEPT ![sl] = FALSE]
      BY <2>1, <2>2 DEF SetDiscoverResp
    <3> HIDE DEF sl
    <3>2. Win!Hide(sl)
      BY <1>1, <2>1, <3>1 DEF Win!Hide
    <3> QED BY <2>2, <3>2 DEF Win!WinNext, Win!Slots, Win!NSLOT, Slots, NSLOT
  <2>3. CASE ~(sl \in Slots /\ Lagging(sl, r))
    <3>1. UNCHANGED <<d_name, checked>>
      BY <2>1, <2>3 DEF SetDiscoverResp, slotVars
    <3> QED BY <1>1, <2>1, <3>1 DEF Win!winVars
  <2> QED BY <2>2, <2>3
<1> QED BY <1>2, <1>3

LEMMA DispatchShows ==
    ASSUME TypeOK, DispatchHBA9600
    PROVE  Win!WinNext
<1> USE DEF TypeOK, TableTypeOK, CtrlTypeOK
<1>1. PICK found \in SUBSET Explored :
        bsg_path' = [el \in Expdrs |-> IF \E s \in found : Index[s] = el
                                      THEN CHOOSE s \in found : Index[s] = el
                                      ELSE bsg_path[el]]
  <2> DEFINE Registered(found) ==
        bsg_path' = [el \in Expdrs |-> IF \E s \in found : Index[s] = el
                                      THEN CHOOSE s \in found : Index[s] = el
                                      ELSE bsg_path[el]]
  <2>1. \E found \in IF SmpMayFail THEN SUBSET Explored ELSE {Explored} : Registered(found)
    BY Zenon DEF DispatchHBA9600
  <2> HIDE DEF Registered
  <2>2. \E found \in SUBSET Explored : Registered(found)
    BY <2>1
  <2> QED BY <2>2, Zenon DEF Registered
<1>2. \A s \in found : s \in Ses /\ s # NoPath /\ Index[s] \in Expdrs
  BY <1>1, HardwareAssumption, TableAssumption DEF Explored, DName
<1> DEFINE reached == {Index[s] : s \in found}
<1>3. reached \in SUBSET Expdrs
  BY <1>2
<1>4. \A el \in Expdrs : bsg_path'[el] # NoPath <=> bsg_path[el] # NoPath \/ el \in reached
  <2> SUFFICES ASSUME NEW el \in Expdrs
               PROVE  bsg_path'[el] # NoPath <=> bsg_path[el] # NoPath \/ el \in reached
    OBVIOUS
  <2>1. CASE \E s \in found : Index[s] = el
    <3> DEFINE w == CHOOSE s \in found : Index[s] = el
    <3>1. w \in found /\ bsg_path'[el] = w
      BY <1>1, <2>1
    <3> HIDE DEF w
    <3> QED BY <1>2, <2>1, <3>1
  <2>2. CASE ~\E s \in found : Index[s] = el
    BY <1>1, <2>2
  <2> QED BY <2>1, <2>2
<1>5. Paths' = Paths \cup reached
  BY <1>3, <1>4 DEF Paths
<1>6. pc # "idle" /\ pc' # "idle" /\ UNCHANGED <<d_name, checked>>
  BY DEF DispatchHBA9600, slotVars
<1> QED BY <1>3, <1>5, <1>6, ReachShows

LEMMA RaidEndShows ==
    ASSUME TypeOK, RaidEnd
    PROVE  [Win!WinNext]_(Win!winVars)
<1>1. pc # "idle" /\ pc' # "idle" /\ UNCHANGED <<d_name, checked>>
  BY DEF RaidEnd, slotVars
<1>2. CASE bsg_path' = bsg_path
  BY <1>1, <1>2 DEF Win!winVars
<1>3. CASE bsg_path' = [el \in Expdrs |-> DummyPath]
  <2>1. Paths' = Paths \cup Expdrs
    BY <1>3 DEF Paths, NoPath, DummyPath
  <2> QED BY <1>1, <2>1, ReachShows
<1> QED BY <1>2, <1>3 DEF RaidEnd

-----------------------------------------------------------------------------
LEMMA StartStep == StartInv /\ [Next]_vars => StartInv'
<1> SUFFICES ASSUME StartInv, [Next]_vars, pc' = "start"
             PROVE  UNCHANGED <<d_name, checked, bsg_path, pc>>
  BY DEF StartInv
<1>1. ~ \E u \in BOOLEAN : BeginRefresh(u)
  BY DEF BeginRefresh
<1>2. ~Refreshing
  BY DEF Refreshing, ListDevice, PlaceDevice, RaidDrive, ListEnclosure, OpenExpander,
         DiscoverPhy, ExpanderWwid, PlaceEnd, ListEnd, RaidEnd, DispatchHBA9600,
         DispatchHBA9500, DispatchNone, CloseExpander, EndRefresh
<1>3. CASE Construct \/ showModified \/ DelayOver
  BY <1>1, <1>3 DEF Construct, showModified, DelayOver
<1>4. CASE User
  BY <1>1, <1>4 DEF User, btnRefreshClicked, btnSelectAllClicked, ClickSlot,
                    tabSelected, btnSmpDoitClicked
<1>5. CASE Environment \/ UNCHANGED vars
  BY <1>5 DEF Environment, HotSwap, KernelSync, vars, slotVars, ctrlVars
<1> QED BY <1>2, <1>3, <1>4, <1>5 DEF Next

LEMMA ShowsStep ==
    ASSUME TargetsFollowBays
    PROVE  TypeOK /\ TypeOK' /\ PhaseInv /\ SlotInv /\ StartInv /\ [Next]_vars
               => [Win!WinNext]_(Win!winVars)
<1> SUFFICES ASSUME TypeOK, TypeOK', PhaseInv, SlotInv, StartInv, [Next]_vars
             PROVE  [Win!WinNext]_(Win!winVars)
  OBVIOUS
<1> USE DEF slotVars, ctrlVars
<1>1. CASE Construct
  <2>1. d_name' = d_name /\ checked' = checked
    BY <1>1 DEF Construct, BeginRefresh, ClearDevices, StartInv
  <2>2. bsg_path' = bsg_path
    BY <1>1 DEF Construct, BeginRefresh, ClearControllers, StartInv
  <2>3. (pc # "idle") = TRUE /\ (pc' # "idle") = TRUE
    BY <1>1 DEF Construct, BeginRefresh
  <2> QED BY <2>1, <2>2, <2>3 DEF Win!winVars
<1>2. CASE btnRefreshClicked \/ showModified \/ DelayOver
  BY <1>2, BeginRefreshBegins DEF btnRefreshClicked, showModified, DelayOver
<1>3. CASE \E d \in DName : ListDevice(d) \/ PlaceDevice(d) \/ RaidDrive(d)
  BY <1>3, ListingShows
<1>4. CASE \E p \in PhyIds : DiscoverPhy(p)
  BY <1>4, DiscoverShows
<1>5. CASE DispatchHBA9600 \/ RaidEnd
  BY <1>5, DispatchShows, RaidEndShows
<1>6. CASE \/ \E s \in Ses : ListEnclosure(s) \/ OpenExpander(s)
           \/ ExpanderWwid \/ PlaceEnd \/ ListEnd \/ DispatchHBA9500 \/ CloseExpander
  <2>1. /\ UNCHANGED <<d_name, checked, bsg_path>>
        /\ (pc # "idle") = TRUE /\ (pc' # "idle") = TRUE
    BY <1>6 DEF ListEnclosure, OpenExpander, ExpanderWwid, PlaceEnd, ListEnd,
                DispatchHBA9500, CloseExpander, SetController
  <2> QED BY <2>1 DEF Win!winVars
<1>7. CASE DispatchNone \/ EndRefresh
  <2>1. Win!EndRefresh
    BY <1>7 DEF DispatchNone, EndRefresh, Win!EndRefresh
  <2> QED BY <2>1 DEF Win!WinNext
<1>8. CASE \/ btnSelectAllClicked \/ (\E sl \in Slots : ClickSlot(sl))
           \/ (\E disable \in BOOLEAN : btnSmpDoitClicked(disable))
  <2>1. pc = "idle" /\ UNCHANGED <<d_name, bsg_path, pc>>
    BY <1>8 DEF btnSelectAllClicked, ClickSlot, btnSmpDoitClicked
  <2>2. checked' \in [Slots -> BOOLEAN]
    BY DEF TypeOK, TableTypeOK, SlotTypeOK
  <2> QED BY <2>1, <2>2, ClickShows
<1>9. CASE (\E t \in Tabs : tabSelected(t)) \/ Environment \/ UNCHANGED vars
  <2>1. UNCHANGED <<d_name, checked, bsg_path, pc>>
    BY <1>9 DEF tabSelected, Environment, HotSwap, KernelSync, vars
  <2> QED BY <2>1, StutterShows
<1> QED BY <1>1, <1>2, <1>3, <1>4, <1>5, <1>6, <1>7, <1>8, <1>9
        DEF Next, Refreshing, User

(* Whoever reads the window between its refreshes may rely on Window:      *)
(* every refresh, event and hardware change is one of its steps or is not  *)
(* seen there (filloutCanvas and all handlers that call it).               *)
THEOREM WindowImplemented ==
    ASSUME TargetsFollowBays
    PROVE  Spec => ImplementsWindow
<1>1. Init => Win!WinInit /\ StartInv /\ SlotInv
  <2> SUFFICES ASSUME Init PROVE Win!WinInit /\ StartInv /\ SlotInv
    OBVIOUS
  <2>1. StartInv
    BY DEF Init, TableInit, StartInv
  <2>2. SlotInv
    BY DEF Init, TableInit, SlotInv, RightSlot, Occupied
  <2>3. Paths = {} /\ pc # "idle"
    BY DEF Init, TableInit, Paths
  <2>4. d_name = Win!Blank /\ checked = Win!Unchecked
    BY DEF Init, TableInit, Win!Blank, Win!Unchecked, Win!Slots, Win!NSLOT, Slots, NSLOT
  <2> QED BY <2>1, <2>2, <2>3, <2>4 DEF Win!WinInit, Paths
<1>2. Spec => [](TypeOK /\ PhaseInv)
  BY TypeCorrect
<1> QED BY <1>1, <1>2, ShowsStep, SlotStep, StartStep, PTL
        DEF Spec, ImplementsWindow, Win!WinSpec

=============================================================================
