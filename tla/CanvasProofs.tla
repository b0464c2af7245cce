---------------------------- MODULE CanvasProofs ----------------------------
(* Theorems about Canvas for any number of expanders, slots, drives and    *)
(* phys, with their proofs.                                                *)
EXTENDS Canvas, TLAPS

-----------------------------------------------------------------------------
(* What the table operations preserve.                                     *)

LEMMA ClearType ==
    ASSUME NEW uncheck \in BOOLEAN, SlotTypeOK, CtrlTypeOK,
           ClearDevices(uncheck), ClearControllers
    PROVE  SlotTypeOK' /\ CtrlTypeOK'
BY DEF SlotTypeOK, CtrlTypeOK, ClearDevices, ClearControllers

LEMMA SetSlotType ==
    ASSUME NEW sl, NEW dev \in DName, SlotTypeOK, SetSlot(sl, dev)
    PROVE  SlotTypeOK'
<1>1. CASE sl \in Slots
  <2>1. /\ d_name' = [d_name EXCEPT ![sl] = dev]
        /\ enabled' = [enabled EXCEPT ![sl] = TRUE]
        /\ devCount' = devCount + 1
        /\ UNCHANGED <<resp, checked>>
    BY <1>1 DEF SetSlot
  <2>2. d_name' \in [Slots -> DName \cup {NoDev}]
    BY <2>1 DEF SlotTypeOK
  <2>3. enabled' \in [Slots -> BOOLEAN]
    BY <2>1 DEF SlotTypeOK
  <2>4. devCount' \in Int
    BY <2>1 DEF SlotTypeOK
  <2> QED BY <2>1, <2>2, <2>3, <2>4 DEF SlotTypeOK
<1>2. CASE sl \notin Slots
  BY <1>2 DEF SlotTypeOK, SetSlot, slotVars
<1> QED BY <1>1, <1>2

LEMMA SetDiscoverRespType ==
    ASSUME NEW dsn, NEW r \in Response, SlotTypeOK, SetDiscoverResp(dsn, r)
    PROVE  SlotTypeOK'
<1> DEFINE sl == dsn - 1
<1>1. CASE sl \in Slots
  <2>1. /\ IF Lagging(sl, r)
           THEN /\ d_name' = [d_name EXCEPT ![sl] = NoDev]
                /\ checked' = [checked EXCEPT ![sl] = FALSE]
                /\ devCount' = devCount - 1
           ELSE UNCHANGED <<d_name, checked, devCount>>
        /\ resp' = [resp EXCEPT ![sl] = r]
        /\ enabled' = [enabled EXCEPT ![sl] =
                           tab \notin FioTabs \/ (@ /\ ~Lagging(sl, r))]
    BY <1>1 DEF SetDiscoverResp
  <2> HIDE DEF sl
  <2>2. d_name' \in [Slots -> DName \cup {NoDev}]
    BY <2>1 DEF SlotTypeOK
  <2>3. checked' \in [Slots -> BOOLEAN]
    BY <2>1, Zenon DEF SlotTypeOK
  <2>6. devCount' \in Int
    BY <2>1, SMT DEF SlotTypeOK
  <2>4. resp' \in [Slots -> Response \cup {NoResp}]
    BY <2>1 DEF SlotTypeOK
  <2>5. enabled' \in [Slots -> BOOLEAN]
    BY <2>1 DEF SlotTypeOK
  <2> QED BY <2>2, <2>3, <2>4, <2>5, <2>6 DEF SlotTypeOK
<1>2. CASE sl \notin Slots
  BY <1>2 DEF SlotTypeOK, SetDiscoverResp, slotVars
<1> QED BY <1>1, <1>2

LEMMA SetControllerType ==
    ASSUME NEW s \in Ses, CtrlTypeOK, SetController(Index[s], s)
    PROVE  CtrlTypeOK'
BY HardwareAssumption DEF CtrlTypeOK, SetController

LEMMA SetBsgPathType ==
    ASSUME NEW s \in Ses, CtrlTypeOK, SetBsgPath(Index[s], s)
    PROVE  CtrlTypeOK'
BY HardwareAssumption DEF CtrlTypeOK, SetBsgPath

-----------------------------------------------------------------------------
(* Type correctness.                                                       *)

LEMMA InitType == Init => TypeOK
<1> SUFFICES ASSUME Init PROVE TypeOK
  OBVIOUS
<1> USE DEF Init, TableInit
<1>1. SlotTypeOK
  BY DEF SlotTypeOK
<1>2. CtrlTypeOK
  BY DEF CtrlTypeOK
<1>3. tab \in ENUM_TAB /\ cardType \in ENUM_CARDTYPE /\ lastIndex \in ENUM_TAB
  BY DEF ENUM_TAB, ENUM_CARDTYPE
<1>4. plugged \subseteq DName /\ sysfs \subseteq DName
  BY DEF Live
<1>5. dirty \in BOOLEAN
  BY Zenon
<1> QED BY <1>1, <1>2, <1>3, <1>4, <1>5 DEF TypeOK, TableTypeOK

LEMMA BeginRefreshType ==
    ASSUME NEW uncheck \in BOOLEAN, TypeOK, BeginRefresh(uncheck),
           dirty' \in BOOLEAN, lastIndex' = lastIndex, awaiting' \in Nat
    PROVE  TypeOK'
<1>1. SlotTypeOK' /\ CtrlTypeOK'
  BY ClearType DEF TypeOK, TableTypeOK, BeginRefresh
<1> QED BY <1>1 DEF TypeOK, TableTypeOK, BeginRefresh, hwVars

LEMMA ListingType ==
    ASSUME TypeOK, NEW d \in DName, ListDevice(d) \/ PlaceDevice(d) \/ RaidDrive(d)
    PROVE  TypeOK'
<1> USE DEF TypeOK, TableTypeOK, hwVars, ctrlVars
<1>1. CASE ListDevice(d)
  <2>1. EnclSlotAfter(d) \in Int /\ CardAfter(d) \in ENUM_CARDTYPE
    <3>1. HasEnclosureLink(d) => BaySlot(Bay[d]) \in Int
      BY HardwareAssumption, TableAssumption
         DEF HasEnclosureLink, Slots, NSLOT
    <3> QED BY <3>1 DEF EnclSlotAfter, CardAfter, ENUM_CARDTYPE
  <2>2. SlotTypeOK'
    <3>1. CASE UNCHANGED slotVars
      BY <3>1 DEF SlotTypeOK, slotVars
    <3>2. CASE SetSlot(enclSlot', d)
      BY <3>2, SetSlotType
    <3> QED BY <1>1, <3>1, <3>2 DEF ListDevice
  <2>3. CtrlTypeOK'
    BY <1>1 DEF ListDevice, CtrlTypeOK
  <2> QED BY <1>1, <2>1, <2>2, <2>3 DEF ListDevice
<1>2. CASE PlaceDevice(d)
  <2>1. SlotTypeOK'
    <3>1. CASE UNCHANGED slotVars
      BY <3>1 DEF SlotTypeOK, slotVars
    <3>2. CASE SetSlot(SlotUnder(d, top), d)
      BY <3>2, SetSlotType
    <3> QED BY <1>2, <3>1, <3>2 DEF PlaceDevice
  <2>2. CtrlTypeOK'
    BY <1>2 DEF PlaceDevice, CtrlTypeOK
  <2> QED BY <1>2, <2>1, <2>2 DEF PlaceDevice
<1>3. CASE RaidDrive(d)
  <2>1. SlotTypeOK'
    <3>1. CASE UNCHANGED slotVars
      BY <3>1 DEF SlotTypeOK, slotVars
    <3>2. CASE SetSlot(ReportedSlot(d), d)
      BY <3>2, SetSlotType
    <3> QED BY <1>3, <3>1, <3>2 DEF RaidDrive
  <2>2. CtrlTypeOK'
    BY <1>3 DEF RaidDrive, CtrlTypeOK
  <2> QED BY <1>3, <2>1, <2>2 DEF RaidDrive
<1> QED BY <1>1, <1>2, <1>3

LEMMA EnclosureType ==
    ASSUME TypeOK, pc \in {"wwid", "place"} => top \in Ses,
           \/ \E s \in Ses : ListEnclosure(s) \/ OpenExpander(s)
           \/ ExpanderWwid \/ PlaceEnd \/ ListEnd \/ RaidEnd
    PROVE  TypeOK'
<1> USE DEF TypeOK, TableTypeOK, hwVars, ctrlVars, slotVars
<1>1. ASSUME NEW s \in Ses, ListEnclosure(s) PROVE TypeOK'
  BY <1>1 DEF ListEnclosure, SlotTypeOK, CtrlTypeOK
<1>2. ASSUME NEW s \in Ses, OpenExpander(s) PROVE TypeOK'
  BY <1>2, HardwareAssumption DEF OpenExpander, SlotTypeOK, CtrlTypeOK, DName, loopVars
<1>3. CASE ExpanderWwid
  <2>1. top \in Ses
    BY <1>3 DEF ExpanderWwid
  <2> QED BY <1>3, <2>1, SetControllerType DEF ExpanderWwid, SlotTypeOK, CtrlTypeOK, DName
<1>4. CASE PlaceEnd
  <2>1. top \in Ses
    BY <1>4 DEF PlaceEnd
  <2> QED BY <1>4, <2>1, SetControllerType DEF PlaceEnd, SlotTypeOK, CtrlTypeOK, DName
<1>5. CASE ListEnd
  BY <1>5 DEF ListEnd, SlotTypeOK, CtrlTypeOK, ENUM_CARDTYPE, DName
<1>6. CASE RaidEnd
  BY <1>6 DEF RaidEnd, SlotTypeOK, CtrlTypeOK, ENUM_CARDTYPE, loopVars
<1> QED BY <1>1, <1>2, <1>3, <1>4, <1>5, <1>6

LEMMA DiscoveryType ==
    ASSUME TypeOK,
           \/ \E p \in PhyIds : DiscoverPhy(p)
           \/ DispatchHBA9600 \/ DispatchHBA9500 \/ DispatchNone
           \/ CloseExpander \/ EndRefresh
    PROVE  TypeOK'
<1> USE DEF TypeOK, TableTypeOK, hwVars, ctrlVars, slotVars
<1>1. ASSUME NEW p \in PhyIds, DiscoverPhy(p) PROVE TypeOK'
  <2>1. top \in Ses
    BY <1>1 DEF DiscoverPhy
  <2>2. [phy |-> p, link |-> LinkOf(top, p)] \in Response
    BY DEF Response, LinkOf, Link
  <2>3. SlotTypeOK' /\ CtrlTypeOK'
    BY <1>1, <2>1, <2>2, SetBsgPathType, SetDiscoverRespType
       DEF DiscoverPhy, SlotTypeOK, CtrlTypeOK
  <2> QED BY <1>1, <2>3 DEF DiscoverPhy
<1>2. CASE DispatchHBA9600
  <2>1. PICK found \in SUBSET (plugged \cap Ses) :
           bsg_path' = [el \in Expdrs |-> IF \E s \in found : Index[s] = el
                                         THEN CHOOSE s \in found : Index[s] = el
                                         ELSE bsg_path[el]]
    BY <1>2 DEF DispatchHBA9600, Explored
  <2>2. CtrlTypeOK'
    BY <1>2, <2>1 DEF DispatchHBA9600, CtrlTypeOK
  <2>3. todo' \subseteq DName
    BY <1>2 DEF DispatchHBA9600, CtrlTypeOK, DName
  <2>4. SlotTypeOK'
    BY <1>2 DEF DispatchHBA9600, SlotTypeOK
  <2> QED BY <1>2, <2>2, <2>3, <2>4 DEF DispatchHBA9600
<1>3. CASE DispatchHBA9500
  BY <1>3 DEF DispatchHBA9500, SlotTypeOK, CtrlTypeOK
<1>4. CASE DispatchNone
  BY <1>4 DEF DispatchNone, SlotTypeOK, CtrlTypeOK, loopVars
<1>5. CASE CloseExpander
  BY <1>5 DEF CloseExpander, SlotTypeOK, CtrlTypeOK
<1>6. CASE EndRefresh
  BY <1>6 DEF EndRefresh, SlotTypeOK, CtrlTypeOK
<1> QED BY <1>1, <1>2, <1>3, <1>4, <1>5, <1>6

LEMMA UserType ==
    ASSUME TypeOK, Construct \/ User \/ showModified \/ DelayOver
    PROVE  TypeOK'
<1>1. CASE Construct
  BY <1>1, BeginRefreshType DEF Construct, TypeOK
<1>2. CASE btnRefreshClicked
  BY <1>2, BeginRefreshType DEF btnRefreshClicked, TypeOK
<1>3. CASE showModified
  BY <1>3, BeginRefreshType DEF showModified, TypeOK
<1>4. CASE DelayOver
  <2>1. awaiting' \in Nat
    BY <1>4 DEF DelayOver, TypeOK
  <2> QED BY <1>4, <2>1, BeginRefreshType DEF DelayOver, TypeOK
<1> USE DEF TypeOK, TableTypeOK, hwVars, ctrlVars, loopVars, CtrlTypeOK
<1>5. CASE btnSelectAllClicked
  BY <1>5 DEF btnSelectAllClicked, SlotTypeOK
<1>6. ASSUME NEW sl \in Slots, ClickSlot(sl) PROVE TypeOK'
  BY <1>6 DEF ClickSlot, SlotTypeOK
<1>7. ASSUME NEW t \in Tabs, tabSelected(t) PROVE TypeOK'
  BY <1>7, HardwareAssumption DEF tabSelected, RememberTab, SlotTypeOK
<1>8. ASSUME NEW disable \in BOOLEAN, btnSmpDoitClicked(disable) PROVE TypeOK'
  <2>1. Obeying \subseteq Ses \X PhyIds
    <3> SUFFICES ASSUME NEW el \in Expdrs, Opens(el),
                        NEW b \in Controlled(el), b[1] \in plugged
                 PROVE  b \in Ses \X PhyIds
      BY DEF Obeying
    <3>1. Addressed(el) \in Ses \cup {NoDev}
      BY DEF Addressed, Opens
    <3>2. PICK i \in SlotsOf(el) : /\ slotPhyId(i) \in 4 .. 31
                                  /\ b = <<Addressed(el), slotPhyId(i)>>
      BY DEF Controlled
    <3>3. slotPhyId(i) \in PhyIds
      BY <3>2 DEF PhyIds
    <3>4. Addressed(el) \in Ses
      BY <3>1, <3>2, TableAssumption
    <3> QED BY <3>2, <3>3, <3>4
  <2>2. off' \subseteq Ses \X PhyIds
    BY <1>8, <2>1 DEF btnSmpDoitClicked
  <2>3. SlotTypeOK'
    BY <1>8 DEF btnSmpDoitClicked, SlotTypeOK
  <2>4. changes' \in Nat /\ awaiting' \in Nat
    BY <1>8 DEF btnSmpDoitClicked
  <2> QED BY <1>8, <2>2, <2>3, <2>4 DEF btnSmpDoitClicked
<1> QED BY <1>1, <1>2, <1>3, <1>4, <1>5, <1>6, <1>7, <1>8 DEF User

LEMMA EnvironmentType == TypeOK /\ Environment => TypeOK'
<1> SUFFICES ASSUME TypeOK, NEW d \in DName, HotSwap(d) \/ KernelSync(d)
             PROVE  TypeOK'
  BY DEF Environment
<1> USE DEF TypeOK, TableTypeOK, SlotTypeOK, CtrlTypeOK, slotVars, ctrlVars, loopVars
<1>1. CASE HotSwap(d)
  BY <1>1, HardwareAssumption DEF HotSwap
<1>2. CASE KernelSync(d)
  <2>1. dirty' \in BOOLEAN
    BY <1>2, Zenon DEF KernelSync
  <2> QED BY <1>2, <2>1 DEF KernelSync
<1> QED BY <1>1, <1>2

LEMMA StutterType == TypeOK /\ UNCHANGED vars => TypeOK'
BY DEF TypeOK, TableTypeOK, SlotTypeOK, CtrlTypeOK, vars, slotVars, ctrlVars,
       hwVars, loopVars

-----------------------------------------------------------------------------
(* What the phase of a refresh says of the tables: while devices are       *)
(* listed and placed no response is stored, an enclosure being placed is   *)
(* set, and only phys the explored expander has are left to ask about.     *)
BeforeDiscovery == {"start", "list", "wwid", "place", "raid", "fill"}

PhaseInv ==
    /\ pc \in {"wwid", "place"} => top \in Ses
    /\ pc \in BeforeDiscovery => resp = [sl \in Slots |-> NoResp]
    /\ left # {} => pc = "disc" /\ top \in Ses /\ left \subseteq DOMAIN Wiring[top]

LEMMA SetSlotKeepsResp ==
    ASSUME NEW sl, NEW dev, SetSlot(sl, dev) PROVE resp' = resp
BY DEF SetSlot, slotVars

LEMMA PhaseStep == TypeOK /\ PhaseInv /\ [Next]_vars => PhaseInv'
<1> SUFFICES ASSUME TypeOK, PhaseInv, [Next]_vars PROVE PhaseInv'
  OBVIOUS
<1> USE DEF PhaseInv, BeforeDiscovery, slotVars, loopVars
<1>1. ASSUME NEW u \in BOOLEAN, BeginRefresh(u) PROVE PhaseInv'
  BY <1>1 DEF BeginRefresh, ClearDevices
<1>2. ASSUME NEW d \in DName, ListDevice(d) PROVE PhaseInv'
  BY <1>2, SetSlotKeepsResp DEF ListDevice
<1>3. ASSUME NEW d \in DName, PlaceDevice(d) PROVE PhaseInv'
  BY <1>3, SetSlotKeepsResp DEF PlaceDevice
<1>4. ASSUME NEW d \in DName, RaidDrive(d) PROVE PhaseInv'
  BY <1>4, SetSlotKeepsResp DEF RaidDrive
<1>5. ASSUME NEW s \in Ses, ListEnclosure(s) \/ OpenExpander(s) PROVE PhaseInv'
  BY <1>5 DEF ListEnclosure, OpenExpander
<1>6. ASSUME NEW p \in PhyIds, DiscoverPhy(p) PROVE PhaseInv'
  BY <1>6 DEF DiscoverPhy
<1>7. CASE ExpanderWwid \/ PlaceEnd \/ ListEnd \/ RaidEnd
  BY <1>7 DEF ExpanderWwid, PlaceEnd, ListEnd, RaidEnd
<1>8. CASE \/ DispatchHBA9600 \/ DispatchHBA9500 \/ DispatchNone
           \/ CloseExpander \/ EndRefresh
  <2>1. CASE EndRefresh
    BY <2>1, TableAssumption DEF EndRefresh, DName
  <2>2. CASE DispatchHBA9600 \/ DispatchHBA9500 \/ DispatchNone \/ CloseExpander
    BY <2>2 DEF DispatchHBA9600, DispatchHBA9500, DispatchNone, CloseExpander
  <2> QED BY <1>8, <2>1, <2>2
<1>9. CASE User
  <2>1. CASE btnRefreshClicked
    BY <2>1, <1>1 DEF btnRefreshClicked
  <2>2. CASE btnSelectAllClicked
    BY <2>2 DEF btnSelectAllClicked
  <2>3. ASSUME NEW sl \in Slots, ClickSlot(sl) PROVE PhaseInv'
    BY <2>3 DEF ClickSlot
  <2>4. ASSUME NEW t \in Tabs, tabSelected(t) PROVE PhaseInv'
    BY <2>4 DEF tabSelected
  <2>5. ASSUME NEW disable \in BOOLEAN, btnSmpDoitClicked(disable) PROVE PhaseInv'
    BY <2>5 DEF btnSmpDoitClicked
  <2> QED BY <1>9, <2>1, <2>2, <2>3, <2>4, <2>5 DEF User
<1>10. CASE Construct \/ showModified \/ DelayOver
  BY <1>10, <1>1 DEF Construct, showModified, DelayOver
<1>11. ASSUME NEW d \in DName, HotSwap(d) \/ KernelSync(d) PROVE PhaseInv'
  BY <1>11 DEF HotSwap, KernelSync
<1>12. CASE UNCHANGED vars
  BY <1>12 DEF vars
<1> QED BY <1>2, <1>3, <1>4, <1>5, <1>6, <1>7, <1>8, <1>9, <1>10, <1>11, <1>12
        DEF Next, Refreshing, Environment

(* The variables keep their types: Canvas uses no value that the program's *)
(* tables cannot hold.                                                     *)
THEOREM TypeCorrect == Spec => [](TypeOK /\ PhaseInv)
<1>1. Init => TypeOK /\ PhaseInv
  BY InitType DEF Init, TableInit, PhaseInv
<1>2. TypeOK /\ PhaseInv /\ [Next]_vars => (TypeOK /\ PhaseInv)'
  <2> SUFFICES ASSUME TypeOK, PhaseInv, [Next]_vars PROVE TypeOK'
    BY PhaseStep
  <2>1. ASSUME NEW d \in DName, ListDevice(d) \/ PlaceDevice(d) \/ RaidDrive(d)
        PROVE  TypeOK'
    BY <2>1, ListingType
  <2>2. CASE \/ \E s \in Ses : ListEnclosure(s) \/ OpenExpander(s)
             \/ ExpanderWwid \/ PlaceEnd \/ ListEnd \/ RaidEnd
    BY <2>2, EnclosureType DEF PhaseInv
  <2>3. CASE \/ \E p \in PhyIds : DiscoverPhy(p)
             \/ DispatchHBA9600 \/ DispatchHBA9500 \/ DispatchNone
             \/ CloseExpander \/ EndRefresh
    BY <2>3, DiscoveryType
  <2>4. CASE Construct \/ User \/ showModified \/ DelayOver
    BY <2>4, UserType
  <2>5. CASE Environment
    BY <2>5, EnvironmentType
  <2>6. CASE UNCHANGED vars
    BY <2>6, StutterType
  <2> QED BY <2>1, <2>2, <2>3, <2>4, <2>5, <2>6 DEF Next, Refreshing
<1> QED BY <1>1, <1>2, PTL DEF Spec

-----------------------------------------------------------------------------
(* The ways a step touches what slots show, store and enable.              *)

LEMMA SlotSteps ==
    ASSUME TypeOK, PhaseInv, [Next]_vars
    PROVE  \/ \E t \in Tabs : tabSelected(t)
           \/ /\ UNCHANGED <<tab, lastIndex>>
              /\ \/ UNCHANGED <<d_name, resp, enabled>>
                 \/ \E u \in BOOLEAN : ClearDevices(u)
                 \/ /\ pc \in BeforeDiscovery
                    /\ \E d \in DName, sl \in Slots : SetSlot(sl, d)
                 \/ \E p \in PhyIds : \E s \in Ses : \E l \in Link :
                        /\ p \in DOMAIN Wiring[s]
                        /\ SetDiscoverResp(Wiring[s][p], [phy |-> p, link |-> l])
                        /\ Wiring[s][p] - 1 \in Slots => p > 3
<1> USE DEF slotVars, loopVars
<1>1. ASSUME NEW u \in BOOLEAN, BeginRefresh(u), lastIndex' = lastIndex
      PROVE  UNCHANGED <<tab, lastIndex>> /\ ClearDevices(u)
  BY <1>1 DEF BeginRefresh
<1>2. ASSUME NEW d \in DName, ListDevice(d) \/ PlaceDevice(d) \/ RaidDrive(d)
      PROVE  /\ UNCHANGED <<tab, lastIndex>>
             /\ \/ UNCHANGED <<d_name, resp, enabled>>
                \/ pc \in BeforeDiscovery /\ \E sl \in Slots : SetSlot(sl, d)
  <2>1. ASSUME NEW sl, SetSlot(sl, d)
        PROVE  UNCHANGED <<d_name, resp, enabled>> \/ \E i \in Slots : SetSlot(i, d)
    <3>1. CASE sl \in Slots
      BY <2>1, <3>1
    <3>2. CASE sl \notin Slots
      BY <2>1, <3>2 DEF SetSlot
    <3> QED BY <3>1, <3>2
  <2> QED BY <1>2, <2>1 DEF ListDevice, PlaceDevice, RaidDrive, BeforeDiscovery
<1>3. ASSUME NEW p \in PhyIds, DiscoverPhy(p)
      PROVE  /\ UNCHANGED <<tab, lastIndex>>
             /\ \/ UNCHANGED <<d_name, resp, enabled>>
                \/ \E s \in Ses : \E l \in Link :
                       /\ p \in DOMAIN Wiring[s]
                       /\ SetDiscoverResp(Wiring[s][p], [phy |-> p, link |-> l])
                       /\ Wiring[s][p] - 1 \in Slots => p > 3
  <2>1. CASE UNCHANGED slotVars
    BY <1>3, <2>1 DEF DiscoverPhy
  <2>2. CASE SetDiscoverResp(Wiring[top][p], [phy |-> p, link |-> LinkOf(top, p)])
    <3> DEFINE dsn == Wiring[top][p]
    <3>1. LinkOf(top, p) \in Link
      BY DEF LinkOf, Link
    <3>2. top \in Ses /\ p \in DOMAIN Wiring[top]
      BY <1>3 DEF DiscoverPhy, PhaseInv
    <3>3. dsn \in {HbaPhy, NoSlot} \/ p > 3
      BY <3>2, HardwareAssumption
    <3>4. dsn - 1 \in Slots => p > 3
      BY <3>3 DEF HbaPhy, NoSlot, Slots
    <3> QED BY <1>3, <2>2, <3>1, <3>2, <3>4 DEF DiscoverPhy
  <2> QED BY <1>3, <2>1, <2>2 DEF DiscoverPhy
<1>4. CASE \/ \E s \in Ses : ListEnclosure(s) \/ OpenExpander(s)
           \/ ExpanderWwid \/ PlaceEnd \/ ListEnd \/ RaidEnd
           \/ DispatchHBA9600 \/ DispatchHBA9500 \/ DispatchNone
           \/ CloseExpander \/ EndRefresh \/ Environment
           \/ btnSelectAllClicked \/ (\E sl \in Slots : ClickSlot(sl))
           \/ (\E disable \in BOOLEAN : btnSmpDoitClicked(disable))
           \/ UNCHANGED vars
  <2> USE DEF vars
  <2>1. CASE \/ \E s \in Ses : ListEnclosure(s) \/ OpenExpander(s)
             \/ ExpanderWwid \/ PlaceEnd \/ ListEnd \/ RaidEnd
    BY <2>1 DEF ListEnclosure, OpenExpander, ExpanderWwid, PlaceEnd, ListEnd, RaidEnd
  <2>2. CASE \/ DispatchHBA9600 \/ DispatchHBA9500 \/ DispatchNone
             \/ CloseExpander \/ EndRefresh
    BY <2>2 DEF DispatchHBA9600, DispatchHBA9500, DispatchNone, CloseExpander, EndRefresh
  <2>3. CASE Environment
    BY <2>3 DEF Environment, HotSwap, KernelSync
  <2>4. CASE \/ btnSelectAllClicked \/ (\E sl \in Slots : ClickSlot(sl))
             \/ (\E disable \in BOOLEAN : btnSmpDoitClicked(disable))
    BY <2>4 DEF btnSelectAllClicked, ClickSlot, btnSmpDoitClicked
  <2>5. CASE UNCHANGED vars
    BY <2>5
  <2> QED BY <1>4, <2>1, <2>2, <2>3, <2>4, <2>5
<1>5. CASE Construct \/ btnRefreshClicked \/ showModified \/ DelayOver
  BY <1>5, <1>1 DEF Construct, btnRefreshClicked, showModified, DelayOver
<1>6. CASE \E t \in Tabs : tabSelected(t)
  BY <1>6
<1> QED BY <1>2, <1>3, <1>4, <1>5, <1>6 DEF Next, Refreshing, User

-----------------------------------------------------------------------------
(* A slot whose phy was reported off shows no device: the responses come   *)
(* after the placement, and setDiscoverResp clears what the SCSI layer     *)
(* still listed.                                                           *)
THEOREM PhyOffSafe == Spec => []PhyOffVacant
<1>1. Init => PhyOffVacant
  BY DEF Init, TableInit, PhyOffVacant
<1>2. TypeOK /\ PhaseInv /\ PhyOffVacant /\ [Next]_vars => PhyOffVacant'
  <2> SUFFICES ASSUME TypeOK, PhaseInv, PhyOffVacant, [Next]_vars,
                      NEW i \in Slots, resp'[i].link = "off"
               PROVE  d_name'[i] = NoDev
    BY DEF PhyOffVacant
  <2> USE DEF TypeOK, TableTypeOK, SlotTypeOK
  <2>1. CASE \E t \in Tabs : tabSelected(t)
    BY <2>1 DEF tabSelected, PhyOffVacant
  <2>2. CASE UNCHANGED <<d_name, resp, enabled>>
    BY <2>2 DEF PhyOffVacant
  <2>3. ASSUME NEW u \in BOOLEAN, ClearDevices(u) PROVE d_name'[i] = NoDev
    BY <2>3 DEF ClearDevices
  <2>4. ASSUME pc \in BeforeDiscovery, NEW d \in DName, NEW sl \in Slots,
               SetSlot(sl, d)
        PROVE  FALSE
    BY <2>4 DEF SetSlot, PhaseInv, NoResp
  <2>5. ASSUME NEW p \in PhyIds, NEW dsn, NEW l \in Link,
               SetDiscoverResp(dsn, [phy |-> p, link |-> l])
        PROVE  d_name'[i] = NoDev
    <3> DEFINE r == [phy |-> p, link |-> l]
    <3>1. CASE dsn - 1 \notin Slots
      BY <2>5, <3>1 DEF SetDiscoverResp, slotVars, PhyOffVacant
    <3>2. CASE dsn - 1 \in Slots /\ i # dsn - 1
      BY <2>5, <3>2 DEF SetDiscoverResp, PhyOffVacant
    <3>3. CASE dsn - 1 \in Slots /\ i = dsn - 1
      <4>1. resp'[i] = r
        BY <2>5, <3>3 DEF SetDiscoverResp
      <4>2. r.link = "off"
        BY <4>1
      <4> QED BY <2>5, <3>3, <4>2 DEF SetDiscoverResp, Lagging
    <3> QED BY <3>1, <3>2, <3>3
  <2> QED BY <2>1, <2>2, <2>3, <2>4, <2>5, SlotSteps
<1> QED BY <1>1, <1>2, TypeCorrect, PTL DEF Spec

-----------------------------------------------------------------------------
(* The tabs.  TabEnables alone is not inductive: on SG3 and Info nothing   *)
(* is said of it, yet what the boxes are there decides whether coming back *)
(* to SMP has to revive them.  lastIndex is what remembers.                *)
TabInv ==
    /\ tab \in {"SMP"} \cup FioTabs => lastIndex = tab
    /\ \A sl \in Slots : resp[sl] # NoResp => slotPhyId(sl) > 3
    /\ \A sl \in Slots : d_name[sl] = NoDev =>
          /\ resp[sl] = NoResp => ~enabled[sl]
          /\ resp[sl] # NoResp /\ tab \in FioTabs => ~enabled[sl]
          /\ resp[sl] # NoResp /\ tab \notin FioTabs /\ lastIndex \notin FioTabs
                => enabled[sl]

LEMMA TabStep == TypeOK /\ PhaseInv /\ TabInv /\ [Next]_vars => TabInv'
<1> SUFFICES ASSUME TypeOK, PhaseInv, TabInv, [Next]_vars PROVE TabInv'
  OBVIOUS
<1> USE DEF TypeOK, TableTypeOK, SlotTypeOK
<1>1. CASE \E t \in Tabs : tabSelected(t)
  <2> PICK t \in Tabs : tabSelected(t)
    BY <1>1
  <2>1. t \in ENUM_TAB /\ tab' = t /\ lastIndex' = RememberTab(t)
    BY HardwareAssumption DEF tabSelected
  <2>2. UNCHANGED <<d_name, resp>>
    BY DEF tabSelected
  <2>3. ASSUME NEW sl \in Slots, d_name[sl] = NoDev
        PROVE  /\ resp[sl] = NoResp => enabled'[sl] = enabled[sl]
               /\ resp[sl] # NoResp => enabled'[sl] =
                    (t \notin FioTabs /\
                       ((t = "SMP" /\ lastIndex \in FioTabs) \/ enabled[sl]))
    <3>1. resp[sl] = NoResp => slotPhyId(sl) = -1
      BY DEF slotPhyId, NoResp
    <3>2. resp[sl] # NoResp => slotPhyId(sl) > 3
      BY DEF TabInv
    <3>3. resp[sl] = NoResp => ~(slotPhyId(sl) > 0)
      BY <3>1
    <3>4. resp[sl] # NoResp => slotPhyId(sl) > 0
      BY <3>2 DEF slotPhyId, Response, PhyIds, NoResp
    <3>5. slotVacant(sl)
      BY <2>3 DEF slotVacant
    <3>6. enabled'[sl] =
            IF t = "SMP" /\ lastIndex \in FioTabs /\ slotPhyId(sl) > 0 THEN TRUE
            ELSE IF t \in FioTabs /\ slotPhyId(sl) > 0 THEN FALSE
            ELSE enabled[sl]
      BY <2>3, <3>5 DEF tabSelected
    <3> QED
      <4> HIDE DEF slotPhyId
      <4>1. enabled[sl] \in BOOLEAN
        OBVIOUS
      <4>2. t = "SMP" => t \notin FioTabs
        BY DEF FioTabs
      <4> QED BY <3>3, <3>4, <3>6, <4>1, <4>2, Zenon
  <2>4. tab' \in {"SMP"} \cup FioTabs => lastIndex' = tab'
    BY <2>1 DEF RememberTab
  <2>5. \A sl \in Slots : resp'[sl] # NoResp => slotPhyId(sl)' > 3
    BY <2>2 DEF TabInv, slotPhyId
  <2>6. ASSUME NEW sl \in Slots, d_name'[sl] = NoDev
        PROVE  /\ resp'[sl] = NoResp => ~enabled'[sl]
               /\ resp'[sl] # NoResp /\ tab' \in FioTabs => ~enabled'[sl]
               /\ resp'[sl] # NoResp /\ tab' \notin FioTabs
                     /\ lastIndex' \notin FioTabs => enabled'[sl]
    <3>1. d_name[sl] = NoDev /\ resp'[sl] = resp[sl]
      BY <2>2, <2>6
    <3>2. CASE resp[sl] = NoResp
      <4>1. ~enabled[sl]
        BY <3>1, <3>2 DEF TabInv
      <4> QED BY <2>3, <3>1, <3>2, <4>1, Zenon
    <3>3. CASE resp[sl] # NoResp
      <4>1. enabled'[sl] = (t \notin FioTabs /\
                              ((t = "SMP" /\ lastIndex \in FioTabs) \/ enabled[sl]))
        BY <2>3, <3>1, <3>3, Zenon
      <4>2. t \notin FioTabs /\ lastIndex' \notin FioTabs =>
              t = "SMP" \/ lastIndex \notin FioTabs
        BY <2>1 DEF RememberTab
      <4>3. CASE t = "SMP" /\ lastIndex \in FioTabs
        BY <2>1, <3>1, <3>3, <4>1, <4>3, Zenon DEF FioTabs
      <4>4. CASE t # "SMP" /\ lastIndex \in FioTabs
        BY <2>1, <3>1, <3>3, <4>1, <4>2, <4>4, Zenon
      <4>5. CASE lastIndex \notin FioTabs
        <5>1. t \notin FioTabs => enabled[sl]
          BY <3>1, <3>3, <4>5 DEF TabInv
        <5> QED BY <2>1, <3>1, <3>3, <4>1, <4>5, <5>1, Zenon
      <4> QED BY <4>3, <4>4, <4>5
    <3> QED BY <3>2, <3>3
  <2> QED BY <2>4, <2>5, <2>6 DEF TabInv
<1>2. CASE UNCHANGED <<tab, lastIndex>> /\ UNCHANGED <<d_name, resp, enabled>>
  BY <1>2 DEF TabInv, slotPhyId
<1>3. ASSUME UNCHANGED <<tab, lastIndex>>, NEW u \in BOOLEAN, ClearDevices(u)
      PROVE  TabInv'
  BY <1>3 DEF ClearDevices, TabInv, slotPhyId
<1>4. ASSUME UNCHANGED <<tab, lastIndex>>, NEW d \in DName, NEW sl \in Slots,
             SetSlot(sl, d)
      PROVE  TabInv'
  BY <1>4, TableAssumption DEF SetSlot, TabInv, slotPhyId
<1>5. ASSUME UNCHANGED <<tab, lastIndex>>,
             NEW p \in PhyIds, NEW dsn, NEW l \in Link,
             SetDiscoverResp(dsn, [phy |-> p, link |-> l]),
             dsn - 1 \in Slots => p > 3
      PROVE  TabInv'
  <2> DEFINE r == [phy |-> p, link |-> l]
             sl == dsn - 1
  <2>1. CASE sl \notin Slots
    BY <1>5, <2>1 DEF SetDiscoverResp, slotVars, TabInv, slotPhyId
  <2>2. CASE sl \in Slots
    <3> HIDE DEF sl
    <3> SUFFICES ASSUME NEW i \in Slots
                 PROVE  /\ resp'[i] # NoResp => slotPhyId(i)' > 3
                        /\ d_name'[i] = NoDev =>
                            /\ resp'[i] = NoResp => ~enabled'[i]
                            /\ resp'[i] # NoResp /\ tab \in FioTabs => ~enabled'[i]
                            /\ resp'[i] # NoResp /\ tab \notin FioTabs
                                  /\ lastIndex \notin FioTabs => enabled'[i]
      BY <1>5 DEF TabInv
    <3>0. sl = dsn - 1 /\ (sl \in Slots => p > 3)
      BY <1>5 DEF sl
    <3>1. CASE i # sl
      <4>1. d_name'[i] = d_name[i] /\ resp'[i] = resp[i] /\ enabled'[i] = enabled[i]
        BY <1>5, <2>2, <3>0, <3>1 DEF SetDiscoverResp
      <4> QED BY <1>5, <4>1 DEF TabInv, slotPhyId
    <3>2. CASE i = sl
      <4>1. resp'[i] = r /\ r # NoResp /\ r.phy = p
        BY <1>5, <2>2, <3>0, <3>2 DEF SetDiscoverResp, NoResp, PhyIds
      <4>2. slotPhyId(i)' > 3
        BY <2>2, <3>0, <4>1 DEF slotPhyId
      <4>3. enabled'[i] = (tab \notin FioTabs \/ (enabled[i] /\ ~Lagging(i, r)))
        BY <1>5, <2>2, <3>0, <3>2 DEF SetDiscoverResp
      <4>4. d_name'[i] = NoDev => d_name[i] = NoDev \/ Lagging(i, r)
        BY <1>5, <2>2, <3>0, <3>2 DEF SetDiscoverResp
      <4>5. d_name[i] = NoDev /\ tab \in FioTabs => ~enabled[i]
        BY DEF TabInv
      <4> QED
        <5> HIDE DEF r
        <5> QED BY <4>1, <4>2, <4>3, <4>4, <4>5, Zenon
    <3> QED BY <3>1, <3>2
  <2> QED BY <2>1, <2>2
<1> QED BY <1>1, <1>2, <1>3, <1>4, <1>5, SlotSteps

(* Between handlers the vacant slots that can be phy controlled are        *)
(* clickable on the SMP tab and never on the FIO tabs.                     *)
THEOREM TabSafe == Spec => []TabEnables
<1>1. Init => TabInv
  BY DEF Init, TableInit, TabInv, slotPhyId, FioTabs
<1>2. TabInv => TabEnables
  BY DEF TabInv, TabEnables, slotVacant, slotPhyId, NoResp, FioTabs
<1> QED BY <1>1, <1>2, TabStep, TypeCorrect, PTL DEF Spec

-----------------------------------------------------------------------------
(* The right slot.  RightSlot needs that only a machine with an HBA9500    *)
(* makes cardType that, and that the drives looked up on a RAID card were  *)
(* reported by it.                                                         *)
SlotInv ==
    /\ RightSlot
    /\ cardType = "HBA9500" => Card = "HBA9500"
    /\ pc = "raid" => todo \subseteq {d \in Disk : RaidSlot[d] # NoRaid}

LEMMA SetSlotRight ==
    ASSUME TypeOK, RightSlot, NEW d \in DName, NEW sl, SetSlot(sl, d),
           sl \in Slots => d \in Disk /\ Home(d) = sl
    PROVE  RightSlot'
<1> SUFFICES ASSUME NEW i \in Slots, d_name'[i] # NoDev
             PROVE  d_name'[i] \in Disk /\ Home(d_name'[i]) = i
  BY DEF RightSlot, Occupied, Home, BaySlot
<1> USE DEF TypeOK, TableTypeOK, SlotTypeOK
<1>1. CASE d_name'[i] = d_name[i]
  BY <1>1 DEF RightSlot, Occupied
<1>2. CASE d_name'[i] # d_name[i]
  <2>1. sl \in Slots /\ i = sl /\ d_name'[i] = d
    BY <1>2 DEF SetSlot, slotVars
  <2> QED BY <2>1
<1> QED BY <1>1, <1>2

(* Slots that show what they showed, or nothing, show nothing wrong.       *)
LEMMA FewerRight ==
    ASSUME RightSlot,
           \A i \in Slots : d_name'[i] = d_name[i] \/ d_name'[i] = NoDev
    PROVE  RightSlot'
BY DEF RightSlot, Occupied, Home, BaySlot

LEMMA ListDeviceRight ==
    ASSUME TargetsFollowBays, TypeOK, SlotInv, NEW d \in DName, ListDevice(d)
    PROVE  SlotInv'
<1>1. (cardType' = "HBA9500" => Card = "HBA9500") /\ pc' = "list"
  BY DEF ListDevice, CardAfter, HasEnclosureLink, SlotInv
<1>2. CASE cardType' = "HBA9500" /\ HasWwid(d)
  <2>1. d \in Disk
    BY <1>2 DEF ListDevice, HasWwid, DName
  <2>2. Bay[d] # NoBay
    BY <1>1, <1>2, <2>1 DEF TargetsFollowBays, HasWwid
  <2>3. enclSlot' = Home(d)
    BY <1>1, <1>2, <2>1, <2>2
       DEF ListDevice, EnclSlotAfter, HasEnclosureLink, HasWwid, Home
  <2>4. SetSlot(enclSlot', d)
    BY <1>2 DEF ListDevice
  <2>5. RightSlot'
    BY <2>1, <2>3, <2>4, SetSlotRight DEF SlotInv
  <2> QED BY <1>1, <2>5 DEF SlotInv
<1>3. CASE ~(cardType' = "HBA9500" /\ HasWwid(d))
  <2>1. d_name' = d_name
    BY <1>3 DEF ListDevice, slotVars
  <2> QED BY <1>1, <2>1, FewerRight DEF SlotInv
<1> QED BY <1>2, <1>3

(* What setSlot computes is the slot such a machine means.                 *)
LEMMA SlotUnderRight ==
    ASSUME TargetsFollowBays, NEW d \in DName, NEW s \in Ses,
           SlotUnder(d, s) \in Slots
    PROVE  d \in Disk /\ Home(d) = SlotUnder(d, s)
<1> DEFINE below == Hctl[s][3] - Hctl[d][3]
           i == compute_device_index(d, s)
<1>1. s \in DName /\ Hctl[d][3] \in Nat /\ Hctl[s][3] \in Nat
  BY HardwareAssumption DEF DName
<1>2. ~(i <= 0 \/ i > NSLOT_PEREXP) /\ SlotUnder(d, s) = (Index[s] + 1) * NSLOT_PEREXP - i
  BY DEF SlotUnder, Slots
<1>3. /\ Hctl[d][1] = Hctl[s][1] /\ Hctl[d][2] = Hctl[s][2]
      /\ i = below
  BY <1>2 DEF compute_device_index
<1>4. below \in 1 .. NSLOT_PEREXP
  BY <1>1, <1>2, <1>3, TableAssumption
<1> QED BY <1>2, <1>3, <1>4 DEF TargetsFollowBays

LEMMA PlaceDeviceRight ==
    ASSUME TargetsFollowBays, TypeOK, PhaseInv, SlotInv, NEW d \in DName,
           PlaceDevice(d)
    PROVE  SlotInv'
<1>1. UNCHANGED <<cardType, pc>> /\ pc = "place"
  BY DEF PlaceDevice
<1>2. CASE SetSlot(SlotUnder(d, top), d)
  <2>1. top \in Ses
    BY <1>1 DEF PhaseInv
  <2>2. SlotUnder(d, top) \in Slots => d \in Disk /\ Home(d) = SlotUnder(d, top)
    BY <2>1, SlotUnderRight
  <2> QED BY <1>1, <1>2, <2>2, SetSlotRight DEF SlotInv
<1>3. CASE UNCHANGED slotVars
  BY <1>1, <1>3, FewerRight DEF SlotInv, slotVars
<1> QED BY <1>2, <1>3 DEF PlaceDevice

LEMMA RaidDriveRight ==
    ASSUME TargetsFollowBays, TypeOK, SlotInv, NEW d \in DName, RaidDrive(d)
    PROVE  SlotInv'
<1>1. UNCHANGED <<cardType, pc>> /\ todo' \subseteq todo /\ pc = "raid" /\ d \in todo
  BY DEF RaidDrive
<1>2. d \in Disk /\ Home(d) = ReportedSlot(d)
  BY <1>1 DEF SlotInv, TargetsFollowBays, Home, ReportedSlot
<1>3. RightSlot'
  <2>1. CASE SetSlot(ReportedSlot(d), d)
    BY <1>2, <2>1, SetSlotRight DEF SlotInv
  <2>2. CASE UNCHANGED slotVars
    BY <2>2, FewerRight DEF SlotInv, slotVars
  <2> QED BY <2>1, <2>2 DEF RaidDrive
<1> QED BY <1>1, <1>3 DEF SlotInv

LEMMA SlotStep ==
    ASSUME TargetsFollowBays
    PROVE  TypeOK /\ PhaseInv /\ SlotInv /\ [Next]_vars => SlotInv'
<1> SUFFICES ASSUME TypeOK, PhaseInv, SlotInv, [Next]_vars PROVE SlotInv'
  OBVIOUS
<1> USE DEF slotVars, loopVars
<1>1. ASSUME NEW u \in BOOLEAN, BeginRefresh(u) PROVE SlotInv'
  <2>1. RightSlot'
    BY <1>1, FewerRight DEF BeginRefresh, ClearDevices, SlotInv
  <2> QED BY <1>1, <2>1 DEF BeginRefresh, SlotInv
<1>2. ASSUME NEW d \in DName, ListDevice(d) \/ PlaceDevice(d) \/ RaidDrive(d)
      PROVE  SlotInv'
  BY <1>2, ListDeviceRight, PlaceDeviceRight, RaidDriveRight
<1>3. ASSUME NEW p \in PhyIds, DiscoverPhy(p) PROVE SlotInv'
  <2>1. \A i \in Slots : d_name'[i] = d_name[i] \/ d_name'[i] = NoDev
    BY <1>3 DEF DiscoverPhy, SetDiscoverResp, TypeOK, TableTypeOK, SlotTypeOK
  <2> QED BY <1>3, <2>1, FewerRight DEF DiscoverPhy, SlotInv
<1>4. CASE \/ \E s \in Ses : ListEnclosure(s) \/ OpenExpander(s)
           \/ ExpanderWwid \/ PlaceEnd \/ ListEnd \/ RaidEnd
  <2>1. RightSlot'
    BY <1>4, FewerRight DEF ListEnclosure, OpenExpander, ExpanderWwid, PlaceEnd,
                            ListEnd, RaidEnd, SlotInv
  <2> QED BY <1>4, <2>1 DEF ListEnclosure, OpenExpander, ExpanderWwid, PlaceEnd,
                            ListEnd, RaidEnd, SlotInv
<1>5. CASE \/ DispatchHBA9600 \/ DispatchHBA9500 \/ DispatchNone
           \/ CloseExpander \/ EndRefresh
  <2>1. RightSlot'
    BY <1>5, FewerRight DEF DispatchHBA9600, DispatchHBA9500, DispatchNone,
                            CloseExpander, EndRefresh, SlotInv
  <2> QED BY <1>5, <2>1 DEF DispatchHBA9600, DispatchHBA9500, DispatchNone,
                            CloseExpander, EndRefresh, SlotInv
<1>6. CASE \/ btnSelectAllClicked \/ (\E sl \in Slots : ClickSlot(sl))
           \/ (\E t \in Tabs : tabSelected(t))
           \/ (\E disable \in BOOLEAN : btnSmpDoitClicked(disable))
           \/ Environment \/ UNCHANGED vars
  <2>1. UNCHANGED <<d_name, cardType, pc, todo>>
    BY <1>6 DEF btnSelectAllClicked, ClickSlot, tabSelected, btnSmpDoitClicked,
                Environment, HotSwap, KernelSync, vars
  <2>2. RightSlot'
    BY <2>1, FewerRight DEF SlotInv
  <2> QED BY <2>1, <2>2 DEF SlotInv
<1>7. CASE Construct \/ btnRefreshClicked \/ showModified \/ DelayOver
  BY <1>7, <1>1 DEF Construct, btnRefreshClicked, showModified, DelayOver
<1> QED BY <1>2, <1>3, <1>4, <1>5, <1>6, <1>7 DEF Next, Refreshing, User

(* Where target numbers follow the bays, no slot ever shows a drive that   *)
(* does not sit in it: list_sdevices with the three setSlot overloads.     *)
THEOREM RightSlotSafe ==
    ASSUME TargetsFollowBays
    PROVE  Spec => []RightSlot
<1>1. Init => SlotInv
  BY DEF Init, TableInit, SlotInv, RightSlot, Occupied
<1>2. SlotInv => RightSlot
  BY DEF SlotInv
<1> QED BY <1>1, <1>2, SlotStep, TypeCorrect, PTL DEF Spec

=============================================================================
