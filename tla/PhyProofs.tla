----------------------------- MODULE PhyProofs -----------------------------
(***************************************************************************)
(* Phy control reaches the phys of the slots the user sees checked, and    *)
(* no other, on every machine and after every sequence of refreshes.       *)
(***************************************************************************)
EXTENDS CountProofs

(* What the handler reads was written by three others: the stored phy by   *)
(* the discovery, the path and the box by the listing and the discovery,   *)
(* the enabled box by whoever came last.  A stored phy is wired to its     *)
(* slot on some expander, which the slot's place in the table gives away.  *)
AskedSlot(i) ==
    \E s \in Ses : /\ resp[i].phy \in DOMAIN Wiring[s]
                   /\ BaySlot(<<s, resp[i].phy>>) = i

WiredInv ==
    /\ \A i \in Slots : resp[i] # NoResp => AskedSlot(i)
    /\ \A i \in Slots : d_name[i] # NoDev => enabled[i]

(* No slot belongs to two expanders.                                       *)
LEMMA OneExpanderPerSlot ==
    ASSUME NEW a \in Expdrs, NEW b \in Expdrs,
           NEW i \in SlotsOf(a), i \in SlotsOf(b)
    PROVE  a = b
<1> DEFINE N == NSLOT_PEREXP
<1>1. N \in Nat \ {0} /\ a \in Nat /\ b \in Nat
  BY TableAssumption DEF Expdrs
<1>2. i \in Int /\ a * N <= i /\ i < (a + 1) * N /\ b * N <= i /\ i < (b + 1) * N
  BY <1>1 DEF SlotsOf
<1> HIDE DEF N
<1>3. ASSUME NEW x \in Nat, NEW y \in Nat, x < y PROVE (x + 1) * N <= y * N
  <2>1. PICK z \in Nat : y = x + 1 + z
    <3>1. y - x - 1 \in Nat /\ y = x + 1 + (y - x - 1)
      BY <1>3
    <3> QED BY <3>1
  <2>2. y * N = (x + 1) * N + z * N /\ z * N \in Nat
    BY <1>1, <2>1
  <2>3. (x + 1) * N \in Nat
    BY <1>1
  <2> QED BY <2>2, <2>3
<1>4. ~(a < b)
  <2> SUFFICES ASSUME a < b PROVE FALSE
    OBVIOUS
  <2>1. (a + 1) * N <= b * N
    BY <1>1, <1>3
  <2> QED BY <1>1, <1>2, <2>1
<1>5. ~(b < a)
  <2> SUFFICES ASSUME b < a PROVE FALSE
    OBVIOUS
  <2>1. (b + 1) * N <= a * N
    BY <1>1, <1>3
  <2> QED BY <1>1, <1>2, <2>1
<1> QED BY <1>1, <1>4, <1>5

LEMMA ExpanderSlots ==
    ASSUME NEW el \in Expdrs, NEW i \in SlotsOf(el)
    PROVE  i \in Slots
<1> DEFINE N == NSLOT_PEREXP
<1>1. N \in Nat \ {0} /\ el \in Nat /\ NEXPDR \in Nat /\ el < NEXPDR
  BY TableAssumption DEF Expdrs
<1>2. i \in Int /\ el * N <= i /\ i < (el + 1) * N
  BY <1>1 DEF SlotsOf
<1>3. NSLOT = NEXPDR * N
  BY DEF NSLOT
<1> HIDE DEF N
<1>4. PICK z \in Nat : NEXPDR = el + 1 + z
  <2>1. NEXPDR - el - 1 \in Nat /\ NEXPDR = el + 1 + (NEXPDR - el - 1)
    BY <1>1
  <2> QED BY <2>1
<1>5. NEXPDR * N = (el + 1) * N + z * N /\ z * N \in Nat /\ el * N \in Nat
  BY <1>1, <1>4
<1>6. (el + 1) * N \in Nat
  BY <1>1
<1> QED BY <1>2, <1>3, <1>5, <1>6 DEF Slots

LEMMA StoredWired ==
    ASSUME TypeOK, WiredInv, NEW p \in PhyIds, NEW s \in Ses, p \in DOMAIN Wiring[s],
           NEW l \in Link, SetDiscoverResp(Wiring[s][p], [phy |-> p, link |-> l])
    PROVE  WiredInv'
<1> USE DEF TypeOK, TableTypeOK, SlotTypeOK
<1> DEFINE sl == Wiring[s][p] - 1
           r == [phy |-> p, link |-> l]
<1>1. \A i \in Slots : resp'[i] = resp[i] \/ (i = sl /\ resp'[i] = r)
  BY DEF SetDiscoverResp, slotVars
<1>2. ASSUME NEW i \in Slots, resp'[i] # NoResp PROVE AskedSlot(i)'
  <2>1. CASE resp'[i] = resp[i]
    BY <1>2, <2>1 DEF WiredInv, AskedSlot, BaySlot
  <2>2. CASE resp'[i] # resp[i]
    <3>1. i = sl /\ resp'[i].phy = p
      BY <1>1, <2>2
    <3> QED BY <3>1 DEF AskedSlot, BaySlot
  <2> QED BY <2>1, <2>2
<1>3. ASSUME NEW i \in Slots, d_name'[i] # NoDev PROVE enabled'[i]
  <2>1. CASE sl \notin Slots \/ i # sl
    BY <1>3, <2>1 DEF SetDiscoverResp, slotVars, WiredInv
  <2>2. CASE sl \in Slots /\ i = sl
    <3>1. ~Lagging(sl, r) /\ d_name[i] # NoDev
      BY <1>3, <2>2 DEF SetDiscoverResp
    <3>2. enabled[sl]
      BY <2>2, <3>1 DEF WiredInv
    <3>3. enabled' = [enabled EXCEPT ![sl] = tab \notin FioTabs \/ (@ /\ ~Lagging(sl, r))]
      BY <2>2 DEF SetDiscoverResp
    <3> HIDE DEF r, sl
    <3>4. enabled'[sl] = (tab \notin FioTabs \/ (enabled[sl] /\ ~Lagging(sl, r)))
      BY <2>2, <3>3, Zenon
    <3> QED BY <2>2, <3>1, <3>2, <3>4
  <2> QED BY <2>1, <2>2
<1> QED BY <1>2, <1>3 DEF WiredInv

LEMMA WiredStep == TypeOK /\ PhaseInv /\ WiredInv /\ [Next]_vars => WiredInv'
<1> SUFFICES ASSUME TypeOK, PhaseInv, WiredInv, [Next]_vars PROVE WiredInv'
  OBVIOUS
<1> USE DEF TypeOK, TableTypeOK, SlotTypeOK
<1>1. CASE \E t \in Tabs : tabSelected(t)
  <2> PICK t \in Tabs : tabSelected(t)
    BY <1>1
  <2>1. UNCHANGED <<d_name, resp>>
    BY DEF tabSelected
  <2>2. ASSUME NEW i \in Slots, d_name[i] # NoDev PROVE enabled'[i]
    <3>1. ~slotVacant(i) /\ enabled[i]
      BY <2>2 DEF slotVacant, WiredInv
    <3> QED BY <3>1 DEF tabSelected
  <2> QED BY <2>1, <2>2 DEF WiredInv, AskedSlot, BaySlot
<1>2. CASE UNCHANGED <<d_name, resp, enabled>>
  BY <1>2 DEF WiredInv, AskedSlot, BaySlot
<1>3. ASSUME NEW u \in BOOLEAN, ClearDevices(u) PROVE WiredInv'
  BY <1>3 DEF ClearDevices, WiredInv
<1>4. ASSUME NEW d \in DName, NEW sl \in Slots, SetSlot(sl, d) PROVE WiredInv'
  <2>1. resp' = resp
    BY <1>4, SetSlotKeepsResp
  <2>2. \A i \in Slots : d_name'[i] # NoDev => enabled'[i]
    BY <1>4 DEF SetSlot, WiredInv
  <2> QED BY <2>1, <2>2 DEF WiredInv, AskedSlot, BaySlot
<1>5. ASSUME NEW p \in PhyIds, NEW s \in Ses, p \in DOMAIN Wiring[s], NEW l \in Link,
             SetDiscoverResp(Wiring[s][p], [phy |-> p, link |-> l])
      PROVE  WiredInv'
  BY <1>5, StoredWired
<1> QED BY <1>1, <1>2, <1>3, <1>4, <1>5, SlotSteps

-----------------------------------------------------------------------------
LEMMA OffSteps ==
    ASSUME Next
    PROVE  off' = off \/ \E disable \in BOOLEAN : btnSmpDoitClicked(disable)
<1> USE DEF hwVars
<1>1. ASSUME NEW u \in BOOLEAN, BeginRefresh(u) PROVE off' = off
  BY <1>1 DEF BeginRefresh
<1>2. CASE Construct \/ btnRefreshClicked \/ showModified \/ DelayOver
  BY <1>2, <1>1 DEF Construct, btnRefreshClicked, showModified, DelayOver
<1>3. CASE \/ \E d \in DName : ListDevice(d) \/ PlaceDevice(d) \/ RaidDrive(d)
           \/ \E s \in Ses : ListEnclosure(s) \/ OpenExpander(s)
           \/ \E p \in PhyIds : DiscoverPhy(p)
  BY <1>3 DEF ListDevice, PlaceDevice, RaidDrive, ListEnclosure, OpenExpander, DiscoverPhy
<1>4. CASE \/ ExpanderWwid \/ PlaceEnd \/ ListEnd \/ RaidEnd
           \/ DispatchHBA9600 \/ DispatchHBA9500 \/ DispatchNone
           \/ CloseExpander \/ EndRefresh
  BY <1>4 DEF ExpanderWwid, PlaceEnd, ListEnd, RaidEnd, DispatchHBA9600,
              DispatchHBA9500, DispatchNone, CloseExpander, EndRefresh
<1>5. CASE \/ btnSelectAllClicked \/ (\E sl \in Slots : ClickSlot(sl))
           \/ (\E t \in Tabs : tabSelected(t)) \/ Environment
  BY <1>5 DEF btnSelectAllClicked, ClickSlot, tabSelected, Environment, HotSwap, KernelSync
<1> QED BY <1>2, <1>3, <1>4, <1>5 DEF Next, Refreshing, User

(* "Do it" looks at its slots on the SMP tab, where every slot with a      *)
(* stored phy is enabled.                                                  *)
LEMMA ControlledShown ==
    ASSUME TypeOK, TabInv, PathInv, WiredInv, tab = "SMP",
           NEW b \in Obeying
    PROVE  BaySlot(b) \in Slots /\ checked[BaySlot(b)] /\ enabled[BaySlot(b)]
<1> USE DEF TypeOK, TableTypeOK, SlotTypeOK, CtrlTypeOK
<1>1. PICK el \in Expdrs : Opens(el) /\ b \in Controlled(el)
  BY DEF Obeying
<1>2. PICK sl \in SlotsOf(el) :
        checked[sl] /\ slotPhyId(sl) \in 4 .. 31 /\ b = <<Addressed(el), slotPhyId(sl)>>
  BY <1>1 DEF Controlled
<1>3. sl \in Slots
  BY ExpanderSlots
<1>4. resp[sl] # NoResp
  BY <1>2 DEF slotPhyId, NoResp
<1>5. Addressed(el) \in Ses /\ Index[Addressed(el)] = el
  <2>1. CASE cardType = "HBA9500"
    BY <1>1, <2>1 DEF Addressed, Opens, PathInv
  <2>2. CASE cardType # "HBA9500"
    <3>1. ctrl[el] \in DName
      BY <1>2, <2>2 DEF Obeying, Addressed
    <3> QED BY <2>2, <3>1, TableAssumption DEF Addressed, PathInv, Boxed
  <2> QED BY <2>1, <2>2
<1>6. PICK s \in Ses : resp[sl].phy \in DOMAIN Wiring[s] /\ BaySlot(<<s, resp[sl].phy>>) = sl
  BY <1>3, <1>4 DEF WiredInv, AskedSlot
<1>7. s = Addressed(el)
  <2>1. Wiring[s][resp[sl].phy] - 1 = sl
    BY <1>6 DEF BaySlot
  <2>2. sl \in SlotsOf(Index[s]) /\ Index[s] \in Expdrs
    <3> DEFINE q == resp[sl].phy
    <3>1. /\ Index[s] \in Expdrs
          /\ Wiring[s][q] \in {HbaPhy, NoSlot} \/ Wiring[s][q] - 1 \in SlotsOf(Index[s])
      BY <1>6, HardwareAssumption
    <3>2. Wiring[s][q] \notin {HbaPhy, NoSlot}
      BY <1>3, <2>1 DEF HbaPhy, NoSlot, Slots
    <3> QED BY <2>1, <3>1, <3>2
  <2>3. Index[s] = el
    BY <2>2, OneExpanderPerSlot
  <2> QED BY <1>5, <2>3, HardwareAssumption
<1>8. BaySlot(b) = sl
  BY <1>2, <1>6, <1>7 DEF slotPhyId
<1>9. enabled[sl]
  <2>1. CASE d_name[sl] # NoDev
    BY <1>3, <2>1 DEF WiredInv
  <2>2. CASE d_name[sl] = NoDev
    BY <1>3, <1>4, <2>2 DEF TabInv, FioTabs
  <2> QED BY <2>1, <2>2
<1> QED BY <1>2, <1>3, <1>8, <1>9

(* Whatever was plugged, pulled, refreshed or clicked before, "Do it"      *)
(* disables and resets no phy but those of slots the user sees checked:    *)
(* phySetDisabled through btnSmpDoitClicked.                               *)
THEOREM PhyControlSafe == Spec => PhyControlAsShown
<1> DEFINE Shows == \A b \in (off \ off') \cup (off' \ off) :
              BaySlot(b) \in Slots /\ checked[BaySlot(b)] /\ enabled[BaySlot(b)]
<1>1. Init => TabInv /\ PathInv /\ WiredInv
  <2> SUFFICES ASSUME Init PROVE TabInv /\ PathInv /\ WiredInv
    OBVIOUS
  <2>1. TabInv /\ WiredInv
    BY DEF Init, TableInit, TabInv, WiredInv, FioTabs
  <2>2. PathInv
    BY InitPaths
  <2> QED BY <2>1, <2>2
<1>2. TypeOK /\ TabInv /\ PathInv /\ WiredInv /\ [Next]_vars => [Shows]_vars
  <2> SUFFICES ASSUME TypeOK, TabInv, PathInv, WiredInv, Next PROVE Shows
    OBVIOUS
  <2>1. CASE off' = off
    BY <2>1
  <2>2. ASSUME NEW disable \in BOOLEAN, btnSmpDoitClicked(disable) PROVE Shows
    <3>1. tab = "SMP" /\ (off \ off') \cup (off' \ off) \subseteq Obeying
      BY <2>2 DEF btnSmpDoitClicked
    <3> QED BY <3>1, ControlledShown
  <2>3. off' = off \/ \E disable \in BOOLEAN : btnSmpDoitClicked(disable)
    BY OffSteps
  <2> QED BY <2>1, <2>2, <2>3
<1>3. ([][Shows]_vars) <=> PhyControlAsShown
  BY DEF PhyControlAsShown
<1> QED BY <1>1, <1>2, <1>3, TabStep, PathStep, WiredStep, TypeCorrect, PTL DEF Spec

=============================================================================
