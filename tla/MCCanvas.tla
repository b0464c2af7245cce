------------------------------ MODULE MCCanvas ------------------------------
(* A small machine for Canvas: two expanders of two slots each, s1 with    *)
(* disks a and b, s2 with disk c and an empty bay, and a boot disk z on    *)
(* another host, without a bay.  A configuration picks some of the devices *)
(* and the adapter.                                                        *)
EXTENDS Canvas, TLC

CONSTANTS a, b, c, z, s1, s2

(* The targets of an expander's disks lie just below the enclosure's.      *)
Tuples == z :> <<0, 0, 0, 0>>
       @@ a :> <<1, 0, 0, 0>> @@ b :> <<1, 0, 1, 0>> @@ s1 :> <<1, 0, 2, 0>>
       @@ c :> <<1, 0, 3, 0>> @@ s2 :> <<1, 0, 5, 0>>
MCHctl == [d \in DName |-> Tuples[d]]

MCIndex == [s \in Ses |-> IF s = s1 THEN 0 ELSE 1]

(* Phy 2 is cabled to the HBA, phy 3 is wired to no slot, 4 and 5 to slots.*)
Wires == s1 :> (2 :> HbaPhy @@ 4 :> 1 @@ 5 :> 2)
      @@ s2 :> (2 :> HbaPhy @@ 3 :> NoSlot @@ 4 :> 3)
MCWiring == [s \in Ses |-> Wires[s]]

Bays == a :> <<s1, 4>> @@ b :> <<s1, 5>> @@ c :> <<s2, 4>> @@ z :> NoBay
MCBay == [d \in Disk |-> Bays[d]]
NoRaidSlot == [d \in Disk |-> NoRaid]

(* On a RAID card there are no bays; the slot of c is off the table.       *)
RaidSlots == a :> 1 @@ b :> 3 @@ c :> 5 @@ z :> NoRaid
MCRaidSlot == [d \in Disk |-> RaidSlots[d]]
NoBays == [d \in Disk |-> NoBay]

(* All machines are ones RightSlot is meant for, but an HBA9500's with a   *)
(* boot disk.                                                              *)
ASSUME MachineAssumption ==
    /\ OneDrivePerSlot
    /\ TargetsFollowBays \/ (Card = "HBA9500" /\ z \in Disk \ NoWwid)

=============================================================================
