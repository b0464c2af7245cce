----------------------------- MODULE MCHbaQuery -----------------------------
(***************************************************************************)
(* An instance of HbaQuery with tables of two adapters of two expanders:   *)
(* the first adapter fills its row, a third adapter finds no room, the     *)
(* walks end by NO PHY, at a vacant phy and at the last phy asked for.     *)
(***************************************************************************)
EXTENDS HbaQuery, TLC

CONSTANTS d1, d2, s1, s2, s3, a1, a2, a3, e1, e2, e3, m1, m2

MCDisk == {d1, d2}
MCSes == {s1, s2, s3}

MCChain == [n \in {a1, a2, a3, e1, e2, e3, m1, m2} |->
    CASE n = a1 -> <<s1, s2>> [] n = a2 -> <<s3>>
      [] n = e1 -> <<s1>> [] n = e2 -> <<s2>> [] n = e3 -> <<s3>>
      [] n = m1 -> <<s1, s2>>
      [] OTHER -> <<>>]

MCWwid == [s \in MCSes |-> CASE s = s1 -> 256 + 63 [] s = s2 -> 256 + 127
                             [] s = s3 -> 512 + 191]

MCWiring == [s \in MCSes |->
    CASE s = s1 -> (0 :> Vacant @@ 1 :> 1 @@ 2 :> HbaPhy)
      [] s = s2 -> (0 :> 2 @@ 1 :> HbaPhy)
      [] s = s3 -> (0 :> HbaPhy @@ 1 :> NoSlot @@ 2 :> 3 @@ 3 :> Vacant)]

MCAttached == [s \in MCSes |-> [p \in 0 .. NUM_PHY - 1 |->
    CASE s = s1 /\ p = 1 -> d1 [] s = s2 /\ p = 0 -> d2 [] OTHER -> NoDev]]

MCOff == {<<s2, 0>>}
MCExpanders == <<e1, e2, e3>>
MCAdapters == <<a1, a2, a3>>
MCMptNodes == <<m1, m2>>
MCBadNode == {m2}
MCRemovable == {{s1}, {s2}, {a1}, {a1, a2, a3}}
MCOps == Discovery
MCConsole == {"mpi3mr_slot_discover", "mpi3mr_discover"}

=============================================================================
