----------------------------- MODULE EmptyRead -----------------------------
(***************************************************************************)
(* list_sdevices on an HBA9600 when an enclosure vanishes while its        *)
(* address is read.  Canvas takes the read of sas_address for one step,    *)
(* which finds the address or finds no file.  An enclosure that is removed *)
(* between the fopen and the fgets of get_value leaves a file that opens   *)
(* and does not read: get_value returns true and an empty value, of which  *)
(* expander_wwid makes 0x3F.  That is not the 0 list_sdevices tests for,   *)
(* but an address of index 0.                                              *)
(*                                                                         *)
(* A refresh that met an empty value is followed to the end of its         *)
(* listing.  On the other cards, which place no drives by that address,    *)
(* the enclosure would be registered in the wrong group box.               *)
(***************************************************************************)
EXTENDS Canvas

VARIABLE unread      \* enclosures whose wwid the listing took to be 0x3F

UnreadIndex == 0     \* WWID_TO_INDEX(0x3F)

ReadInit == Init /\ unread = {}

(* fopen found the file, fgets fails.                                      *)
ReadEmpty ==
    /\ pc = "wwid" /\ cardType = "HBA9600" /\ top \notin sysfs
    /\ unread' = unread \cup {top}
    /\ pc' = "place"
    /\ UNCHANGED <<slotVars, ctrlVars, tab, hwVars, dirty, cardType, enclSlot,
                   lastIndex, awaiting, loopVars>>

(* namelist[prev .. k-1] is placed as if the enclosure had index 0, and    *)
(* the enclosure is registered there.                                      *)
PlaceUnread ==
    /\ pc = "place" /\ top \in unread
    /\ \/ \E d \in pend :
             /\ First(d, pend)
             /\ pend' = pend \ {d}
             /\ LET i == compute_device_index(d, top)
                IN  IF i \in 1 .. NSLOT_PEREXP /\ HasWwid(d)
                    THEN SetSlot((UnreadIndex + 1) * NSLOT_PEREXP - i, d)
                    ELSE UNCHANGED slotVars
             /\ UNCHANGED <<ctrlVars, pc, top>>
       \/ /\ pend = {}
          /\ SetController(UnreadIndex, top)
          /\ top' = NoDev /\ pc' = "list"
          /\ UNCHANGED <<slotVars, pend>>
    /\ UNCHANGED <<tab, hwVars, dirty, cardType, enclSlot, lastIndex, awaiting,
                   todo, left, unread>>

(* The steps of Canvas, but for the two of a placing under another index   *)
(* and what comes after the listing.                                       *)
AsInCanvas ==
    /\ Next /\ UNCHANGED unread
    /\ top \in unread => Environment
    /\ unread # {} => pc' \in {"list", "wwid", "place"}

ReadNext == ReadEmpty \/ PlaceUnread \/ AsInCanvas

ReadSpec == ReadInit /\ [][ReadNext]_<<vars, unread>>

-----------------------------------------------------------------------------
(* Properties.                                                             *)

(* "error: cannot get expander[%1] wwid!": an enclosure whose address      *)
(* cannot be got is reported and claims no drive, so that a drive is only  *)
(* placed by an address that was read, in its own slot (message of         *)
(* list_sdevices).                                                         *)
PlacedByAddress == \A sl \in Occupied : Home(d_name[sl]) = sl

=============================================================================
