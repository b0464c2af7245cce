------------------------------- MODULE Window -------------------------------
(***************************************************************************)
(* What the main window promises to whoever reads it between two refreshes *)
(* (the test batches of FioBatch): a picture of the slots that only a      *)
(* refresh replaces, in which every drive is at home.  Canvas, which reads *)
(* the hardware step by step, implements it (Canvas!ImplementsWindow).     *)
(***************************************************************************)
EXTENDS Integers, FiniteSets

CONSTANTS
    NEXPDR,         \* number of expander group boxes
    NSLOT_PEREXP,   \* slots per expander
    Drive,          \* drives a slot can show
    NoDev,          \* the empty slot
    Seat            \* the slot each drive sits in

NSLOT == NEXPDR * NSLOT_PEREXP
Slots == 0 .. NSLOT - 1
Expdrs == 0 .. NEXPDR - 1

VARIABLES
    pic,       \* what each slot shows
    checked,   \* whether its box is checked
    pathed,    \* the expanders with a working path
    busy       \* a refresh is running

winVars == <<pic, checked, pathed, busy>>

Blank == [sl \in Slots |-> NoDev]
Unchecked == [sl \in Slots |-> FALSE]

(* The constructor refreshes at once.                                      *)
WinInit ==
    /\ pic = Blank /\ checked = Unchecked
    /\ pathed = {} /\ busy = TRUE

(* filloutCanvas starts with nothing shown.                                *)
BeginRefresh ==
    /\ ~busy /\ busy' = TRUE
    /\ pic' = Blank /\ pathed' = {}
    /\ checked' \in {checked, Unchecked}

(* While it runs drives appear where they sit, a slot whose phy is off is  *)
(* emptied and unchecked, and expanders are found.                         *)
Show(sl, d) ==
    /\ busy /\ Seat[d] = sl
    /\ pic' = [pic EXCEPT ![sl] = d]
    /\ UNCHANGED <<checked, pathed, busy>>

Hide(sl) ==
    /\ busy
    /\ pic' = [pic EXCEPT ![sl] = NoDev]
    /\ checked' = [checked EXCEPT ![sl] = FALSE]
    /\ UNCHANGED <<pathed, busy>>

Reach(found) ==
    /\ busy /\ pathed' = pathed \cup found
    /\ UNCHANGED <<pic, checked, busy>>

EndRefresh ==
    /\ busy /\ busy' = FALSE
    /\ UNCHANGED <<pic, checked, pathed>>

(* Between refreshes only the boxes change.                                *)
Click(marks) ==
    /\ ~busy /\ checked' = marks
    /\ UNCHANGED <<pic, pathed, busy>>

WinNext ==
    \/ BeginRefresh \/ EndRefresh
    \/ \E sl \in Slots : Hide(sl) \/ \E d \in Drive : Show(sl, d)
    \/ \E found \in SUBSET Expdrs : Reach(found)
    \/ \E marks \in [Slots -> BOOLEAN] : Click(marks)

WinSpec == WinInit /\ [][WinNext]_winVars

=============================================================================
