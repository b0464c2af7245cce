----------------------------- MODULE SmpSession -----------------------------
(***************************************************************************)
(* One conversation of the program with an expander: the device node that  *)
(* smp_initiator_open opens and smp_initiator_close closes, and the two    *)
(* walks over the expander's phys, do_multiple (for the console) and       *)
(* do_multiple_slot (for the tables).  HbaQuery strings conversations      *)
(* together into the discoveries the window asks for.                      *)
(*                                                                         *)
(* Nodes and expanders come and go between any two requests, and any       *)
(* request may fail in one of the ways of SmpFrames.                       *)
(***************************************************************************)
EXTENDS SlotTable, SmpFrames, Sequences

CONSTANTS
    Chain,       \* per device node, the expanders behind it
    Wwid,        \* SAS address of each expander
    HbaWwid,     \* SAS address of the adapters
    Wiring,      \* per expander, phy -> slot number, HbaPhy, NoSlot or Vacant
    Attached,    \* the disk on each wired phy, or NoDev
    Off,         \* phys disabled by PHY CONTROL
    BadNode,     \* nodes without the driver's device number (MPT only)
    NUM_PHY,     \* phys do_multiple_slot asks for (32 in the program)
    NoNode,      \* no device node
    Removable,   \* sets of nodes and expanders that come and go together
    MaxChanges,  \* bound on their coming and going
    MaxFaults    \* bound on requests that fail for no visible reason

HbaPhy == 0
NoSlot == -1
Vacant == -2

Node == DOMAIN Chain
Boxes(n) == IF n \in Node THEN {Chain[n][j] : j \in DOMAIN Chain[n]} ELSE {}
WWID_TO_INDEX(w) == (w % 256) \div 64
Index(s) == WWID_TO_INDEX(Wwid[s])

ASSUME SessionAssumption ==
    /\ NEXPDR = 4 /\ NSLOT < 255        \* a slot number is a byte, 255 being none
    /\ NUM_PHY \in 1 .. 32
    /\ \A n \in Node : Chain[n] \in Seq(Ses)
    /\ NoNode \notin Node /\ NoPath \notin Node /\ DummyPath \notin Node
    /\ Wwid \in [Ses -> Nat \ {0}] /\ HbaWwid \in Nat \ {0}
    /\ \A s, t \in Ses : Index(s) = Index(t) => s = t
    /\ \A s \in Ses : \E n \in 1 .. NUM_PHY :
          Wiring[s] \in [0 .. n - 1 -> 1 .. NSLOT \cup {HbaPhy, NoSlot, Vacant}]
    /\ \A s \in Ses : \A p, q \in DOMAIN Wiring[s] :
          /\ Wiring[s][p] > 0 => Wiring[s][p] - 1 \in SlotsOf(Index(s))
          /\ Wiring[s][p] > 0 /\ Wiring[s][p] = Wiring[s][q] => p = q
    /\ Attached \in [Ses -> [0 .. NUM_PHY - 1 -> Disk \cup {NoDev}]]
    /\ BadNode \subseteq Node /\ Removable \subseteq SUBSET (Node \cup Ses)
    /\ MaxChanges \in Nat /\ MaxFaults \in Nat

VARIABLES
    here,      \* environment: nodes and expanders that are there
    changes,   \* counts towards MaxChanges
    faults,    \* counts towards MaxFaults
    faulted,   \* a request failed since the operation started
    moved,     \* something came or went since then
    pc,        \* where the GUI thread is
    tobj,      \* the smp_target_obj
    fds,       \* nodes this process holds a descriptor of
    k,         \* the phy asked next
    num,       \* phys get_num_phys reported
    ret,       \* the result of do_multiple or do_multiple_slot
    failed,    \* whether a request of that call failed
    hba_sa,    \* whether do_multiple_slot met a phy cabled to the adapter
    buf        \* the response buffer

envVars == <<here, changes, faults, faulted, moved>>
tableVars == <<slotVars, ctrlVars, tab>>
walkVars == <<k, num, ret, failed, hba_sa, buf>>

Closed == [opened |-> FALSE, node |-> NoNode, selector |-> "I_SGV4", addr |-> 0]

SessionTypeOK ==
    /\ here \subseteq Node \cup Ses
    /\ changes \in 0 .. MaxChanges /\ faults \in 0 .. MaxFaults
    /\ faulted \in BOOLEAN /\ moved \in BOOLEAN
    /\ tobj \in [opened : BOOLEAN, node : Node \cup {NoNode},
                 selector : Selector, addr : Nat]
    /\ fds \subseteq Node
    /\ k \in 0 .. 255 /\ num \in Int /\ ret \in Int
    /\ failed \in BOOLEAN /\ hba_sa \in BOOLEAN
    /\ buf \in Frame

NotWalking ==
    /\ k = 0 /\ num = 0 /\ ret = 0
    /\ failed = FALSE /\ hba_sa = FALSE /\ buf = Zero

(* Something comes or goes.                                                *)
Change(x) ==
    /\ x \in Removable /\ changes < MaxChanges
    /\ changes' = changes + 1
    /\ here' = IF x \subseteq here THEN here \ x ELSE here \cup x
    /\ moved' = TRUE
    /\ UNCHANGED <<tableVars, faults, faulted, pc, tobj, fds, walkVars>>

-----------------------------------------------------------------------------
(* Opening and closing.                                                    *)

(* A request or an open that could succeed does, or the budget pays.       *)
Luck(can, ok) ==
    /\ ok => can
    /\ IF can /\ ~ok
       THEN /\ faults < MaxFaults
            /\ faults' = faults + 1 /\ faulted' = TRUE
       ELSE UNCHANGED <<faults, faulted>>
    /\ UNCHANGED <<here, changes, moved>>

(* Opening node n; the caller sets the address to pass requests to.        *)
(* open_mpt_device has the node open when it finds that it is not the      *)
(* driver's, and gives the descriptor up without closing it.               *)
smp_initiator_open(n, selector, addr, ok) ==
    LET wrong == selector = "I_MPT" /\ n \in BadNode
    IN  /\ Luck(n \in here /\ ~wrong, ok)
        /\ tobj' = IF ok THEN [opened |-> TRUE, node |-> n,
                               selector |-> selector, addr |-> addr]
                   ELSE [tobj EXCEPT !.opened = FALSE]
        /\ fds' = IF ok \/ (wrong /\ n \in here) THEN fds \cup {n} ELSE fds

smp_initiator_close_IfThere ==
    /\ tobj' = [tobj EXCEPT !.opened = FALSE]
    /\ fds' = IF tobj.opened /\ tobj.node \in here THEN fds \ {tobj.node} ELSE fds

smp_initiator_close ==
    /\ tobj' = [tobj EXCEPT !.opened = FALSE]
    /\ fds' = IF tobj.opened THEN fds \ {tobj.node} ELSE fds

-----------------------------------------------------------------------------
(* One SMP request and its outcomes.                                       *)

(* The expander a request reaches: the node's own over Linux bsg, the one  *)
(* of the address given otherwise.                                         *)
Target ==
    {s \in Boxes(tobj.node) : tobj.selector = "I_SGV4" \/ Wwid[s] = tobj.addr}

Reached == IF tobj.node \in here THEN Target \cap here ELSE {}
Peer == CHOOSE s \in Target : TRUE

Accepted(f) ==
    [fails |-> FALSE, driver |-> 0, transport |-> 0, device |-> 0,
     got |-> 124, named |-> 116, content |-> TRUE, frame |-> f]

(* An answer f may be lost in the driver or on the way, be cut short, or   *)
(* turn out a refusal (function result 2) instead.                         *)
Spoilt(f) ==
    {[Accepted(f) EXCEPT !.fails = TRUE],
     [Accepted(f) EXCEPT !.transport = 1, !.content = FALSE],
     [Accepted(f) EXCEPT !.got = 8, !.named = 8],
     [Accepted(f) EXCEPT !.frame = [f EXCEPT !.res = 2]]}

(* What may come of a request an expander that is there answers with f.    *)
Outcomes(f) ==
    IF Reached = {} THEN {[Accepted(Zero) EXCEPT !.fails = TRUE]}
    ELSE {Accepted(f)} \cup Spoilt(f)

Suffers(o, f) == Luck(Reached # {}, Reached # {} /\ o = Accepted(f))

Respond(b, o) == smp_send_req(tobj.opened, tobj.selector, b, o)

Phys(s) == CHOOSE n \in 1 .. NUM_PHY : DOMAIN Wiring[s] = 0 .. n - 1
Reporting(fn, res) == [Zero EXCEPT !.type = RESP, !.fn = fn, !.res = res]

GeneralAnswer ==
    [Reporting(REPORT_GENERAL, 0) EXCEPT !.words = 17, !.phy = Phys(Peer)]

DiscoverAnswer ==
    IF k >= Phys(Peer) THEN Reporting(DISCOVER, NO_PHY)
    ELSE IF Wiring[Peer][k] = Vacant THEN Reporting(DISCOVER, PHY_VACANT)
    ELSE LET wired == Wiring[Peer][k]
             hba == IF wired = HbaPhy THEN HbaWwid ELSE 0
         IN  [Reporting(DISCOVER, 0) EXCEPT
                 !.words = 27, !.phy = k, !.addr = Wwid[Peer],
                 !.dev = IF hba # 0 \/ Attached[Peer][k] # NoDev THEN 16 ELSE 0,
                 !.rate = IF <<Peer, k>> \in Off THEN 1 ELSE 11,
                 !.init = IF hba # 0 THEN 8 ELSE 0,
                 !.hba = hba, !.name = hba,
                 !.dsn = IF wired > 0 THEN wired ELSE 255]

-----------------------------------------------------------------------------
(* do_multiple: as many phys as REPORT GENERAL counts.  A negative count,  *)
(* which is an error, asks none.                                           *)
StartWalk(step) ==
    /\ pc' = step
    /\ k' = 0 /\ num' = 0 /\ ret' = 0
    /\ failed' = FALSE /\ hba_sa' = FALSE /\ buf' = Zero

ReportGeneral ==
    /\ pc = "general"
    /\ \E o \in Outcomes(GeneralAnswer) :
          LET r == Respond(buf, o)
          IN  /\ Suffers(o, GeneralAnswer)
              /\ num' = get_num_phys(r)
              /\ failed' = (get_num_phys(r) < 0)
              /\ buf' = r.buf
    /\ pc' = "phy"
    /\ UNCHANGED <<tableVars, tobj, fds, k, ret, hba_sa>>

(* The end of the walk, of its own accord or at a failure: NO PHY is the   *)
(* expected end, a vacant phy is passed over with its result kept.         *)
GoOn(res) == res \in {0, PHY_VACANT}

Result(res) ==
    /\ ret' = IF res = NO_PHY THEN 0 ELSE res
    /\ failed' = (failed \/ ~(GoOn(res) \/ res = NO_PHY))
    /\ IF GoOn(res) THEN k' = k + 1 /\ UNCHANGED pc
       ELSE pc' = "walked" /\ UNCHANGED k

(* do_discover zeroes the buffer before it asks.                           *)
AskPhy ==
    /\ pc = "phy" /\ k < num
    /\ \E o \in Outcomes(DiscoverAnswer) :
          LET r == Respond(Zero, o)
          IN  /\ Suffers(o, DiscoverAnswer)
              /\ buf' = r.buf
              /\ Result(FunctionResult(do_discover(r)))
    /\ UNCHANGED <<tableVars, tobj, fds, num, hba_sa>>

PhysWalked ==
    /\ \/ pc = "phy" /\ k >= num
       \/ pc = "slot" /\ k >= NUM_PHY
    /\ pc' = "walked"
    /\ UNCHANGED <<tableVars, envVars, tobj, fds, walkVars>>

(* do_multiple_slot: NUM_PHY phys, whatever REPORT GENERAL would say.  The *)
(* first phy with an initiator behind it and an address gives the working  *)
(* path; over mpi3mr the address is the attached one, otherwise the        *)
(* attached device's name.                                                 *)
InitiatorAddress(f) == IF tobj.selector = "I_SGV4_MPI" THEN f.hba ELSE f.name

StoredLink_OtherNibble(f) ==
    IF f.rate \div 16 = 1 THEN "off" ELSE IF (f.dev \div 16) % 8 = 0 THEN "empty" ELSE "on"

StoredLink(f) ==
    IF f.rate % 16 = 1 THEN "off" ELSE IF (f.dev \div 16) % 8 = 0 THEN "empty" ELSE "on"

Store(len, f) ==
    IF f.init % 16 # 0
    THEN /\ IF InitiatorAddress(f) # 0 /\ ~hba_sa
            THEN SetBsgPath(WWID_TO_INDEX(f.addr), tobj.node) /\ hba_sa' = TRUE
            ELSE UNCHANGED <<ctrlVars, hba_sa>>
         /\ UNCHANGED slotVars
    ELSE /\ SetDiscoverResp(SlotNumber(len, f), [phy |-> f.phy, link |-> StoredLink(f)])
         /\ UNCHANGED <<ctrlVars, hba_sa>>

AskSlotPhy ==
    /\ pc = "slot" /\ k < NUM_PHY
    /\ \E o \in Outcomes(DiscoverAnswer) :
          LET r == Respond(Zero, o)
              len == do_discover(r)
          IN  /\ Suffers(o, DiscoverAnswer)
              /\ buf' = r.buf
              /\ Result(FunctionResult(len))
              /\ IF len >= 0 THEN Store(len, r.buf)
                 ELSE UNCHANGED <<slotVars, ctrlVars, hba_sa>>
    /\ UNCHANGED <<tab, tobj, fds, num>>

Walking == ReportGeneral \/ AskPhy \/ AskSlotPhy \/ PhysWalked

=============================================================================
