------------------------------ MODULE HbaQuery ------------------------------
(***************************************************************************)
(* The discoveries: slot_discover and mpi3mr_slot_discover fill the tables *)
(* at a refresh, mpi3mr_discover (the Discover button), smp_discover and   *)
(* mpt_discover (which nothing calls) print to the console.  Before        *)
(* mpi3mr_slot_discover asks the slots, mpi3mr_iocfacts reads from each    *)
(* adapter what the Info tab shows and registers the working paths.        *)
(***************************************************************************)
EXTENDS SmpSession

CONSTANTS
    Expanders,         \* expander nodes of /dev/bsg, in the order of names
    Adapters,          \* mpi3mr nodes of /dev/bsg
    MptNodes,          \* mpt3ctl nodes of /dev
    Ops,               \* the discoveries asked for
    NUM_IOC,           \* adapters the tables hold (4 in the program)
    NUM_EXP_PER_HBA,   \* expanders they hold per adapter (4)
    Own                \* the enclosure of the adapter itself

Discovery == {"slot_discover", "mpi3mr_slot_discover", "smp_discover",
              "mpt_discover", "mpi3mr_discover"}

Iocs == 0 .. NUM_IOC - 1
Exps == 0 .. NUM_EXP_PER_HBA - 1

ASSUME QueryAssumption ==
    /\ NUM_IOC \in Nat \ {0} /\ NUM_EXP_PER_HBA \in Nat \ {0}
    /\ Expanders \in Seq(Node) /\ Adapters \in Seq(Node) /\ MptNodes \in Seq(Node)
    /\ \A j \in DOMAIN Expanders : Len(Chain[Expanders[j]]) = 1
    /\ Ops \subseteq Discovery
    /\ Own \notin Ses \cup {NoDev}

VARIABLES
    op,         \* the discovery running, or the last one
    list,       \* entries its loop over the directory has left
    i,          \* its loop over the expanders
    ioc_cnt,    \* adapters counted
    adpinfo,    \* per row, the adapter that filled it
    ioc_facts,
    exps,       \* hba_sas_exp: whose data each of its fields holds
    iexp, e,    \* the loops over enclosures and expanders
    handle,     \* the page asked for next, by its predecessor
    seen        \* the adapters the last query found listed

infoVars == <<ioc_cnt, adpinfo, ioc_facts, exps, seen>>
queryVars == <<iexp, e, handle>>
vars == <<tableVars, envVars, pc, tobj, fds, walkVars, op, list, i, infoVars, queryVars>>

Part == {"encl", "scsi", "sas", "manu"}
Empty == [encl |-> NoDev, scsi |-> NoDev, sas |-> NoDev, manu |-> NoDev]
NoInfo ==
    /\ adpinfo' = [c \in Iocs |-> NoNode]
    /\ ioc_facts' = [c \in Iocs |-> NoNode]
    /\ exps' = [c \in Iocs |-> [x \in Exps |-> Empty]]

Init ==
    /\ TableInit
    /\ here \in {Node \cup Ses, (Node \cup Ses) \ UNION Removable}
    /\ changes = 0 /\ faults = 0 /\ faulted = FALSE /\ moved = FALSE
    /\ pc = "idle" /\ tobj = Closed /\ fds = {} /\ NotWalking
    /\ op = "none" /\ list = {} /\ i = 0
    /\ ioc_cnt = 0
    /\ adpinfo = [c \in Iocs |-> NoNode] /\ ioc_facts = adpinfo
    /\ exps = [c \in Iocs |-> [x \in Exps |-> Empty]]
    /\ iexp = 0 /\ e = 0 /\ handle = 0 /\ seen = {}

-----------------------------------------------------------------------------
(* Starting.                                                               *)
Nodes(o) ==
    CASE o \in {"slot_discover", "smp_discover"} -> Expanders
      [] o \in {"mpi3mr_slot_discover", "mpi3mr_discover"} -> Adapters
      [] o = "mpt_discover" -> MptNodes

Directory(o) == {j \in DOMAIN Nodes(o) : Nodes(o)[j] \in here}

(* filloutCanvas up to the discovery: what list_sdevices lists (Canvas has *)
(* it step by step), drives behind phys just disabled included.            *)
Listed ==
    LET there == here \cap Ses
        sits(sl) == {b \in there \X PhyIds :
                        /\ b[2] \in DOMAIN Wiring[b[1]]
                        /\ Wiring[b[1]][b[2]] = sl + 1}
        disk(sl) == {Attached[b[1]][b[2]] : b \in sits(sl)} \ {NoDev}
    IN  /\ d_name' = [sl \in Slots |-> IF disk(sl) = {} THEN NoDev
                                      ELSE CHOOSE d \in disk(sl) : TRUE]
        /\ enabled' = [sl \in Slots |-> disk(sl) # {}]
        /\ devCount' = Cardinality({sl \in Slots : disk(sl) # {}})
        /\ resp' = [sl \in Slots |-> NoResp]
        /\ ctrl' = [el \in Expdrs |-> IF \E s \in there : Index(s) = el
                                      THEN CHOOSE s \in there : Index(s) = el
                                      ELSE NoDev]
        /\ expCount' = Cardinality(there)
        /\ bsg_path' = [el \in Expdrs |-> NoPath]
        /\ UNCHANGED <<checked, tab>>

Clear_KeepTables ==
    /\ UNCHANGED <<adpinfo, ioc_facts, exps>>
    /\ ioc_cnt' = IF Directory("mpi3mr_slot_discover") = {} THEN ioc_cnt ELSE 0

(* mpi3mr_iocfacts: the tables are zeroed in any case, the counter only    *)
(* when there is an adapter to count.                                      *)
Clear ==
    /\ NoInfo
    /\ ioc_cnt' = IF Directory("mpi3mr_slot_discover") = {} THEN ioc_cnt ELSE 0

Start(o) ==
    /\ pc = "idle"
    /\ op' = o /\ list' = Directory(o) /\ i' = 0
    /\ faulted' = FALSE /\ moved' = FALSE
    /\ pc' = "node"
    /\ IF o \in {"slot_discover", "mpi3mr_slot_discover"} THEN Listed
       ELSE UNCHANGED tableVars
    /\ IF o = "mpi3mr_slot_discover"
       THEN Clear /\ seen' = {Adapters[j] : j \in Directory(o)}
       ELSE UNCHANGED infoVars
    /\ UNCHANGED <<here, changes, faults, tobj, fds, walkVars, queryVars>>

-----------------------------------------------------------------------------
(* The loop over a directory: every node that opens is talked to.          *)
Interface ==
    CASE op \in {"slot_discover", "smp_discover"} -> "I_SGV4"
      [] op = "mpt_discover" -> "I_MPT"
      [] op \in {"mpi3mr_slot_discover", "mpi3mr_discover"} -> "I_SGV4_MPI"

FirstStep ==
    CASE op = "slot_discover" -> "slot"
      [] op = "smp_discover" -> "general"
      [] op \in {"mpt_discover", "mpi3mr_discover"} -> "addr"
      [] op = "mpi3mr_slot_discover" -> "adpinfo"

RoomForIoc_Never(cnt) == TRUE
RoomForIoc(cnt) == cnt < NUM_IOC

OpenNode ==
    /\ pc = "node"
    /\ op = "mpi3mr_slot_discover" => RoomForIoc(ioc_cnt)
    /\ \E j \in list, ok \in BOOLEAN :
          /\ \A l \in list : j <= l
          /\ list' = list \ {j}
          /\ smp_initiator_open(Nodes(op)[j], Interface, 0, ok)
          /\ pc' = IF ok THEN FirstStep ELSE "node"
    /\ i' = 0
    /\ UNCHANGED <<tableVars, walkVars, op, infoVars, queryVars>>

(* The directory is done with, or the tables are full.                     *)
NodesDone ==
    /\ pc = "node"
    /\ list = {} \/ (op = "mpi3mr_slot_discover" /\ ~RoomForIoc(ioc_cnt))
    /\ pc' = IF op = "mpi3mr_slot_discover" THEN "path" ELSE "idle"
    /\ list' = {} /\ i' = 0
    /\ UNCHANGED <<tableVars, envVars, tobj, fds, walkVars, op, infoVars, queryVars>>

Address(s) == IF s = NoDev THEN 0 ELSE Wwid[s]
wwid64(el) == Address(ctrl[el])

(* The console discoveries try every known expander through every node.    *)
NextAddress ==
    /\ pc = "addr" /\ i < NEXPDR
    /\ tobj' = [tobj EXCEPT !.addr = wwid64(i)]
    /\ IF wwid64(i) = 0 THEN i' = i + 1 /\ UNCHANGED pc
       ELSE pc' = "general" /\ UNCHANGED i
    /\ UNCHANGED <<tableVars, envVars, fds, walkVars, op, list, infoVars, queryVars>>

AddressesDone ==
    /\ pc = "addr" /\ i = NEXPDR
    /\ pc' = "close"
    /\ UNCHANGED <<tableVars, envVars, tobj, fds, walkVars, op, list, i, infoVars, queryVars>>

(* mpi3mr_slot_discover's own loop: the paths iocfacts registered.         *)
OpenPath ==
    /\ pc = "path" /\ i < NEXPDR
    /\ IF bsg_path[i] = NoPath
       THEN i' = i + 1 /\ UNCHANGED <<envVars, tobj, fds, pc>>
       ELSE \E ok \in BOOLEAN :
              /\ smp_initiator_open(bsg_path[i], "I_SGV4_MPI", wwid64(i), ok)
              /\ IF ok THEN pc' = "slot" /\ UNCHANGED i ELSE i' = i + 1 /\ UNCHANGED pc
    /\ UNCHANGED <<tableVars, walkVars, op, list, infoVars, queryVars>>

PathsDone ==
    /\ pc = "path" /\ i = NEXPDR
    /\ pc' = "idle"
    /\ UNCHANGED <<tableVars, envVars, tobj, fds, walkVars, op, list, i, infoVars, queryVars>>

Walk ==
    /\ Walking
    /\ UNCHANGED <<op, list, i, infoVars, queryVars>>

(* A walk returned; its result is only printed.                            *)
Walked ==
    /\ pc = "walked"
    /\ StartWalk(IF op \in {"mpt_discover", "mpi3mr_discover"} THEN "addr" ELSE "close")
    /\ i' = IF pc' = "addr" THEN i + 1 ELSE i
    /\ UNCHANGED <<tableVars, envVars, tobj, fds, op, list, infoVars, queryVars>>

Close ==
    /\ pc = "close"
    /\ smp_initiator_close
    /\ IF op = "mpi3mr_slot_discover" THEN pc' = "path" /\ i' = i + 1
       ELSE pc' = "node" /\ UNCHANGED i
    /\ UNCHANGED <<tableVars, envVars, walkVars, op, list, infoVars, queryVars>>

-----------------------------------------------------------------------------
(* One adapter in mpi3mr_iocfacts.  That its two information requests      *)
(* fail is noted and passed over.                                          *)
Answers == tobj.node \in here

populate_adpinfo ==
    /\ pc = "adpinfo"
    /\ \E ok \in BOOLEAN :
          /\ Luck(Answers, ok)
          /\ adpinfo' = [adpinfo EXCEPT ![ioc_cnt] = IF ok THEN tobj.node ELSE NoNode]
    /\ pc' = "facts"
    /\ UNCHANGED <<tableVars, tobj, fds, walkVars, op, list, i,
                   ioc_cnt, ioc_facts, exps, seen, queryVars>>

issue_iocfacts ==
    /\ pc = "facts"
    /\ \E ok \in BOOLEAN :
          /\ Luck(Answers, ok)
          /\ ioc_facts' = IF ok THEN [ioc_facts EXCEPT ![ioc_cnt] = tobj.node]
                          ELSE ioc_facts
    /\ pc' = "encl" /\ iexp' = 0 /\ e' = 0 /\ handle' = 0
    /\ UNCHANGED <<tableVars, tobj, fds, walkVars, op, list, i,
                   ioc_cnt, adpinfo, exps, seen>>

(* The firmware lists the adapter's own enclosure first, then those of the *)
(* expanders behind it, in the order it lists the expanders; a request for *)
(* the page after handle h gets the next one that is there.                *)
Pages(own) ==
    (IF own THEN {<<1, Own>>} ELSE {}) \cup
    {<<j + 1, Chain[tobj.node][j]>> :
        j \in {x \in DOMAIN Chain[tobj.node] : Chain[tobj.node][x] \in Boxes(tobj.node) \cap here}}

(* A page of zeros is returned behind the last one.                        *)
Page(own) ==
    LET next == {p \in Pages(own) :
                    p[1] > handle /\ \A q \in Pages(own) : q[1] > handle => p[1] <= q[1]}
    IN  IF next = {} THEN <<0, NoDev>> ELSE CHOOSE p \in next : TRUE

Behind_Never(page) == FALSE
Behind(page) == page[2] = NoDev

EnclosureTries_One(n) == n < NUM_EXP_PER_HBA
EnclosureTries(n) == n < NUM_EXP_PER_HBA + 1

(* cfg_get_enclosure_pg0, header and page.  An enclosure with a SES        *)
(* processor is an expander's; it is recorded and asked for its version.   *)
cfg_get_enclosure_pg0 ==
    /\ pc = "encl" /\ EnclosureTries(e)
    /\ \E ok \in BOOLEAN :
          /\ Luck(Answers, ok)
          /\ IF ~ok \/ Page(TRUE)[2] = NoDev
             THEN /\ pc' = "exp" /\ e' = 0 /\ handle' = 0
                  /\ UNCHANGED exps
             ELSE /\ handle' = Page(TRUE)[1]
                  /\ IF Page(TRUE)[2] # Own /\ iexp < NUM_EXP_PER_HBA
                     THEN /\ exps' = [exps EXCEPT ![ioc_cnt][iexp].encl = Page(TRUE)[2]]
                          /\ pc' = "qcmd" /\ UNCHANGED e
                     ELSE e' = e + 1 /\ UNCHANGED <<exps, pc>>
    /\ UNCHANGED <<tableVars, tobj, fds, walkVars, op, list, i,
                   ioc_cnt, adpinfo, ioc_facts, seen, iexp>>

EnclosuresDone ==
    /\ pc = "encl" /\ ~EnclosureTries(e)
    /\ pc' = "exp" /\ e' = 0 /\ handle' = 0
    /\ UNCHANGED <<tableVars, envVars, tobj, fds, walkVars, op, list, i, infoVars, iexp>>

NextExp_IfOk(x, ok) == IF ok THEN x + 1 ELSE x
NextExp(x, ok) == x + 1

(* mpi3mr_qcmd: a failure leaves zeros behind and the counter moves on.    *)
mpi3mr_qcmd ==
    /\ pc = "qcmd"
    /\ \E ok \in BOOLEAN :
          /\ Luck(Answers /\ exps[ioc_cnt][iexp].encl \in here, ok)
          /\ exps' = IF ok THEN [exps EXCEPT ![ioc_cnt][iexp].scsi =
                                    exps[ioc_cnt][iexp].encl] ELSE exps
          /\ iexp' = NextExp(iexp, ok)
    /\ e' = e + 1 /\ pc' = "encl"
    /\ UNCHANGED <<tableVars, tobj, fds, walkVars, op, list, i,
                   ioc_cnt, adpinfo, ioc_facts, seen, handle>>

(* cfg_get_sas_exp_pg0, header and page.                                   *)
cfg_get_sas_exp_pg0 ==
    /\ pc = "exp" /\ e < NUM_EXP_PER_HBA
    /\ \E ok \in BOOLEAN :
          /\ Luck(Answers, ok)
          /\ IF ~ok \/ Behind(Page(FALSE))
             THEN pc' = "closeIoc" /\ UNCHANGED <<exps, tobj, handle>>
             ELSE /\ pc' = "manu" /\ handle' = Page(FALSE)[1]
                  /\ tobj' = [tobj EXCEPT !.addr = Address(Page(FALSE)[2])]
                  /\ exps' = [exps EXCEPT ![ioc_cnt][e].sas = Page(FALSE)[2]]
    /\ UNCHANGED <<tableVars, fds, walkVars, op, list, i,
                   ioc_cnt, adpinfo, ioc_facts, seen, iexp, e>>

ManufacturerAnswer == [Reporting(REPORT_MANUFACTURER, 0) EXCEPT !.words = 14]

(* The manufacturer's report stays where it was received even if it does   *)
(* not check out.  The expander's path is registered in any case.          *)
report_manufacturer ==
    /\ pc = "manu"
    /\ \E o \in Outcomes(ManufacturerAnswer) :
          /\ Suffers(o, ManufacturerAnswer)
          /\ exps' = IF Respond(Zero, o).buf = Zero THEN exps
                     ELSE [exps EXCEPT ![ioc_cnt][e].manu = Peer]
    /\ SetBsgPath(WWID_TO_INDEX(tobj.addr), tobj.node)
    /\ e' = e + 1 /\ pc' = "exp"
    /\ UNCHANGED <<slotVars, tab, tobj, fds, walkVars, op, list, i,
                   ioc_cnt, adpinfo, ioc_facts, seen, iexp, handle>>

ExpandersDone ==
    /\ pc = "exp" /\ e = NUM_EXP_PER_HBA
    /\ pc' = "closeIoc"
    /\ UNCHANGED <<tableVars, envVars, tobj, fds, walkVars, op, list, i, infoVars, queryVars>>

CloseIoc ==
    /\ pc = "closeIoc"
    /\ smp_initiator_close
    /\ ioc_cnt' = ioc_cnt + 1
    /\ iexp' = 0 /\ e' = 0 /\ handle' = 0
    /\ pc' = "node"
    /\ UNCHANGED <<tableVars, envVars, walkVars, op, list, i,
                   adpinfo, ioc_facts, exps, seen>>

mpi3mr_iocfacts ==
    \/ populate_adpinfo \/ issue_iocfacts
    \/ cfg_get_enclosure_pg0 \/ EnclosuresDone \/ mpi3mr_qcmd
    \/ cfg_get_sas_exp_pg0 \/ report_manufacturer \/ ExpandersDone
    \/ CloseIoc

Next ==
    \/ \E o \in Ops : Start(o)
    \/ OpenNode \/ NodesDone \/ NextAddress \/ AddressesDone
    \/ OpenPath \/ PathsDone \/ Walk \/ Walked \/ Close
    \/ mpi3mr_iocfacts
    \/ \E x \in Removable :
          Change(x) /\ UNCHANGED <<op, list, i, infoVars, queryVars>>

Spec == Init /\ [][Next]_vars

-----------------------------------------------------------------------------
(* get_infofacts: the rows of the Info tab, two expanders to a line, the   *)
(* right one only beside a left one.                                       *)
Shown ==
    {b \in Iocs \X Exps :
        /\ b[1] < ioc_cnt
        /\ exps[b[1]][b[2]].sas # NoDev
        /\ b[2] % 2 = 1 => exps[b[1]][b[2] - 1].sas # NoDev}

-----------------------------------------------------------------------------
(* Properties.                                                             *)
Steps == {"idle", "node", "addr", "path", "close", "general", "phy", "slot",
          "walked", "adpinfo", "facts", "encl", "qcmd", "exp", "manu", "closeIoc"}

TypeOK ==
    /\ SlotTypeOK /\ SessionTypeOK
    /\ ctrl \in [Expdrs -> Ses \cup {NoDev}]
    /\ bsg_path \in [Expdrs -> Node \cup {NoPath}]
    /\ expCount \in Nat /\ tab \in ENUM_TAB
    /\ pc \in Steps /\ op \in Discovery \cup {"none"}
    /\ list \subseteq DOMAIN Expanders \cup DOMAIN Adapters \cup DOMAIN MptNodes
    /\ i \in 0 .. NEXPDR
    /\ ioc_cnt \in 0 .. NUM_IOC
    /\ adpinfo \in [Iocs -> Node \cup {NoNode}]
    /\ ioc_facts \in [Iocs -> Node \cup {NoNode}]
    /\ exps \in [Iocs -> [Exps -> [encl : Ses \cup {NoDev}, scsi : Ses \cup {NoDev},
                                   sas : Ses \cup {NoDev}, manu : Ses \cup {NoDev}]]]
    /\ iexp \in 0 .. NUM_EXP_PER_HBA /\ e \in 0 .. NUM_EXP_PER_HBA + 1
    /\ handle \in Nat /\ seen \subseteq Node

(* An entry of the Info tab speaks of one expander: enclosures are counted *)
(* apart from expanders and either loop may end early, and yet the         *)
(* logical id, the SES version, the address and the firmware version of an *)
(* entry never belong to two boxes, unless one came or went during the     *)
(* query: iexp and e in mpi3mr_iocfacts.                                   *)
SameBox ==
    pc = "idle" /\ op = "mpi3mr_slot_discover" /\ ~moved =>
        \A c \in Iocs, x \in Exps : \E s \in Ses \cup {NoDev} :
            \A f \in Part : exps[c][x][f] \in {s, NoDev}

(* What the tables hold of a slot is what the phy of that slot answered,   *)
(* and a working path leads to the expander whose box it is in, whatever   *)
(* was cut short or left in the buffer: do_discover, do_multiple_slot.     *)
OwnAnswer ==
    /\ \A sl \in Slots : resp[sl] # NoResp =>
          \E s \in Ses : /\ resp[sl].phy \in DOMAIN Wiring[s]
                         /\ Wiring[s][resp[sl].phy] - 1 = sl
    /\ \A el \in Expdrs : bsg_path[el] # NoPath =>
          \E s \in Boxes(bsg_path[el]) : Index(s) = el

(* No discovery leaves a descriptor open, however it fails, but those of   *)
(* MPT nodes that are not the driver's: open_mpt_device,                   *)
(* smp_initiator_open and _close.                                          *)
NoLeak == fds \subseteq BadNode \cup (IF tobj.opened THEN {tobj.node} ELSE {})

(* The rows of the Info tab are about adapters the last query found, each  *)
(* about one of them and the boxes behind it, and no row is left over from *)
(* an earlier query: the tables are zeroed even where the counter of       *)
(* adapters is left alone (mpi3mr_iocfacts).                               *)
RowOf(c, n) ==
    /\ {adpinfo[c], ioc_facts[c]} \subseteq {n, NoNode}
    /\ \A x \in Exps, f \in Part : exps[c][x][f] \in Boxes(n) \cup {NoDev}

NoStaleInfo ==
    \A c \in Iocs : c < ioc_cnt => \E n \in seen \cup {NoNode} : RowOf(c, n)

(* The boxes a discovery can reach: on an HBA9600 those the tables have    *)
(* room for.                                                               *)
Reachable ==
    here \cap
    IF op = "slot_discover" THEN UNION {Boxes(Expanders[j]) : j \in Directory(op)}
    ELSE UNION {{Chain[Adapters[a]][j] :
                    j \in DOMAIN Chain[Adapters[a]] \cap 1 .. NUM_EXP_PER_HBA} :
                    a \in {b \in Directory(op) :
                              Cardinality({c \in Directory(op) : c <= b}) <= NUM_IOC}}

(* When nothing fails or moves, a refresh leaves no phy of a box it can    *)
(* reach unasked and no such box without a path or without its full entry  *)
(* on the Info tab, with as many boxes and phys as the loops allow:        *)
(* slot_discover and mpi3mr_slot_discover.                                 *)
NothingLost ==
    pc = "idle" /\ ~faulted /\ ~moved /\ op \in {"slot_discover", "mpi3mr_slot_discover"} =>
        \A s \in Reachable : \A p \in DOMAIN Wiring[s] :
            /\ Wiring[s][p] > 0 => resp[Wiring[s][p] - 1].phy = p
            /\ Wiring[s][p] = HbaPhy => bsg_path[Index(s)] # NoPath
            /\ op = "mpi3mr_slot_discover" =>
                  \E b \in Shown :
                      exps[b[1]][b[2]] = [encl |-> s, scsi |-> s, sas |-> s, manu |-> s]

(* What a phy tells the tables: the path of its expander or, of the slot   *)
(* it is wired to, the response, with the state its link is in.            *)
LinkIs(s, p) ==
    IF <<s, p>> \in Off THEN "off" ELSE IF Attached[s][p] = NoDev THEN "empty" ELSE "on"

Tells(s, p) ==
    IF Wiring[s][p] = HbaPhy
    THEN SetBsgPath(Index(s), tobj.node) /\ UNCHANGED slotVars
    ELSE /\ SetDiscoverResp(Wiring[s][p], [phy |-> p, link |-> LinkIs(s, p)])
         /\ UNCHANGED ctrlVars

TablesTold ==
    \/ pc = "idle" \/ UNCHANGED <<slotVars, ctrlVars>>
    \/ /\ pc = "slot" /\ tobj.node \in here
       /\ \E s \in Boxes(tobj.node) : k \in DOMAIN Wiring[s] /\ Tells(s, k)
    \/ /\ pc = "manu" /\ UNCHANGED slotVars
       /\ \E s \in Boxes(tobj.node) : SetBsgPath(Index(s), tobj.node)

(* A conversation writes to the tables what Canvas!DiscoverPhy writes in   *)
(* one step: what the phy asked for tells, of an expander behind the open  *)
(* node.  Nothing else is written, whatever an answer lost on its way, but *)
(* the paths report_manufacturer registers: do_multiple_slot, do_discover, *)
(* setDiscoverResp.                                                        *)
AsDiscoverPhy == [][TablesTold]_vars

(* "Returns 0 if ok, else function result" (comment above do_multiple).    *)
ZeroIffOk ==
    pc = "walked" /\ op \in {"smp_discover", "mpt_discover", "mpi3mr_discover"} =>
        (ret = 0 <=> ~failed)

=============================================================================
