---------------------------- MODULE HbaQueryProofs ----------------------------
(***************************************************************************)
(* Theorems about the discoveries for any devices, expanders and cables,   *)
(* any number of adapters and any failures.                                *)
(***************************************************************************)
EXTENDS HbaQuery, SmpFramesProofs, FiniteSetTheorems, WellFoundedInduction

-----------------------------------------------------------------------------
(* Which discovery runs, and the fields of the smp_target_obj.             *)
ObjectInv ==
    /\ DOMAIN tobj = {"opened", "node", "selector", "addr"}
    /\ tobj.opened \in BOOLEAN /\ tobj.selector \in Selector
    /\ pc # "idle" => op \in Discovery

LEMMA Opening ==
    ASSUME ObjectInv, NEW n, NEW sel \in Selector, NEW addr, NEW ok \in BOOLEAN,
           smp_initiator_open(n, sel, addr, ok)
    PROVE  /\ DOMAIN tobj' = {"opened", "node", "selector", "addr"}
           /\ tobj'.opened = ok /\ tobj'.selector \in Selector
           /\ ok => tobj'.node = n
           /\ fds' \subseteq fds \cup {n}
           /\ ~ok /\ n \notin BadNode => fds' = fds
BY DEF ObjectInv, smp_initiator_open

LEMMA Interfaces ==
    ASSUME op \in Discovery
    PROVE  Interface \in Selector /\ FirstStep \in {"slot", "general", "addr", "adpinfo"}
BY DEF Interface, FirstStep, Discovery, Selector

LEMMA ObjectStep ==
    ASSUME ObjectInv, [Next]_vars
    PROVE  ObjectInv'
<1>1. CASE UNCHANGED vars
  BY <1>1 DEF vars, ObjectInv
<1>2. ASSUME NEW o \in Ops, Start(o) PROVE ObjectInv'
  BY <1>2, QueryAssumption DEF Start, ObjectInv
<1>3. CASE OpenNode
  <2>1. op \in Discovery /\ op' = op
    BY <1>3 DEF OpenNode, ObjectInv
  <2>2. PICK j \in list, ok \in BOOLEAN : smp_initiator_open(Nodes(op)[j], Interface, 0, ok)
    BY <1>3 DEF OpenNode
  <2> QED BY <2>1, <2>2, Opening, Interfaces DEF ObjectInv
<1>4. CASE OpenPath
  <2>1. op \in Discovery /\ op' = op
    BY <1>4 DEF OpenPath, ObjectInv
  <2>2. CASE UNCHANGED tobj
    BY <2>1, <2>2 DEF ObjectInv
  <2>3. ASSUME NEW ok \in BOOLEAN, smp_initiator_open(bsg_path[i], "I_SGV4_MPI", wwid64(i), ok)
        PROVE  ObjectInv'
    BY <2>1, <2>3, Opening DEF ObjectInv, Selector
  <2> QED BY <1>4, <2>2, <2>3 DEF OpenPath
<1>5. CASE NextAddress
  BY <1>5 DEF NextAddress, ObjectInv
<1>6. CASE cfg_get_sas_exp_pg0
  <2>1. op \in Discovery /\ op' = op
    BY <1>6 DEF cfg_get_sas_exp_pg0, ObjectInv
  <2>2. tobj' = tobj \/ \E x : tobj' = [tobj EXCEPT !.addr = x]
    BY <1>6 DEF cfg_get_sas_exp_pg0
  <2> QED BY <2>1, <2>2 DEF ObjectInv
<1>7. CASE Close \/ CloseIoc
  BY <1>7 DEF Close, CloseIoc, smp_initiator_close, ObjectInv
<1>8. CASE NodesDone \/ AddressesDone \/ PathsDone \/ Walked \/ Walk
  BY <1>8 DEF NodesDone, AddressesDone, PathsDone, Walked, Walk, Walking, ReportGeneral,
              AskPhy, AskSlotPhy, PhysWalked, ObjectInv
<1>9. CASE \/ populate_adpinfo \/ issue_iocfacts \/ cfg_get_enclosure_pg0 \/ EnclosuresDone
           \/ mpi3mr_qcmd \/ report_manufacturer \/ ExpandersDone
  BY <1>9 DEF populate_adpinfo, issue_iocfacts, cfg_get_enclosure_pg0, EnclosuresDone,
              mpi3mr_qcmd, report_manufacturer, ExpandersDone, ObjectInv
<1>10. ASSUME NEW x \in Removable, Change(x), UNCHANGED op PROVE ObjectInv'
  BY <1>10 DEF Change, ObjectInv
<1> QED BY <1>1, <1>2, <1>3, <1>4, <1>5, <1>6, <1>7, <1>8, <1>9, <1>10 DEF Next, mpi3mr_iocfacts

-----------------------------------------------------------------------------
(* Descriptors: between two conversations none is open.                    *)
LeakInv ==
    /\ ObjectInv /\ NoLeak
    /\ pc \in {"idle", "node", "path"} => ~tobj.opened

LEMMA OpenedOne ==
    ASSUME LeakInv, ~tobj.opened, NEW n, NEW sel \in Selector, NEW addr, NEW ok \in BOOLEAN,
           smp_initiator_open(n, sel, addr, ok)
    PROVE  NoLeak'
<1>1. fds \subseteq BadNode
  BY DEF LeakInv, NoLeak
<1>2. /\ tobj'.opened = ok /\ (ok => tobj'.node = n) /\ fds' \subseteq fds \cup {n}
      /\ (~ok /\ n \notin BadNode => fds' = fds)
  <2>1. ObjectInv
    BY DEF LeakInv
  <2> QED BY <2>1 DEF ObjectInv, smp_initiator_open
<1> QED BY <1>1, <1>2 DEF NoLeak

LEMMA ClosedOne ==
    ASSUME LeakInv, smp_initiator_close
    PROVE  NoLeak' /\ ~tobj'.opened
BY DEF LeakInv, ObjectInv, NoLeak, smp_initiator_close

LEMMA LeakStep ==
    ASSUME LeakInv, [Next]_vars
    PROVE  LeakInv'
<1>1. ObjectInv /\ ObjectInv'
  BY ObjectStep DEF LeakInv
<1> SUFFICES NoLeak' /\ (pc' \in {"idle", "node", "path"} => ~tobj'.opened)
  BY <1>1 DEF LeakInv
<1>2. ASSUME UNCHANGED <<tobj, fds>>,
             \/ pc' \notin {"idle", "node", "path"}
             \/ pc \in {"idle", "node", "path"}
      PROVE  NoLeak' /\ (pc' \in {"idle", "node", "path"} => ~tobj'.opened)
  BY <1>2 DEF LeakInv, NoLeak
<1>3. CASE UNCHANGED vars
  BY <1>2, <1>3 DEF vars
<1>4. ASSUME NEW o \in Ops, Start(o)
      PROVE  NoLeak' /\ (pc' \in {"idle", "node", "path"} => ~tobj'.opened)
  BY <1>2, <1>4 DEF Start
<1>5. CASE OpenNode
  <2>1. op \in Discovery /\ ~tobj.opened
    BY <1>1, <1>5 DEF OpenNode, ObjectInv, LeakInv
  <2>2. PICK j \in list, ok \in BOOLEAN :
           /\ smp_initiator_open(Nodes(op)[j], Interface, 0, ok)
           /\ pc' = IF ok THEN FirstStep ELSE "node"
    BY <1>5 DEF OpenNode
  <2>3. Interface \in Selector /\ FirstStep \notin {"idle", "node", "path"}
    BY <2>1, Interfaces
  <2> DEFINE n == Nodes(op)[j]
             sel == Interface
  <2>4. smp_initiator_open(n, sel, 0, ok) /\ sel \in Selector
    BY <2>2, <2>3
  <2> HIDE DEF n, sel
  <2>5. tobj'.opened = ok
    BY <1>1, <2>4, Opening
  <2>6. NoLeak'
    BY <2>1, <2>4, OpenedOne
  <2> QED BY <2>2, <2>3, <2>5, <2>6
<1>6. CASE OpenPath
  <2>1. pc = "path" /\ ~tobj.opened
    BY <1>6 DEF OpenPath, LeakInv
  <2>2. CASE UNCHANGED <<tobj, fds>>
    BY <1>2, <2>1, <2>2
  <2>3. ASSUME NEW ok \in BOOLEAN, smp_initiator_open(bsg_path[i], "I_SGV4_MPI", wwid64(i), ok),
               IF ok THEN pc' = "slot" ELSE UNCHANGED pc
        PROVE  NoLeak' /\ (pc' \in {"idle", "node", "path"} => ~tobj'.opened)
    <3>1. "I_SGV4_MPI" \in Selector
      BY DEF Selector
    <3>2. tobj'.opened = ok
      BY <1>1, <2>3, <3>1, Opening
    <3>3. NoLeak'
      BY <2>1, <2>3, <3>1, OpenedOne
    <3> QED BY <2>1, <2>3, <3>2, <3>3
  <2> QED BY <1>6, <2>2, <2>3 DEF OpenPath
<1>7. ASSUME NEW x, tobj' = [tobj EXCEPT !.addr = x], fds' = fds,
             pc' \notin {"idle", "node", "path"}
      PROVE  NoLeak' /\ (pc' \in {"idle", "node", "path"} => ~tobj'.opened)
  BY <1>7 DEF LeakInv, ObjectInv, NoLeak
<1>8. CASE NextAddress
  BY <1>7, <1>8 DEF NextAddress
<1>9. CASE cfg_get_sas_exp_pg0
  BY <1>2, <1>7, <1>9 DEF cfg_get_sas_exp_pg0
<1>10. CASE Close \/ CloseIoc
  BY <1>10, ClosedOne DEF Close, CloseIoc
<1>11. CASE NodesDone \/ AddressesDone \/ PathsDone
  BY <1>2, <1>11 DEF NodesDone, AddressesDone, PathsDone
<1>12. CASE Walked
  BY <1>2, <1>12 DEF Walked, StartWalk
<1>13. CASE Walk
  BY <1>2, <1>13 DEF Walk, Walking, ReportGeneral, AskPhy, AskSlotPhy, PhysWalked, Result
<1>14. CASE \/ populate_adpinfo \/ issue_iocfacts \/ cfg_get_enclosure_pg0 \/ EnclosuresDone
            \/ mpi3mr_qcmd \/ report_manufacturer \/ ExpandersDone
  BY <1>2, <1>14 DEF populate_adpinfo, issue_iocfacts, cfg_get_enclosure_pg0, EnclosuresDone,
                     mpi3mr_qcmd, report_manufacturer, ExpandersDone
<1>15. ASSUME NEW x \in Removable, Change(x)
       PROVE  NoLeak' /\ (pc' \in {"idle", "node", "path"} => ~tobj'.opened)
  BY <1>2, <1>15 DEF Change, LeakInv, NoLeak
<1> QED BY <1>3, <1>4, <1>5, <1>6, <1>8, <1>9, <1>10, <1>11, <1>12, <1>13, <1>14, <1>15
        DEF Next, mpi3mr_iocfacts

LEMMA LeakStart == Init => LeakInv
BY DEF Init, LeakInv, NoLeak, ObjectInv, Closed, Selector

(* However a discovery goes, the only descriptors it leaves open are those *)
(* of nodes open_mpt_device finds not to be the driver's (open_mpt_device, *)
(* smp_initiator_open, smp_initiator_close).                               *)
THEOREM NoLeakSafe == Spec => []NoLeak
<1>1. LeakInv => NoLeak
  BY DEF LeakInv
<1>2. LeakInv /\ [Next]_vars => LeakInv'
  BY LeakStep
<1> QED BY <1>1, <1>2, LeakStart, PTL DEF Spec

-----------------------------------------------------------------------------
(* What comes of a request.                                                *)
LEMMA ZeroFrame == Zero \in Frame
BY DEF Zero, Frame, Byte, Header, Field, LastByte

LEMMA OverlayFrame ==
    ASSUME NEW b \in Frame, NEW n \in Nat, NEW f \in Frame
    PROVE  Overlay(b, n, f) \in Frame
<1>1. Overlay(b, n, f) \in [Field -> Nat]
  BY DEF Overlay, Frame
<1>2. Header \subseteq Field
  BY DEF Header, Field, LastByte
<1>3. \A x \in Header : Overlay(b, n, f)[x] \in Byte
  BY <1>2 DEF Overlay, Frame
<1> QED BY <1>1, <1>3 DEF Frame

LEMMA OutcomesAre ==
    ASSUME NEW a \in Frame
    PROVE  Outcomes(a) \subseteq Outcome
<1>1. [a EXCEPT !.res = 2] \in Frame
  <2>1. [a EXCEPT !.res = 2] \in [Field -> Nat]
    BY DEF Frame
  <2>2. Header \subseteq Field
    BY DEF Header, Field, LastByte
  <2>3. \A x \in Header : [a EXCEPT !.res = 2][x] \in Byte
    BY <2>2 DEF Frame, Byte
  <2> QED BY <2>1, <2>3 DEF Frame
<1>2. Accepted(a) \in Outcome /\ Accepted(Zero) \in Outcome
  BY ZeroFrame DEF Accepted, Outcome
<1>3. Spoilt(a) \subseteq Outcome
  <2> DEFINE f == [a EXCEPT !.res = 2]
  <2>1. f \in Frame
    BY <1>1
  <2> HIDE DEF f
  <2>2. [Accepted(a) EXCEPT !.fails = TRUE] \in Outcome
    BY <1>2 DEF Outcome
  <2>3. [Accepted(a) EXCEPT !.transport = 1, !.content = FALSE] \in Outcome
    BY <1>2 DEF Outcome
  <2>4. [Accepted(a) EXCEPT !.got = 8, !.named = 8] \in Outcome
    BY <1>2 DEF Outcome
  <2>5. [Accepted(a) EXCEPT !.frame = f] \in Outcome
    BY <1>2, <2>1 DEF Outcome
  <2> QED BY <2>2, <2>3, <2>4, <2>5 DEF Spoilt, f
<1>4. [Accepted(Zero) EXCEPT !.fails = TRUE] \in Outcome
  BY <1>2 DEF Outcome
<1> QED BY <1>2, <1>3, <1>4 DEF Outcomes

LEMMA ReplyType ==
    ASSUME NEW opened \in BOOLEAN, NEW sel \in Selector, NEW o \in Outcome
    PROVE  smp_send_req(opened, sel, Zero, o) \in Reply
<1>1. Overlay(Zero, o.got, o.frame) \in Frame
  BY ZeroFrame, OverlayFrame DEF Outcome
<1>2. TransportError(o) \in Nat /\ o.got \in Int /\ o.named \in Int
  BY DEF TransportError, Outcome
<1>3. NotSent(Zero) \in Reply
  BY ZeroFrame DEF NotSent, Reply
<1>4. send_req_lin_bsg(Zero, o) \in Reply
  BY <1>1, <1>2, <1>3 DEF send_req_lin_bsg, Reply
<1>5. send_req_mpt(Zero, o) \in Reply
  BY <1>1, <1>2, <1>3 DEF send_req_mpt, Reply
<1>6. send_req_mpi3mr_bsg(Zero, o) \in Reply
  BY <1>1, <1>2, <1>3 DEF send_req_mpi3mr_bsg, Reply
<1> QED BY <1>3, <1>4, <1>5, <1>6 DEF smp_send_req, Selector

(* What a request that does not fail leaves in the buffer: the answer of   *)
(* the expander, or so little of it that neither its initiator nor its     *)
(* slot number is there.                                                   *)
LEMMA AnswerOrLittle ==
    ASSUME NEW a \in Frame, NEW o \in Outcomes(a), NEW opened \in BOOLEAN,
           NEW sel \in Selector, NEW r, r = smp_send_req(opened, sel, Zero, o),
           do_discover(r) >= 0
    PROVE  /\ a["res"] = 0
           /\ \/ r.buf = a
              \/ r.buf["init"] = 0 /\ r.buf["dsn"] = 0
<1>1. o \in Outcome /\ r \in Reply
  BY OutcomesAre, ReplyType
<1>2. r.res = 0 /\ r.err = 0 /\ r.buf.res = 0
  <2>1. DISCOVER \in Byte /\ Checked(DISCOVER, r) >= 0
    BY DEF Byte, DISCOVER, do_discover
  <2> QED BY <1>1, <2>1, LengthCovered
<1>3. opened /\ ~o.fails
  BY <1>2 DEF smp_send_req, NotSent, send_req_lin_bsg, send_req_mpt, send_req_mpi3mr_bsg, Selector
<1>4. /\ r.buf = Overlay(Zero, o.got, o.frame)
      /\ sel = "I_MPT" => o.content
      /\ sel # "I_MPT" => TransportError(o) = 0
  BY <1>2, <1>3 DEF smp_send_req, send_req_lin_bsg, send_req_mpt, send_req_mpi3mr_bsg, Selector
<1>5. Reached # {} /\ o \in {Accepted(a)} \cup Spoilt(a)
  BY <1>3 DEF Outcomes, Accepted
<1>6. CASE o = Accepted(a)
  <2>1. o.got = 124 /\ o.frame = a
    BY <1>6 DEF Accepted
  <2>2. \A x \in Field : LastByte[x] < 124
    BY DEF Field, LastByte
  <2>3. a = [x \in Field |-> a[x]]
    BY DEF Frame
  <2>4. r.buf = a
    BY <1>4, <2>1, <2>2, <2>3 DEF Overlay
  <2> QED BY <1>2, <1>5, <2>4
<1>7. CASE o = [Accepted(a) EXCEPT !.fails = TRUE]
  BY <1>3, <1>7 DEF Accepted
<1>8. CASE o = [Accepted(a) EXCEPT !.transport = 1, !.content = FALSE]
  <2>1. TransportError(o) = 1 /\ ~o.content
    BY <1>8 DEF Accepted, TransportError
  <2> QED BY <1>4, <2>1
<1>9. CASE o = [Accepted(a) EXCEPT !.got = 8, !.named = 8]
  <2>1. o.got = 8 /\ o.frame = a
    BY <1>9 DEF Accepted
  <2>2. /\ "init" \in Field /\ "dsn" \in Field /\ "res" \in Field
        /\ LastByte["init"] = 14 /\ LastByte["dsn"] = 108 /\ LastByte["res"] = 2
    BY DEF Field, LastByte
  <2>3. r.buf["init"] = 0 /\ r.buf["dsn"] = 0 /\ r.buf["res"] = a["res"]
    BY <1>4, <2>1, <2>2 DEF Overlay, Zero
  <2> QED BY <1>2, <1>5, <2>3
<1>10. CASE o = [Accepted(a) EXCEPT !.frame = [a EXCEPT !.res = 2]]
  <2>1. o.got = 124 /\ o.frame = [a EXCEPT !.res = 2]
    BY <1>10 DEF Accepted
  <2>2. "res" \in Field /\ LastByte["res"] = 2
    BY DEF Field, LastByte
  <2>3. o.frame["res"] = 2
    BY <2>1, <2>2 DEF Frame
  <2>4. r.buf["res"] = 2
    <3>1. o.got = 124
      BY <2>1
    <3> QED BY <1>4, <2>2, <2>3, <3>1 DEF Overlay
  <2> QED BY <1>2, <2>4
<1> QED BY <1>5, <1>6, <1>7, <1>8, <1>9, <1>10 DEF Spoilt

-----------------------------------------------------------------------------
(* What the tables hold is some expander's own answer.                     *)
PhyOf(sl, phy) ==
    \E s \in Ses : phy \in DOMAIN Wiring[s] /\ Wiring[s][phy] - 1 = sl

PathOf(el, path) == \E s \in Boxes(path) : Index(s) = el

AnswerInv ==
    /\ ObjectInv /\ OwnAnswer
    /\ DOMAIN resp = Slots /\ DOMAIN bsg_path = Expdrs /\ k \in Nat
    /\ pc = "manu" => \E s \in Boxes(tobj.node) : tobj.addr = Wwid[s]

LEMMA BoxesAreSes == \A n : Boxes(n) \subseteq Ses
BY SessionAssumption DEF Boxes

LEMMA PeerReached ==
    ASSUME Reached # {}
    PROVE  Peer \in Boxes(tobj.node) /\ Peer \in Ses
<1>1. Target # {}
  BY DEF Reached
<1>2. Peer \in Target
  BY <1>1 DEF Peer
<1> QED BY <1>2, BoxesAreSes DEF Target

(* An expander answers for the phys it has, which are numbered from 0.     *)
LEMMA PhysAre ==
    ASSUME NEW s \in Ses
    PROVE  /\ Phys(s) \in Nat \ {0} /\ DOMAIN Wiring[s] = 0 .. Phys(s) - 1
           /\ \A p \in DOMAIN Wiring[s] : Wiring[s][p] \in Int
<1>1. \E n \in 1 .. NUM_PHY :
         Wiring[s] \in [0 .. n - 1 -> 1 .. NSLOT \cup {HbaPhy, NoSlot, Vacant}]
  BY SessionAssumption
<1>2. \E n \in 1 .. NUM_PHY : DOMAIN Wiring[s] = 0 .. n - 1
  BY <1>1
<1>3. Phys(s) \in 1 .. NUM_PHY /\ DOMAIN Wiring[s] = 0 .. Phys(s) - 1
  BY <1>2 DEF Phys
<1>4. \A p \in DOMAIN Wiring[s] : Wiring[s][p] \in Int
  BY <1>1, TableAssumption DEF HbaPhy, NoSlot, Vacant, NSLOT
<1>5. NUM_PHY \in Nat \ {0}
  BY SessionAssumption
<1> QED BY <1>3, <1>4, <1>5

LEMMA ReportingFrame ==
    /\ \A res \in Byte : Reporting(DISCOVER, res) \in Frame
    /\ \A res \in Byte : Reporting(DISCOVER, res)["res"] = res
<1>1. ASSUME NEW res \in Byte
      PROVE  Reporting(DISCOVER, res) \in Frame /\ Reporting(DISCOVER, res)["res"] = res
  <2>1. RESP \in Byte \cap Nat /\ DISCOVER \in Byte \cap Nat /\ res \in Nat
    BY DEF RESP, DISCOVER, Byte
  <2>2. Zero \in [Field -> Nat] /\ {"type", "fn", "res"} \subseteq Field /\ Header \subseteq Field
        /\ \A x \in Header : Zero[x] \in Byte
    BY DEF Zero, Field, LastByte, Header, Byte
  <2> DEFINE f == Reporting(DISCOVER, res)
  <2>3. /\ f \in [Field -> Nat]
        /\ \A x \in Field : f[x] = IF x = "type" THEN RESP
                                   ELSE IF x = "fn" THEN DISCOVER
                                   ELSE IF x = "res" THEN res ELSE Zero[x]
    <3>1. f = [Zero EXCEPT !.type = RESP, !.fn = DISCOVER, !.res = res]
      BY DEF Reporting
    <3> HIDE DEF f
    <3>2. f \in [Field -> Nat]
      BY <2>1, <2>2, <3>1
    <3>3. \A x \in Field : f[x] = IF x = "type" THEN RESP
                                   ELSE IF x = "fn" THEN DISCOVER
                                   ELSE IF x = "res" THEN res ELSE Zero[x]
      BY <2>2, <3>1
    <3> QED BY <3>2, <3>3
  <2> HIDE DEF f
  <2>4. \A x \in Header : f[x] \in Byte
    BY <2>1, <2>2, <2>3
  <2> QED BY <2>2, <2>3, <2>4 DEF Frame, f
<1> QED BY <1>1

(* The answer to DISCOVER, field by field.                                 *)
LEMMA DiscoverAnswerIs ==
    ASSUME Reached # {}, k \in Nat
    PROVE  /\ DiscoverAnswer \in Frame
           /\ DiscoverAnswer["res"] = 0 =>
                 /\ k \in DOMAIN Wiring[Peer]
                 /\ DiscoverAnswer["phy"] = k /\ DiscoverAnswer["addr"] = Wwid[Peer]
                 /\ DiscoverAnswer["dsn"] = IF Wiring[Peer][k] > 0 THEN Wiring[Peer][k] ELSE 255
<1>1. Peer \in Ses
  BY PeerReached
<1>2. /\ Phys(Peer) \in Nat \ {0} /\ DOMAIN Wiring[Peer] = 0 .. Phys(Peer) - 1
      /\ \A p \in DOMAIN Wiring[Peer] : Wiring[Peer][p] \in Int
  BY <1>1, PhysAre
<1>3. NO_PHY \in Byte /\ PHY_VACANT \in Byte /\ 0 \in Byte /\ NO_PHY # 0 /\ PHY_VACANT # 0
  BY DEF NO_PHY, PHY_VACANT, Byte
<1>4. CASE k >= Phys(Peer)
  <2>1. DiscoverAnswer = Reporting(DISCOVER, NO_PHY)
    BY <1>4 DEF DiscoverAnswer
  <2> QED BY <1>3, <2>1, ReportingFrame
<1>5. CASE ~(k >= Phys(Peer)) /\ Wiring[Peer][k] = Vacant
  <2>1. DiscoverAnswer = Reporting(DISCOVER, PHY_VACANT)
    BY <1>5 DEF DiscoverAnswer
  <2> QED BY <1>3, <2>1, ReportingFrame
<1>6. CASE ~(k >= Phys(Peer)) /\ Wiring[Peer][k] # Vacant
  <2> DEFINE wired == Wiring[Peer][k]
             hba == IF wired = HbaPhy THEN HbaWwid ELSE 0
             dev == IF hba # 0 \/ Attached[Peer][k] # NoDev THEN 16 ELSE 0
             rate == IF <<Peer, k>> \in Off THEN 1 ELSE 11
             init == IF hba # 0 THEN 8 ELSE 0
             dsn == IF wired > 0 THEN wired ELSE 255
             base == Reporting(DISCOVER, 0)
  <2>1. k \in DOMAIN Wiring[Peer]
    BY <1>2, <1>6
  <2>2. wired \in Int /\ hba \in Nat /\ dev \in Nat /\ rate \in Nat /\ init \in Nat
        /\ Wwid[Peer] \in Nat
    BY <1>1, <1>2, <2>1, SessionAssumption
  <2>3. dsn \in Nat
    BY <2>2
  <2>4. DiscoverAnswer = [base EXCEPT !.words = 27, !.phy = k, !.addr = Wwid[Peer],
             !.dev = dev, !.rate = rate, !.init = init, !.hba = hba, !.name = hba, !.dsn = dsn]
    BY <1>6 DEF DiscoverAnswer
  <2>5. base \in Frame
    BY <1>3, ReportingFrame
  <2>6. dsn = IF Wiring[Peer][k] > 0 THEN Wiring[Peer][k] ELSE 255
    OBVIOUS
  <2> DEFINE f == [base EXCEPT !.words = 27, !.phy = k, !.addr = Wwid[Peer],
             !.dev = dev, !.rate = rate, !.init = init, !.hba = hba, !.name = hba, !.dsn = dsn]
  <2> HIDE DEF wired, hba, dev, rate, init, dsn, base
  <2>7. {"words", "phy", "addr", "dev", "rate", "init", "hba", "name", "dsn"} \subseteq Field
        /\ Header \subseteq Field
    BY DEF Field, LastByte, Header
  <2>8. base \in [Field -> Nat] /\ \A x \in Header : base[x] \in Byte
    BY <2>5 DEF Frame
  <2>9. f \in [Field -> Nat]
    BY <2>2, <2>3, <2>8
  <2>10. f["phy"] = k /\ f["addr"] = Wwid[Peer] /\ f["dsn"] = dsn
    BY <2>7, <2>8
  <2>11. \A x \in Header : f[x] = IF x = "words" THEN 27 ELSE base[x]
    BY <2>7, <2>8 DEF Header
  <2>12. 27 \in Byte
    BY DEF Byte
  <2> HIDE DEF f
  <2>13. f \in Frame
    BY <2>8, <2>9, <2>11, <2>12 DEF Frame
  <2> QED BY <2>1, <2>4, <2>6, <2>10, <2>13 DEF f
<1> QED BY <1>4, <1>5, <1>6

LEMMA NoneReached ==
    ASSUME NEW a, NEW o \in Outcomes(a), NEW opened \in BOOLEAN, NEW sel \in Selector,
           do_discover(smp_send_req(opened, sel, Zero, o)) >= 0
    PROVE  Reached # {}
<1> SUFFICES ASSUME Reached = {} PROVE FALSE
  OBVIOUS
<1>1. o.fails
  BY DEF Outcomes, Accepted
<1>2. smp_send_req(opened, sel, Zero, o).res = -1
  BY <1>1 DEF smp_send_req, NotSent, send_req_lin_bsg, send_req_mpt, send_req_mpi3mr_bsg, Selector
<1> QED BY <1>2 DEF do_discover, Checked

(* What do_multiple_slot stores.                                           *)
LEMMA PathStored ==
    ASSUME AnswerInv, NEW s \in Boxes(tobj.node), NEW el, el = Index(s),
           SetBsgPath(el, tobj.node), UNCHANGED resp
    PROVE  OwnAnswer' /\ DOMAIN bsg_path' = Expdrs
<1>1. bsg_path' = [bsg_path EXCEPT ![el] = tobj.node]
  BY DEF SetBsgPath
<1>2. DOMAIN bsg_path' = Expdrs
  BY <1>1 DEF AnswerInv
<1>3. ASSUME NEW x \in Expdrs, bsg_path'[x] # NoPath
      PROVE  \E t \in Boxes(bsg_path'[x]) : Index(t) = x
  <2>1. CASE x = el
    <3>1. bsg_path'[x] = tobj.node
      BY <1>1, <2>1 DEF AnswerInv
    <3> QED BY <2>1, <3>1
  <2>2. CASE x # el
    <3>1. bsg_path'[x] = bsg_path[x]
      BY <1>1, <2>2 DEF AnswerInv
    <3> QED BY <1>3, <3>1 DEF AnswerInv, OwnAnswer
  <2> QED BY <2>1, <2>2
<1> QED BY <1>2, <1>3 DEF AnswerInv, OwnAnswer

LEMMA PhyStored ==
    ASSUME AnswerInv, NEW dsn, NEW sl, sl = dsn - 1, NEW r, sl \in Slots => PhyOf(sl, r.phy),
           SetDiscoverResp(dsn, r), UNCHANGED bsg_path
    PROVE  OwnAnswer' /\ DOMAIN resp' = Slots
<1>1. CASE sl \in Slots
  <2>1. resp' = [resp EXCEPT ![sl] = r]
    BY <1>1 DEF SetDiscoverResp
  <2>2. ASSUME NEW x \in Slots, resp'[x] # NoResp
        PROVE  \E s \in Ses : /\ resp'[x].phy \in DOMAIN Wiring[s]
                              /\ Wiring[s][resp'[x].phy] - 1 = x
    <3>1. CASE x = sl
      BY <1>1, <2>1, <3>1 DEF AnswerInv, PhyOf
    <3>2. CASE x # sl
      BY <2>1, <2>2, <3>2 DEF AnswerInv, OwnAnswer
    <3> QED BY <3>1, <3>2
  <2> QED BY <2>1, <2>2 DEF AnswerInv, OwnAnswer
<1>2. CASE sl \notin Slots
  <2>1. resp' = resp
    BY <1>2 DEF SetDiscoverResp, slotVars
  <2> QED BY <2>1 DEF AnswerInv, OwnAnswer
<1> QED BY <1>1, <1>2

LEMMA SlotStored ==
    ASSUME AnswerInv, AskSlotPhy
    PROVE  OwnAnswer' /\ DOMAIN resp' = Slots /\ DOMAIN bsg_path' = Expdrs
<1>1. PICK o \in Outcomes(DiscoverAnswer) :
         LET r == Respond(Zero, o)
             len == do_discover(r)
         IN  IF len >= 0 THEN Store(len, r.buf)
             ELSE UNCHANGED <<slotVars, ctrlVars, hba_sa>>
  BY DEF AskSlotPhy
<1> DEFINE r == smp_send_req(tobj.opened, tobj.selector, Zero, o)
           len == do_discover(r)
<1>2. IF len >= 0 THEN Store(len, r.buf) ELSE UNCHANGED <<slotVars, ctrlVars, hba_sa>>
  BY <1>1 DEF Respond
<1>3. CASE ~(len >= 0)
  BY <1>2, <1>3 DEF slotVars, ctrlVars, AnswerInv, OwnAnswer
<1>4. CASE len >= 0
  <2>1. tobj.opened \in BOOLEAN /\ tobj.selector \in Selector /\ k \in Nat
    BY DEF AnswerInv, ObjectInv
  <2>2. Reached # {}
    BY <1>4, <2>1, NoneReached
  <2>3. DiscoverAnswer \in Frame
    BY <2>1, <2>2, DiscoverAnswerIs
  <2>4. /\ DiscoverAnswer["res"] = 0
        /\ r.buf = DiscoverAnswer \/ (r.buf["init"] = 0 /\ r.buf["dsn"] = 0)
    BY <1>4, <2>1, <2>3, AnswerOrLittle
  <2>5. /\ k \in DOMAIN Wiring[Peer]
        /\ DiscoverAnswer["phy"] = k /\ DiscoverAnswer["addr"] = Wwid[Peer]
        /\ DiscoverAnswer["dsn"] = IF Wiring[Peer][k] > 0 THEN Wiring[Peer][k] ELSE 255
    BY <2>1, <2>2, <2>4, DiscoverAnswerIs
  <2>6. Peer \in Boxes(tobj.node) /\ Peer \in Ses /\ Wiring[Peer][k] \in Int
    BY <2>2, <2>5, PeerReached, PhysAre
  <2> HIDE DEF r, len
  <2>7. Store(len, r.buf)
    BY <1>2, <1>4
  <2>8. CASE r.buf["init"] % 16 # 0
    <3>1. r.buf = DiscoverAnswer
      BY <2>4, <2>8
    <3>2. WWID_TO_INDEX(r.buf["addr"]) = Index(Peer)
      BY <2>5, <3>1 DEF Index
    <3>3. \/ SetBsgPath(WWID_TO_INDEX(r.buf["addr"]), tobj.node) /\ UNCHANGED slotVars
          \/ UNCHANGED <<slotVars, ctrlVars>>
      BY <2>7, <2>8 DEF Store
    <3>4. CASE UNCHANGED <<slotVars, ctrlVars>>
      BY <3>4 DEF slotVars, ctrlVars, AnswerInv, OwnAnswer
    <3>5. CASE SetBsgPath(Index(Peer), tobj.node) /\ UNCHANGED slotVars
      <4>1. OwnAnswer' /\ DOMAIN bsg_path' = Expdrs
        BY <2>6, <3>5, PathStored DEF slotVars
      <4> QED BY <3>5, <4>1 DEF slotVars, AnswerInv
    <3> QED BY <3>2, <3>3, <3>4, <3>5
  <2>9. CASE ~(r.buf["init"] % 16 # 0)
    <3> DEFINE sl == SlotNumber(len, r.buf) - 1
               q == [phy |-> r.buf["phy"], link |-> StoredLink(r.buf)]
    <3>1. SetDiscoverResp(SlotNumber(len, r.buf), q) /\ UNCHANGED ctrlVars
      BY <2>7, <2>9 DEF Store
    <3>2. SlotNumber(len, r.buf) \in Int /\ (sl \in Slots => PhyOf(sl, q.phy))
      <4>1. CASE r.buf["dsn"] = 0
        <5>1. SlotNumber(len, r.buf) \in {0, -1}
          BY <4>1 DEF SlotNumber
        <5> QED BY <5>1 DEF Slots
      <4>2. CASE r.buf = DiscoverAnswer
        <5>1. \/ SlotNumber(len, r.buf) = -1
              \/ SlotNumber(len, r.buf) = Wiring[Peer][k]
          BY <2>5, <2>6, <4>2 DEF SlotNumber
        <5>2. q.phy = k
          BY <2>5, <4>2
        <5> QED BY <2>5, <2>6, <5>1, <5>2 DEF Slots, PhyOf
      <4> QED BY <2>4, <4>1, <4>2
    <3> HIDE DEF q
    <3>3. sl = SlotNumber(len, r.buf) - 1
      OBVIOUS
    <3> HIDE DEF sl
    <3>4. OwnAnswer' /\ DOMAIN resp' = Slots
      BY <3>1, <3>2, <3>3, PhyStored DEF ctrlVars
    <3> QED BY <3>1, <3>4 DEF ctrlVars, AnswerInv
  <2> QED BY <2>8, <2>9
<1> QED BY <1>3, <1>4

-----------------------------------------------------------------------------
(* The paths iocfacts registers lead to the expanders its pages name.      *)
LEMMA Second ==
    ASSUME NEW p, NEW a, NEW b, p = <<a, b>>
    PROVE  p[2] = b
OBVIOUS

LEMMA PageIsThere ==
    ASSUME NEW page, page = Page(FALSE), page[2] # NoDev
    PROVE  page[2] \in Boxes(tobj.node) /\ Address(page[2]) = Wwid[page[2]]
<1> DEFINE next == {p \in Pages(FALSE) :
                       p[1] > handle /\ \A q \in Pages(FALSE) : q[1] > handle => p[1] <= q[1]}
<1>1. page = IF next = {} THEN <<0, NoDev>> ELSE CHOOSE p \in next : TRUE
  BY DEF Page
<1>2. next \subseteq Pages(FALSE)
  OBVIOUS
<1> HIDE DEF next
<1>3. next # {}
  <2>1. ASSUME page = <<0, NoDev>> PROVE FALSE
    <3>1. page[2] = NoDev
      BY <2>1, Second
    <3> QED BY <3>1
  <2> QED BY <1>1, <2>1
<1>4. page \in Pages(FALSE)
  BY <1>1, <1>2, <1>3
<1> DEFINE chain == Chain[tobj.node]
<1>5. Pages(FALSE) = {<<j + 1, chain[j]>> :
                         j \in {x \in DOMAIN chain : chain[x] \in Boxes(tobj.node) \cap here}}
  BY DEF Pages
<1> HIDE DEF chain
<1>6. PICK j \in DOMAIN chain : chain[j] \in Boxes(tobj.node) /\ page = <<j + 1, chain[j]>>
  BY <1>4, <1>5
<1>7. page[2] = chain[j]
  BY <1>6, Second
<1>8. page[2] \in Boxes(tobj.node)
  BY <1>6, <1>7
<1>9. Address(page[2]) = Wwid[page[2]]
  BY DEF Address
<1> QED BY <1>8, <1>9

LEMMA ManufacturerStored ==
    ASSUME AnswerInv, report_manufacturer
    PROVE  OwnAnswer' /\ DOMAIN resp' = Slots /\ DOMAIN bsg_path' = Expdrs
<1>1. PICK s \in Boxes(tobj.node) : tobj.addr = Wwid[s]
  BY DEF AnswerInv, report_manufacturer
<1>2. SetBsgPath(Index(s), tobj.node)
  BY <1>1 DEF report_manufacturer, Index
<1>3. UNCHANGED resp
  BY DEF report_manufacturer, slotVars
<1> QED BY <1>2, <1>3, PathStored DEF AnswerInv

LEMMA ResultKeeps ==
    ASSUME NEW res, Result(res), k \in Nat
    PROVE  k' \in Nat /\ (pc' = pc \/ pc' = "walked")
BY DEF Result

(* A walk keeps the count and the tables, but for what a slot stores.      *)
LEMMA WalkKeeps ==
    ASSUME AnswerInv, Walk, ObjectInv'
    PROVE  AnswerInv'
<1>1. k \in Nat /\ pc # "manu"
  BY DEF AnswerInv, Walk, Walking, ReportGeneral, AskPhy, AskSlotPhy, PhysWalked
<1>2. ASSUME UNCHANGED tableVars, k' \in Nat, pc' # "manu"
      PROVE  AnswerInv'
  BY <1>2 DEF AnswerInv, OwnAnswer, tableVars, slotVars, ctrlVars
<1>3. CASE ReportGeneral \/ PhysWalked
  <2>1. UNCHANGED tableVars /\ k' = k /\ pc' # "manu"
    BY <1>3 DEF ReportGeneral, PhysWalked, walkVars
  <2> QED BY <1>1, <1>2, <2>1
<1>4. CASE AskPhy
  <2>1. UNCHANGED tableVars
    BY <1>4 DEF AskPhy
  <2>2. \E res : Result(res)
    BY <1>4 DEF AskPhy
  <2> QED BY <1>1, <1>2, <2>1, <2>2, ResultKeeps
<1>5. CASE AskSlotPhy
  <2>1. OwnAnswer' /\ DOMAIN resp' = Slots /\ DOMAIN bsg_path' = Expdrs
    BY <1>5, SlotStored
  <2>2. \E res : Result(res)
    BY <1>5 DEF AskSlotPhy
  <2>3. k' \in Nat /\ pc' # "manu"
    BY <1>1, <2>2, ResultKeeps
  <2> QED BY <2>1, <2>3 DEF AnswerInv
<1> QED BY <1>3, <1>4, <1>5 DEF Walk, Walking

LEMMA AnswerStart == Init => AnswerInv
<1> SUFFICES ASSUME Init PROVE AnswerInv
  OBVIOUS
<1>1. ObjectInv
  BY LeakStart DEF LeakInv
<1>2. OwnAnswer /\ DOMAIN resp = Slots /\ DOMAIN bsg_path = Expdrs
  BY DEF Init, TableInit, OwnAnswer
<1>3. k \in Nat /\ pc # "manu"
  BY DEF Init, NotWalking
<1> QED BY <1>1, <1>2, <1>3 DEF AnswerInv

LEMMA AnswerStep ==
    ASSUME AnswerInv, [Next]_vars
    PROVE  AnswerInv'
<1>1. ObjectInv'
  BY ObjectStep DEF AnswerInv
<1>2. k \in Nat
  BY DEF AnswerInv
<1>3. ASSUME UNCHANGED tableVars, k' \in Nat, pc' # "manu"
      PROVE  AnswerInv'
  BY <1>1, <1>3 DEF AnswerInv, OwnAnswer, tableVars, slotVars, ctrlVars
<1>4. ASSUME UNCHANGED <<tableVars, tobj, pc>>, k' = k
      PROVE  AnswerInv'
  BY <1>1, <1>4 DEF AnswerInv, OwnAnswer, tableVars, slotVars, ctrlVars
<1>5. CASE UNCHANGED vars
  BY <1>4, <1>5 DEF vars, walkVars
<1>6. ASSUME NEW o \in Ops, Start(o) PROVE AnswerInv'
  <2>1. k' = k /\ pc' # "manu"
    BY <1>6 DEF Start, walkVars
  <2>2. CASE UNCHANGED tableVars
    BY <1>2, <1>3, <2>1, <2>2
  <2>3. CASE Listed
    <3>1. resp' = [sl \in Slots |-> NoResp] /\ bsg_path' = [el \in Expdrs |-> NoPath]
      BY <2>3 DEF Listed
    <3>2. OwnAnswer'
      BY <3>1 DEF OwnAnswer
    <3> QED BY <1>1, <1>2, <2>1, <3>1, <3>2 DEF AnswerInv
  <2> QED BY <1>6, <2>2, <2>3 DEF Start
<1>7. CASE OpenNode
  <2>1. FirstStep # "manu"
    BY <1>7, Interfaces DEF OpenNode, AnswerInv, ObjectInv
  <2>2. UNCHANGED tableVars /\ k' = k /\ pc' # "manu"
    BY <1>7, <2>1 DEF OpenNode, walkVars
  <2> QED BY <1>2, <1>3, <2>2
<1>8. CASE OpenPath
  <2>1. UNCHANGED tableVars /\ k' = k /\ pc' # "manu"
    BY <1>8 DEF OpenPath, walkVars
  <2> QED BY <1>2, <1>3, <2>1
<1>9. CASE NodesDone \/ NextAddress \/ AddressesDone \/ PathsDone \/ Close
  <2>1. UNCHANGED tableVars /\ k' = k /\ pc' # "manu"
    BY <1>9 DEF NodesDone, NextAddress, AddressesDone, PathsDone, Close, walkVars
  <2> QED BY <1>2, <1>3, <2>1
<1>10. CASE Walked
  <2>1. UNCHANGED tableVars /\ k' = 0 /\ pc' # "manu"
    BY <1>10 DEF Walked, StartWalk
  <2> QED BY <1>3, <2>1
<1>11. CASE Walk
  BY <1>1, <1>11, WalkKeeps
<1>12. CASE report_manufacturer
  <2>1. k' = k /\ pc' # "manu"
    BY <1>12 DEF report_manufacturer, walkVars
  <2> QED BY <1>1, <1>2, <1>12, <2>1, ManufacturerStored DEF AnswerInv
<1>13. CASE cfg_get_sas_exp_pg0
  <2>1. UNCHANGED tableVars /\ k' = k
    BY <1>13 DEF cfg_get_sas_exp_pg0, walkVars
  <2>2. CASE pc' # "manu"
    BY <1>2, <1>3, <2>1, <2>2
  <2>3. CASE pc' = "manu"
    <3>1. Page(FALSE)[2] # NoDev /\ tobj' = [tobj EXCEPT !.addr = Address(Page(FALSE)[2])]
      BY <1>13, <2>3 DEF cfg_get_sas_exp_pg0, Behind
    <3>2. Page(FALSE)[2] \in Boxes(tobj.node) /\ Address(Page(FALSE)[2]) = Wwid[Page(FALSE)[2]]
      BY <3>1, PageIsThere
    <3>3. tobj'.node = tobj.node /\ tobj'.addr = Wwid[Page(FALSE)[2]]
      BY <3>1, <3>2 DEF AnswerInv, ObjectInv
    <3>4. \E s \in Boxes(tobj'.node) : tobj'.addr = Wwid[s]
      BY <3>2, <3>3
    <3>5. OwnAnswer' /\ DOMAIN resp' = Slots /\ DOMAIN bsg_path' = Expdrs
      BY <2>1 DEF AnswerInv, OwnAnswer, tableVars, slotVars, ctrlVars
    <3>6. (\E s \in Boxes(tobj.node) : tobj.addr = Wwid[s])'
      BY <3>4
    <3> QED BY <1>1, <1>2, <2>1, <3>5, <3>6 DEF AnswerInv
  <2> QED BY <2>2, <2>3
<1>14. CASE \/ populate_adpinfo \/ issue_iocfacts \/ cfg_get_enclosure_pg0 \/ EnclosuresDone
            \/ mpi3mr_qcmd \/ ExpandersDone \/ CloseIoc
  <2>1. UNCHANGED tableVars /\ k' = k /\ pc' # "manu"
    BY <1>14 DEF populate_adpinfo, issue_iocfacts, cfg_get_enclosure_pg0, EnclosuresDone,
                 mpi3mr_qcmd, ExpandersDone, CloseIoc, walkVars
  <2> QED BY <1>2, <1>3, <2>1
<1>15. ASSUME NEW x \in Removable, Change(x) PROVE AnswerInv'
  BY <1>4, <1>15 DEF Change, walkVars
<1> QED BY <1>5, <1>6, <1>7, <1>8, <1>9, <1>10, <1>11, <1>12, <1>13, <1>14, <1>15
        DEF Next, mpi3mr_iocfacts

(* What the tables hold of a slot is what the phy of that slot answered,   *)
(* and a working path leads to the expander whose box it is in, whatever   *)
(* failed, was cut short or came and went: do_discover, do_multiple_slot,  *)
(* mpi3mr_iocfacts.                                                        *)
THEOREM OwnAnswerSafe == Spec => []OwnAnswer
<1>1. AnswerInv => OwnAnswer
  BY DEF AnswerInv
<1>2. AnswerInv /\ [Next]_vars => AnswerInv'
  BY AnswerStep
<1> QED BY <1>1, <1>2, AnswerStart, PTL DEF Spec

-----------------------------------------------------------------------------
(* The tables of the Info tab: rows done, the row being filled, and blank  *)
(* rows.                                                                   *)
IocSteps == {"adpinfo", "facts", "encl", "qcmd", "exp", "manu", "closeIoc"}

InfoType ==
    /\ ioc_cnt \in Nat
    /\ DOMAIN adpinfo = Iocs /\ DOMAIN ioc_facts = Iocs /\ DOMAIN exps = Iocs
    /\ \A c \in Iocs : DOMAIN exps[c] = Exps
    /\ \A c \in Iocs, x \in Exps : DOMAIN exps[c][x] = Part

Querying ==
    /\ op = "mpi3mr_slot_discover"
    /\ tobj.node \in seen /\ ioc_cnt \in Iocs
    /\ RowOf(ioc_cnt, tobj.node)
    /\ \A c \in Iocs : c > ioc_cnt => RowOf(c, NoNode)

InfoInv ==
    /\ ObjectInv /\ InfoType /\ NoStaleInfo
    /\ op = "mpi3mr_slot_discover" /\ pc \in IocSteps \cup {"node"} =>
          \A j \in list : Adapters[j] \in seen
    /\ op = "mpi3mr_slot_discover" /\ pc = "node" /\ list # {} =>
          \A c \in Iocs : c >= ioc_cnt => RowOf(c, NoNode)
    /\ pc \in IocSteps => Querying

(* A step that keeps the tables and the way through them.                  *)
LEMMA InfoKept ==
    ASSUME InfoInv, ObjectInv', UNCHANGED <<infoVars, op>>, list' \subseteq list,
           pc' \in IocSteps => pc \in IocSteps /\ tobj'.node = tobj.node,
           op = "mpi3mr_slot_discover" /\ pc' = "node" => pc = "node"
    PROVE  InfoInv'
<1>1. UNCHANGED <<ioc_cnt, adpinfo, ioc_facts, exps, seen>>
  BY DEF infoVars
<1>2. InfoType' /\ NoStaleInfo'
  BY <1>1 DEF InfoInv, InfoType, NoStaleInfo, RowOf
<1>3. \A c \in Iocs : \A n : RowOf(c, n) => RowOf(c, n)'
  BY <1>1 DEF RowOf
<1>4. pc' \in IocSteps => Querying'
  BY <1>1, <1>3 DEF InfoInv, Querying, RowOf
<1> QED BY <1>1, <1>2, <1>3, <1>4 DEF InfoInv

(* A step that fills the row of the adapter being asked.                   *)
LEMMA RowFilled ==
    ASSUME InfoInv, ObjectInv', InfoType', pc \in IocSteps, pc' \in IocSteps,
           UNCHANGED <<op, list, ioc_cnt, seen>>, tobj'.node = tobj.node,
           RowOf(ioc_cnt, tobj.node)',
           \A c \in Iocs : c # ioc_cnt =>
              /\ adpinfo'[c] = adpinfo[c] /\ ioc_facts'[c] = ioc_facts[c]
              /\ \A x \in Exps, f \in Part : exps'[c][x][f] = exps[c][x][f]
    PROVE  InfoInv'
<1>1. Querying /\ NoStaleInfo /\ ioc_cnt \in Nat
  BY DEF InfoInv, InfoType
<1>2. \A c \in Iocs : \A n : c # ioc_cnt /\ RowOf(c, n) => RowOf(c, n)'
  BY DEF RowOf
<1>3. NoStaleInfo'
  BY <1>1, <1>2 DEF NoStaleInfo
<1>4. Querying'
  BY <1>1, <1>2 DEF Querying
<1>5. pc' # "node" /\ \A j \in list' : Adapters[j] \in seen'
  BY <1>1 DEF InfoInv, IocSteps, Querying
<1> QED BY <1>3, <1>4, <1>5 DEF InfoInv

WithField(x, f, v) == [exps EXCEPT ![ioc_cnt][x][f] = v]

LEMMA EntrySet ==
    ASSUME InfoInv, ObjectInv', pc \in IocSteps, pc' \in IocSteps,
           UNCHANGED <<op, list, ioc_cnt, seen, adpinfo, ioc_facts>>, tobj'.node = tobj.node,
           NEW x, NEW f \in Part, NEW v, x \in Exps => v \in Boxes(tobj.node) \cup {NoDev},
           exps' = WithField(x, f, v)
    PROVE  InfoInv'
<1>1. InfoType /\ Querying
  BY DEF InfoInv
<1>2. PICK c \in Iocs : c = ioc_cnt
  BY <1>1 DEF Querying
<1>3. exps' = [exps EXCEPT ![c][x][f] = v]
  BY <1>2 DEF WithField
<1>4. /\ DOMAIN exps' = Iocs
      /\ \A d \in Iocs : DOMAIN exps'[d] = Exps
      /\ \A d \in Iocs, y \in Exps : DOMAIN exps'[d][y] = Part
      /\ \A d \in Iocs, y \in Exps, g \in Part :
            exps'[d][y][g] = IF d = c /\ y = x /\ g = f THEN v ELSE exps[d][y][g]
  <2>1. exps' = [exps EXCEPT ![c] = [exps[c] EXCEPT ![x] = [exps[c][x] EXCEPT ![f] = v]]]
    BY <1>3
  <2>2. DOMAIN exps' = Iocs /\ \A d \in Iocs :
           exps'[d] = IF d = c THEN [exps[c] EXCEPT ![x] = [exps[c][x] EXCEPT ![f] = v]]
                      ELSE exps[d]
    BY <1>1, <2>1 DEF InfoType
  <2>3. \A d \in Iocs : DOMAIN exps'[d] = Exps
    BY <1>1, <2>2 DEF InfoType
  <2>4. \A d \in Iocs, y \in Exps :
           exps'[d][y] = IF d = c /\ y = x THEN [exps[c][x] EXCEPT ![f] = v] ELSE exps[d][y]
    BY <1>1, <2>2 DEF InfoType
  <2>5. \A d \in Iocs, y \in Exps : DOMAIN exps'[d][y] = Part
    BY <1>1, <2>4 DEF InfoType
  <2>6. ASSUME NEW d \in Iocs, NEW y \in Exps, NEW g \in Part
        PROVE  exps'[d][y][g] = IF d = c /\ y = x /\ g = f THEN v ELSE exps[d][y][g]
    BY <1>1, <2>4 DEF InfoType
  <2> QED BY <2>2, <2>3, <2>5, <2>6
<1>5. InfoType'
  BY <1>1, <1>4 DEF InfoType
<1>6. RowOf(ioc_cnt, tobj.node)'
  BY <1>1, <1>2, <1>4 DEF Querying, RowOf
<1> QED BY <1>2, <1>4, <1>5, <1>6, RowFilled

LEMMA InfoStart == Init => InfoInv
<1> SUFFICES ASSUME Init PROVE InfoInv
  OBVIOUS
<1>1. ObjectInv
  BY LeakStart DEF LeakInv
<1>2. /\ adpinfo = [c \in Iocs |-> NoNode] /\ ioc_facts = [c \in Iocs |-> NoNode]
      /\ exps = [c \in Iocs |-> [x \in Exps |-> Empty]]
      /\ ioc_cnt = 0 /\ pc = "idle" /\ op = "none"
  BY DEF Init
<1>3. InfoType
  BY <1>2 DEF InfoType, Empty, Part
<1>4. NoStaleInfo
  BY <1>2 DEF NoStaleInfo, Iocs
<1> QED BY <1>1, <1>2, <1>3, <1>4 DEF InfoInv, IocSteps

(* The tables are blank when a query begins.                               *)
LEMMA Blanked ==
    ASSUME NoInfo
    PROVE  /\ \A c \in Iocs : RowOf(c, NoNode)'
           /\ DOMAIN adpinfo' = Iocs /\ DOMAIN ioc_facts' = Iocs /\ DOMAIN exps' = Iocs
           /\ \A c \in Iocs : DOMAIN exps'[c] = Exps
           /\ \A c \in Iocs, x \in Exps : DOMAIN exps'[c][x] = Part
<1>1. \A c \in Iocs : adpinfo'[c] = NoNode /\ ioc_facts'[c] = NoNode
  BY DEF NoInfo
<1>2. \A c \in Iocs, x \in Exps : exps'[c][x] = Empty
  BY DEF NoInfo
<1>3. DOMAIN Empty = Part /\ \A f \in Part : Empty[f] = NoDev
  BY DEF Empty, Part
<1> QED BY <1>1, <1>2, <1>3 DEF NoInfo, RowOf

LEMMA InfoBegins ==
    ASSUME InfoInv, ObjectInv', NEW o \in Ops, Start(o)
    PROVE  InfoInv'
<1>1. pc' = "node" /\ op' = o /\ list' = Directory(o) /\ pc' \notin IocSteps
  BY DEF Start, IocSteps
<1>2. CASE o # "mpi3mr_slot_discover"
  <2>1. UNCHANGED <<ioc_cnt, adpinfo, ioc_facts, exps, seen>>
    BY <1>2 DEF Start, infoVars
  <2>2. InfoType' /\ NoStaleInfo'
    BY <2>1 DEF InfoInv, InfoType, NoStaleInfo, RowOf
  <2> QED BY <1>1, <1>2, <2>2 DEF InfoInv
<1>3. CASE o = "mpi3mr_slot_discover"
  <2>1. Clear /\ seen' = {Adapters[j] : j \in Directory(o)}
    BY <1>3 DEF Start
  <2>2. /\ \A c \in Iocs : RowOf(c, NoNode)'
        /\ DOMAIN adpinfo' = Iocs /\ DOMAIN ioc_facts' = Iocs /\ DOMAIN exps' = Iocs
        /\ \A c \in Iocs : DOMAIN exps'[c] = Exps
        /\ \A c \in Iocs, x \in Exps : DOMAIN exps'[c][x] = Part
    BY <2>1, Blanked DEF Clear
  <2>3. ioc_cnt' \in Nat
    BY <2>1 DEF Clear, InfoInv, InfoType
  <2>4. InfoType' /\ NoStaleInfo'
    BY <2>2, <2>3 DEF InfoType, NoStaleInfo
  <2>5. \A j \in list' : Adapters[j] \in seen'
    BY <1>1, <2>1
  <2> QED BY <1>1, <2>2, <2>4, <2>5 DEF InfoInv
<1> QED BY <1>2, <1>3

LEMMA NodeOpens ==
    ASSUME InfoInv, ObjectInv', OpenNode
    PROVE  InfoInv'
<1>1. PICK j \in list, ok \in BOOLEAN :
         /\ list' = list \ {j}
         /\ smp_initiator_open(Nodes(op)[j], Interface, 0, ok)
         /\ pc' = IF ok THEN FirstStep ELSE "node"
  BY DEF OpenNode
<1>2. pc = "node" /\ op' = op /\ UNCHANGED infoVars /\ op \in Discovery
  BY DEF OpenNode, InfoInv, ObjectInv
<1>3. CASE ~ok \/ op # "mpi3mr_slot_discover"
  <2>1. pc' \notin IocSteps
    BY <1>1, <1>2, <1>3 DEF FirstStep, IocSteps, Discovery
  <2> QED BY <1>1, <1>2, <2>1, InfoKept
<1>4. CASE ok /\ op = "mpi3mr_slot_discover"
  <2>1. pc' = "adpinfo" /\ Nodes(op) = Adapters
    BY <1>1, <1>4 DEF FirstStep, Nodes
  <2>2. UNCHANGED <<ioc_cnt, adpinfo, ioc_facts, exps, seen>>
    BY <1>2 DEF infoVars
  <2>3. tobj'.node = Adapters[j] /\ Adapters[j] \in seen
    BY <1>1, <1>2, <1>4, <2>1 DEF smp_initiator_open, InfoInv
  <2>4. InfoType' /\ NoStaleInfo' /\ ioc_cnt \in Nat
    BY <2>2 DEF InfoInv, InfoType, NoStaleInfo, RowOf
  <2>5. ioc_cnt \in Iocs
    BY <1>4, <2>4, QueryAssumption DEF OpenNode, RoomForIoc, Iocs
  <2>6. \A c \in Iocs : c >= ioc_cnt => RowOf(c, NoNode)
    BY <1>1, <1>2, <1>4 DEF InfoInv
  <2>7. \A c \in Iocs : c >= ioc_cnt => \A n : RowOf(c, n)'
    BY <2>2, <2>6, SessionAssumption DEF RowOf, Boxes
  <2>8. Querying'
    BY <1>2, <1>4, <2>2, <2>3, <2>4, <2>5, <2>7 DEF Querying, Iocs
  <2> QED BY <1>1, <1>2, <1>4, <2>1, <2>2, <2>4, <2>8 DEF InfoInv
<1> QED BY <1>3, <1>4

(* The expanders the adapter's firmware lists, by their places.            *)
ListedAt(n) == {j \in DOMAIN Chain[n] : Chain[n][j] \in Boxes(n) \cap here}

LEMMA Pair ==
    ASSUME NEW p, NEW a, NEW b, p = <<a, b>>
    PROVE  p[1] = a /\ p[2] = b
OBVIOUS

LEMMA PageIs ==
    ASSUME NEW own \in BOOLEAN, NEW page, page = Page(own), page[2] # NoDev
    PROVE  \/ own /\ page[1] = 1 /\ page[2] = Own /\ 1 > handle
           \/ \E j \in ListedAt(tobj.node) :
                 /\ page[1] = j + 1 /\ page[2] = Chain[tobj.node][j] /\ handle < j + 1
                 /\ \A l \in ListedAt(tobj.node) : l + 1 > handle => j + 1 <= l + 1
<1> DEFINE all == Pages(own)
           next == {p \in all : p[1] > handle /\ \A q \in all : q[1] > handle => p[1] <= q[1]}
           chain == Chain[tobj.node]
           L == ListedAt(tobj.node)
<1>1. page = IF next = {} THEN <<0, NoDev>> ELSE CHOOSE p \in next : TRUE
  BY DEF Page
<1>2. all = (IF own THEN {<<1, Own>>} ELSE {}) \cup {<<j + 1, chain[j]>> : j \in L}
  BY DEF Pages, ListedAt
<1> HIDE DEF next
<1>3. next # {}
  <2>1. ASSUME page = <<0, NoDev>> PROVE FALSE
    <3>1. page[2] = NoDev
      BY <2>1, Second
    <3> QED BY <3>1
  <2> QED BY <1>1, <2>1
<1>4. page \in next
  BY <1>1, <1>3
<1> HIDE DEF all, chain, L
<1>5. page \in all /\ page[1] > handle /\ \A q \in all : q[1] > handle => page[1] <= q[1]
  BY <1>4 DEF next
<1>6. CASE own /\ page = <<1, Own>>
  <2>1. page = <<1, Own>>
    BY <1>6
  <2>2. page[1] = 1 /\ page[2] = Own
    BY <2>1, Pair
  <2> QED BY <1>5, <1>6, <2>2
<1>7. CASE \E j \in L : page = <<j + 1, chain[j]>>
  <2>1. PICK j \in L : page = <<j + 1, chain[j]>>
    BY <1>7
  <2>2. page[1] = j + 1 /\ page[2] = chain[j]
    BY <2>1
  <2>3. ASSUME NEW l \in L, l + 1 > handle PROVE j + 1 <= l + 1
    <3>1. PICK q : q = <<l + 1, chain[l]>>
      OBVIOUS
    <3>2. q[1] = l + 1 /\ q \in all
      BY <1>2, <3>1
    <3> QED BY <1>5, <2>2, <2>3, <3>2
  <2>4. handle < j + 1
    BY <1>5, <2>2
  <2> QED BY <2>2, <2>3, <2>4 DEF L, chain
<1> QED BY <1>2, <1>5, <1>6, <1>7

LEMMA PageBehind ==
    ASSUME NEW own \in BOOLEAN, NEW page, page = Page(own), page[2] # NoDev,
           own => page[2] # Own
    PROVE  page[2] \in Boxes(tobj.node)
BY PageIs DEF ListedAt

LEMMA EnclosureRead ==
    ASSUME InfoInv, ObjectInv', cfg_get_enclosure_pg0
    PROVE  InfoInv'
<1>1. /\ pc = "encl" /\ UNCHANGED <<tobj, op, list, ioc_cnt, adpinfo, ioc_facts, seen>>
      /\ \/ pc' = "exp" /\ UNCHANGED exps
         \/ pc' = pc /\ UNCHANGED exps
         \/ /\ pc' = "qcmd" /\ Page(TRUE)[2] # NoDev /\ Page(TRUE)[2] # Own
            /\ exps' = [exps EXCEPT ![ioc_cnt][iexp].encl = Page(TRUE)[2]]
  BY DEF cfg_get_enclosure_pg0
<1>2. pc \in IocSteps /\ pc' \in IocSteps
  BY <1>1 DEF IocSteps
<1>3. CASE UNCHANGED exps
  <2>1. UNCHANGED <<infoVars, op>>
    BY <1>1, <1>3 DEF infoVars
  <2>2. pc' # "node"
    BY <1>2 DEF IocSteps
  <2> QED BY <1>1, <1>2, <2>1, <2>2, InfoKept
<1>4. CASE /\ Page(TRUE)[2] # NoDev /\ Page(TRUE)[2] # Own
           /\ exps' = [exps EXCEPT ![ioc_cnt][iexp].encl = Page(TRUE)[2]]
  <2>1. PICK page : page = Page(TRUE)
    OBVIOUS
  <2>2. page[2] \in Boxes(tobj.node)
    BY <1>4, <2>1, PageBehind
  <2>3. PICK v : v = page[2]
    OBVIOUS
  <2>4. exps' = WithField(iexp, "encl", v)
    BY <1>4, <2>1, <2>3 DEF WithField
  <2>5. "encl" \in Part /\ v \in Boxes(tobj.node) \cup {NoDev}
    BY <2>2, <2>3 DEF Part
  <2> QED BY <1>1, <1>2, <2>4, <2>5, EntrySet
<1> QED BY <1>1, <1>3, <1>4

LEMMA VersionRead ==
    ASSUME InfoInv, ObjectInv', mpi3mr_qcmd
    PROVE  InfoInv'
<1>1. /\ pc = "qcmd" /\ pc' = "encl"
      /\ UNCHANGED <<tobj, op, list, ioc_cnt, adpinfo, ioc_facts, seen>>
      /\ \/ exps' = [exps EXCEPT ![ioc_cnt][iexp].scsi = exps[ioc_cnt][iexp].encl]
         \/ UNCHANGED exps
  BY DEF mpi3mr_qcmd
<1>2. pc \in IocSteps /\ pc' \in IocSteps /\ pc' # "node"
  BY <1>1 DEF IocSteps
<1>3. CASE UNCHANGED exps
  <2>1. UNCHANGED <<infoVars, op>>
    BY <1>1, <1>3 DEF infoVars
  <2> QED BY <1>1, <1>2, <2>1, InfoKept
<1>4. CASE exps' = [exps EXCEPT ![ioc_cnt][iexp].scsi = exps[ioc_cnt][iexp].encl]
  <2>1. PICK v : v = exps[ioc_cnt][iexp].encl
    OBVIOUS
  <2>2. exps' = WithField(iexp, "scsi", v)
    BY <1>4, <2>1 DEF WithField
  <2>3. "scsi" \in Part /\ "encl" \in Part
    BY DEF Part
  <2>4. iexp \in Exps => v \in Boxes(tobj.node) \cup {NoDev}
    BY <1>2, <2>1, <2>3 DEF InfoInv, Querying, RowOf
  <2> QED BY <1>1, <1>2, <2>2, <2>3, <2>4, EntrySet
<1> QED BY <1>1, <1>3, <1>4

LEMMA ExpanderRead ==
    ASSUME InfoInv, ObjectInv', cfg_get_sas_exp_pg0
    PROVE  InfoInv'
<1>1. /\ pc = "exp" /\ UNCHANGED <<op, list, ioc_cnt, adpinfo, ioc_facts, seen>>
      /\ \/ pc' = "closeIoc" /\ UNCHANGED <<exps, tobj>>
         \/ /\ pc' = "manu" /\ Page(FALSE)[2] # NoDev
            /\ tobj' = [tobj EXCEPT !.addr = Address(Page(FALSE)[2])]
            /\ exps' = [exps EXCEPT ![ioc_cnt][e].sas = Page(FALSE)[2]]
  BY DEF cfg_get_sas_exp_pg0, Behind
<1>2. pc \in IocSteps /\ pc' \in IocSteps /\ pc' # "node"
  BY <1>1 DEF IocSteps
<1>3. CASE UNCHANGED <<exps, tobj>>
  <2>1. UNCHANGED <<infoVars, op>>
    BY <1>1, <1>3 DEF infoVars
  <2> QED BY <1>1, <1>2, <1>3, <2>1, InfoKept
<1>4. CASE /\ Page(FALSE)[2] # NoDev
           /\ tobj' = [tobj EXCEPT !.addr = Address(Page(FALSE)[2])]
           /\ exps' = [exps EXCEPT ![ioc_cnt][e].sas = Page(FALSE)[2]]
  <2>1. PICK page : page = Page(FALSE)
    OBVIOUS
  <2>2. page[2] \in Boxes(tobj.node)
    BY <1>4, <2>1, PageBehind
  <2>3. PICK v : v = page[2]
    OBVIOUS
  <2>4. exps' = WithField(e, "sas", v)
    BY <1>4, <2>1, <2>3 DEF WithField
  <2>5. "sas" \in Part /\ v \in Boxes(tobj.node) \cup {NoDev}
    BY <2>2, <2>3 DEF Part
  <2>6. tobj'.node = tobj.node
    BY <1>4 DEF InfoInv, ObjectInv
  <2> QED BY <1>1, <1>2, <2>4, <2>5, <2>6, EntrySet
<1> QED BY <1>1, <1>3, <1>4

LEMMA NothingReceived ==
    ASSUME ObjectInv, NEW f, NEW o \in Outcomes(f), Reached = {}
    PROVE  Respond(Zero, o).buf = Zero
<1>1. o.fails
  BY DEF Outcomes, Accepted
<1>2. tobj.selector \in Selector
  BY DEF ObjectInv
<1> QED BY <1>1, <1>2 DEF Respond, smp_send_req, NotSent, send_req_lin_bsg, send_req_mpt,
                         send_req_mpi3mr_bsg, Selector

LEMMA ManufacturerRead ==
    ASSUME InfoInv, ObjectInv', report_manufacturer
    PROVE  InfoInv'
<1>1. /\ pc = "manu" /\ pc' = "exp"
      /\ UNCHANGED <<tobj, op, list, ioc_cnt, adpinfo, ioc_facts, seen>>
  BY DEF report_manufacturer
<1>2. PICK o \in Outcomes(ManufacturerAnswer) :
         exps' = IF Respond(Zero, o).buf = Zero THEN exps
                 ELSE [exps EXCEPT ![ioc_cnt][e].manu = Peer]
  BY DEF report_manufacturer
<1>3. pc \in IocSteps /\ pc' \in IocSteps /\ pc' # "node"
  BY <1>1 DEF IocSteps
<1>4. CASE UNCHANGED exps
  <2>1. UNCHANGED <<infoVars, op>>
    BY <1>1, <1>4 DEF infoVars
  <2> QED BY <1>1, <1>3, <2>1, InfoKept
<1>5. CASE ~UNCHANGED exps
  <2>1. Reached # {}
    BY <1>2, <1>5, NothingReceived DEF InfoInv
  <2>2. PICK v : v = Peer
    OBVIOUS
  <2>3. v \in Boxes(tobj.node)
    BY <2>1, <2>2, PeerReached
  <2>4. exps' = WithField(e, "manu", v)
    BY <1>2, <1>5, <2>2 DEF WithField
  <2>5. "manu" \in Part
    BY DEF Part
  <2> QED BY <1>1, <1>3, <2>3, <2>4, <2>5, EntrySet
<1> QED BY <1>4, <1>5

LEMMA AdapterRead ==
    ASSUME InfoInv, ObjectInv', populate_adpinfo \/ issue_iocfacts
    PROVE  InfoInv'
<1>1. /\ pc \in IocSteps /\ pc' \in IocSteps
      /\ UNCHANGED <<tobj, op, list, ioc_cnt, exps, seen>>
      /\ \E v \in {tobj.node, NoNode} :
            \/ adpinfo' = [adpinfo EXCEPT ![ioc_cnt] = v] /\ UNCHANGED ioc_facts
            \/ ioc_facts' = [ioc_facts EXCEPT ![ioc_cnt] = v] /\ UNCHANGED adpinfo
            \/ UNCHANGED <<adpinfo, ioc_facts>>
  BY DEF populate_adpinfo, issue_iocfacts, IocSteps
<1>2. InfoType /\ Querying
  BY <1>1 DEF InfoInv
<1>3. PICK c \in Iocs : c = ioc_cnt
  BY <1>2 DEF Querying
<1>4. /\ DOMAIN adpinfo' = Iocs /\ DOMAIN ioc_facts' = Iocs
      /\ \A d \in Iocs : d # c => adpinfo'[d] = adpinfo[d] /\ ioc_facts'[d] = ioc_facts[d]
      /\ adpinfo'[c] \in {adpinfo[c], tobj.node, NoNode}
      /\ ioc_facts'[c] \in {ioc_facts[c], tobj.node, NoNode}
  BY <1>1, <1>2, <1>3 DEF InfoType
<1>5. InfoType'
  BY <1>1, <1>2, <1>4 DEF InfoType
<1>6. RowOf(ioc_cnt, tobj.node)'
  BY <1>1, <1>2, <1>3, <1>4 DEF Querying, RowOf
<1> QED BY <1>1, <1>3, <1>4, <1>5, <1>6, RowFilled

LEMMA AdapterDone ==
    ASSUME InfoInv, ObjectInv', CloseIoc
    PROVE  InfoInv'
<1>1. /\ pc = "closeIoc" /\ pc' = "node" /\ ioc_cnt' = ioc_cnt + 1
      /\ UNCHANGED <<op, list, adpinfo, ioc_facts, exps, seen>>
  BY DEF CloseIoc
<1>2. pc \in IocSteps /\ pc' \notin IocSteps
  BY <1>1 DEF IocSteps
<1>3. Querying /\ InfoType /\ NoStaleInfo
  BY <1>2 DEF InfoInv
<1>4. \A c \in Iocs : \A n : RowOf(c, n) => RowOf(c, n)'
  BY <1>1 DEF RowOf
<1>5. InfoType'
  BY <1>1, <1>3 DEF InfoType
<1>6. \A c \in Iocs : c \in Nat
  BY QueryAssumption DEF Iocs
<1>7. NoStaleInfo'
  <2> SUFFICES ASSUME NEW c \in Iocs, c < ioc_cnt + 1
               PROVE  \E n \in seen \cup {NoNode} : RowOf(c, n)'
    BY <1>1 DEF NoStaleInfo
  <2>1. c < ioc_cnt \/ c = ioc_cnt
    BY <1>3, <1>6 DEF InfoType
  <2> QED BY <1>3, <1>4, <2>1 DEF NoStaleInfo, Querying
<1>8. \A c \in Iocs : c >= ioc_cnt' => RowOf(c, NoNode)'
  BY <1>1, <1>3, <1>4, <1>6 DEF Querying, InfoType
<1> QED BY <1>1, <1>2, <1>3, <1>5, <1>7, <1>8 DEF InfoInv

LEMMA InfoStep ==
    ASSUME InfoInv, [Next]_vars
    PROVE  InfoInv'
<1>1. ObjectInv'
  BY ObjectStep DEF InfoInv
<1>2. ASSUME UNCHANGED <<infoVars, op, list>>,
             pc' \in IocSteps => pc \in IocSteps /\ tobj'.node = tobj.node,
             op = "mpi3mr_slot_discover" /\ pc' = "node" => pc = "node"
      PROVE  InfoInv'
  BY <1>1, <1>2, InfoKept
<1>3. CASE UNCHANGED vars
  BY <1>2, <1>3 DEF vars
<1>4. ASSUME NEW o \in Ops, Start(o) PROVE InfoInv'
  BY <1>1, <1>4, InfoBegins
<1>5. CASE OpenNode
  BY <1>1, <1>5, NodeOpens
<1>6. CASE NodesDone
  <2>1. UNCHANGED <<infoVars, op>> /\ list' = {} /\ pc' \in {"path", "idle"}
    BY <1>6 DEF NodesDone
  <2> QED BY <1>1, <2>1, InfoKept DEF IocSteps
<1>7. CASE Close
  <2>1. UNCHANGED <<infoVars, op, list>> /\ pc' = IF op = "mpi3mr_slot_discover" THEN "path" ELSE "node"
    BY <1>7 DEF Close
  <2> QED BY <1>2, <2>1 DEF IocSteps
<1>8. CASE NextAddress \/ AddressesDone \/ OpenPath \/ PathsDone \/ Walked \/ Walk
  <2>1. UNCHANGED <<infoVars, op, list>>
    BY <1>8 DEF NextAddress, AddressesDone, OpenPath, PathsDone, Walked, Walk
  <2>2. pc' \in {"addr", "general", "close", "path", "slot", "idle", "walked", "phy"}
    BY <1>8 DEF NextAddress, AddressesDone, OpenPath, PathsDone, Walked, StartWalk,
                Walk, Walking, ReportGeneral, AskPhy, AskSlotPhy, PhysWalked, Result
  <2> QED BY <1>2, <2>1, <2>2 DEF IocSteps
<1>9. CASE populate_adpinfo \/ issue_iocfacts
  BY <1>1, <1>9, AdapterRead
<1>10. CASE cfg_get_enclosure_pg0
  BY <1>1, <1>10, EnclosureRead
<1>11. CASE mpi3mr_qcmd
  BY <1>1, <1>11, VersionRead
<1>12. CASE cfg_get_sas_exp_pg0
  BY <1>1, <1>12, ExpanderRead
<1>13. CASE report_manufacturer
  BY <1>1, <1>13, ManufacturerRead
<1>14. CASE EnclosuresDone \/ ExpandersDone
  <2>1. UNCHANGED <<infoVars, op, list, tobj>> /\ pc \in {"encl", "exp"} /\ pc' \in {"exp", "closeIoc"}
    BY <1>14 DEF EnclosuresDone, ExpandersDone
  <2> QED BY <1>2, <2>1 DEF IocSteps
<1>15. CASE CloseIoc
  BY <1>1, <1>15, AdapterDone
<1>16. ASSUME NEW x \in Removable, Change(x), UNCHANGED <<op, list, infoVars>> PROVE InfoInv'
  BY <1>2, <1>16 DEF Change
<1> QED BY <1>3, <1>4, <1>5, <1>6, <1>7, <1>8, <1>9, <1>10, <1>11, <1>12, <1>13, <1>14,
           <1>15, <1>16
        DEF Next, mpi3mr_iocfacts

(* Whatever fails, comes or goes, and with any number of adapters, a row   *)
(* of the Info tab is about one adapter the last query found, and no row   *)
(* is left over from an earlier one (mpi3mr_iocfacts).                     *)
THEOREM NoStaleInfoSafe == Spec => []NoStaleInfo
<1>1. InfoInv => NoStaleInfo
  BY DEF InfoInv
<1>2. InfoInv /\ [Next]_vars => InfoInv'
  BY InfoStep
<1> QED BY <1>1, <1>2, InfoStart, PTL DEF Spec

-----------------------------------------------------------------------------
(* Entries of one row are about one box: each is filled from a page, and   *)
(* its number is the number of expander pages before that one, in the list *)
(* of enclosures as in the list of expanders.                              *)
UpTo(S, h) == {l \in S : l + 1 <= h}
Under(S, j) == {l \in S : l < j}

LEMMA NextPage ==
    ASSUME NEW S, IsFiniteSet(S), S \subseteq Nat, NEW h \in Nat, NEW j \in S, h < j + 1,
           \A l \in S : l + 1 > h => j + 1 <= l + 1
    PROVE  /\ Under(S, j) = UpTo(S, h)
           /\ Cardinality(UpTo(S, h)) \in Nat
           /\ Cardinality(UpTo(S, j + 1)) = Cardinality(UpTo(S, h)) + 1
<1>1. \A l \in S : l \in Nat
  OBVIOUS
<1>2. \A l \in S : /\ l < j <=> l + 1 <= h
                  /\ l + 1 <= j + 1 <=> l + 1 <= h \/ l = j
  <2> SUFFICES ASSUME NEW l \in S
               PROVE  /\ l < j <=> l + 1 <= h
                      /\ l + 1 <= j + 1 <=> l + 1 <= h \/ l = j
    OBVIOUS
  <2>1. l \in Nat /\ j \in Nat /\ (l + 1 > h => j + 1 <= l + 1)
    BY <1>1
  <2> QED BY <2>1
<1>3. Under(S, j) = UpTo(S, h)
  <2>1. ASSUME NEW l PROVE l \in Under(S, j) <=> l \in UpTo(S, h)
    <3>1. CASE l \in S
      BY <1>2, <3>1 DEF Under, UpTo
    <3> QED BY <3>1 DEF Under, UpTo
  <2> QED BY <2>1, Zenon
<1>4. j \notin UpTo(S, h)
  BY <1>1 DEF UpTo
<1>5. UpTo(S, j + 1) = UpTo(S, h) \cup {j}
  <2>1. ASSUME NEW l PROVE l \in UpTo(S, j + 1) <=> l \in UpTo(S, h) \cup {j}
    <3>1. CASE l \in S
      BY <1>2, <3>1 DEF UpTo
    <3> QED BY <3>1 DEF UpTo
  <2> QED BY <2>1, Zenon
<1>6. IsFiniteSet(UpTo(S, h))
  BY FS_Subset DEF UpTo
<1>7. Cardinality(UpTo(S, h)) \in Nat
  BY <1>6, FS_CardinalityType
<1>8. Cardinality(UpTo(S, h) \cup {j}) = Cardinality(UpTo(S, h)) + 1
  BY <1>4, <1>6, FS_AddElement
<1> QED BY <1>3, <1>5, <1>7, <1>8

LEMMA UnderGrows ==
    ASSUME NEW S, IsFiniteSet(S), S \subseteq Nat, NEW a \in S, NEW b \in S, a < b
    PROVE  Cardinality(Under(S, a)) # Cardinality(Under(S, b))
<1>1. \A l \in S : (l < a => l < b) /\ ~(a < a)
  <2>1. a \in Nat /\ b \in Nat /\ \A l \in S : l \in Nat
    OBVIOUS
  <2> QED BY <2>1
<1>2. Under(S, a) \subseteq Under(S, b) /\ a \in Under(S, b) /\ a \notin Under(S, a)
  BY <1>1 DEF Under
<1>3. IsFiniteSet(Under(S, b))
  BY FS_Subset DEF Under
<1> QED BY <1>2, <1>3, FS_Subset

LEMMA PlaceIsOne ==
    ASSUME NEW S, IsFiniteSet(S), S \subseteq Nat, NEW a \in S, NEW b \in S,
           Cardinality(Under(S, a)) = Cardinality(Under(S, b))
    PROVE  a = b
<1>1. a \in Nat /\ b \in Nat
  OBVIOUS
<1>2. CASE a < b
  BY <1>2, UnderGrows
<1>3. CASE b < a
  BY <1>3, UnderGrows
<1> QED BY <1>1, <1>2, <1>3

LEMMA ListedFinite ==
    ASSUME NEW n
    PROVE  IsFiniteSet(ListedAt(n)) /\ \A j \in ListedAt(n) : j \in Nat \ {0}
<1>1. CASE n \notin Node
  <2>1. ListedAt(n) = {}
    BY <1>1 DEF ListedAt, Boxes
  <2> QED BY <2>1, FS_EmptySet
<1>2. CASE n \in Node
  <2>1. Chain[n] \in Seq(Ses)
    BY <1>2, SessionAssumption
  <2>2. Len(Chain[n]) \in Nat /\ DOMAIN Chain[n] = 1 .. Len(Chain[n])
    BY <2>1
  <2>3. ListedAt(n) \subseteq 1 .. Len(Chain[n])
    BY <2>2 DEF ListedAt
  <2>4. IsFiniteSet(1 .. Len(Chain[n]))
    BY <2>2, FS_Interval
  <2> QED BY <2>2, <2>3, <2>4, FS_Subset
<1> QED BY <1>1, <1>2

LEMMA NoneYet ==
    ASSUME NEW n, NEW h \in {0, 1}
    PROVE  Cardinality(UpTo(ListedAt(n), h)) = 0
<1>1. \A j \in ListedAt(n) : ~(j + 1 <= h)
  <2> SUFFICES ASSUME NEW j \in ListedAt(n) PROVE ~(j + 1 <= h)
    OBVIOUS
  <2>1. j \in Nat \ {0}
    BY ListedFinite
  <2> QED BY <2>1
<1>2. UpTo(ListedAt(n), h) = {}
  BY <1>1 DEF UpTo
<1> QED BY <1>2, FS_EmptySet

(* v is the box of page number x, from 0, of those the adapter lists.      *)
Placed(n, x, v) ==
    \E j \in ListedAt(n) : Chain[n][j] = v /\ Cardinality(Under(ListedAt(n), j)) = x

SameRow(c) ==
    \A x \in Exps : \E s \in Ses \cup {NoDev} : \A f \in Part : exps[c][x][f] \in {s, NoDev}

RowPlaced(c, n) ==
    \A x \in Exps, f \in Part : exps[c][x][f] # NoDev => Placed(n, x, exps[c][x][f])

Counted == Cardinality(UpTo(ListedAt(tobj.node), handle))

Reading ==
    /\ tobj.selector = "I_SGV4_MPI"
    /\ RowPlaced(ioc_cnt, tobj.node)
    /\ pc \notin {"adpinfo", "facts"} => handle \in Nat /\ iexp \in Nat /\ e \in Nat
    /\ pc = "encl" /\ iexp < NUM_EXP_PER_HBA => iexp = Counted
    /\ pc = "qcmd" => iexp + 1 = Counted
    /\ pc = "exp" => e = Counted
    /\ pc = "manu" => /\ e + 1 = Counted
                      /\ \E s \in Ses : tobj.addr = Wwid[s] /\ Placed(tobj.node, e, s)

SameInv ==
    /\ InfoInv
    /\ op = "mpi3mr_slot_discover" /\ ~moved =>
          /\ \A c \in Iocs : (pc \in IocSteps => c # ioc_cnt) => SameRow(c)
          /\ pc \in IocSteps => Reading

LEMMA PlacedBox ==
    ASSUME NEW n, NEW x, NEW v, Placed(n, x, v)
    PROVE  v \in Ses
BY BoxesAreSes DEF Placed, ListedAt

LEMMA PlacedOne ==
    ASSUME NEW n, NEW x, NEW v, NEW w, Placed(n, x, v), Placed(n, x, w)
    PROVE  v = w
<1>1. PICK a \in ListedAt(n) : Chain[n][a] = v /\ Cardinality(Under(ListedAt(n), a)) = x
  BY DEF Placed
<1>2. PICK b \in ListedAt(n) : Chain[n][b] = w /\ Cardinality(Under(ListedAt(n), b)) = x
  BY DEF Placed
<1>3. IsFiniteSet(ListedAt(n)) /\ ListedAt(n) \subseteq Nat
  BY ListedFinite
<1>4. a = b
  BY <1>1, <1>2, <1>3, PlaceIsOne
<1> QED BY <1>1, <1>2, <1>4

(* A row whose entries were filled by number is about one box an entry.    *)
LEMMA PlacedSame ==
    ASSUME NEW c, NEW n, RowPlaced(c, n)
    PROVE  SameRow(c)
<1> SUFFICES ASSUME NEW x \in Exps
             PROVE  \E s \in Ses \cup {NoDev} : \A f \in Part : exps[c][x][f] \in {s, NoDev}
  BY DEF SameRow
<1>1. CASE \A f \in Part : exps[c][x][f] = NoDev
  BY <1>1
<1>2. CASE \E g \in Part : exps[c][x][g] # NoDev
  <2>1. PICK g \in Part : exps[c][x][g] # NoDev
    BY <1>2
  <2>2. PICK s : s = exps[c][x][g]
    OBVIOUS
  <2>3. Placed(n, x, s)
    BY <2>1, <2>2 DEF RowPlaced
  <2>4. s \in Ses
    BY <2>3, PlacedBox
  <2>5. ASSUME NEW f \in Part, exps[c][x][f] # NoDev PROVE exps[c][x][f] = s
    <3>1. Placed(n, x, exps[c][x][f])
      BY <2>5 DEF RowPlaced
    <3> QED BY <2>3, <3>1, PlacedOne
  <2> QED BY <2>4, <2>5
<1> QED BY <1>1, <1>2

LEMMA BlankSame ==
    ASSUME NEW c, RowOf(c, NoNode)
    PROVE  SameRow(c) /\ \A n : RowPlaced(c, n)
<1>1. \A x \in Exps, f \in Part : exps[c][x][f] = NoDev
  BY SessionAssumption DEF RowOf, Boxes
<1> QED BY <1>1 DEF SameRow, RowPlaced

(* The next page is that of the next box.                                  *)
LEMMA PageCounts ==
    ASSUME NEW own \in BOOLEAN, NEW page, page = Page(own), page[2] # NoDev, page[2] # Own,
           handle \in Nat, NEW x \in Nat, x = Counted
    PROVE  /\ page[1] \in Nat /\ page[2] \in Ses
           /\ Placed(tobj.node, x, page[2])
           /\ Cardinality(UpTo(ListedAt(tobj.node), page[1])) = x + 1
<1>1. PICK j \in ListedAt(tobj.node) :
         /\ page[1] = j + 1 /\ page[2] = Chain[tobj.node][j] /\ handle < j + 1
         /\ \A l \in ListedAt(tobj.node) : l + 1 > handle => j + 1 <= l + 1
  BY PageIs
<1>2. PICK S : S = ListedAt(tobj.node)
  OBVIOUS
<1>3. IsFiniteSet(S) /\ S \subseteq Nat /\ j \in Nat
  BY <1>2, ListedFinite
<1>4. /\ Under(S, j) = UpTo(S, handle)
      /\ Cardinality(UpTo(S, j + 1)) = Cardinality(UpTo(S, handle)) + 1
  BY <1>1, <1>2, <1>3, NextPage
<1>5. Placed(tobj.node, x, page[2])
  BY <1>1, <1>2, <1>4 DEF Placed, Counted
<1> QED BY <1>1, <1>2, <1>3, <1>4, <1>5, PlacedBox DEF Counted

LEMMA OwnPageFirst ==
    ASSUME NEW own \in BOOLEAN, NEW page, page = Page(own), page[2] = Own, Own # NoDev
    PROVE  page[1] = 1 /\ 1 > handle
BY PageIs, BoxesAreSes, QueryAssumption DEF ListedAt

(* A step that keeps the tables.                                           *)
LEMMA SameKept ==
    ASSUME SameInv, InfoInv', UNCHANGED <<here, moved, op, exps, ioc_cnt>>,
           pc' \in IocSteps <=> pc \in IocSteps,
           op = "mpi3mr_slot_discover" /\ ~moved /\ pc \in IocSteps => Reading'
    PROVE  SameInv'
<1>1. \A c \in Iocs : SameRow(c) => SameRow(c)'
  BY DEF SameRow
<1> QED BY <1>1 DEF SameInv

(* A step that fills one field of the row being read.                      *)
LEMMA FieldPlaced ==
    ASSUME SameInv, InfoInv', pc \in IocSteps, pc' \in IocSteps,
           UNCHANGED <<here, moved, op, ioc_cnt>>, tobj'.node = tobj.node,
           NEW x, NEW f \in Part, NEW v, exps' = WithField(x, f, v),
           op = "mpi3mr_slot_discover" /\ ~moved =>
              Reading /\ (x \in Exps /\ v # NoDev => Placed(tobj.node, x, v)),
           op = "mpi3mr_slot_discover" /\ ~moved /\ RowPlaced(ioc_cnt, tobj.node)' => Reading'
    PROVE  SameInv'
<1> SUFFICES ASSUME op = "mpi3mr_slot_discover", ~moved
             PROVE  /\ \A c \in Iocs : c # ioc_cnt => SameRow(c)'
                    /\ Reading'
  BY DEF SameInv
<1>1. InfoType /\ Querying /\ Reading /\ (x \in Exps /\ v # NoDev => Placed(tobj.node, x, v))
  BY DEF SameInv, InfoInv
<1>2. \A c \in Iocs : c # ioc_cnt => SameRow(c)
  BY DEF SameInv
<1>3. PICK d \in Iocs : d = ioc_cnt
  BY <1>1 DEF Querying
<1>4. PICK n : n = tobj.node
  OBVIOUS
<1>5. exps' = [exps EXCEPT ![d] = [exps[d] EXCEPT ![x] = [exps[d][x] EXCEPT ![f] = v]]]
  BY <1>3 DEF WithField
<1>6. \A c \in Iocs : c # d => exps'[c] = exps[c]
  BY <1>5
<1>7. \A y \in Exps : exps'[d][y] = IF y = x THEN [exps[d][x] EXCEPT ![f] = v] ELSE exps[d][y]
  BY <1>1, <1>5 DEF InfoType
<1>8. \A y \in Exps, g \in Part : exps'[d][y][g] = IF y = x /\ g = f THEN v ELSE exps[d][y][g]
  BY <1>1, <1>7 DEF InfoType
<1>9. \A c \in Iocs : c # ioc_cnt => SameRow(c)'
  BY <1>2, <1>3, <1>6 DEF SameRow
<1>10. \A y, w : Placed(n, y, w) => Placed(n, y, w)'
  BY DEF Placed, ListedAt
<1>11. RowPlaced(d, n)
  BY <1>1, <1>3, <1>4 DEF Reading
<1>12. \A y \in Exps, g \in Part : exps'[d][y][g] # NoDev => Placed(n, y, exps'[d][y][g])
  BY <1>1, <1>4, <1>8, <1>11 DEF RowPlaced
<1>13. RowPlaced(d, n)'
  BY <1>10, <1>12 DEF RowPlaced
<1>14. RowPlaced(ioc_cnt, tobj.node)'
  BY <1>3, <1>4, <1>13 DEF RowPlaced, Placed, ListedAt
<1> QED BY <1>9, <1>14

LEMMA SameEnclosure ==
    ASSUME SameInv, InfoInv', cfg_get_enclosure_pg0
    PROVE  SameInv'
<1>1. pc = "encl" /\ UNCHANGED <<tobj, op, ioc_cnt, iexp, here, moved>>
  BY DEF cfg_get_enclosure_pg0, Luck
<1>2. pc \in IocSteps /\ pc' \in IocSteps
  BY <1>1 DEF IocSteps, cfg_get_enclosure_pg0
<1>3. PICK page : page = Page(TRUE)
  OBVIOUS
<1>4. PICK n : n = tobj.node
  OBVIOUS
<1>5. n = tobj'.node /\ ListedAt(n)' = ListedAt(n)
  BY <1>1, <1>4 DEF ListedAt
<1>6. CASE pc' = "exp" /\ e' = 0 /\ handle' = 0 /\ UNCHANGED exps
  <2>1. Cardinality(UpTo(ListedAt(n), 0)) = 0
    BY NoneYet
  <2>2. Counted' = 0
    BY <1>5, <1>6, <2>1 DEF Counted, UpTo
  <2>3. ASSUME Reading PROVE Reading'
    <3>1. RowPlaced(ioc_cnt, tobj.node)'
      BY <1>1, <1>6, <2>3 DEF Reading, RowPlaced, Placed, ListedAt
    <3> QED BY <1>1, <1>6, <2>2, <2>3, <3>1 DEF Reading
  <2> QED BY <1>1, <1>2, <1>6, <2>3, SameKept DEF SameInv
<1>7. CASE /\ handle' = page[1] /\ page[2] # NoDev /\ e' = e + 1 /\ UNCHANGED <<exps, pc>>
           /\ page[2] = Own \/ ~(iexp < NUM_EXP_PER_HBA)
  <2>1. ASSUME Reading PROVE Reading'
    <3>1. RowPlaced(ioc_cnt, tobj.node)'
      BY <1>1, <1>7, <2>1 DEF Reading, RowPlaced, Placed, ListedAt
    <3>2. handle \in Nat /\ iexp \in Nat /\ e \in Nat
      BY <1>1, <2>1 DEF Reading
    <3>3. page[1] \in Nat
      <4>1. CASE page[2] = Own
        <5>1. Own # NoDev
          BY <1>7, <4>1
        <5>2. page[1] = 1
          BY <1>3, <4>1, <5>1, OwnPageFirst
        <5> QED BY <5>2
      <4>2. CASE page[2] # Own
        <5>1. PICK j \in ListedAt(tobj.node) : page[1] = j + 1
          BY <1>3, <1>7, <4>2, PageIs
        <5>2. j \in Nat
          BY ListedFinite
        <5> QED BY <5>1, <5>2
      <4> QED BY <4>1, <4>2
    <3>4. ASSUME iexp < NUM_EXP_PER_HBA PROVE iexp = Counted'
      <4>1. page[1] = 1
        BY <1>3, <1>7, <3>4, OwnPageFirst
      <4>2. iexp = Cardinality(UpTo(ListedAt(n), handle))
        BY <1>1, <1>4, <2>1, <3>4 DEF Reading, Counted
      <4>3. 1 > handle
        BY <1>3, <1>7, <3>4, OwnPageFirst
      <4>4. handle = 0
        BY <3>2, <4>3
      <4>5. iexp = 0 /\ Cardinality(UpTo(ListedAt(n), 1)) = 0
        BY <4>2, <4>4, NoneYet
      <4> QED BY <1>4, <1>5, <1>7, <4>1, <4>5 DEF Counted, UpTo
    <3> QED BY <1>1, <1>7, <2>1, <3>1, <3>2, <3>3, <3>4 DEF Reading
  <2> QED BY <1>1, <1>2, <1>7, <2>1, SameKept DEF SameInv
<1>8. CASE /\ handle' = page[1] /\ page[2] # NoDev /\ page[2] # Own /\ iexp < NUM_EXP_PER_HBA
           /\ exps' = [exps EXCEPT ![ioc_cnt][iexp].encl = page[2]]
           /\ pc' = "qcmd" /\ UNCHANGED e
  <2>1. PICK v : v = page[2]
    OBVIOUS
  <2>2. exps' = WithField(iexp, "encl", v)
    BY <1>8, <2>1 DEF WithField
  <2>3. ASSUME Reading
        PROVE  /\ iexp \in Exps /\ Placed(tobj.node, iexp, v)
               /\ handle' \in Nat /\ iexp + 1 = Counted'
    <3>1. handle \in Nat /\ iexp \in Nat /\ iexp = Counted
      BY <1>1, <1>8, <2>3 DEF Reading
    <3>2. /\ page[1] \in Nat /\ Placed(tobj.node, iexp, page[2])
          /\ Cardinality(UpTo(ListedAt(tobj.node), page[1])) = iexp + 1
      BY <1>3, <1>8, <3>1, PageCounts
    <3>3. iexp + 1 = Counted'
      BY <1>4, <1>5, <1>8, <3>2 DEF Counted, UpTo
    <3> QED BY <1>8, <2>1, <3>1, <3>2, <3>3, QueryAssumption DEF Exps
  <2>4. ASSUME Reading, RowPlaced(ioc_cnt, tobj.node)' PROVE Reading'
    BY <1>1, <1>8, <2>3, <2>4 DEF Reading
  <2>5. "encl" \in Part
    BY DEF Part
  <2>6. CASE op = "mpi3mr_slot_discover" /\ ~moved
    <3>1. Reading
      BY <1>2, <2>6 DEF SameInv
    <3> QED BY <1>1, <1>2, <2>2, <2>3, <2>4, <2>5, <3>1, FieldPlaced
  <2>7. CASE ~(op = "mpi3mr_slot_discover" /\ ~moved)
    BY <1>1, <2>7 DEF SameInv
  <2> QED BY <2>6, <2>7
<1> QED BY <1>1, <1>3, <1>6, <1>7, <1>8 DEF cfg_get_enclosure_pg0

LEMMA SameVersion ==
    ASSUME SameInv, InfoInv', mpi3mr_qcmd
    PROVE  SameInv'
<1>1. /\ pc = "qcmd" /\ pc' = "encl" /\ iexp' = iexp + 1 /\ e' = e + 1
      /\ UNCHANGED <<tobj, op, ioc_cnt, handle, here, moved>>
  BY DEF mpi3mr_qcmd, Luck, NextExp
<1>2. pc \in IocSteps /\ pc' \in IocSteps
  BY <1>1 DEF IocSteps
<1>3. Counted' = Counted
  BY <1>1 DEF Counted, ListedAt, UpTo
<1>4. ASSUME Reading, RowPlaced(ioc_cnt, tobj.node)' PROVE Reading'
  BY <1>1, <1>3, <1>4 DEF Reading
<1>5. CASE UNCHANGED exps
  <2>1. ASSUME Reading PROVE RowPlaced(ioc_cnt, tobj.node)'
    BY <1>1, <1>5, <2>1 DEF Reading, RowPlaced, Placed, ListedAt
  <2> QED BY <1>1, <1>2, <1>4, <1>5, <2>1, SameKept DEF SameInv
<1>6. CASE exps' = [exps EXCEPT ![ioc_cnt][iexp].scsi = exps[ioc_cnt][iexp].encl]
  <2>1. PICK v : v = exps[ioc_cnt][iexp].encl
    OBVIOUS
  <2>2. exps' = WithField(iexp, "scsi", v)
    BY <1>6, <2>1 DEF WithField
  <2>3. "scsi" \in Part /\ "encl" \in Part
    BY DEF Part
  <2>4. ASSUME Reading, iexp \in Exps PROVE v # NoDev => Placed(tobj.node, iexp, v)
    BY <2>1, <2>3, <2>4 DEF Reading, RowPlaced
  <2>5. op = "mpi3mr_slot_discover" /\ ~moved => Reading
    BY <1>2 DEF SameInv
  <2> QED BY <1>1, <1>2, <1>4, <2>2, <2>3, <2>4, <2>5, FieldPlaced
<1> QED BY <1>5, <1>6 DEF mpi3mr_qcmd

LEMMA SameExpander ==
    ASSUME SameInv, InfoInv', cfg_get_sas_exp_pg0
    PROVE  SameInv'
<1>1. /\ pc = "exp" /\ e < NUM_EXP_PER_HBA
      /\ UNCHANGED <<op, ioc_cnt, iexp, e, here, moved>>
  BY DEF cfg_get_sas_exp_pg0, Luck
<1>2. pc \in IocSteps /\ pc' \in IocSteps
  BY <1>1 DEF IocSteps, cfg_get_sas_exp_pg0
<1>3. PICK page : page = Page(FALSE)
  OBVIOUS
<1>4. PICK n : n = tobj.node
  OBVIOUS
<1>5. CASE pc' = "closeIoc" /\ UNCHANGED <<exps, tobj, handle>>
  <2>1. ASSUME Reading PROVE Reading'
    <3>1. RowPlaced(ioc_cnt, tobj.node)'
      BY <1>1, <1>5, <2>1 DEF Reading, RowPlaced, Placed, ListedAt
    <3> QED BY <1>1, <1>5, <2>1, <3>1 DEF Reading
  <2> QED BY <1>1, <1>2, <1>5, <2>1, SameKept DEF SameInv
<1>6. CASE /\ page[2] # NoDev /\ pc' = "manu" /\ handle' = page[1]
           /\ tobj' = [tobj EXCEPT !.addr = Address(page[2])]
           /\ exps' = [exps EXCEPT ![ioc_cnt][e].sas = page[2]]
  <2>1. PICK v : v = page[2]
    OBVIOUS
  <2>2. exps' = WithField(e, "sas", v)
    BY <1>6, <2>1 DEF WithField
  <2>3. "sas" \in Part
    BY DEF Part
  <2>4. tobj'.node = n /\ tobj'.selector = tobj.selector /\ tobj'.addr = Address(v)
    BY <1>4, <1>6, <2>1 DEF SameInv, InfoInv, ObjectInv
  <2>5. ASSUME Reading
        PROVE  /\ e \in Exps /\ v \in Ses /\ Placed(n, e, v)
               /\ handle' \in Nat /\ e + 1 = Counted'
    <3>1. handle \in Nat /\ e \in Nat /\ e = Counted
      BY <1>1, <2>5 DEF Reading
    <3>2. page[2] # Own
      <4>1. page[2] \in Boxes(tobj.node)
        BY <1>3, <1>6, PageBehind
      <4> QED BY <4>1, BoxesAreSes, QueryAssumption
    <3>3. /\ page[1] \in Nat /\ page[2] \in Ses /\ Placed(tobj.node, e, page[2])
          /\ Cardinality(UpTo(ListedAt(tobj.node), page[1])) = e + 1
      BY <1>3, <1>6, <3>1, <3>2, PageCounts
    <3>4. ListedAt(n)' = ListedAt(n)
      BY <1>1 DEF ListedAt
    <3>5. e + 1 = Counted'
      BY <1>4, <1>6, <2>4, <3>3, <3>4 DEF Counted, UpTo
    <3>6. e \in Exps
      BY <1>1, <3>1, QueryAssumption DEF Exps
    <3> QED BY <1>4, <1>6, <2>1, <3>3, <3>5, <3>6
  <2>6. ASSUME Reading, RowPlaced(ioc_cnt, tobj.node)' PROVE Reading'
    <3>1. e \in Nat /\ iexp \in Nat
      BY <1>1, <2>6 DEF Reading
    <3>2. Address(v) = Wwid[v] /\ v \in Ses
      BY <1>6, <2>1, <2>5, <2>6 DEF Address
    <3>3. Placed(n, e, v)'
      BY <1>1, <1>4, <2>5, <2>6 DEF Placed, ListedAt
    <3>4. Placed(tobj.node, e, v)'
      BY <2>4, <3>3 DEF Placed, ListedAt
    <3>5. \E s \in Ses : tobj'.addr = Wwid[s] /\ Placed(tobj.node, e, s)'
      BY <2>4, <3>2, <3>4
    <3>6. (\E s \in Ses : tobj.addr = Wwid[s] /\ Placed(tobj.node, e, s))'
      BY <3>5
    <3>7. tobj'.selector = "I_SGV4_MPI"
      BY <2>4, <2>6 DEF Reading
    <3> QED BY <1>1, <1>6, <2>5, <2>6, <3>1, <3>6, <3>7 DEF Reading
  <2>7. CASE op = "mpi3mr_slot_discover" /\ ~moved
    <3>1. Reading
      BY <1>2, <2>7 DEF SameInv
    <3> QED BY <1>1, <1>2, <1>4, <2>2, <2>3, <2>4, <2>5, <2>6, <3>1, FieldPlaced
  <2>8. CASE ~(op = "mpi3mr_slot_discover" /\ ~moved)
    BY <1>1, <2>8 DEF SameInv
  <2> QED BY <2>7, <2>8
<1> QED BY <1>3, <1>5, <1>6 DEF cfg_get_sas_exp_pg0, Behind

(* The expander that answers at an address is the one that has it.         *)
LEMMA PeerHasAddress ==
    ASSUME Reached # {}, tobj.selector = "I_SGV4_MPI", NEW s \in Ses, tobj.addr = Wwid[s]
    PROVE  Peer = s
<1>1. PICK t \in Target : TRUE
  BY DEF Reached
<1>2. Peer \in Target
  BY <1>1 DEF Peer
<1>3. Peer \in Ses /\ Wwid[Peer] = Wwid[s]
  BY <1>2, BoxesAreSes DEF Target
<1> QED BY <1>3, SessionAssumption DEF Index

LEMMA SameManufacturer ==
    ASSUME SameInv, InfoInv', report_manufacturer
    PROVE  SameInv'
<1>1. /\ pc = "manu" /\ pc' = "exp" /\ e' = e + 1
      /\ UNCHANGED <<tobj, op, ioc_cnt, iexp, handle>>
  BY DEF report_manufacturer
<1>2. PICK o \in Outcomes(ManufacturerAnswer) :
         /\ Suffers(o, ManufacturerAnswer)
         /\ exps' = IF Respond(Zero, o).buf = Zero THEN exps
                    ELSE [exps EXCEPT ![ioc_cnt][e].manu = Peer]
  BY DEF report_manufacturer
<1>3. UNCHANGED <<here, moved>>
  BY <1>2 DEF Suffers, Luck
<1>4. pc \in IocSteps /\ pc' \in IocSteps
  BY <1>1 DEF IocSteps
<1>5. Counted' = Counted
  BY <1>1, <1>3 DEF Counted, ListedAt, UpTo
<1>6. ASSUME Reading, RowPlaced(ioc_cnt, tobj.node)' PROVE Reading'
  BY <1>1, <1>5, <1>6 DEF Reading
<1>7. CASE UNCHANGED exps
  <2>1. ASSUME Reading PROVE RowPlaced(ioc_cnt, tobj.node)'
    BY <1>1, <1>3, <1>7, <2>1 DEF Reading, RowPlaced, Placed, ListedAt
  <2> QED BY <1>1, <1>3, <1>4, <1>6, <1>7, <2>1, SameKept DEF SameInv
<1>8. CASE ~UNCHANGED exps
  <2>1. Reached # {}
    BY <1>2, <1>8, NothingReceived DEF SameInv, InfoInv
  <2>2. PICK v : v = Peer
    OBVIOUS
  <2>3. exps' = WithField(e, "manu", v)
    BY <1>2, <1>8, <2>2 DEF WithField
  <2>4. "manu" \in Part
    BY DEF Part
  <2>5. ASSUME Reading PROVE Placed(tobj.node, e, v)
    <3>1. PICK s \in Ses : tobj.addr = Wwid[s] /\ Placed(tobj.node, e, s)
      BY <1>1, <2>5 DEF Reading
    <3>2. v = s
      BY <2>1, <2>2, <2>5, <3>1, PeerHasAddress DEF Reading
    <3> QED BY <3>1, <3>2
  <2>6. op = "mpi3mr_slot_discover" /\ ~moved => Reading
    BY <1>4 DEF SameInv
  <2> QED BY <1>1, <1>3, <1>4, <1>6, <2>3, <2>4, <2>5, <2>6, FieldPlaced
<1> QED BY <1>7, <1>8

LEMMA SameAdapter ==
    ASSUME SameInv, InfoInv', populate_adpinfo \/ issue_iocfacts
    PROVE  SameInv'
<1>1. /\ UNCHANGED <<tobj, op, ioc_cnt, exps, here, moved>>
      /\ pc \in {"adpinfo", "facts"} /\ pc \in IocSteps /\ pc' \in IocSteps
      /\ \/ pc' = "facts"
         \/ pc' = "encl" /\ iexp' = 0 /\ e' = 0 /\ handle' = 0
  BY DEF populate_adpinfo, issue_iocfacts, Luck, IocSteps
<1>2. ASSUME Reading PROVE RowPlaced(ioc_cnt, tobj.node)'
  BY <1>1, <1>2 DEF Reading, RowPlaced, Placed, ListedAt
<1>3. ASSUME handle' = 0 PROVE Counted' = 0
  <2>1. PICK n : n = tobj.node
    OBVIOUS
  <2>2. Cardinality(UpTo(ListedAt(n), 0)) = 0
    BY NoneYet
  <2> QED BY <1>1, <1>3, <2>1, <2>2 DEF Counted, ListedAt, UpTo
<1>4. ASSUME Reading PROVE Reading'
  BY <1>1, <1>2, <1>3, <1>4 DEF Reading
<1> QED BY <1>1, <1>4, SameKept DEF SameInv

LEMMA SameEnds ==
    ASSUME SameInv, InfoInv', EnclosuresDone \/ ExpandersDone
    PROVE  SameInv'
<1>1. /\ UNCHANGED <<tobj, op, ioc_cnt, exps, iexp, here, moved>>
      /\ pc \in {"encl", "exp"} /\ pc \in IocSteps /\ pc' \in IocSteps
      /\ \/ pc' = "exp" /\ e' = 0 /\ handle' = 0
         \/ pc' = "closeIoc" /\ UNCHANGED <<e, handle>>
  BY DEF EnclosuresDone, ExpandersDone, infoVars, queryVars, envVars, IocSteps
<1>2. ASSUME Reading PROVE RowPlaced(ioc_cnt, tobj.node)'
  BY <1>1, <1>2 DEF Reading, RowPlaced, Placed, ListedAt
<1>3. ASSUME handle' = 0 PROVE Counted' = 0
  <2>1. PICK n : n = tobj.node
    OBVIOUS
  <2>2. Cardinality(UpTo(ListedAt(n), 0)) = 0
    BY NoneYet
  <2> QED BY <1>1, <1>3, <2>1, <2>2 DEF Counted, ListedAt, UpTo
<1>4. ASSUME Reading PROVE Reading'
  BY <1>1, <1>2, <1>3, <1>4 DEF Reading
<1> QED BY <1>1, <1>4, SameKept DEF SameInv

(* The row of an adapter done with joins the others.                       *)
LEMMA SameDone ==
    ASSUME SameInv, InfoInv', CloseIoc
    PROVE  SameInv'
<1>1. /\ pc \in IocSteps /\ pc' \notin IocSteps
      /\ UNCHANGED <<op, moved, exps>>
  BY DEF CloseIoc, IocSteps, envVars
<1>2. ASSUME op = "mpi3mr_slot_discover", ~moved, NEW c \in Iocs PROVE SameRow(c)
  <2>1. CASE c = ioc_cnt
    <3>1. RowPlaced(ioc_cnt, tobj.node)
      BY <1>1, <1>2 DEF SameInv, Reading
    <3>2. SameRow(ioc_cnt)
      BY <3>1, PlacedSame
    <3> QED BY <2>1, <3>2
  <2>2. CASE c # ioc_cnt
    BY <1>1, <1>2, <2>2 DEF SameInv
  <2> QED BY <2>1, <2>2
<1>3. \A c \in Iocs : SameRow(c) => SameRow(c)'
  BY <1>1 DEF SameRow
<1> QED BY <1>1, <1>2, <1>3 DEF SameInv

(* A row begins blank.                                                     *)
LEMMA SameOpens ==
    ASSUME SameInv, InfoInv', OpenNode
    PROVE  SameInv'
<1>1. PICK j \in list, ok \in BOOLEAN :
         /\ smp_initiator_open(Nodes(op)[j], Interface, 0, ok)
         /\ pc' = IF ok THEN FirstStep ELSE "node"
  BY DEF OpenNode
<1>2. /\ pc = "node" /\ pc \notin IocSteps /\ op \in Discovery
      /\ UNCHANGED <<op, here, moved, exps, ioc_cnt>>
  BY <1>1 DEF OpenNode, smp_initiator_open, Luck, infoVars, IocSteps, SameInv, InfoInv, ObjectInv
<1>3. CASE pc' \notin IocSteps
  BY <1>2, <1>3, SameKept
<1>4. CASE pc' \in IocSteps
  <2>1. CASE op # "mpi3mr_slot_discover"
    BY <1>2, <2>1 DEF SameInv
  <2>2. CASE op = "mpi3mr_slot_discover"
    <3>1. ok /\ pc' = "adpinfo" /\ tobj'.selector = "I_SGV4_MPI"
      BY <1>1, <1>4, <2>2 DEF IocSteps, FirstStep, Interface, smp_initiator_open
    <3>2. PICK d \in Iocs : d = ioc_cnt
      BY <1>2, <1>4 DEF InfoInv, Querying
    <3>3. RowOf(d, NoNode)
      BY <1>1, <1>2, <2>2, <3>2 DEF SameInv, InfoInv, InfoType
    <3>4. \A x \in Exps, f \in Part : exps[d][x][f] = NoDev
      BY <3>3, SessionAssumption DEF RowOf, Boxes
    <3>5. RowPlaced(ioc_cnt, tobj.node)'
      BY <1>2, <3>2, <3>4 DEF RowPlaced
    <3>6. Reading'
      BY <3>1, <3>5 DEF Reading
    <3>7. \A c \in Iocs : SameRow(c) => SameRow(c)'
      BY <1>2 DEF SameRow
    <3> QED BY <1>2, <3>6, <3>7 DEF SameInv
  <2> QED BY <2>1, <2>2
<1> QED BY <1>3, <1>4

LEMMA SameStart == Init => SameInv
<1>1. Init => op = "none"
  BY DEF Init
<1> QED BY <1>1, InfoStart DEF SameInv

LEMMA SameStep ==
    ASSUME SameInv, [Next]_vars
    PROVE  SameInv'
<1>1. InfoInv'
  BY InfoStep DEF SameInv
<1>2. CASE UNCHANGED vars
  <2>1. UNCHANGED <<here, moved, op, exps, ioc_cnt, pc, tobj, iexp, e, handle>>
    BY <1>2 DEF vars, envVars, infoVars, queryVars
  <2>2. ASSUME Reading PROVE Reading'
    <3>1. RowPlaced(ioc_cnt, tobj.node)'
      BY <2>1, <2>2 DEF Reading, RowPlaced, Placed, ListedAt
    <3>2. Counted' = Counted
      BY <2>1 DEF Counted, ListedAt, UpTo
    <3>3. \A s : Placed(tobj.node, e, s) => Placed(tobj.node, e, s)'
      BY <2>1 DEF Placed, ListedAt
    <3> QED BY <2>1, <2>2, <3>1, <3>2, <3>3 DEF Reading
  <2> QED BY <1>1, <2>1, <2>2, SameKept DEF SameInv
<1>3. ASSUME NEW o \in Ops, Start(o) PROVE SameInv'
  <2>1. op' = o /\ pc' \notin IocSteps
    BY <1>3 DEF Start, IocSteps
  <2>2. CASE o = "mpi3mr_slot_discover"
    <3>1. \A c \in Iocs, x \in Exps, f \in Part : exps'[c][x][f] = NoDev
      BY <1>3, <2>2 DEF Start, Clear, NoInfo, Empty, Part
    <3>2. \A c \in Iocs : SameRow(c)'
      BY <3>1 DEF SameRow
    <3> QED BY <1>1, <2>1, <3>2 DEF SameInv
  <2>3. CASE o # "mpi3mr_slot_discover"
    BY <1>1, <2>1, <2>3 DEF SameInv
  <2> QED BY <2>2, <2>3
<1>4. CASE OpenNode
  BY <1>1, <1>4, SameOpens
<1>5. CASE NodesDone \/ Close \/ NextAddress \/ AddressesDone \/ OpenPath \/ PathsDone
           \/ Walked \/ Walk
  <2>1. UNCHANGED <<op, exps, ioc_cnt>>
    BY <1>5 DEF NodesDone, Close, NextAddress, AddressesDone, OpenPath, PathsDone, Walked,
                Walk, infoVars
  <2>2. UNCHANGED <<here, moved>>
    BY <1>5 DEF NodesDone, Close, NextAddress, AddressesDone, OpenPath, PathsDone, Walked,
                Walk, Walking, ReportGeneral, AskPhy, AskSlotPhy, PhysWalked, Suffers,
                smp_initiator_open, Luck, envVars
  <2>3. pc \in {"node", "close", "addr", "path", "walked", "general", "phy", "slot"}
    BY <1>5 DEF NodesDone, Close, NextAddress, AddressesDone, OpenPath, PathsDone, Walked,
                Walk, Walking, ReportGeneral, AskPhy, AskSlotPhy, PhysWalked
  <2>4. pc' \in {"addr", "general", "close", "path", "slot", "idle", "walked", "phy", "node"}
    BY <1>5 DEF NodesDone, Close, NextAddress, AddressesDone, OpenPath, PathsDone, Walked,
                StartWalk, Walk, Walking, ReportGeneral, AskPhy, AskSlotPhy, PhysWalked, Result
  <2>5. pc \notin IocSteps /\ pc' \notin IocSteps
    BY <2>3, <2>4 DEF IocSteps
  <2> QED BY <1>1, <2>1, <2>2, <2>5, SameKept
<1>6. CASE populate_adpinfo \/ issue_iocfacts
  BY <1>1, <1>6, SameAdapter
<1>7. CASE cfg_get_enclosure_pg0
  BY <1>1, <1>7, SameEnclosure
<1>8. CASE mpi3mr_qcmd
  BY <1>1, <1>8, SameVersion
<1>9. CASE cfg_get_sas_exp_pg0
  BY <1>1, <1>9, SameExpander
<1>10. CASE report_manufacturer
  BY <1>1, <1>10, SameManufacturer
<1>11. CASE EnclosuresDone \/ ExpandersDone
  BY <1>1, <1>11, SameEnds
<1>12. CASE CloseIoc
  BY <1>1, <1>12, SameDone
<1>13. ASSUME NEW x \in Removable, Change(x) PROVE SameInv'
  BY <1>1, <1>13 DEF Change, SameInv
<1> QED BY <1>2, <1>3, <1>4, <1>5, <1>6, <1>7, <1>8, <1>9, <1>10, <1>11, <1>12, <1>13
        DEF Next, mpi3mr_iocfacts

(* With any number of adapters, expanders and failures, an entry of the    *)
(* Info tab is about one expander unless one comes or goes meanwhile: the  *)
(* loops over enclosures and over expanders count alike (mpi3mr_iocfacts). *)
THEOREM SameBoxSafe == Spec => []SameBox
<1>1. SameInv => SameBox
  BY DEF SameInv, SameBox, SameRow, IocSteps
<1>2. SameInv /\ [Next]_vars => SameInv'
  BY SameStep
<1> QED BY <1>1, <1>2, SameStart, PTL DEF Spec

-----------------------------------------------------------------------------
(* The way through a discovery: which steps it has, how far its loops are. *)
OpSteps(o) ==
    CASE o = "slot_discover" -> {"node", "slot", "walked", "close"}
      [] o = "smp_discover" -> {"node", "general", "phy", "walked", "close"}
      [] o \in {"mpt_discover", "mpi3mr_discover"} ->
            {"node", "addr", "general", "phy", "walked", "close"}
      [] o = "mpi3mr_slot_discover" -> IocSteps \cup {"node", "path", "slot", "walked", "close"}

InLoop ==
    \/ op \in {"mpt_discover", "mpi3mr_discover"} /\ pc \in {"general", "phy", "walked"}
    \/ op = "mpi3mr_slot_discover" /\ pc \in {"slot", "walked", "close"}

StepsInv ==
    /\ op \in Discovery \cup {"none"} /\ i \in 0 .. NEXPDR
    /\ pc # "idle" => op \in Discovery /\ pc \in OpSteps(op)
    /\ InLoop => i < NEXPDR
    /\ pc \notin {"phy", "slot", "walked"} => NotWalking

LEMMA StepsStep ==
    ASSUME StepsInv, [Next]_vars
    PROVE  StepsInv'
<1>1. NEXPDR = 4
  BY SessionAssumption
<1>2. ASSUME UNCHANGED <<walkVars, op, i, pc>> PROVE StepsInv'
  BY <1>2 DEF StepsInv, InLoop, NotWalking, walkVars
<1>3. CASE UNCHANGED vars
  BY <1>2, <1>3 DEF vars
<1>4. ASSUME NEW o \in Ops, Start(o) PROVE StepsInv'
  <2>1. o \in Discovery
    BY QueryAssumption
  <2>2. op' = o /\ i' = 0 /\ pc' = "node" /\ NotWalking /\ UNCHANGED walkVars
    BY <1>4 DEF Start, StepsInv
  <2>3. "node" \in OpSteps(o)
    BY <2>1 DEF OpSteps, Discovery
  <2> QED BY <1>1, <2>1, <2>2, <2>3 DEF StepsInv, InLoop, NotWalking, walkVars
<1>5. ASSUME UNCHANGED <<walkVars, op>>, pc' \notin {"phy", "walked"}, i' \in 0 .. NEXPDR,
             pc \notin {"idle", "phy", "slot", "walked"},
             pc' # "idle" => pc' \in OpSteps(op),
             InLoop' => i' < NEXPDR
      PROVE  StepsInv'
  BY <1>5 DEF StepsInv, NotWalking, walkVars
<1>6. op \in Discovery =>
         /\ {"node", "close"} \subseteq OpSteps(op) /\ FirstStep \in OpSteps(op)
         /\ FirstStep \in {"slot", "general", "addr", "adpinfo"}
  BY DEF OpSteps, FirstStep, Discovery, IocSteps
<1>7. CASE OpenNode
  <2>1. /\ op \in Discovery /\ UNCHANGED <<walkVars, op>> /\ i' = 0
        /\ pc = "node" /\ pc' \in {FirstStep, "node"}
    BY <1>7 DEF OpenNode, StepsInv
  <2> QED BY <1>1, <1>5, <1>6, <2>1
<1>8. CASE NodesDone
  BY <1>1, <1>5, <1>8 DEF NodesDone, StepsInv, OpSteps, InLoop
<1>9. CASE NextAddress
  <2>1. /\ op \in {"mpt_discover", "mpi3mr_discover"} /\ pc = "addr" /\ i < NEXPDR
        /\ UNCHANGED <<walkVars, op>>
        /\ (i' = i + 1 /\ pc' = pc) \/ (pc' = "general" /\ i' = i)
    BY <1>9 DEF NextAddress, StepsInv, OpSteps, Discovery, IocSteps
  <2>2. i' \in 0 .. NEXPDR
    BY <1>1, <2>1 DEF StepsInv
  <2> QED BY <1>5, <2>1, <2>2 DEF OpSteps, InLoop
<1>10. CASE AddressesDone
  <2>1. /\ op \in {"mpt_discover", "mpi3mr_discover"} /\ pc = "addr"
        /\ UNCHANGED <<walkVars, op, i>> /\ pc' = "close"
    BY <1>10 DEF AddressesDone, StepsInv, OpSteps, Discovery, IocSteps
  <2> QED BY <1>5, <2>1 DEF StepsInv, OpSteps, InLoop
<1>11. CASE OpenPath
  <2>1. /\ op = "mpi3mr_slot_discover" /\ pc = "path" /\ i < NEXPDR
        /\ UNCHANGED <<walkVars, op>>
        /\ (i' = i + 1 /\ pc' = pc) \/ (pc' = "slot" /\ i' = i)
    BY <1>11 DEF OpenPath, StepsInv, OpSteps, Discovery, IocSteps
  <2>2. i' \in 0 .. NEXPDR
    BY <1>1, <2>1 DEF StepsInv
  <2> QED BY <1>5, <2>1, <2>2 DEF OpSteps, InLoop
<1>12. CASE PathsDone
  BY <1>5, <1>12 DEF PathsDone, StepsInv, InLoop
<1>13. CASE Walk
  <2>1. UNCHANGED <<op, i>> /\ pc \in {"general", "phy", "slot"}
        /\ pc' \in {pc, "phy", "walked"} /\ (pc' = "phy" => pc \in {"general", "phy"})
    BY <1>13 DEF Walk, Walking, ReportGeneral, AskPhy, AskSlotPhy, PhysWalked, Result
  <2>2. pc' \in OpSteps(op)
    BY <2>1 DEF StepsInv, OpSteps, Discovery, IocSteps
  <2>3. InLoop' => InLoop
    BY <2>1, <2>2 DEF InLoop, StepsInv, OpSteps, IocSteps
  <2>4. pc' \in {"phy", "slot", "walked"}
    BY <1>13, <2>1 DEF Walk, Walking, ReportGeneral, AskPhy, AskSlotPhy, PhysWalked
  <2> QED BY <2>1, <2>2, <2>3, <2>4 DEF StepsInv
<1>14. CASE Walked
  <2>1. op \in Discovery /\ pc = "walked" /\ op' = op /\ NotWalking'
        /\ \/ op \in {"mpt_discover", "mpi3mr_discover"} /\ pc' = "addr" /\ i' = i + 1
           \/ op \notin {"mpt_discover", "mpi3mr_discover"} /\ pc' = "close" /\ i' = i
    BY <1>14 DEF Walked, StartWalk, NotWalking, StepsInv
  <2>2. i' \in 0 .. NEXPDR
    BY <1>1, <2>1 DEF StepsInv, InLoop
  <2> QED BY <2>1, <2>2 DEF StepsInv, InLoop, OpSteps, Discovery
<1>15. CASE Close
  <2>1. op \in Discovery /\ pc = "close" /\ UNCHANGED <<walkVars, op>>
        /\ \/ op = "mpi3mr_slot_discover" /\ pc' = "path" /\ i' = i + 1
           \/ op # "mpi3mr_slot_discover" /\ pc' = "node" /\ i' = i
    BY <1>15 DEF Close, StepsInv
  <2>2. i' \in 0 .. NEXPDR
    BY <1>1, <2>1 DEF StepsInv, InLoop
  <2> QED BY <1>5, <2>1, <2>2 DEF InLoop, OpSteps, Discovery
<1>16. CASE mpi3mr_iocfacts
  <2>1. /\ UNCHANGED <<walkVars, op, i>> /\ pc \in IocSteps /\ pc' \in IocSteps \cup {"node"}
    BY <1>16 DEF mpi3mr_iocfacts, populate_adpinfo, issue_iocfacts, cfg_get_enclosure_pg0,
                 EnclosuresDone, mpi3mr_qcmd, cfg_get_sas_exp_pg0, report_manufacturer,
                 ExpandersDone, CloseIoc, IocSteps
  <2>2. op = "mpi3mr_slot_discover"
    BY <2>1 DEF StepsInv, OpSteps, Discovery, IocSteps
  <2> QED BY <1>5, <2>1, <2>2 DEF StepsInv, OpSteps, InLoop, IocSteps
<1>17. ASSUME NEW x \in Removable, Change(x), UNCHANGED <<op, i>> PROVE StepsInv'
  BY <1>2, <1>17 DEF Change
<1> QED BY <1>3, <1>4, <1>7, <1>8, <1>9, <1>10, <1>11, <1>12, <1>13, <1>14, <1>15, <1>16, <1>17
        DEF Next

LEMMA StepsStart == Init => StepsInv
BY SessionAssumption DEF Init, StepsInv, InLoop

-----------------------------------------------------------------------------
(* Types, group by group.                                                  *)
EnvTypeOK ==
    /\ here \subseteq Node \cup Ses
    /\ changes \in 0 .. MaxChanges /\ faults \in 0 .. MaxFaults
    /\ faulted \in BOOLEAN /\ moved \in BOOLEAN

Lucky ==
    /\ UNCHANGED <<here, changes, moved>>
    /\ \/ UNCHANGED <<faults, faulted>>
       \/ faults < MaxFaults /\ faults' = faults + 1 /\ faulted' = TRUE

LEMMA EnvStep ==
    ASSUME EnvTypeOK, [Next]_vars
    PROVE  EnvTypeOK'
<1>1. MaxChanges \in Nat /\ MaxFaults \in Nat /\ Removable \subseteq SUBSET (Node \cup Ses)
  BY SessionAssumption
<1>2. ASSUME UNCHANGED envVars PROVE EnvTypeOK'
  BY <1>2 DEF envVars, EnvTypeOK
<1>3. ASSUME Lucky PROVE EnvTypeOK'
  <2>1. here' = here /\ changes' = changes /\ moved' = moved
    BY <1>3 DEF Lucky
  <2>2. faults' \in 0 .. MaxFaults
    BY <1>1, <1>3 DEF Lucky, EnvTypeOK
  <2>3. faulted' \in BOOLEAN
    BY <1>3, Zenon DEF Lucky, EnvTypeOK
  <2> QED BY <2>1, <2>2, <2>3 DEF EnvTypeOK
<1>4. CASE UNCHANGED vars
  BY <1>2, <1>4 DEF vars
<1>5. ASSUME NEW o \in Ops, Start(o) PROVE EnvTypeOK'
  BY <1>5 DEF Start, EnvTypeOK
<1>6. CASE OpenNode
  BY <1>3, <1>6 DEF OpenNode, smp_initiator_open, Luck, Lucky
<1>7. CASE OpenPath
  BY <1>2, <1>3, <1>7 DEF OpenPath, smp_initiator_open, Luck, Lucky
<1>8. CASE NodesDone \/ NextAddress \/ AddressesDone \/ PathsDone \/ Walked \/ Close
           \/ EnclosuresDone \/ ExpandersDone \/ CloseIoc \/ PhysWalked
  BY <1>2, <1>8 DEF NodesDone, NextAddress, AddressesDone, PathsDone, Walked, Close,
                    EnclosuresDone, ExpandersDone, CloseIoc, PhysWalked
<1>9. CASE ReportGeneral \/ AskPhy \/ AskSlotPhy
  BY <1>3, <1>9 DEF ReportGeneral, AskPhy, AskSlotPhy, Suffers, Luck, Lucky
<1>10. CASE populate_adpinfo \/ issue_iocfacts \/ mpi3mr_qcmd
  BY <1>3, <1>10 DEF populate_adpinfo, issue_iocfacts, mpi3mr_qcmd, Luck, Lucky
<1>11. CASE cfg_get_enclosure_pg0 \/ cfg_get_sas_exp_pg0 \/ report_manufacturer
  BY <1>3, <1>11 DEF cfg_get_enclosure_pg0, cfg_get_sas_exp_pg0, report_manufacturer,
                     Suffers, Luck, Lucky
<1>12. ASSUME NEW x \in Removable, Change(x) PROVE EnvTypeOK'
  <2>1. /\ changes < MaxChanges /\ changes' = changes + 1 /\ moved' = TRUE
        /\ here' \in {here \ x, here \cup x} /\ UNCHANGED <<faults, faulted>>
    BY <1>12 DEF Change
  <2> QED BY <1>1, <2>1 DEF EnvTypeOK
<1> QED BY <1>4, <1>5, <1>6, <1>7, <1>8, <1>9, <1>10, <1>11, <1>12
        DEF Next, Walk, Walking, mpi3mr_iocfacts

(* The nodes left to open, and the object of the one that is.              *)
ObjTypeOK ==
    /\ tobj \in [opened : BOOLEAN, node : Node \cup {NoNode}, selector : Selector, addr : Nat]
    /\ fds \subseteq Node
    /\ op \in Discovery => list \subseteq DOMAIN Nodes(op)
    /\ op = "none" => list = {}
    /\ seen \subseteq Node

LEMMA NodesAre ==
    ASSUME NEW o \in Discovery
    PROVE  Nodes(o) \in Seq(Node)
BY QueryAssumption DEF Nodes, Discovery

LEMMA NodeOf ==
    ASSUME NEW o \in Discovery, NEW j \in DOMAIN Nodes(o)
    PROVE  Nodes(o)[j] \in Node /\ j \in Nat
BY NodesAre

LEMMA OpeningType ==
    ASSUME ObjTypeOK, NEW n \in Node, NEW sel \in Selector, NEW addr \in Nat,
           NEW ok \in BOOLEAN, smp_initiator_open(n, sel, addr, ok)
    PROVE  /\ tobj' \in [opened : BOOLEAN, node : Node \cup {NoNode},
                         selector : Selector, addr : Nat]
           /\ fds' \subseteq Node
BY DEF ObjTypeOK, smp_initiator_open

LEMMA ClosingType ==
    ASSUME ObjTypeOK, smp_initiator_close
    PROVE  /\ tobj' \in [opened : BOOLEAN, node : Node \cup {NoNode},
                         selector : Selector, addr : Nat]
           /\ fds' \subseteq Node
BY DEF ObjTypeOK, smp_initiator_close

CtrlType == ctrl \in [Expdrs -> Ses \cup {NoDev}] /\ bsg_path \in [Expdrs -> Node \cup {NoPath}]

LEMMA AddressType ==
    ASSUME NEW s \in Ses \cup {NoDev}
    PROVE  Address(s) \in Nat
BY SessionAssumption DEF Address

LEMMA BoxAddress ==
    ASSUME CtrlType, NEW el \in Expdrs
    PROVE  wwid64(el) \in Nat
BY AddressType DEF CtrlType, wwid64

LEMMA ObjStep ==
    ASSUME ObjTypeOK, CtrlType, StepsInv, [Next]_vars
    PROVE  ObjTypeOK'
<1>1. NEXPDR = 4 /\ NoPath \notin Node
  BY SessionAssumption
<1>2. ASSUME UNCHANGED <<tobj, fds, op, seen>>, list' \subseteq list PROVE ObjTypeOK'
  BY <1>2 DEF ObjTypeOK, Nodes
<1>3. ASSUME UNCHANGED <<op, seen>>, list' \subseteq list,
             tobj' \in [opened : BOOLEAN, node : Node \cup {NoNode},
                        selector : Selector, addr : Nat],
             fds' \subseteq Node
      PROVE  ObjTypeOK'
  BY <1>3 DEF ObjTypeOK, Nodes
<1>4. CASE UNCHANGED vars
  BY <1>2, <1>4 DEF vars, infoVars
<1>5. ASSUME NEW o \in Ops, Start(o) PROVE ObjTypeOK'
  <2>1. o \in Discovery /\ o # "none"
    BY QueryAssumption DEF Discovery
  <2>2. op' = o /\ list' = Directory(o) /\ UNCHANGED <<tobj, fds>>
        /\ (seen' = seen \/ seen' = {Adapters[j] : j \in Directory("mpi3mr_slot_discover")})
    BY <1>5 DEF Start, infoVars
  <2>3. Directory(o) \subseteq DOMAIN Nodes(o)
    BY DEF Directory
  <2>4. {Adapters[j] : j \in Directory("mpi3mr_slot_discover")} \subseteq Node
    BY QueryAssumption DEF Directory, Nodes
  <2>5. list' \subseteq DOMAIN Nodes(op')
    BY <2>2, <2>3
  <2>6. (op \in Discovery => list \subseteq DOMAIN Nodes(op))'
    BY <2>5 DEF Nodes
  <2> QED BY <2>1, <2>2, <2>4, <2>6 DEF ObjTypeOK
<1>6. CASE OpenNode
  <2>1. PICK j \in list, ok \in BOOLEAN :
           list' = list \ {j} /\ smp_initiator_open(Nodes(op)[j], Interface, 0, ok)
    BY <1>6 DEF OpenNode
  <2>2. op \in Discovery /\ UNCHANGED <<op, seen>>
    BY <1>6 DEF OpenNode, StepsInv, infoVars
  <2>3. Nodes(op)[j] \in Node
    BY <2>2, NodeOf DEF ObjTypeOK
  <2>4. Interface \in Selector
    BY <2>2, Interfaces
  <2>5. PICK n \in Node, sel \in Selector : n = Nodes(op)[j] /\ sel = Interface
    BY <2>3, <2>4
  <2>6. smp_initiator_open(n, sel, 0, ok)
    BY <2>1, <2>5
  <2> QED BY <1>3, <2>1, <2>2, <2>6, OpeningType
<1>7. CASE OpenPath
  <2>1. UNCHANGED <<op, list, seen>> /\ i \in Expdrs
    BY <1>1, <1>7 DEF OpenPath, infoVars, StepsInv, Expdrs
  <2>2. CASE UNCHANGED <<tobj, fds>>
    BY <1>2, <2>1, <2>2
  <2>3. ASSUME NEW ok \in BOOLEAN, bsg_path[i] # NoPath,
               smp_initiator_open(bsg_path[i], "I_SGV4_MPI", wwid64(i), ok)
        PROVE  ObjTypeOK'
    <3>1. PICK n \in Node, a \in Nat : n = bsg_path[i] /\ a = wwid64(i)
      BY <2>1, <2>3, BoxAddress DEF CtrlType
    <3>2. smp_initiator_open(n, "I_SGV4_MPI", a, ok) /\ "I_SGV4_MPI" \in Selector
      BY <2>3, <3>1 DEF Selector
    <3> QED BY <1>3, <2>1, <3>2, OpeningType
  <2> QED BY <1>7, <2>2, <2>3 DEF OpenPath
<1>8. ASSUME NEW a \in Nat, tobj' = [tobj EXCEPT !.addr = a], UNCHANGED <<fds, op, list, seen>>
      PROVE  ObjTypeOK'
  BY <1>8 DEF ObjTypeOK, Nodes
<1>9. CASE NextAddress
  <2>1. i \in Expdrs
    BY <1>1, <1>9 DEF NextAddress, StepsInv, Expdrs
  <2>2. PICK a \in Nat : a = wwid64(i)
    BY <2>1, BoxAddress
  <2> QED BY <1>8, <1>9, <2>2 DEF NextAddress, infoVars
<1>10. CASE cfg_get_sas_exp_pg0
  <2>1. UNCHANGED <<fds, op, list, seen>>
    BY <1>10 DEF cfg_get_sas_exp_pg0
  <2>2. CASE UNCHANGED tobj
    BY <1>2, <2>1, <2>2
  <2>3. CASE ~UNCHANGED tobj
    <3>1. Page(FALSE)[2] # NoDev /\ tobj' = [tobj EXCEPT !.addr = Address(Page(FALSE)[2])]
      BY <1>10, <2>3 DEF cfg_get_sas_exp_pg0, Behind
    <3>2. PICK page : page = Page(FALSE)
      OBVIOUS
    <3>3. page[2] \in Ses
      BY <3>1, <3>2, PageBehind, BoxesAreSes
    <3>4. PICK a \in Nat : a = Address(page[2])
      BY <3>3, AddressType
    <3> QED BY <1>8, <2>1, <3>1, <3>2, <3>4
  <2> QED BY <2>2, <2>3
<1>11. CASE Close \/ CloseIoc
  <2>1. UNCHANGED <<op, list, seen>> /\ smp_initiator_close
    BY <1>11 DEF Close, CloseIoc, infoVars
  <2> QED BY <1>3, <2>1, ClosingType
<1>12. CASE NodesDone \/ AddressesDone \/ PathsDone \/ Walk \/ Walked
  <2>1. UNCHANGED <<tobj, fds, op, seen>>
    BY <1>12 DEF NodesDone, AddressesDone, PathsDone, Walk, Walking, ReportGeneral, AskPhy,
                 AskSlotPhy, PhysWalked, Walked, infoVars
  <2>2. list' \subseteq list
    BY <1>12 DEF NodesDone, AddressesDone, PathsDone, Walk, Walked
  <2> QED BY <1>2, <2>1, <2>2
<1>13. CASE \/ populate_adpinfo \/ issue_iocfacts \/ cfg_get_enclosure_pg0 \/ EnclosuresDone
            \/ mpi3mr_qcmd \/ report_manufacturer \/ ExpandersDone
  BY <1>2, <1>13 DEF populate_adpinfo, issue_iocfacts, cfg_get_enclosure_pg0, EnclosuresDone,
                     mpi3mr_qcmd, report_manufacturer, ExpandersDone, infoVars
<1>14. ASSUME NEW x \in Removable, Change(x), UNCHANGED <<op, list, seen>> PROVE ObjTypeOK'
  BY <1>2, <1>14 DEF Change
<1> QED BY <1>4, <1>5, <1>6, <1>7, <1>9, <1>10, <1>11, <1>12, <1>13, <1>14
        DEF Next, mpi3mr_iocfacts, infoVars

-----------------------------------------------------------------------------
(* A walk counts phys the expander may have.                               *)
WalkType ==
    /\ k \in 0 .. NUM_PHY /\ num \in Int /\ num <= NUM_PHY /\ ret \in Int
    /\ failed \in BOOLEAN /\ hba_sa \in BOOLEAN /\ buf \in Frame

LEMMA OutcomeType ==
    ASSUME NEW a, Reached # {} => a \in Frame, NEW o \in Outcomes(a)
    PROVE  o \in Outcome
<1>1. CASE Reached # {}
  BY <1>1, OutcomesAre
<1>2. CASE Reached = {}
  <2>1. Outcomes(a) = Outcomes(Zero)
    BY <1>2 DEF Outcomes
  <2> QED BY <2>1, ZeroFrame, OutcomesAre
<1> QED BY <1>1, <1>2

LEMMA GeneralAnswerIs ==
    ASSUME Reached # {}
    PROVE  GeneralAnswer \in Frame /\ GeneralAnswer["phy"] <= NUM_PHY
<1>1. PICK n : n = Phys(Peer)
  OBVIOUS
<1>2. n \in Nat /\ n <= NUM_PHY
  <2>1. \E m \in 1 .. NUM_PHY :
           Wiring[Peer] \in [0 .. m - 1 -> 1 .. NSLOT \cup {HbaPhy, NoSlot, Vacant}]
    BY PeerReached, SessionAssumption
  <2>2. \E m \in 1 .. NUM_PHY : DOMAIN Wiring[Peer] = 0 .. m - 1
    BY <2>1
  <2>3. n \in 1 .. NUM_PHY
    BY <1>1, <2>2 DEF Phys
  <2> QED BY <2>3, SessionAssumption
<1>3. GeneralAnswer = [[Zero EXCEPT !.type = RESP, !.fn = REPORT_GENERAL, !.res = 0]
                          EXCEPT !.words = 17, !.phy = n]
  BY <1>1 DEF GeneralAnswer, Reporting
<1>4. Zero \in [Field -> Nat] /\ (\A x \in Header : Zero[x] \in Byte) /\ Header \subseteq Field
      /\ {"type", "fn", "res", "words", "phy"} \subseteq Field
      /\ RESP \in Byte \cap Nat /\ REPORT_GENERAL \in Byte \cap Nat /\ 17 \in Byte /\ 0 \in Byte
  BY DEF Zero, Field, LastByte, Header, Byte, RESP, REPORT_GENERAL
<1>5. GeneralAnswer \in [Field -> Nat] /\ GeneralAnswer["phy"] = n
  BY <1>2, <1>3, <1>4
<1>6. \A x \in Header : GeneralAnswer[x] \in Byte
  BY <1>3, <1>4 DEF Header
<1> QED BY <1>2, <1>5, <1>6 DEF Frame

LEMMA LengthType ==
    ASSUME NEW fn \in Byte, NEW r \in Reply
    PROVE  Checked(fn, r) \in Int /\ FunctionResult(Checked(fn, r)) \in Int
<1>1. r.buf.res \in Byte
  BY HeaderBytes DEF Reply
<1>2. Checked(fn, r) \in Int
  <2>1. CASE Checked(fn, r) >= 0
    BY <2>1, LengthCovered
  <2>2. ResponseLength(r) \in Int
    <3>1. Deduced(r.buf) \in Int
      BY DeducedRange DEF Reply
    <3> QED BY <3>1 DEF ResponseLength, Reply
  <2> QED BY <1>1, <2>2 DEF Checked, Malformed, Byte
<1> QED BY <1>2 DEF FunctionResult

LEMMA CountReported ==
    ASSUME NEW o \in Outcomes(GeneralAnswer), NEW opened \in BOOLEAN, NEW sel \in Selector,
           NEW r, r = smp_send_req(opened, sel, Zero, o)
    PROVE  r \in Reply /\ get_num_phys(r) \in Int /\ get_num_phys(r) <= NUM_PHY
<1>1. o \in Outcome
  BY OutcomeType, GeneralAnswerIs
<1>2. r \in Reply
  BY <1>1, ReplyType
<1>3. "phy" \in Field /\ REPORT_GENERAL \in Byte
  BY DEF Field, LastByte, REPORT_GENERAL, Byte
<1>4. o.frame["phy"] <= NUM_PHY /\ 0 <= NUM_PHY
  <2>1. NUM_PHY \in Nat
    BY SessionAssumption
  <2>2. CASE Reached = {}
    <3>1. o.frame = Zero
      BY <2>2 DEF Outcomes, Accepted
    <3> QED BY <1>3, <2>1, <3>1 DEF Zero
  <2>3. CASE Reached # {}
    <3>1. PICK a \in Frame : a = GeneralAnswer /\ a["phy"] <= NUM_PHY
      BY <2>3, GeneralAnswerIs
    <3>2. o \in {Accepted(a)} \cup Spoilt(a)
      BY <2>3, <3>1 DEF Outcomes
    <3>3. PICK b : b = [a EXCEPT !.res = 2]
      BY Zenon
    <3>4. b["phy"] = a["phy"]
      BY <1>3, <3>3 DEF Frame
    <3>5. o \in {Accepted(a), [Accepted(a) EXCEPT !.fails = TRUE],
                 [Accepted(a) EXCEPT !.transport = 1, !.content = FALSE],
                 [Accepted(a) EXCEPT !.got = 8, !.named = 8],
                 [Accepted(a) EXCEPT !.frame = b]}
      BY <3>2, <3>3 DEF Spoilt
    <3>6. o.frame \in {a, b}
      <4>1. CASE o = Accepted(a)
        BY <4>1 DEF Accepted
      <4>2. CASE o = [Accepted(a) EXCEPT !.fails = TRUE]
        BY <4>2 DEF Accepted
      <4>3. CASE o = [Accepted(a) EXCEPT !.transport = 1, !.content = FALSE]
        BY <4>3 DEF Accepted
      <4>4. CASE o = [Accepted(a) EXCEPT !.got = 8, !.named = 8]
        BY <4>4 DEF Accepted
      <4>5. CASE o = [Accepted(a) EXCEPT !.frame = b]
        BY <4>5 DEF Accepted
      <4> QED BY <3>5, <4>1, <4>2, <4>3, <4>4, <4>5
    <3>7. o.frame["phy"] = a["phy"]
      BY <3>4, <3>6
    <3> QED BY <2>1, <3>1, <3>7
  <2> QED BY <2>2, <2>3
<1>5. r.buf["phy"] \in {0, o.frame["phy"]}
  BY <1>1, <1>3, NothingStale
<1>6. r.buf["phy"] \in Nat
  BY <1>2, <1>3 DEF Reply, Frame
<1>7. Checked(REPORT_GENERAL, r) \in Int
  BY <1>2, <1>3, LengthType
<1> QED BY <1>2, <1>4, <1>5, <1>6, <1>7, SessionAssumption DEF get_num_phys

LEMMA PhyAsked ==
    ASSUME ObjectInv, k \in Nat, NEW o \in Outcomes(DiscoverAnswer), NEW r, r = Respond(Zero, o)
    PROVE  r \in Reply /\ FunctionResult(do_discover(r)) \in Int
<1>1. o \in Outcome
  BY OutcomeType, DiscoverAnswerIs
<1>2. r \in Reply
  BY <1>1, ReplyType DEF Respond, ObjectInv
<1>3. DISCOVER \in Byte
  BY DEF DISCOVER, Byte
<1> QED BY <1>2, <1>3, LengthType DEF do_discover

LEMMA ResultType ==
    ASSUME NEW res \in Int, Result(res), NEW n \in Int, k < n, k \in Nat, n <= NUM_PHY,
           NUM_PHY \in Int
    PROVE  k' \in 0 .. NUM_PHY /\ ret' \in Int /\ failed' \in BOOLEAN
<1>1. k' \in {k, k + 1} /\ ret' \in Int
  BY DEF Result
<1>2. failed' \in BOOLEAN
  BY Zenon DEF Result
<1> QED BY <1>1, <1>2

LEMMA WalkStep ==
    ASSUME WalkType, ObjectInv, StepsInv, [Next]_vars
    PROVE  WalkType'
<1>1. NUM_PHY \in Nat
  BY SessionAssumption
<1>2. ASSUME UNCHANGED walkVars PROVE WalkType'
  BY <1>2 DEF walkVars, WalkType
<1>3. CASE ReportGeneral
  <2>1. buf = Zero
    BY <1>3 DEF ReportGeneral, StepsInv, NotWalking
  <2>2. PICK o \in Outcomes(GeneralAnswer) :
           LET r == Respond(buf, o)
           IN  /\ num' = get_num_phys(r)
               /\ failed' = (get_num_phys(r) < 0)
               /\ buf' = r.buf
    BY <1>3 DEF ReportGeneral
  <2>3. PICK r : r = smp_send_req(tobj.opened, tobj.selector, Zero, o)
    OBVIOUS
  <2>4. num' = get_num_phys(r) /\ failed' = (get_num_phys(r) < 0) /\ buf' = r.buf
    BY <2>1, <2>2, <2>3 DEF Respond
  <2>5. r \in Reply /\ get_num_phys(r) \in Int /\ get_num_phys(r) <= NUM_PHY
    BY <2>3, CountReported DEF ObjectInv
  <2>6. UNCHANGED <<k, ret, hba_sa>>
    BY <1>3 DEF ReportGeneral
  <2>7. failed' \in BOOLEAN
    BY <2>4
  <2>8. buf' \in Frame
    BY <2>4, <2>5 DEF Reply
  <2> QED BY <2>4, <2>5, <2>6, <2>7, <2>8 DEF WalkType
<1>4. CASE AskPhy
  <2>1. PICK o \in Outcomes(DiscoverAnswer) :
           LET r == Respond(Zero, o)
           IN  buf' = r.buf /\ Result(FunctionResult(do_discover(r)))
    BY <1>4 DEF AskPhy
  <2>2. PICK r : r = Respond(Zero, o)
    OBVIOUS
  <2>3. r \in Reply /\ FunctionResult(do_discover(r)) \in Int
    BY <2>2, PhyAsked DEF WalkType
  <2>4. PICK res \in Int : res = FunctionResult(do_discover(r))
    BY <2>3
  <2>5. Result(res)
    BY <2>1, <2>2, <2>4
  <2>6. k < num /\ UNCHANGED <<num, hba_sa>>
    BY <1>4 DEF AskPhy
  <2>7. k' \in 0 .. NUM_PHY /\ ret' \in Int /\ failed' \in BOOLEAN
    BY <1>1, <2>5, <2>6, ResultType DEF WalkType
  <2>8. buf' \in Frame
    BY <2>1, <2>2, <2>3 DEF Reply
  <2> QED BY <2>6, <2>7, <2>8 DEF WalkType
<1>5. CASE AskSlotPhy
  <2>1. PICK o \in Outcomes(DiscoverAnswer) :
           LET r == Respond(Zero, o)
               len == do_discover(r)
           IN  /\ buf' = r.buf /\ Result(FunctionResult(len))
               /\ IF len >= 0 THEN Store(len, r.buf)
                  ELSE UNCHANGED <<slotVars, ctrlVars, hba_sa>>
    BY <1>5 DEF AskSlotPhy
  <2>2. PICK r : r = Respond(Zero, o)
    OBVIOUS
  <2>3. r \in Reply /\ FunctionResult(do_discover(r)) \in Int
    BY <2>2, PhyAsked DEF WalkType
  <2>4. PICK res \in Int : res = FunctionResult(do_discover(r))
    BY <2>3
  <2>5. Result(res)
    BY <2>1, <2>2, <2>4
  <2>6. k < NUM_PHY /\ UNCHANGED num
    BY <1>5 DEF AskSlotPhy
  <2>7. k' \in 0 .. NUM_PHY /\ ret' \in Int /\ failed' \in BOOLEAN
    BY <1>1, <2>5, <2>6, ResultType DEF WalkType
  <2>8. buf' \in Frame
    BY <2>1, <2>2, <2>3 DEF Reply
  <2>9. hba_sa' = hba_sa \/ hba_sa' = TRUE
    BY <2>1 DEF Store
  <2>10. hba_sa' \in BOOLEAN
    BY <2>9, Zenon DEF WalkType
  <2> QED BY <2>6, <2>7, <2>8, <2>10 DEF WalkType
<1>6. CASE Walked
  <2>1. /\ k' = 0 /\ num' = 0 /\ ret' = 0
        /\ failed' = FALSE /\ hba_sa' = FALSE /\ buf' = Zero
    BY <1>6 DEF Walked, StartWalk
  <2>2. failed' \in BOOLEAN /\ hba_sa' \in BOOLEAN
    BY <2>1
  <2>3. buf' \in Frame
    BY <2>1, ZeroFrame
  <2> QED BY <1>1, <2>1, <2>2, <2>3 DEF WalkType
<1>7. CASE \/ UNCHANGED vars \/ (\E o \in Ops : Start(o))
           \/ OpenNode \/ NodesDone \/ NextAddress \/ AddressesDone
           \/ OpenPath \/ PathsDone \/ PhysWalked \/ Close
           \/ (\E x \in Removable : Change(x))
  BY <1>2, <1>7 DEF vars, Start, OpenNode, NodesDone, NextAddress, AddressesDone,
                    OpenPath, PathsDone, PhysWalked, Close, Change
<1>8. CASE mpi3mr_iocfacts
  BY <1>2, <1>8 DEF mpi3mr_iocfacts, populate_adpinfo, issue_iocfacts, cfg_get_enclosure_pg0,
                    EnclosuresDone, mpi3mr_qcmd, cfg_get_sas_exp_pg0, report_manufacturer,
                    ExpandersDone, CloseIoc
<1> QED BY <1>3, <1>4, <1>5, <1>6, <1>7, <1>8 DEF Next, Walk, Walking

-----------------------------------------------------------------------------
(* The tables of the window.                                               *)
TabType == SlotTypeOK /\ CtrlType /\ expCount \in Nat /\ tab \in ENUM_TAB

LEMMA IndexOf ==
    ASSUME NEW s \in Ses
    PROVE  Index(s) \in Expdrs
<1>1. Wwid[s] \in Nat /\ NEXPDR = 4
  BY SessionAssumption
<1> QED BY <1>1 DEF Index, WWID_TO_INDEX, Expdrs

(* There are no more expanders than boxes for them.                        *)
LEMMA SesFinite == IsFiniteSet(Ses)
<1> DEFINE f == [s \in Ses |-> Index(s)]
<1>1. f \in Injection(Ses, Expdrs)
  BY IndexOf, SessionAssumption DEF Injection, IsInjective
<1> HIDE DEF f
<1>2. IsFiniteSet(Expdrs)
  <2>1. NEXPDR - 1 \in Int
    BY TableAssumption
  <2> QED BY <2>1, FS_Interval DEF Expdrs
<1> QED BY <1>1, <1>2, FS_Injection

LEMMA SlotsFinite == IsFiniteSet(Slots)
<1>1. NSLOT - 1 \in Int
  BY TableAssumption DEF NSLOT
<1> QED BY <1>1, FS_Interval DEF Slots

LEMMA WiredPhys ==
    ASSUME NEW s \in Ses
    PROVE  DOMAIN Wiring[s] \subseteq 0 .. NUM_PHY - 1 /\ 0 .. NUM_PHY - 1 \subseteq PhyIds
<1>1. PICK n \in 1 .. NUM_PHY :
         Wiring[s] \in [0 .. n - 1 -> 1 .. NSLOT \cup {HbaPhy, NoSlot, Vacant}]
  BY SessionAssumption
<1>2. DOMAIN Wiring[s] = 0 .. n - 1
  BY <1>1
<1> QED BY <1>2, SessionAssumption DEF PhyIds

LEMMA ListedType ==
    ASSUME TabType, Listed
    PROVE  TabType'
<1> DEFINE there == here \cap Ses
           sits(sl) == {b \in there \X PhyIds :
                           /\ b[2] \in DOMAIN Wiring[b[1]]
                           /\ Wiring[b[1]][b[2]] = sl + 1}
           disk(sl) == {Attached[b[1]][b[2]] : b \in sits(sl)} \ {NoDev}
<1>1. \A sl \in Slots : disk(sl) \subseteq Disk
  <2> SUFFICES ASSUME NEW sl, NEW b \in sits(sl), Attached[b[1]][b[2]] # NoDev
               PROVE  Attached[b[1]][b[2]] \in Disk
    OBVIOUS
  <2>1. b[1] \in Ses /\ b[2] \in DOMAIN Wiring[b[1]]
    OBVIOUS
  <2>2. b[2] \in 0 .. NUM_PHY - 1
    BY <2>1, WiredPhys
  <2> QED BY <2>1, <2>2, SessionAssumption
<1>2. /\ d_name' = [sl \in Slots |-> IF disk(sl) = {} THEN NoDev
                                     ELSE CHOOSE d \in disk(sl) : TRUE]
      /\ enabled' = [sl \in Slots |-> disk(sl) # {}]
      /\ devCount' = Cardinality({sl \in Slots : disk(sl) # {}})
      /\ resp' = [sl \in Slots |-> NoResp]
      /\ ctrl' = [el \in Expdrs |-> IF \E s \in there : Index(s) = el
                                    THEN CHOOSE s \in there : Index(s) = el
                                    ELSE NoDev]
      /\ expCount' = Cardinality(there)
      /\ bsg_path' = [el \in Expdrs |-> NoPath]
      /\ UNCHANGED <<checked, tab>>
  BY Zenon DEF Listed
<1> HIDE DEF disk
<1>3. ASSUME NEW sl \in Slots
      PROVE  (IF disk(sl) = {} THEN NoDev ELSE CHOOSE d \in disk(sl) : TRUE)
                 \in DName \cup {NoDev}
  <2>1. CASE disk(sl) # {}
    <3>1. (CHOOSE d \in disk(sl) : TRUE) \in disk(sl)
      BY <2>1
    <3> QED BY <1>1, <2>1, <3>1 DEF DName
  <2> QED BY <2>1
<1>4. d_name' \in [Slots -> DName \cup {NoDev}]
  BY <1>2, <1>3
<1>5. devCount' \in Int
  <2>1. {sl \in Slots : disk(sl) # {}} \in SUBSET Slots
    OBVIOUS
  <2>2. Cardinality({sl \in Slots : disk(sl) # {}}) \in Nat
    BY <2>1, SlotsFinite, FS_Subset, FS_CardinalityType
  <2> QED BY <1>2, <2>2
<1>6. enabled' \in [Slots -> BOOLEAN]
  BY <1>2
<1>7. expCount' \in Nat
  BY <1>2, SesFinite, FS_Subset, FS_CardinalityType
<1>8. \A el \in Expdrs : (IF \E s \in there : Index(s) = el
                          THEN CHOOSE s \in there : Index(s) = el
                          ELSE NoDev) \in Ses \cup {NoDev}
  OBVIOUS
<1>9. ctrl' \in [Expdrs -> Ses \cup {NoDev}]
  BY <1>2, <1>8
<1>10. bsg_path' \in [Expdrs -> Node \cup {NoPath}]
  BY <1>2
<1>11. resp' \in [Slots -> Response \cup {NoResp}]
  BY <1>2
<1>12. checked' \in [Slots -> BOOLEAN] /\ tab' \in ENUM_TAB
  BY <1>2 DEF TabType, SlotTypeOK
<1> QED BY <1>4, <1>5, <1>6, <1>7, <1>9, <1>10, <1>11, <1>12 DEF TabType, SlotTypeOK, CtrlType

LEMMA PathType ==
    ASSUME TabType, NEW el \in Expdrs, NEW n \in Node, SetBsgPath(el, n),
           UNCHANGED <<slotVars, tab>>
    PROVE  TabType'
<1>1. bsg_path' \in [Expdrs -> Node \cup {NoPath}]
  BY DEF SetBsgPath, TabType, CtrlType
<1> QED BY <1>1 DEF TabType, SlotTypeOK, CtrlType, SetBsgPath, slotVars

LEMMA RespType ==
    ASSUME TabType, NEW dsn, NEW r, dsn - 1 \in Slots => r \in Response,
           SetDiscoverResp(dsn, r), UNCHANGED <<ctrlVars, tab>>
    PROVE  TabType'
<1>1. CASE dsn - 1 \notin Slots
  BY <1>1 DEF SetDiscoverResp, slotVars, ctrlVars, TabType, SlotTypeOK, CtrlType
<1>2. CASE dsn - 1 \in Slots
  <2>1. PICK sl \in Slots : sl = dsn - 1
    BY <1>2
  <2>2. /\ \/ /\ d_name' = [d_name EXCEPT ![sl] = NoDev]
              /\ checked' = [checked EXCEPT ![sl] = FALSE]
              /\ devCount' = devCount - 1
           \/ UNCHANGED <<d_name, checked, devCount>>
        /\ resp' = [resp EXCEPT ![sl] = r]
        /\ enabled' = [enabled EXCEPT ![sl] = tab \notin FioTabs \/ (@ /\ ~Lagging(sl, r))]
    BY <1>2, <2>1 DEF SetDiscoverResp
  <2>3. d_name' \in [Slots -> DName \cup {NoDev}] /\ devCount' \in Int
    BY <2>2 DEF TabType, SlotTypeOK
  <2>4. resp' \in [Slots -> Response \cup {NoResp}]
    BY <1>2, <2>1, <2>2 DEF TabType, SlotTypeOK
  <2>5. checked' \in [Slots -> BOOLEAN]
    BY <2>2 DEF TabType, SlotTypeOK
  <2>6. enabled' \in [Slots -> BOOLEAN]
    <3>1. PICK b \in BOOLEAN : b = (tab \notin FioTabs \/ (enabled[sl] /\ ~Lagging(sl, r)))
      BY DEF Lagging
    <3>2. enabled' = [enabled EXCEPT ![sl] = b]
      BY <2>2, <3>1
    <3> QED BY <3>2 DEF TabType, SlotTypeOK
  <2> QED BY <2>3, <2>4, <2>5, <2>6 DEF TabType, SlotTypeOK, CtrlType, ctrlVars
<1> QED BY <1>1, <1>2

(* What AskSlotPhy stores, when it stores.                                 *)
LEMMA StoreType ==
    ASSUME TabType, ObjectInv, k \in Nat, AskSlotPhy,
           tobj.opened /\ tobj.node # NoNode => tobj.node \in Node
    PROVE  TabType'
<1>1. PICK o \in Outcomes(DiscoverAnswer) :
         LET r == Respond(Zero, o)
             len == do_discover(r)
         IN  IF len >= 0 THEN Store(len, r.buf)
             ELSE UNCHANGED <<slotVars, ctrlVars, hba_sa>>
  BY DEF AskSlotPhy
<1>2. PICK r : r = smp_send_req(tobj.opened, tobj.selector, Zero, o)
  OBVIOUS
<1>3. PICK len : len = do_discover(r)
  OBVIOUS
<1>4. IF len >= 0 THEN Store(len, r.buf) ELSE UNCHANGED <<slotVars, ctrlVars, hba_sa>>
  BY <1>1, <1>2, <1>3 DEF Respond
<1>5. UNCHANGED tab
  BY DEF AskSlotPhy
<1>6. CASE ~(len >= 0)
  BY <1>4, <1>5, <1>6 DEF slotVars, ctrlVars, TabType, SlotTypeOK, CtrlType
<1>7. CASE len >= 0
  <2>1. tobj.opened \in BOOLEAN /\ tobj.selector \in Selector
    BY DEF ObjectInv
  <2>2. Reached # {}
    BY <1>2, <1>3, <1>7, <2>1, NoneReached
  <2>3. /\ DiscoverAnswer["res"] = 0
        /\ r.buf = DiscoverAnswer \/ (r.buf["init"] = 0 /\ r.buf["dsn"] = 0)
    BY <1>2, <1>3, <1>7, <2>1, <2>2, AnswerOrLittle, DiscoverAnswerIs
  <2>4. /\ k \in DOMAIN Wiring[Peer]
        /\ DiscoverAnswer["phy"] = k /\ DiscoverAnswer["addr"] = Wwid[Peer]
    BY <2>2, <2>3, DiscoverAnswerIs
  <2>5. Peer \in Ses /\ tobj.node \in Node
    BY <2>2, PeerReached DEF Boxes
  <2>6. CASE r.buf["init"] % 16 # 0
    <3>1. r.buf = DiscoverAnswer
      BY <2>3, <2>6
    <3>2. \/ SetBsgPath(WWID_TO_INDEX(r.buf["addr"]), tobj.node) /\ UNCHANGED slotVars
          \/ UNCHANGED <<slotVars, ctrlVars>>
      BY <1>4, <1>7, <2>6 DEF Store
    <3>3. CASE UNCHANGED <<slotVars, ctrlVars>>
      BY <1>5, <3>3 DEF slotVars, ctrlVars, TabType, SlotTypeOK, CtrlType
    <3>4. CASE SetBsgPath(WWID_TO_INDEX(r.buf["addr"]), tobj.node) /\ UNCHANGED slotVars
      <4>1. PICK el \in Expdrs : el = WWID_TO_INDEX(r.buf["addr"])
        BY <2>4, <2>5, <3>1, IndexOf DEF Index
      <4> QED BY <1>5, <2>5, <3>4, <4>1, PathType
    <3> QED BY <3>2, <3>3, <3>4
  <2>7. CASE ~(r.buf["init"] % 16 # 0)
    <3>1. PICK q : q = [phy |-> r.buf["phy"], link |-> StoredLink(r.buf)]
      OBVIOUS
    <3>2. PICK dsn : dsn = SlotNumber(len, r.buf)
      OBVIOUS
    <3>3. SetDiscoverResp(dsn, q) /\ UNCHANGED ctrlVars
      BY <1>4, <1>7, <2>7, <3>1, <3>2 DEF Store
    <3>4. ASSUME dsn - 1 \in Slots PROVE q \in Response
      <4>1. r.buf["dsn"] # 0
        <5>1. ASSUME r.buf["dsn"] = 0 PROVE FALSE
          <6>1. dsn \in {0, -1}
            BY <3>2, <5>1 DEF SlotNumber
          <6> QED BY <3>4, <6>1 DEF Slots
        <5> QED BY <5>1
      <4>2. r.buf["phy"] = k
        BY <2>3, <2>4, <4>1
      <4>3. k \in PhyIds
        BY <2>4, <2>5, WiredPhys
      <4>4. StoredLink(r.buf) \in Link
        BY DEF StoredLink, Link
      <4> QED BY <3>1, <4>2, <4>3, <4>4 DEF Response
    <3> QED BY <1>5, <3>3, <3>4, RespType
  <2> QED BY <2>6, <2>7
<1> QED BY <1>6, <1>7

LEMMA TabStep ==
    ASSUME TabType, AnswerInv, ObjTypeOK, [Next]_vars
    PROVE  TabType'
<1>1. ASSUME UNCHANGED tableVars PROVE TabType'
  BY <1>1 DEF tableVars, slotVars, ctrlVars, TabType, SlotTypeOK, CtrlType
<1>2. ASSUME NEW o \in Ops, Start(o) PROVE TabType'
  BY <1>1, <1>2, ListedType DEF Start
<1>3. CASE AskSlotPhy
  BY <1>3, StoreType DEF AnswerInv, ObjTypeOK
<1>4. CASE report_manufacturer
  <2>1. PICK s \in Boxes(tobj.node) : tobj.addr = Wwid[s]
    BY <1>4 DEF AnswerInv, report_manufacturer
  <2>2. PICK el \in Expdrs : el = WWID_TO_INDEX(tobj.addr)
    BY <2>1, IndexOf, BoxesAreSes DEF Index
  <2>3. tobj.node \in Node
    BY <2>1 DEF Boxes
  <2> QED BY <1>4, <2>2, <2>3, PathType DEF report_manufacturer
<1>5. CASE \/ UNCHANGED vars
           \/ OpenNode \/ NodesDone \/ NextAddress \/ AddressesDone
           \/ OpenPath \/ PathsDone \/ ReportGeneral \/ AskPhy \/ PhysWalked \/ Walked \/ Close
           \/ (\E x \in Removable : Change(x))
  BY <1>1, <1>5 DEF vars, OpenNode, NodesDone, NextAddress, AddressesDone, OpenPath, PathsDone,
                    ReportGeneral, AskPhy, PhysWalked, Walked, Close, Change
<1>6. CASE \/ populate_adpinfo \/ issue_iocfacts \/ cfg_get_enclosure_pg0 \/ EnclosuresDone
           \/ mpi3mr_qcmd \/ cfg_get_sas_exp_pg0 \/ ExpandersDone \/ CloseIoc
  BY <1>1, <1>6 DEF populate_adpinfo, issue_iocfacts, cfg_get_enclosure_pg0, EnclosuresDone,
                    mpi3mr_qcmd, cfg_get_sas_exp_pg0, ExpandersDone, CloseIoc
<1> QED BY <1>2, <1>3, <1>4, <1>5, <1>6 DEF Next, Walk, Walking, mpi3mr_iocfacts

-----------------------------------------------------------------------------
(* The tables of the Info tab and the counters of their loops.             *)
Entry == [encl : Ses \cup {NoDev}, scsi : Ses \cup {NoDev},
          sas : Ses \cup {NoDev}, manu : Ses \cup {NoDev}]

RowsType ==
    /\ ioc_cnt \in 0 .. NUM_IOC
    /\ adpinfo \in [Iocs -> Node \cup {NoNode}]
    /\ ioc_facts \in [Iocs -> Node \cup {NoNode}]
    /\ exps \in [Iocs -> [Exps -> Entry]]

CountersType ==
    /\ iexp \in 0 .. NUM_EXP_PER_HBA /\ e \in 0 .. NUM_EXP_PER_HBA + 1 /\ handle \in Nat
    /\ pc = "qcmd" => iexp < NUM_EXP_PER_HBA /\ e < NUM_EXP_PER_HBA + 1
    /\ pc = "manu" => e < NUM_EXP_PER_HBA

LEMMA FieldType ==
    ASSUME RowsType, NEW x, NEW f \in Part, NEW v \in Ses \cup {NoDev},
           exps' = WithField(x, f, v)
    PROVE  exps' \in [Iocs -> [Exps -> Entry]]
<1>1. \A y \in Entry : [y EXCEPT ![f] = v] \in Entry
  <2> SUFFICES ASSUME NEW y \in Entry PROVE [y EXCEPT ![f] = v] \in Entry
    OBVIOUS
  <2>1. f \in {"encl", "scsi", "sas", "manu"}
    BY DEF Part
  <2>2. y.encl \in Ses \cup {NoDev} /\ y.scsi \in Ses \cup {NoDev}
        /\ y.sas \in Ses \cup {NoDev} /\ y.manu \in Ses \cup {NoDev}
    BY DEF Entry
  <2> QED BY <2>1, <2>2 DEF Entry
<1>2. exps' = [exps EXCEPT ![ioc_cnt] = [exps[ioc_cnt] EXCEPT ![x] =
                                            [exps[ioc_cnt][x] EXCEPT ![f] = v]]]
  BY DEF WithField
<1>3. CASE ioc_cnt \in Iocs /\ x \in Exps
  <2>1. PICK c \in Iocs : c = ioc_cnt
    BY <1>3
  <2>2. exps[c] \in [Exps -> Entry] /\ exps[c][x] \in Entry
    BY <1>3 DEF RowsType
  <2>3. PICK w \in Entry : w = [exps[c][x] EXCEPT ![f] = v]
    BY <1>1, <2>2
  <2>4. PICK r \in [Exps -> Entry] : r = [exps[c] EXCEPT ![x] = w]
    BY <1>3, <2>2
  <2>5. exps' = [exps EXCEPT ![c] = r]
    BY <1>2, <2>1, <2>3, <2>4, Zenon
  <2> QED BY <2>5 DEF RowsType
<1>4. CASE ioc_cnt \notin Iocs
  <2>1. exps' = exps
    BY <1>2, <1>4 DEF RowsType
  <2> QED BY <2>1 DEF RowsType
<1>5. CASE ioc_cnt \in Iocs /\ x \notin Exps
  <2>1. PICK c \in Iocs : c = ioc_cnt
    BY <1>5
  <2>2. exps[c] \in [Exps -> Entry]
    BY DEF RowsType
  <2>3. PICK w : w = [exps[c][x] EXCEPT ![f] = v]
    BY Zenon
  <2>4. [exps[c] EXCEPT ![x] = w] = exps[c]
    BY <1>5, <2>2
  <2>5. exps' = [exps EXCEPT ![c] = exps[c]]
    BY <1>2, <2>1, <2>3, <2>4, Zenon
  <2> QED BY <2>5 DEF RowsType
<1> QED BY <1>3, <1>4, <1>5

LEMMA RowsStep ==
    ASSUME RowsType, ObjTypeOK, InfoInv, StepsInv, [Next]_vars
    PROVE  RowsType'
<1>1. ASSUME UNCHANGED infoVars PROVE RowsType'
  BY <1>1 DEF infoVars, RowsType
<1>2. ASSUME UNCHANGED <<ioc_cnt, adpinfo, ioc_facts>>,
             NEW x, NEW f \in Part, NEW v \in Ses \cup {NoDev}, exps' = WithField(x, f, v)
      PROVE  RowsType'
  <2>1. exps' \in [Iocs -> [Exps -> Entry]]
    BY <1>2, FieldType
  <2> QED BY <1>2, <2>1 DEF RowsType
<1>3. ASSUME NEW o \in Ops, Start(o) PROVE RowsType'
  <2>1. CASE o = "mpi3mr_slot_discover"
    <3>1. ioc_cnt' \in {0, ioc_cnt} /\ NoInfo
      BY <1>3, <2>1 DEF Start, Clear
    <3>2. Empty \in Entry
      BY DEF Empty, Entry
    <3>3. exps' \in [Iocs -> [Exps -> Entry]] /\ adpinfo' \in [Iocs -> Node \cup {NoNode}]
          /\ ioc_facts' \in [Iocs -> Node \cup {NoNode}]
      BY <3>1, <3>2 DEF NoInfo
    <3>4. ioc_cnt' \in 0 .. NUM_IOC
      BY <3>1, QueryAssumption DEF RowsType
    <3> QED BY <3>3, <3>4 DEF RowsType
  <2>2. CASE o # "mpi3mr_slot_discover"
    BY <1>1, <1>3, <2>2 DEF Start
  <2> QED BY <2>1, <2>2
<1>4. CASE populate_adpinfo
  <2>1. PICK v \in {tobj.node, NoNode} : adpinfo' = [adpinfo EXCEPT ![ioc_cnt] = v]
    BY <1>4 DEF populate_adpinfo
  <2>2. v \in Node \cup {NoNode}
    BY <2>1 DEF ObjTypeOK
  <2>3. UNCHANGED <<ioc_cnt, ioc_facts, exps>>
    BY <1>4 DEF populate_adpinfo
  <2> QED BY <2>1, <2>2, <2>3 DEF RowsType
<1>5. CASE issue_iocfacts
  <2>1. ioc_facts' = ioc_facts \/ ioc_facts' = [ioc_facts EXCEPT ![ioc_cnt] = tobj.node]
    BY <1>5 DEF issue_iocfacts
  <2>2. tobj.node \in Node \cup {NoNode}
    BY DEF ObjTypeOK
  <2>3. UNCHANGED <<ioc_cnt, adpinfo, exps>>
    BY <1>5 DEF issue_iocfacts
  <2> QED BY <2>1, <2>2, <2>3 DEF RowsType
<1>6. CASE cfg_get_enclosure_pg0
  <2>1. UNCHANGED <<ioc_cnt, adpinfo, ioc_facts, seen>>
    BY <1>6 DEF cfg_get_enclosure_pg0
  <2>2. CASE UNCHANGED exps
    BY <1>1, <2>1, <2>2 DEF infoVars
  <2>3. CASE ~UNCHANGED exps
    <3>1. PICK page : page = Page(TRUE)
      OBVIOUS
    <3>2. page[2] # NoDev /\ page[2] # Own
          /\ exps' = [exps EXCEPT ![ioc_cnt][iexp].encl = page[2]]
      BY <1>6, <2>3, <3>1 DEF cfg_get_enclosure_pg0
    <3>3. PICK v \in Ses : v = page[2]
      BY <3>1, <3>2, PageBehind, BoxesAreSes
    <3>4. exps' = WithField(iexp, "encl", v) /\ "encl" \in Part
      BY <3>2, <3>3 DEF WithField, Part
    <3> QED BY <1>2, <2>1, <3>4
  <2> QED BY <2>2, <2>3
<1>7. CASE mpi3mr_qcmd
  <2>1. UNCHANGED <<ioc_cnt, adpinfo, ioc_facts, seen>>
    BY <1>7 DEF mpi3mr_qcmd
  <2>2. CASE UNCHANGED exps
    BY <1>1, <2>1, <2>2 DEF infoVars
  <2>3. CASE ~UNCHANGED exps
    <3>1. exps' = [exps EXCEPT ![ioc_cnt][iexp].scsi = exps[ioc_cnt][iexp].encl]
      BY <1>7, <2>3 DEF mpi3mr_qcmd
    <3>2. ioc_cnt \in Iocs
      BY <1>7 DEF mpi3mr_qcmd, InfoInv, Querying, IocSteps
    <3>3. iexp \in Exps
      <4>1. ASSUME iexp \notin Exps PROVE exps' = exps
        <5>1. PICK c \in Iocs : c = ioc_cnt
          BY <3>2
        <5>2. exps[c] \in [Exps -> Entry]
          BY DEF RowsType
        <5>3. PICK w : w = [exps[c][iexp] EXCEPT !.scsi = exps[c][iexp].encl]
          BY Zenon
        <5>4. [exps[c] EXCEPT ![iexp] = w] = exps[c]
          BY <4>1, <5>2
        <5>5. exps' = [exps EXCEPT ![c] = exps[c]]
          BY <3>1, <5>1, <5>3, <5>4, Zenon
        <5> QED BY <5>5 DEF RowsType
      <4> QED BY <2>3, <4>1
    <3>4. PICK v \in Ses \cup {NoDev} : v = exps[ioc_cnt][iexp].encl
      <4>1. exps[ioc_cnt][iexp] \in Entry
        BY <3>2, <3>3 DEF RowsType
      <4> QED BY <4>1 DEF Entry
    <3>5. exps' = WithField(iexp, "scsi", v) /\ "scsi" \in Part
      BY <3>1, <3>4 DEF WithField, Part
    <3> QED BY <1>2, <2>1, <3>5
  <2> QED BY <2>2, <2>3
<1>8. CASE cfg_get_sas_exp_pg0
  <2>1. UNCHANGED <<ioc_cnt, adpinfo, ioc_facts, seen>>
    BY <1>8 DEF cfg_get_sas_exp_pg0
  <2>2. CASE UNCHANGED exps
    BY <1>1, <2>1, <2>2 DEF infoVars
  <2>3. CASE ~UNCHANGED exps
    <3>1. PICK page : page = Page(FALSE)
      OBVIOUS
    <3>2. page[2] # NoDev /\ exps' = [exps EXCEPT ![ioc_cnt][e].sas = page[2]]
      BY <1>8, <2>3, <3>1 DEF cfg_get_sas_exp_pg0, Behind
    <3>3. PICK v \in Ses : v = page[2]
      BY <3>1, <3>2, PageBehind, BoxesAreSes
    <3>4. exps' = WithField(e, "sas", v) /\ "sas" \in Part
      BY <3>2, <3>3 DEF WithField, Part
    <3> QED BY <1>2, <2>1, <3>4
  <2> QED BY <2>2, <2>3
<1>9. CASE report_manufacturer
  <2>1. UNCHANGED <<ioc_cnt, adpinfo, ioc_facts, seen>>
    BY <1>9 DEF report_manufacturer
  <2>2. CASE UNCHANGED exps
    BY <1>1, <2>1, <2>2 DEF infoVars
  <2>3. CASE ~UNCHANGED exps
    <3>1. PICK o \in Outcomes(ManufacturerAnswer) :
             exps' = IF Respond(Zero, o).buf = Zero THEN exps
                     ELSE [exps EXCEPT ![ioc_cnt][e].manu = Peer]
      BY <1>9 DEF report_manufacturer
    <3>2. Reached # {}
      BY <2>3, <3>1, NothingReceived DEF InfoInv
    <3>3. PICK v \in Ses : v = Peer
      BY <3>2, PeerReached
    <3>4. exps' = WithField(e, "manu", v) /\ "manu" \in Part
      BY <2>3, <3>1, <3>3 DEF WithField, Part
    <3> QED BY <1>2, <2>1, <3>4
  <2> QED BY <2>2, <2>3
<1>10. CASE CloseIoc
  <2>1. ioc_cnt \in Iocs
    BY <1>10 DEF CloseIoc, InfoInv, Querying, IocSteps
  <2>2. ioc_cnt' = ioc_cnt + 1 /\ UNCHANGED <<adpinfo, ioc_facts, exps>>
    BY <1>10 DEF CloseIoc
  <2>3. ioc_cnt' \in 0 .. NUM_IOC
    BY <2>1, <2>2, QueryAssumption DEF Iocs
  <2> QED BY <2>2, <2>3 DEF RowsType
<1>11. CASE \/ UNCHANGED vars
            \/ OpenNode \/ NodesDone \/ NextAddress \/ AddressesDone
            \/ OpenPath \/ PathsDone \/ Walk \/ Walked \/ Close
            \/ EnclosuresDone \/ ExpandersDone
            \/ (\E x \in Removable : Change(x) /\ UNCHANGED infoVars)
  BY <1>1, <1>11 DEF vars, OpenNode, NodesDone, NextAddress, AddressesDone, OpenPath, PathsDone,
                     Walk, Walked, Close, EnclosuresDone, ExpandersDone
<1> QED BY <1>3, <1>4, <1>5, <1>6, <1>7, <1>8, <1>9, <1>10, <1>11 DEF Next, mpi3mr_iocfacts

LEMMA PageNumber ==
    ASSUME NEW own \in BOOLEAN, NEW page, page = Page(own), page[2] # NoDev
    PROVE  page[1] \in Nat
<1>1. \A j \in ListedAt(tobj.node) : j + 1 \in Nat
  BY ListedFinite
<1> QED BY <1>1, PageIs

LEMMA CountersStep ==
    ASSUME CountersType, StepsInv, [Next]_vars
    PROVE  CountersType'
<1>1. NUM_EXP_PER_HBA \in Nat
  BY QueryAssumption
<1>2. ASSUME UNCHANGED queryVars, pc' \notin {"qcmd", "manu"} PROVE CountersType'
  BY <1>2 DEF queryVars, CountersType
<1>3. CASE UNCHANGED vars
  BY <1>3 DEF vars, queryVars, CountersType
<1>4. CASE OpenNode
  <2>1. FirstStep \notin {"qcmd", "manu"}
    BY <1>4, Interfaces DEF OpenNode, StepsInv
  <2>2. UNCHANGED queryVars /\ pc' \in {"node", FirstStep}
    BY <1>4 DEF OpenNode
  <2> QED BY <1>2, <2>1, <2>2
<1>5. CASE cfg_get_enclosure_pg0
  <2>1. PICK page : page = Page(TRUE)
    OBVIOUS
  <2>2. iexp' = iexp /\ pc = "encl" /\ e < NUM_EXP_PER_HBA + 1
        /\ \/ pc' = "exp" /\ e' = 0 /\ handle' = 0
           \/ /\ page[2] # NoDev /\ handle' = page[1]
              /\ \/ pc' = "qcmd" /\ e' = e /\ iexp < NUM_EXP_PER_HBA
                 \/ e' = e + 1 /\ pc' = pc
    BY <1>5, <2>1 DEF cfg_get_enclosure_pg0, EnclosureTries
  <2>3. handle' \in Nat
    <3>1. CASE handle' = 0
      BY <3>1
    <3>2. CASE page[2] # NoDev /\ handle' = page[1]
      <4>1. TRUE \in BOOLEAN
        OBVIOUS
      <4> QED BY <2>1, <3>2, <4>1, PageNumber
    <3> QED BY <2>2, <3>1, <3>2
  <2> QED BY <1>1, <2>2, <2>3 DEF CountersType
<1>6. CASE mpi3mr_qcmd
  <2>1. pc = "qcmd" /\ pc' = "encl" /\ e' = e + 1 /\ iexp' = iexp + 1 /\ handle' = handle
    BY <1>6 DEF mpi3mr_qcmd, NextExp
  <2> QED BY <1>1, <2>1 DEF CountersType
<1>7. CASE cfg_get_sas_exp_pg0
  <2>1. PICK page : page = Page(FALSE)
    OBVIOUS
  <2>2. UNCHANGED <<iexp, e>> /\ e < NUM_EXP_PER_HBA
        /\ \/ pc' = "closeIoc" /\ handle' = handle
           \/ pc' = "manu" /\ page[2] # NoDev /\ handle' = page[1]
    BY <1>7, <2>1 DEF cfg_get_sas_exp_pg0, Behind
  <2>3. handle' \in Nat
    BY <2>1, <2>2, PageNumber DEF CountersType
  <2> QED BY <2>2, <2>3 DEF CountersType
<1>8. CASE report_manufacturer
  <2>1. pc = "manu" /\ pc' = "exp" /\ e' = e + 1 /\ UNCHANGED <<iexp, handle>>
    BY <1>8 DEF report_manufacturer
  <2> QED BY <1>1, <2>1 DEF CountersType
<1>9. CASE EnclosuresDone \/ CloseIoc \/ issue_iocfacts
  <2>1. (iexp' = iexp \/ iexp' = 0) /\ e' = 0 /\ handle' = 0 /\ pc' \notin {"qcmd", "manu"}
    BY <1>9 DEF EnclosuresDone, CloseIoc, issue_iocfacts
  <2> QED BY <1>1, <2>1 DEF CountersType
<1>10. CASE \/ (\E o \in Ops : Start(o))
            \/ NodesDone \/ NextAddress \/ AddressesDone
            \/ OpenPath \/ PathsDone \/ Walked \/ Close
            \/ populate_adpinfo \/ ExpandersDone
  <2>1. UNCHANGED queryVars
    BY <1>10 DEF Start, NodesDone, NextAddress, AddressesDone, OpenPath, PathsDone,
                 Walked, Close, populate_adpinfo, ExpandersDone
  <2>2. pc' \notin {"qcmd", "manu"}
    BY <1>10 DEF Start, NodesDone, NextAddress, AddressesDone, OpenPath, PathsDone,
                 Walked, StartWalk, Close, populate_adpinfo, ExpandersDone
  <2> QED BY <1>2, <2>1, <2>2
<1>11. CASE Walk
  <2>1. UNCHANGED queryVars /\ pc' \in {"phy", "slot", "walked"}
    BY <1>11 DEF Walk, Walking, ReportGeneral, AskPhy, AskSlotPhy, PhysWalked, Result
  <2> QED BY <1>2, <2>1
<1>12. ASSUME NEW x \in Removable, Change(x), UNCHANGED queryVars PROVE CountersType'
  BY <1>12 DEF Change, queryVars, CountersType
<1> QED BY <1>3, <1>4, <1>5, <1>6, <1>7, <1>8, <1>9, <1>10, <1>11, <1>12
        DEF Next, mpi3mr_iocfacts

-----------------------------------------------------------------------------
TypeInv ==
    /\ EnvTypeOK /\ ObjTypeOK /\ WalkType /\ TabType /\ RowsType /\ CountersType
    /\ StepsInv /\ AnswerInv /\ InfoInv

LEMMA TypeStep ==
    ASSUME TypeInv, [Next]_vars
    PROVE  TypeInv'
<1>1. EnvTypeOK'
  BY EnvStep DEF TypeInv
<1>2. ObjTypeOK'
  BY ObjStep DEF TypeInv, TabType
<1>3. WalkType'
  BY WalkStep DEF TypeInv, AnswerInv
<1>4. TabType'
  BY TabStep DEF TypeInv
<1>5. RowsType'
  BY RowsStep DEF TypeInv
<1>6. CountersType'
  BY CountersStep DEF TypeInv
<1>7. StepsInv'
  BY StepsStep DEF TypeInv
<1>8. AnswerInv'
  BY AnswerStep DEF TypeInv
<1>9. InfoInv'
  BY InfoStep DEF TypeInv
<1> QED BY <1>1, <1>2, <1>3, <1>4, <1>5, <1>6, <1>7, <1>8, <1>9 DEF TypeInv

LEMMA TypeStart == Init => TypeInv
<1> SUFFICES ASSUME Init PROVE TypeInv
  OBVIOUS
<1>1. EnvTypeOK
  <2>1. here \subseteq Node \cup Ses /\ changes = 0 /\ faults = 0
    BY DEF Init
  <2>2. faulted \in BOOLEAN /\ moved \in BOOLEAN
    BY DEF Init
  <2>3. changes \in 0 .. MaxChanges /\ faults \in 0 .. MaxFaults
    BY <2>1, SessionAssumption
  <2> QED BY <2>1, <2>2, <2>3 DEF EnvTypeOK
<1>2. ObjTypeOK
  BY SessionAssumption DEF Init, ObjTypeOK, Closed, Selector, Discovery
<1>3. WalkType
  <2>1. k = 0 /\ num = 0 /\ ret = 0 /\ buf \in Frame
    BY ZeroFrame DEF Init, NotWalking
  <2>2. failed \in BOOLEAN /\ hba_sa \in BOOLEAN
    BY DEF Init, NotWalking
  <2>3. k \in 0 .. NUM_PHY /\ num \in Int /\ num <= NUM_PHY /\ ret \in Int
    BY <2>1, SessionAssumption
  <2> QED BY <2>1, <2>2, <2>3 DEF WalkType
<1>4. TabType
  BY TableAssumption DEF Init, TableInit, TabType, SlotTypeOK, CtrlType, ENUM_TAB
<1>5. RowsType
  BY QueryAssumption DEF Init, RowsType, Empty, Entry
<1>6. CountersType
  BY QueryAssumption DEF Init, CountersType
<1> QED BY <1>1, <1>2, <1>3, <1>4, <1>5, <1>6, StepsStart, AnswerStart, InfoStart DEF TypeInv

LEMMA TypesHold ==
    ASSUME TypeInv
    PROVE  TypeOK
<1>1. SlotTypeOK /\ ctrl \in [Expdrs -> Ses \cup {NoDev}]
      /\ bsg_path \in [Expdrs -> Node \cup {NoPath}] /\ expCount \in Nat /\ tab \in ENUM_TAB
  BY DEF TypeInv, TabType, CtrlType
<1>2. SessionTypeOK
  <2>1. k \in 0 .. 255
    BY SessionAssumption DEF TypeInv, WalkType
  <2> QED BY <2>1 DEF TypeInv, EnvTypeOK, ObjTypeOK, WalkType, SessionTypeOK
<1>3. pc \in Steps /\ op \in Discovery \cup {"none"} /\ i \in 0 .. NEXPDR
  <2>1. \A o \in Discovery : OpSteps(o) \subseteq Steps
    BY DEF OpSteps, Discovery, Steps, IocSteps
  <2> QED BY <2>1 DEF TypeInv, StepsInv, Steps
<1>4. list \subseteq DOMAIN Expanders \cup DOMAIN Adapters \cup DOMAIN MptNodes
  BY <1>3 DEF TypeInv, ObjTypeOK, Nodes, Discovery
<1>5. /\ ioc_cnt \in 0 .. NUM_IOC
      /\ adpinfo \in [Iocs -> Node \cup {NoNode}] /\ ioc_facts \in [Iocs -> Node \cup {NoNode}]
  BY DEF TypeInv, RowsType
<1>6. exps \in [Iocs -> [Exps -> [encl : Ses \cup {NoDev}, scsi : Ses \cup {NoDev},
                                 sas : Ses \cup {NoDev}, manu : Ses \cup {NoDev}]]]
  BY DEF TypeInv, RowsType, Entry
<1>7. /\ iexp \in 0 .. NUM_EXP_PER_HBA /\ e \in 0 .. NUM_EXP_PER_HBA + 1
      /\ handle \in Nat /\ seen \subseteq Node
  BY DEF TypeInv, CountersType, ObjTypeOK
<1> QED BY <1>1, <1>2, <1>3, <1>4, <1>5, <1>6, <1>7 DEF TypeOK

(* The tables, the object of the conversation, the counters and the rows   *)
(* of the Info tab keep their types through every discovery: a path is     *)
(* stored under one of the four indices and a response in one of the       *)
(* slots, whatever the answers, and the loops over enclosures and          *)
(* expanders stay within the row (mpi3mr_iocfacts, do_multiple_slot).      *)
THEOREM TypeCorrect == Spec => []TypeOK
<1>1. Init => TypeInv
  BY TypeStart
<1>2. TypeInv /\ [Next]_vars => TypeInv'
  BY TypeStep
<1>3. TypeInv => TypeOK
  BY TypesHold
<1> QED BY <1>1, <1>2, <1>3, PTL DEF Spec

-----------------------------------------------------------------------------
(* Nothing is left out when nothing fails and nothing moves.               *)
Clean == ~faulted /\ ~moved
SlotOps == {"slot_discover", "mpi3mr_slot_discover"}
Talking == {"slot", "walked", "close"}

(* The tables know what phy p of expander s is for, every phy of s.        *)
Told(s, p) ==
    /\ Wiring[s][p] > 0 => resp[Wiring[s][p] - 1] # NoResp
    /\ Wiring[s][p] = HbaPhy => bsg_path[Index(s)] # NoPath

Whole(s) == \A p \in DOMAIN Wiring[s] : Told(s, p)

(* The walk over the phys of the expander talked to.                       *)
AskedInv ==
    pc \in Talking =>
        /\ tobj.opened /\ tobj.node \in here
        /\ tobj.selector = IF op = "slot_discover" THEN "I_SGV4" ELSE "I_SGV4_MPI"
        /\ \A s, t \in Target : s = t
        /\ pc = "slot" => \A s \in Reached :
              /\ \A p \in DOMAIN Wiring[s] : p < k => Told(s, p)
              /\ hba_sa => bsg_path[Index(s)] # NoPath
        /\ pc # "slot" => \A s \in Reached : Whole(s)

(* slot_discover: the nodes passed are done with, or being talked to.      *)
PassedInv ==
    op = "slot_discover" =>
        /\ list \subseteq Directory(op)
        /\ pc = "idle" => list = {}
        /\ \A j \in Directory(op) \ list :
              \/ \A s \in Boxes(Expanders[j]) \cap here : Whole(s)
              \/ pc \in Talking /\ tobj.node = Expanders[j]

(* mpi3mr_slot_discover: what a row of the Info tab holds when an adapter  *)
(* has been read.                                                          *)
Full(s) == [encl |-> s, scsi |-> s, sas |-> s, manu |-> s]

Shows(n) ==
    \A j \in DOMAIN Chain[n] \cap 1 .. NUM_EXP_PER_HBA : Chain[n][j] \in here =>
        /\ bsg_path[Index(Chain[n][j])] # NoPath
        /\ \E b \in Shown : exps[b[1]][b[2]] = Full(Chain[n][j])

VersionsRead ==
    \A x \in Exps : x < iexp => exps[ioc_cnt][x].encl # NoDev /\ exps[ioc_cnt][x].scsi # NoDev

Place(j) == Cardinality(Under(ListedAt(tobj.node), j))

AddressesRead ==
    /\ \A x \in Exps : x < e => exps[ioc_cnt][x].sas # NoDev /\ exps[ioc_cnt][x].manu # NoDev
    /\ \A j \in ListedAt(tobj.node) : Place(j) < e =>
          bsg_path[Index(Chain[tobj.node][j])] # NoPath

AllOr(x) == x >= NUM_EXP_PER_HBA \/ x = Cardinality(ListedAt(tobj.node))

FilledInv ==
    /\ tobj.opened /\ tobj.node \in here
    /\ pc \in {"encl", "qcmd", "exp", "manu", "closeIoc"} => VersionsRead
    /\ pc = "encl" /\ iexp < NUM_EXP_PER_HBA => e <= iexp + (IF handle = 0 THEN 0 ELSE 1)
    /\ pc = "qcmd" => handle # 0 /\ e <= iexp + 1 /\ exps[ioc_cnt][iexp].encl # NoDev
    /\ pc \in {"exp", "manu", "closeIoc"} => AllOr(iexp) /\ AddressesRead
    /\ pc = "manu" => exps[ioc_cnt][e].sas # NoDev
    /\ pc = "closeIoc" => AllOr(e)

Turn(a) == Cardinality({c \in Directory(op) : c <= a})

AdaptersInv ==
    pc \in IocSteps \cup {"node"} =>
        /\ list \subseteq Directory(op)
        /\ \A a \in list, b \in Directory(op) \ list : b < a
        /\ Directory(op) # {} =>
              Cardinality(Directory(op) \ list) = ioc_cnt + (IF pc = "node" THEN 0 ELSE 1)
        /\ \A a \in Directory(op) \ list :
              Shows(Adapters[a]) \/ (pc # "node" /\ tobj.node = Adapters[a])

AllShown == \A a \in Directory(op) : Turn(a) <= NUM_IOC => Shows(Adapters[a])

PathsAsked ==
    \A s \in here \cap Ses :
        bsg_path[Index(s)] # NoPath /\ (Index(s) < i \/ pc = "idle") => Whole(s)

PathsInv ==
    /\ \A el \in Expdrs : bsg_path[el] # NoPath => bsg_path[el] \in here
    /\ \A el \in Expdrs : ctrl[el] # NoDev => Index(ctrl[el]) = el
    /\ \A s \in here \cap Ses : ctrl[Index(s)] = s
    /\ pc \in Talking => tobj.node = bsg_path[i] /\ tobj.addr = wwid64(i)
    /\ pc \in Talking \cup {"path", "idle"} => AllShown /\ PathsAsked

LostInv ==
    op \in SlotOps /\ Clean =>
        /\ AskedInv /\ PassedInv
        /\ op = "mpi3mr_slot_discover" =>
              AdaptersInv /\ PathsInv /\ (pc \in IocSteps => FilledInv)

-----------------------------------------------------------------------------
(* What a request brings that suffers nothing.                             *)
LEMMA OneAddress ==
    ASSUME NEW s \in Ses, NEW t \in Ses, Wwid[s] = Wwid[t]
    PROVE  s = t
BY SessionAssumption DEF Index

Brings(r, f) == r.res = 0 /\ r.err = 0 /\ r.act \in {116, 124} /\ r.buf = f

LEMMA AcceptedReply ==
    ASSUME NEW f \in Frame, NEW sel \in {"I_SGV4", "I_SGV4_MPI"}, NEW r,
           r = smp_send_req(TRUE, sel, Zero, Accepted(f))
    PROVE  Brings(r, f)
<1>1. PICK o : o = Accepted(f)
  OBVIOUS
<1>2. /\ ~o.fails /\ o.driver = 0 /\ o.transport = 0 /\ o.device = 0
      /\ o.got = 124 /\ o.named = 116 /\ o.frame = f
  BY <1>1 DEF Accepted
<1>3. \A x \in Field : LastByte[x] < 124
  BY DEF Field, LastByte
<1>4. f = [x \in Field |-> f[x]]
  BY DEF Frame
<1>5. Overlay(Zero, o.got, o.frame) = f
  BY <1>2, <1>3, <1>4 DEF Overlay
<1>6. TransportError(o) = 0
  BY <1>2 DEF TransportError
<1>7. CASE sel = "I_SGV4"
  <2>1. r = send_req_lin_bsg(Zero, o)
    BY <1>1, <1>7 DEF smp_send_req
  <2>2. r = [res |-> 0, err |-> TransportError(o), act |-> o.got,
             buf |-> Overlay(Zero, o.got, o.frame)]
    BY <1>2, <2>1 DEF send_req_lin_bsg
  <2>3. r = [res |-> 0, err |-> 0, act |-> 124, buf |-> f]
    BY <1>2, <1>5, <1>6, <2>2
  <2>4. PICK q : q = [res |-> 0, err |-> 0, act |-> 124, buf |-> f]
    OBVIOUS
  <2>5. q.res = 0 /\ q.err = 0 /\ q.act \in {116, 124} /\ q.buf = f
    BY <2>4
  <2> QED BY <2>3, <2>4, <2>5 DEF Brings
<1>8. CASE sel = "I_SGV4_MPI"
  <2>1. r = send_req_mpi3mr_bsg(Zero, o)
    BY <1>1, <1>8 DEF smp_send_req
  <2>2. r = [res |-> 0, err |-> TransportError(o), act |-> o.named,
             buf |-> Overlay(Zero, o.got, o.frame)]
    BY <1>2, <2>1 DEF send_req_mpi3mr_bsg
  <2>3. r = [res |-> 0, err |-> 0, act |-> 116, buf |-> f]
    BY <1>2, <1>5, <1>6, <2>2
  <2>4. PICK q : q = [res |-> 0, err |-> 0, act |-> 116, buf |-> f]
    OBVIOUS
  <2>5. q.res = 0 /\ q.err = 0 /\ q.act \in {116, 124} /\ q.buf = f
    BY <2>4
  <2> QED BY <2>3, <2>4, <2>5 DEF Brings
<1> QED BY <1>7, <1>8

(* The answer to DISCOVER, case by case.                                   *)
LEMMA DiscoverAnswerHas ==
    ASSUME Reached # {}, k \in Nat
    PROVE  /\ DiscoverAnswer \in Frame
           /\ DiscoverAnswer["type"] = RESP /\ DiscoverAnswer["fn"] = DISCOVER
           /\ k >= Phys(Peer) => DiscoverAnswer["res"] = NO_PHY
           /\ k < Phys(Peer) /\ Wiring[Peer][k] = Vacant => DiscoverAnswer["res"] = PHY_VACANT
           /\ k < Phys(Peer) /\ Wiring[Peer][k] # Vacant =>
                 LET hba == IF Wiring[Peer][k] = HbaPhy THEN HbaWwid ELSE 0
                 IN  /\ DiscoverAnswer["res"] = 0 /\ DiscoverAnswer["words"] = 27
                     /\ DiscoverAnswer["phy"] = k /\ DiscoverAnswer["addr"] = Wwid[Peer]
                     /\ DiscoverAnswer["init"] = IF hba # 0 THEN 8 ELSE 0
                     /\ DiscoverAnswer["hba"] = hba /\ DiscoverAnswer["name"] = hba
                     /\ DiscoverAnswer["dev"] = IF hba # 0 \/ Attached[Peer][k] # NoDev
                                                THEN 16 ELSE 0
                     /\ DiscoverAnswer["rate"] = IF <<Peer, k>> \in Off THEN 1 ELSE 11
                     /\ DiscoverAnswer["dsn"] = IF Wiring[Peer][k] > 0 THEN Wiring[Peer][k]
                                                ELSE 255
<1>1. DiscoverAnswer \in Frame /\ Phys(Peer) \in Nat
  BY DiscoverAnswerIs, PeerReached, PhysAre
<1>2. Field = {"type", "fn", "res", "words", "phy", "dev", "rate", "init", "addr", "hba",
               "name", "dsn"}
  BY DEF Field, LastByte
<1>3. ASSUME NEW res
      PROVE  LET f == Reporting(DISCOVER, res)
             IN  /\ DOMAIN f = Field
                 /\ f["type"] = RESP /\ f["fn"] = DISCOVER /\ f["res"] = res
  BY <1>2 DEF Reporting, Zero
<1>4. CASE k >= Phys(Peer)
  <2>1. DiscoverAnswer = Reporting(DISCOVER, NO_PHY)
    BY <1>4 DEF DiscoverAnswer
  <2> QED BY <1>1, <1>3, <1>4, <2>1
<1>5. CASE ~(k >= Phys(Peer)) /\ Wiring[Peer][k] = Vacant
  <2>1. DiscoverAnswer = Reporting(DISCOVER, PHY_VACANT)
    BY <1>5 DEF DiscoverAnswer
  <2> QED BY <1>1, <1>3, <1>5, <2>1
<1>6. CASE ~(k >= Phys(Peer)) /\ Wiring[Peer][k] # Vacant
  <2> DEFINE wired == Wiring[Peer][k]
             hba == IF wired = HbaPhy THEN HbaWwid ELSE 0
             dev == IF hba # 0 \/ Attached[Peer][k] # NoDev THEN 16 ELSE 0
             rate == IF <<Peer, k>> \in Off THEN 1 ELSE 11
             init == IF hba # 0 THEN 8 ELSE 0
             dsn == IF wired > 0 THEN wired ELSE 255
             base == Reporting(DISCOVER, 0)
  <2>1. DiscoverAnswer = [base EXCEPT !.words = 27, !.phy = k, !.addr = Wwid[Peer],
             !.dev = dev, !.rate = rate, !.init = init, !.hba = hba, !.name = hba, !.dsn = dsn]
    BY <1>6 DEF DiscoverAnswer
  <2>2. /\ DOMAIN base = Field
        /\ base["type"] = RESP /\ base["fn"] = DISCOVER /\ base["res"] = 0
    BY <1>3
  <2> HIDE DEF hba, dev, rate, init, dsn, base
  <2>3. /\ DiscoverAnswer["type"] = RESP /\ DiscoverAnswer["fn"] = DISCOVER
        /\ DiscoverAnswer["res"] = 0 /\ DiscoverAnswer["words"] = 27
        /\ DiscoverAnswer["phy"] = k /\ DiscoverAnswer["addr"] = Wwid[Peer]
        /\ DiscoverAnswer["init"] = init /\ DiscoverAnswer["hba"] = hba
        /\ DiscoverAnswer["name"] = hba /\ DiscoverAnswer["dsn"] = dsn
        /\ DiscoverAnswer["dev"] = dev /\ DiscoverAnswer["rate"] = rate
    BY <1>2, <2>1, <2>2
  <2> QED BY <1>1, <1>6, <2>3 DEF hba, init, dsn, dev, rate
<1> QED BY <1>4, <1>5, <1>6

LEMMA DiscoverLength ==
    ASSUME NEW r, r.res = 0, r.err = 0, r.act \in {116, 124}, r.buf \in Frame,
           r.buf["type"] = RESP, r.buf["fn"] = DISCOVER
    PROVE  /\ r.buf["res"] = NO_PHY => do_discover(r) = -4 - NO_PHY
           /\ r.buf["res"] = PHY_VACANT => do_discover(r) = -4 - PHY_VACANT
           /\ r.buf["res"] = 0 /\ r.buf["words"] = 27 => do_discover(r) = 112
<1>1. r.act \notin 0 .. 3
  OBVIOUS
<1>2. CASE r.buf["res"] = 0 /\ r.buf["words"] = 27
  <2>1. Deduced(r.buf) = 112
    BY <1>2 DEF Deduced
  <2>2. ResponseLength(r) = 112
    BY <2>1 DEF ResponseLength
  <2> QED BY <1>1, <1>2, <2>2 DEF do_discover, Checked, NO_PHY, PHY_VACANT
<1>3. CASE r.buf["res"] \in {NO_PHY, PHY_VACANT}
  BY <1>1, <1>3 DEF do_discover, Checked, NO_PHY, PHY_VACANT
<1> QED BY <1>2, <1>3

(* A phy asked without a failure is told to the tables; behind the last    *)
(* one the walk ends.                                                      *)
LEMMA PhyTold ==
    ASSUME TypeInv, AskSlotPhy, tobj.opened, tobj.selector \in {"I_SGV4", "I_SGV4_MPI"},
           Reached # {}, ~faulted', NEW s, s = Peer, NEW p, p = k,
           hba_sa => bsg_path[Index(s)] # NoPath
    PROVE  /\ \/ pc' = "walked" /\ p >= Phys(s)
              \/ /\ pc' = pc /\ k' = p + 1 /\ p < Phys(s) /\ Told(s, p)'
                 /\ hba_sa' => bsg_path'[Index(s)] # NoPath
           /\ UNCHANGED bsg_path \/ bsg_path' = [bsg_path EXCEPT ![Index(s)] = tobj.node]
<1>1. PICK o \in Outcomes(DiscoverAnswer) :
         LET r == Respond(Zero, o)
             len == do_discover(r)
         IN  /\ Suffers(o, DiscoverAnswer)
             /\ Result(FunctionResult(len))
             /\ IF len >= 0 THEN Store(len, r.buf)
                ELSE UNCHANGED <<slotVars, ctrlVars, hba_sa>>
  BY DEF AskSlotPhy
<1>2. p \in Nat /\ NUM_PHY \in Nat
  BY SessionAssumption DEF TypeInv, WalkType
<1>3. s \in Ses /\ s \in Boxes(tobj.node) /\ tobj.node \in Node /\ tobj.node # NoPath
  BY PeerReached, SessionAssumption DEF Boxes
<1>4. Phys(s) \in Nat /\ DOMAIN Wiring[s] = 0 .. Phys(s) - 1
  BY <1>3, PhysAre
<1>5. o = Accepted(DiscoverAnswer)
  BY <1>1 DEF Suffers, Luck
<1>6. PICK f \in Frame : f = DiscoverAnswer
  BY <1>2, DiscoverAnswerIs
<1>7. /\ f["type"] = RESP /\ f["fn"] = DISCOVER
      /\ p >= Phys(s) => f["res"] = NO_PHY
      /\ p < Phys(s) /\ Wiring[s][p] = Vacant => f["res"] = PHY_VACANT
      /\ p < Phys(s) /\ Wiring[s][p] # Vacant =>
            LET hba == IF Wiring[s][p] = HbaPhy THEN HbaWwid ELSE 0
            IN  /\ f["res"] = 0 /\ f["words"] = 27 /\ f["phy"] = p /\ f["addr"] = Wwid[s]
                /\ f["init"] = IF hba # 0 THEN 8 ELSE 0
                /\ f["hba"] = hba /\ f["name"] = hba
                /\ f["dsn"] = IF Wiring[s][p] > 0 THEN Wiring[s][p] ELSE 255
  BY <1>2, <1>6, DiscoverAnswerHas
<1>17. PICK sel \in {"I_SGV4", "I_SGV4_MPI"} : sel = tobj.selector
  OBVIOUS
<1>8. PICK r : r = smp_send_req(TRUE, sel, Zero, Accepted(f))
  OBVIOUS
<1>9. r.res = 0 /\ r.err = 0 /\ r.act \in {116, 124} /\ r.buf = f
  <2>1. Brings(r, f)
    BY <1>8, AcceptedReply
  <2> QED BY <2>1 DEF Brings
<1>10. r = Respond(Zero, o)
  <2>1. PICK op1 : op1 = tobj.opened
    OBVIOUS
  <2>2. o = Accepted(f) /\ op1 = TRUE
    BY <1>5, <1>6, <2>1
  <2> QED BY <1>8, <1>17, <2>1, <2>2 DEF Respond
<1>11. PICK len : len = do_discover(r)
  OBVIOUS
<1>12. /\ Result(FunctionResult(len))
       /\ IF len >= 0 THEN Store(len, f) ELSE UNCHANGED <<slotVars, ctrlVars, hba_sa>>
  BY <1>1, <1>9, <1>10, <1>11
<1>13. /\ f["res"] = NO_PHY => len = -4 - NO_PHY
       /\ f["res"] = PHY_VACANT => len = -4 - PHY_VACANT
       /\ f["res"] = 0 /\ f["words"] = 27 => len = 112
  BY <1>7, <1>9, <1>11, DiscoverLength
<1>14. CASE p >= Phys(s)
  <2>1. FunctionResult(len) = NO_PHY
    BY <1>7, <1>13, <1>14 DEF FunctionResult, NO_PHY
  <2>2. pc' = "walked"
    BY <1>12, <2>1 DEF Result, GoOn, NO_PHY, PHY_VACANT
  <2>3. UNCHANGED bsg_path
    BY <1>7, <1>12, <1>13, <1>14 DEF ctrlVars, NO_PHY
  <2> QED BY <1>14, <2>2, <2>3
<1>15. CASE p < Phys(s) /\ Wiring[s][p] = Vacant
  <2>1. FunctionResult(len) = PHY_VACANT /\ ~(len >= 0)
    BY <1>7, <1>13, <1>15 DEF FunctionResult, PHY_VACANT
  <2>2. pc' = pc /\ k' = p + 1
    BY <1>12, <2>1 DEF Result, GoOn
  <2>3. UNCHANGED <<bsg_path, hba_sa>>
    BY <1>12, <2>1 DEF ctrlVars
  <2>4. Told(s, p)'
    BY <1>15 DEF Told, Vacant, HbaPhy
  <2> QED BY <1>15, <2>2, <2>3, <2>4
<1>16. CASE p < Phys(s) /\ Wiring[s][p] # Vacant
  <2>1. len = 112 /\ FunctionResult(len) = 0
    BY <1>7, <1>13, <1>16 DEF FunctionResult
  <2>2. pc' = pc /\ k' = p + 1
    BY <1>12, <2>1 DEF Result, GoOn
  <2>3. Store(112, f)
    BY <1>12, <2>1
  <2>4. HbaWwid \in Nat \ {0} /\ NSLOT < 255 /\ Index(s) \in Expdrs
    BY <1>3, SessionAssumption, IndexOf
  <2>5. CASE Wiring[s][p] = HbaPhy
    <3>1. f["init"] = 8 /\ f["hba"] # 0 /\ f["name"] # 0 /\ f["addr"] = Wwid[s]
      BY <1>7, <1>16, <2>4, <2>5
    <3>2. InitiatorAddress(f) # 0 /\ f["init"] % 16 # 0
      BY <3>1 DEF InitiatorAddress
    <3>3. IF ~hba_sa THEN SetBsgPath(Index(s), tobj.node) /\ hba_sa' = TRUE
          ELSE UNCHANGED <<ctrlVars, hba_sa>>
      BY <2>3, <3>1, <3>2 DEF Store, Index
    <3>4. bsg_path'[Index(s)] # NoPath
      <4>1. CASE hba_sa
        BY <3>3, <4>1 DEF ctrlVars
      <4>2. CASE ~hba_sa
        <5>1. bsg_path' = [bsg_path EXCEPT ![Index(s)] = tobj.node]
          BY <3>3, <4>2 DEF SetBsgPath
        <5>2. DOMAIN bsg_path = Expdrs
          BY DEF TypeInv, TabType, CtrlType
        <5> QED BY <1>3, <2>4, <5>1, <5>2
      <4> QED BY <4>1, <4>2
    <3>5. Told(s, p)'
      BY <2>5, <3>4 DEF Told, HbaPhy
    <3>6. UNCHANGED bsg_path \/ bsg_path' = [bsg_path EXCEPT ![Index(s)] = tobj.node]
      BY <3>3 DEF SetBsgPath, ctrlVars
    <3> QED BY <1>16, <2>2, <3>4, <3>5, <3>6
  <2>6. CASE Wiring[s][p] # HbaPhy
    <3>1. f["init"] = 0 /\ f["phy"] = p
          /\ f["dsn"] = IF Wiring[s][p] > 0 THEN Wiring[s][p] ELSE 255
      BY <1>7, <1>16, <2>6
    <3>2. ~(f["init"] % 16 # 0)
      BY <3>1
    <3>3. PICK q : q = [phy |-> p, link |-> StoredLink(f)]
      OBVIOUS
    <3>4. SetDiscoverResp(SlotNumber(112, f), q) /\ UNCHANGED <<ctrlVars, hba_sa>>
      BY <2>3, <3>1, <3>2, <3>3 DEF Store
    <3>5. ASSUME Wiring[s][p] > 0 PROVE resp'[Wiring[s][p] - 1] # NoResp
      <4>1. Wiring[s][p] \in 1 .. NSLOT
        <5>1. \E n \in 1 .. NUM_PHY :
                 Wiring[s] \in [0 .. n - 1 -> 1 .. NSLOT \cup {HbaPhy, NoSlot, Vacant}]
          BY <1>3, SessionAssumption
        <5>2. p \in DOMAIN Wiring[s]
          BY <1>2, <1>4, <1>16
        <5>3. Wiring[s][p] \in 1 .. NSLOT \cup {HbaPhy, NoSlot, Vacant}
          BY <5>1, <5>2
        <5> QED BY <3>5, <5>3 DEF HbaPhy, NoSlot, Vacant
      <4>2. NSLOT \in Int
        BY TableAssumption DEF NSLOT
      <4>3. PICK sl \in Slots : sl = Wiring[s][p] - 1
        BY <4>1, <4>2 DEF Slots
      <4>4. LastByte.dsn = 108
        BY DEF LastByte
      <4>5. SlotNumber(112, f) = Wiring[s][p]
        BY <2>4, <3>1, <3>5, <4>1, <4>2, <4>4 DEF SlotNumber
      <4>6. resp' = [resp EXCEPT ![sl] = q]
        BY <3>4, <4>3, <4>5 DEF SetDiscoverResp
      <4>7. DOMAIN resp = Slots
        BY DEF TypeInv, AnswerInv
      <4>8. resp'[sl] = q
        BY <4>6, <4>7
      <4>9. q # NoResp
        BY <1>2, <3>3 DEF NoResp
      <4> QED BY <4>3, <4>8, <4>9
    <3>6. Told(s, p)'
      BY <2>6, <3>5 DEF Told
    <3>7. UNCHANGED bsg_path /\ (hba_sa' => bsg_path'[Index(s)] # NoPath)
      BY <3>4 DEF ctrlVars
    <3> QED BY <1>16, <2>2, <3>6, <3>7
  <2> QED BY <2>5, <2>6
<1> QED BY <1>2, <1>4, <1>14, <1>15, <1>16

-----------------------------------------------------------------------------
(* What a step that neither starts, fails nor moves anything leaves alone. *)
Onward ==
    /\ Clean /\ UNCHANGED <<here, op, ctrl>>
    /\ \A sl \in Slots : resp[sl] # NoResp => resp'[sl] # NoResp
    /\ \A el \in Expdrs : bsg_path[el] # NoPath => bsg_path'[el] # NoPath
    /\ \A c \in Iocs : c < ioc_cnt => exps'[c] = exps[c]
    /\ ioc_cnt' \in {ioc_cnt, ioc_cnt + 1}

LEMMA PathsStay ==
    ASSUME TypeInv, NEW el, NEW n, n # NoPath, SetBsgPath(el, n)
    PROVE  \A x \in Expdrs : bsg_path[x] # NoPath => bsg_path'[x] # NoPath
BY DEF SetBsgPath, TypeInv, TabType, CtrlType

LEMMA SlotsStay ==
    ASSUME TypeInv, AskSlotPhy
    PROVE  /\ \A sl \in Slots : resp[sl] # NoResp => resp'[sl] # NoResp
           /\ \A el \in Expdrs : bsg_path[el] # NoPath => bsg_path'[el] # NoPath
           /\ UNCHANGED ctrl
<1>1. PICK o \in Outcomes(DiscoverAnswer) :
         LET r == Respond(Zero, o)
             len == do_discover(r)
         IN  IF len >= 0 THEN Store(len, r.buf)
             ELSE UNCHANGED <<slotVars, ctrlVars, hba_sa>>
  BY DEF AskSlotPhy
<1>2. PICK r : r = smp_send_req(tobj.opened, tobj.selector, Zero, o)
  OBVIOUS
<1>3. PICK len : len = do_discover(r)
  OBVIOUS
<1>4. IF len >= 0 THEN Store(len, r.buf) ELSE UNCHANGED <<slotVars, ctrlVars, hba_sa>>
  BY <1>1, <1>2, <1>3 DEF Respond
<1>5. CASE ~(len >= 0)
  BY <1>4, <1>5 DEF slotVars, ctrlVars
<1>6. CASE len >= 0
  <2>1. Reached # {}
    BY <1>2, <1>3, <1>6, NoneReached DEF TypeInv, AnswerInv, ObjectInv
  <2>2. tobj.node # NoPath
    BY <2>1, PeerReached, SessionAssumption DEF Boxes
  <2>3. CASE r.buf.init % 16 # 0
    <3>1. UNCHANGED <<slotVars, ctrl>>
          /\ \/ UNCHANGED ctrlVars
             \/ SetBsgPath(WWID_TO_INDEX(r.buf.addr), tobj.node)
      BY <1>4, <1>6, <2>3 DEF Store, SetBsgPath, ctrlVars
    <3>2. \A el \in Expdrs : bsg_path[el] # NoPath => bsg_path'[el] # NoPath
      BY <2>2, <3>1, PathsStay DEF ctrlVars
    <3> QED BY <3>1, <3>2 DEF slotVars
  <2>4. CASE ~(r.buf.init % 16 # 0)
    <3>1. PICK q : q = [phy |-> r.buf.phy, link |-> StoredLink(r.buf)]
      OBVIOUS
    <3>2. PICK dsn : dsn = SlotNumber(len, r.buf)
      OBVIOUS
    <3>3. SetDiscoverResp(dsn, q) /\ UNCHANGED ctrlVars
      BY <1>4, <1>6, <2>4, <3>1, <3>2 DEF Store
    <3>4. q # NoResp
      <4>1. r \in Reply /\ r.buf \in Frame
        <5>1. o \in Outcome
          BY OutcomeType, DiscoverAnswerIs DEF TypeInv, AnswerInv
        <5> QED BY <1>2, <5>1, ReplyType DEF Reply, TypeInv, AnswerInv, ObjectInv
      <4>2. r.buf["phy"] \in Nat
        BY <4>1 DEF Frame, Field, LastByte
      <4> QED BY <3>1, <4>2 DEF NoResp
    <3>5. resp' = resp \/ resp' = [resp EXCEPT ![dsn - 1] = q]
      BY <3>3 DEF SetDiscoverResp, slotVars
    <3>6. \A sl \in Slots : resp[sl] # NoResp => resp'[sl] # NoResp
      BY <3>4, <3>5 DEF TypeInv, AnswerInv
    <3> QED BY <3>3, <3>6 DEF ctrlVars
  <2> QED BY <2>3, <2>4
<1> QED BY <1>5, <1>6

LEMMA RowsStay ==
    ASSUME TypeInv, NEW x, NEW f, NEW v, exps' = WithField(x, f, v)
    PROVE  \A c \in Iocs : c < ioc_cnt => exps'[c] = exps[c]
<1>1. \A c \in Iocs : c # ioc_cnt => exps'[c] = exps[c]
  BY DEF WithField, TypeInv, RowsType
<1>2. \A c \in Iocs : c < ioc_cnt => c # ioc_cnt
  BY QueryAssumption DEF TypeInv, RowsType, Iocs
<1> QED BY <1>1, <1>2

LEMMA OnwardStep ==
    ASSUME TypeInv, [Next]_vars, Clean', \A o \in Ops : ~Start(o)
    PROVE  Onward
<1>1. ioc_cnt \in Nat /\ pc \in Steps
  BY TypesHold, QueryAssumption DEF TypeOK
<1>2. ASSUME UNCHANGED <<tableVars, infoVars, op, envVars>> PROVE Onward
  BY <1>2 DEF Onward, Clean, tableVars, slotVars, ctrlVars, infoVars, envVars
<1>3. ASSUME UNCHANGED <<tableVars, infoVars, op>>, Lucky PROVE Onward
  BY <1>3 DEF Onward, Clean, tableVars, slotVars, ctrlVars, infoVars, Lucky
<1>4. ASSUME UNCHANGED <<tableVars, ioc_cnt, op>>, Lucky,
             UNCHANGED exps \/ \E x, f, v : exps' = WithField(x, f, v)
      PROVE  Onward
  <2>1. \A c \in Iocs : c < ioc_cnt => exps'[c] = exps[c]
    BY <1>4, RowsStay
  <2> QED BY <1>4, <2>1 DEF Onward, Clean, tableVars, slotVars, ctrlVars, Lucky
<1>5. CASE UNCHANGED vars
  BY <1>2, <1>5 DEF vars
<1>6. CASE OpenNode
  BY <1>3, <1>6 DEF OpenNode, smp_initiator_open, Luck, Lucky
<1>7. CASE OpenPath
  BY <1>2, <1>3, <1>7 DEF OpenPath, smp_initiator_open, Luck, Lucky
<1>8. CASE NodesDone \/ NextAddress \/ AddressesDone \/ PathsDone \/ Walked \/ Close
           \/ EnclosuresDone \/ ExpandersDone
  BY <1>2, <1>8 DEF NodesDone, NextAddress, AddressesDone, PathsDone, Walked, Close,
                    EnclosuresDone, ExpandersDone
<1>9. CASE Walk
  <2>1. CASE ReportGeneral \/ AskPhy
    BY <1>3, <1>9, <2>1 DEF Walk, ReportGeneral, AskPhy, Suffers, Luck, Lucky
  <2>2. CASE PhysWalked
    BY <1>2, <1>9, <2>2 DEF Walk, PhysWalked
  <2>3. CASE AskSlotPhy
    <3>1. Lucky
      BY <2>3 DEF AskSlotPhy, Suffers, Luck, Lucky
    <3>2. UNCHANGED <<op, ioc_cnt, exps>>
      BY <1>9 DEF Walk, infoVars
    <3> QED BY <2>3, <3>1, <3>2, SlotsStay DEF Onward, Clean, Lucky
  <2> QED BY <1>9, <2>1, <2>2, <2>3 DEF Walk, Walking
<1>10. CASE populate_adpinfo \/ issue_iocfacts
  BY <1>4, <1>10 DEF populate_adpinfo, issue_iocfacts, Luck, Lucky
<1>11. CASE cfg_get_enclosure_pg0
  BY <1>4, <1>11 DEF cfg_get_enclosure_pg0, Luck, Lucky, WithField
<1>12. CASE mpi3mr_qcmd
  BY <1>4, <1>12 DEF mpi3mr_qcmd, Luck, Lucky, WithField
<1>13. CASE cfg_get_sas_exp_pg0
  <2>1. Lucky /\ UNCHANGED <<tableVars, op, ioc_cnt>>
    BY <1>13 DEF cfg_get_sas_exp_pg0, Luck, Lucky
  <2>2. PICK page : page = Page(FALSE)
    OBVIOUS
  <2>3. \/ UNCHANGED exps
        \/ exps' = [exps EXCEPT ![ioc_cnt][e].sas = page[2]]
    BY <1>13, <2>2 DEF cfg_get_sas_exp_pg0
  <2>4. UNCHANGED exps \/ exps' = WithField(e, "sas", page[2])
    BY <2>3 DEF WithField
  <2> QED BY <1>4, <2>1, <2>4
<1>14. CASE report_manufacturer
  <2>1. Lucky /\ UNCHANGED <<op, ioc_cnt, slotVars>>
        /\ SetBsgPath(WWID_TO_INDEX(tobj.addr), tobj.node)
    BY <1>14 DEF report_manufacturer, Suffers, Luck, Lucky
  <2>2. UNCHANGED exps \/ \E x, f, v : exps' = WithField(x, f, v)
    BY <1>14 DEF report_manufacturer, WithField
  <2>3. \A c \in Iocs : c < ioc_cnt => exps'[c] = exps[c]
    BY <2>2, RowsStay
  <2>4. tobj.node # NoPath
    BY <1>14, SessionAssumption DEF report_manufacturer, TypeInv, AnswerInv, Boxes
  <2>5. \A x \in Expdrs : bsg_path[x] # NoPath => bsg_path'[x] # NoPath
    BY <2>1, <2>4, PathsStay
  <2> QED BY <2>1, <2>3, <2>5 DEF Onward, Clean, Lucky, SetBsgPath, slotVars
<1>15. CASE CloseIoc
  BY <1>15 DEF CloseIoc, Onward, Clean, tableVars, slotVars, ctrlVars, envVars
<1>16. ASSUME NEW x \in Removable, Change(x) PROVE FALSE
  BY <1>16 DEF Change, Clean
<1> QED BY <1>5, <1>6, <1>7, <1>8, <1>9, <1>10, <1>11, <1>12, <1>13, <1>14, <1>15, <1>16
        DEF Next, mpi3mr_iocfacts

(* What is told stays told, what is shown stays shown.                     *)
LEMMA ToldOn ==
    ASSUME Onward, NEW s \in Ses, NEW p \in DOMAIN Wiring[s], Told(s, p)
    PROVE  Told(s, p)'
<1>1. Index(s) \in Expdrs
  BY IndexOf
<1>2. Wiring[s][p] > 0 => Wiring[s][p] - 1 \in Slots
  <2>1. PICK n \in 1 .. NUM_PHY :
           Wiring[s] \in [0 .. n - 1 -> 1 .. NSLOT \cup {HbaPhy, NoSlot, Vacant}]
    BY SessionAssumption
  <2>2. Wiring[s][p] \in 1 .. NSLOT \cup {HbaPhy, NoSlot, Vacant}
    BY <2>1
  <2>3. NSLOT \in Int
    BY TableAssumption DEF NSLOT
  <2> QED BY <2>2, <2>3 DEF HbaPhy, NoSlot, Vacant, Slots
<1> QED BY <1>1, <1>2 DEF Onward, Told

LEMMA WholeOn ==
    ASSUME Onward, NEW s \in Ses, Whole(s)
    PROVE  Whole(s)'
BY ToldOn DEF Whole

LEMMA ShownOn ==
    ASSUME Onward, TypeInv, NEW b \in Shown
    PROVE  b \in Shown' /\ exps'[b[1]][b[2]] = exps[b[1]][b[2]]
<1>1. ioc_cnt \in Nat /\ b[1] \in Iocs /\ b[1] \in Nat /\ b[1] < ioc_cnt
  BY QueryAssumption DEF Shown, TypeInv, RowsType, Iocs
<1>2. exps'[b[1]] = exps[b[1]]
  BY <1>1 DEF Onward
<1>3. b[1] < ioc_cnt'
  BY <1>1 DEF Onward
<1> QED BY <1>2, <1>3 DEF Shown

LEMMA ShowsOn ==
    ASSUME Onward, TypeInv, NEW n \in Node, Shows(n)
    PROVE  Shows(n)'
<1> SUFFICES ASSUME NEW j \in DOMAIN Chain[n] \cap 1 .. NUM_EXP_PER_HBA, Chain[n][j] \in here
             PROVE  /\ bsg_path'[Index(Chain[n][j])] # NoPath
                    /\ \E b \in Shown' : exps'[b[1]][b[2]] = Full(Chain[n][j])
  BY DEF Shows, Onward
<1>1. Index(Chain[n][j]) \in Expdrs
  <2>1. Chain[n][j] \in Ses
    BY BoxesAreSes DEF Boxes
  <2> QED BY <2>1, IndexOf
<1>2. PICK b \in Shown : exps[b[1]][b[2]] = Full(Chain[n][j])
  BY DEF Shows
<1> QED BY <1>1, <1>2, ShownOn DEF Shows, Onward

LEMMA DirectoryOn ==
    ASSUME Onward
    PROVE  Directory(op)' = Directory(op)
BY DEF Onward, Directory, Nodes

-----------------------------------------------------------------------------
(* The discovery goes on: it neither starts, fails nor is moved under.     *)
Going ==
    /\ TypeInv /\ SameInv /\ LostInv /\ op \in SlotOps /\ Clean'
    /\ [Next]_vars /\ \A o \in Ops : ~Start(o)

LEMMA GoesOn ==
    ASSUME Going
    PROVE  /\ Onward /\ StepsInv /\ AskedInv /\ PassedInv
           /\ op = "mpi3mr_slot_discover" =>
                 AdaptersInv /\ PathsInv /\ (pc \in IocSteps => FilledInv)
<1>1. Onward
  BY OnwardStep DEF Going
<1> QED BY <1>1 DEF Going, LostInv, Onward, TypeInv

LEMMA OpensWell ==
    ASSUME NEW n \in here, NEW sel \in {"I_SGV4", "I_SGV4_MPI"}, NEW addr,
           NEW ok \in BOOLEAN, smp_initiator_open(n, sel, addr, ok), ~faulted'
    PROVE  /\ ok /\ tobj'.opened /\ tobj'.node = n /\ tobj'.selector = sel /\ tobj'.addr = addr
<1>1. ok
  BY DEF smp_initiator_open, Luck
<1>2. tobj' = [opened |-> TRUE, node |-> n, selector |-> sel, addr |-> addr]
  BY <1>1 DEF smp_initiator_open
<1> QED BY <1>1, <1>2

(* The walk begins.                                                        *)
LEMMA AskedBegins ==
    ASSUME Onward, NotWalking, UNCHANGED walkVars, pc' = "slot",
           tobj'.opened, tobj'.node \in here,
           tobj'.selector = IF op = "slot_discover" THEN "I_SGV4" ELSE "I_SGV4_MPI",
           \A s, t \in Target' : s = t
    PROVE  AskedInv'
<1>1. k' = 0 /\ hba_sa' = FALSE
  BY DEF NotWalking, walkVars
<1>2. \A s \in Ses : \A p \in DOMAIN Wiring[s] : p \in Nat
  BY PhysAre
<1>3. \A s \in Ses : \A p \in DOMAIN Wiring[s] : ~(p < k')
  BY <1>1, <1>2
<1>4. Reached' \subseteq Ses
  BY BoxesAreSes DEF Reached, Target
<1> QED BY <1>1, <1>3, <1>4 DEF AskedInv, Onward

LEMMA AskedOpensNode ==
    ASSUME Going, OpenNode, op = "slot_discover"
    PROVE  AskedInv'
<1>1. PICK j \in list, ok \in BOOLEAN :
         smp_initiator_open(Nodes(op)[j], Interface, 0, ok) /\ pc' = IF ok THEN FirstStep ELSE "node"
  BY DEF OpenNode
<1>2. PICK n : n = Expanders[j]
  OBVIOUS
<1>3. n \in here /\ n \in Node /\ Len(Chain[n]) = 1
  BY <1>2, GoesOn, QueryAssumption DEF PassedInv, Directory, Nodes
<1>4. smp_initiator_open(n, "I_SGV4", 0, ok)
  BY <1>1, <1>2 DEF Nodes, Interface
<1>5. ok /\ tobj'.opened /\ tobj'.node = n /\ tobj'.selector = "I_SGV4"
  BY <1>3, <1>4, OpensWell DEF Going, Clean
<1>6. pc' = "slot" /\ NotWalking /\ UNCHANGED walkVars
  BY <1>1, <1>5, GoesOn DEF FirstStep, StepsInv, OpenNode
<1>7. \A s, t \in Boxes(n) : s = t
  <2>1. Chain[n] \in Seq(Ses)
    BY <1>3, SessionAssumption
  <2>2. DOMAIN Chain[n] = 1 .. 1
    BY <1>3, <2>1
  <2> QED BY <2>2 DEF Boxes
<1>8. \A s, t \in Target' : s = t
  BY <1>5, <1>7 DEF Target
<1> QED BY <1>3, <1>5, <1>6, <1>8, AskedBegins, GoesOn

LEMMA AskedOpensPath ==
    ASSUME Going, OpenPath, pc' \in Talking
    PROVE  AskedInv'
<1>1. op = "mpi3mr_slot_discover" /\ pc = "path" /\ i < NEXPDR /\ i \in Expdrs
  BY GoesOn, SessionAssumption DEF OpenPath, StepsInv, OpSteps, Going, SlotOps, Expdrs
<1>2. bsg_path[i] # NoPath /\ bsg_path[i] \in here
  BY <1>1, GoesOn DEF OpenPath, PathsInv, Talking
<1>3. PICK n \in here : n = bsg_path[i]
  BY <1>2
<1>4. PICK a : a = wwid64(i)
  OBVIOUS
<1>5. PICK ok \in BOOLEAN :
         smp_initiator_open(n, "I_SGV4_MPI", a, ok) /\ (ok => pc' = "slot")
  BY <1>2, <1>3, <1>4 DEF OpenPath
<1>6. /\ ok /\ tobj'.opened /\ tobj'.node = n /\ tobj'.selector = "I_SGV4_MPI"
      /\ tobj'.addr = a
  BY <1>5, OpensWell DEF Going, Clean
<1>7. pc' = "slot" /\ NotWalking /\ UNCHANGED walkVars
  BY <1>1, <1>5, <1>6, GoesOn DEF StepsInv, OpenPath
<1>8. \A s, t \in Target' : s = t
  <2>1. Target' \subseteq Ses /\ \A s \in Target' : Wwid[s] = a
    BY <1>6, BoxesAreSes DEF Target
  <2> QED BY <2>1, OneAddress
<1> QED BY <1>1, <1>3, <1>6, <1>7, <1>8, AskedBegins, GoesOn

(* The walk goes on or ends.                                               *)
LEMMA AskedKept ==
    ASSUME Onward, AskedInv, UNCHANGED tobj, pc \in Talking, pc' \in Talking,
           pc' = "slot" => pc = "slot" /\ UNCHANGED <<k, hba_sa>>,
           pc' # "slot" => \A s \in Reached : Whole(s)
    PROVE  AskedInv'
<1>1. Target' = Target /\ Reached' = Reached /\ Reached \subseteq Ses
  BY BoxesAreSes DEF Target, Reached, Onward
<1>2. \A s \in Reached : Index(s) \in Expdrs
  BY <1>1, IndexOf
<1>3. \A s \in Reached : Whole(s) => Whole(s)'
  BY <1>1, WholeOn
<1>4. \A s \in Reached : \A p \in DOMAIN Wiring[s] : Told(s, p) => Told(s, p)'
  BY <1>1, ToldOn
<1>5. CASE pc' = "slot"
  <2>1. \A s \in Reached : /\ \A p \in DOMAIN Wiring[s] : p < k => Told(s, p)
                           /\ hba_sa => bsg_path[Index(s)] # NoPath
    BY <1>5 DEF AskedInv
  <2>2. \A s \in Reached : /\ \A p \in DOMAIN Wiring[s] : p < k' => Told(s, p)'
                           /\ hba_sa' => bsg_path'[Index(s)] # NoPath
    BY <1>2, <1>4, <1>5, <2>1 DEF Onward
  <2> QED BY <1>1, <1>5, <2>2 DEF AskedInv, Onward
<1>6. CASE pc' # "slot"
  BY <1>1, <1>3, <1>6 DEF AskedInv, Onward
<1> QED BY <1>5, <1>6

LEMMA AskedSlotPhy ==
    ASSUME Going, AskSlotPhy
    PROVE  AskedInv'
<1>1. /\ Onward /\ AskedInv /\ TypeInv /\ pc = "slot" /\ UNCHANGED tobj
      /\ pc' \in {"slot", "walked"}
  BY GoesOn DEF AskSlotPhy, Result, Going
<1>2. Target' = Target /\ Reached' = Reached /\ Reached \subseteq Target
  BY <1>1 DEF Target, Reached, Onward
<1>3. CASE Reached = {}
  BY <1>1, <1>2, <1>3 DEF AskedInv, Talking, Onward
<1>4. CASE Reached # {}
  <2>1. PICK s : s = Peer
    OBVIOUS
  <2>2. PICK p : p = k
    OBVIOUS
  <2>3. s \in Target /\ s \in Ses
    BY <1>2, <1>4, <2>1, PeerReached DEF Peer
  <2>4. \A t \in Reached : t = s
    BY <1>1, <1>2, <2>3 DEF AskedInv, Talking
  <2>5. /\ \A q \in DOMAIN Wiring[s] : q < p => Told(s, q)
        /\ hba_sa => bsg_path[Index(s)] # NoPath
    BY <1>1, <1>4, <2>2, <2>4 DEF AskedInv, Talking
  <2>6. tobj.opened /\ tobj.selector \in {"I_SGV4", "I_SGV4_MPI"} /\ ~faulted'
    BY <1>1 DEF AskedInv, Talking, Going, Clean
  <2>7. p \in Nat
    BY <1>1, <2>2 DEF TypeInv, AnswerInv
  <2>8. Phys(s) \in Nat /\ DOMAIN Wiring[s] = 0 .. Phys(s) - 1
    BY <2>3, PhysAre
  <2>9. \A q \in DOMAIN Wiring[s] : q < p => Told(s, q)'
    BY <1>1, <2>3, <2>5, ToldOn
  <2>10. CASE pc' = "walked" /\ p >= Phys(s)
    <3>1. \A q \in DOMAIN Wiring[s] : q < p
      BY <2>7, <2>8, <2>10
    <3>2. Whole(s)'
      BY <2>9, <3>1 DEF Whole
    <3> QED BY <1>1, <1>2, <2>4, <2>10, <3>2 DEF AskedInv, Talking, Onward
  <2>11. CASE /\ pc' = pc /\ k' = p + 1 /\ Told(s, p)'
              /\ hba_sa' => bsg_path'[Index(s)] # NoPath
    <3>1. \A q \in DOMAIN Wiring[s] : q < k' => q < p \/ q = p
      BY <2>7, <2>8, <2>11
    <3>2. \A q \in DOMAIN Wiring[s] : q < k' => Told(s, q)'
      BY <2>9, <2>11, <3>1
    <3> QED BY <1>1, <1>2, <2>4, <2>11, <3>2 DEF AskedInv, Talking, Onward
  <2> QED BY <1>1, <1>4, <2>1, <2>2, <2>5, <2>6, <2>10, <2>11, PhyTold
<1> QED BY <1>3, <1>4

LEMMA AskedWalk ==
    ASSUME Going, Walk
    PROVE  AskedInv'
<1>1. ~ReportGeneral /\ ~AskPhy
  BY GoesOn DEF ReportGeneral, AskPhy, StepsInv, OpSteps, Going, SlotOps, IocSteps
<1>2. CASE AskSlotPhy
  BY <1>2, AskedSlotPhy
<1>3. CASE PhysWalked
  <2>1. pc = "slot" /\ k >= NUM_PHY /\ pc' = "walked" /\ UNCHANGED tobj
    BY <1>3, GoesOn DEF PhysWalked, StepsInv, OpSteps, Going, SlotOps, IocSteps
  <2>2. k \in Nat /\ NUM_PHY \in Nat
    BY SessionAssumption DEF Going, TypeInv, AnswerInv
  <2>3. \A s \in Ses : \A p \in DOMAIN Wiring[s] : p < k
    BY <2>1, <2>2, WiredPhys
  <2>4. Reached \subseteq Ses
    BY BoxesAreSes DEF Reached, Target
  <2>5. \A s \in Reached : Whole(s)
    BY <2>1, <2>3, <2>4, GoesOn DEF AskedInv, Talking, Whole
  <2> QED BY <2>1, <2>5, GoesOn, AskedKept DEF Talking
<1> QED BY <1>1, <1>2, <1>3 DEF Walk, Walking

LEMMA AskedStep ==
    ASSUME Going
    PROVE  AskedInv'
<1> SUFFICES ASSUME pc' \in Talking PROVE AskedInv'
  BY DEF AskedInv
<1>1. pc # "idle" => pc \in OpSteps(op)
  BY GoesOn DEF StepsInv
<1>2. op \in SlotOps /\ [Next]_vars
  BY DEF Going
<1>3. CASE UNCHANGED vars
  <2>1. UNCHANGED <<tobj, pc, k, hba_sa>>
    BY <1>3 DEF vars, walkVars
  <2>2. pc # "slot" => \A s \in Reached : Whole(s)
    BY <2>1, GoesOn DEF AskedInv
  <2> QED BY <2>1, <2>2, GoesOn, AskedKept
<1>4. CASE OpenNode
  <2>1. op = "slot_discover"
    BY <1>2, <1>4 DEF OpenNode, FirstStep, Talking, SlotOps
  <2> QED BY <1>4, <2>1, AskedOpensNode
<1>5. CASE OpenPath
  BY <1>5, AskedOpensPath
<1>6. CASE Walk
  BY <1>6, AskedWalk
<1>7. CASE Walked
  <2>1. pc = "walked" /\ pc' = "close" /\ UNCHANGED tobj
    BY <1>2, <1>7 DEF Walked, StartWalk, SlotOps
  <2>2. \A s \in Reached : Whole(s)
    BY <2>1, GoesOn DEF AskedInv, Talking
  <2> QED BY <2>1, <2>2, GoesOn, AskedKept DEF Talking
<1>8. ~NodesDone /\ ~PathsDone /\ ~Close
  BY DEF NodesDone, PathsDone, Close, Talking
<1>9. ~NextAddress /\ ~AddressesDone
  BY <1>1, <1>2 DEF NextAddress, AddressesDone, OpSteps, SlotOps, IocSteps
<1>10. ~mpi3mr_iocfacts
  BY DEF mpi3mr_iocfacts, populate_adpinfo, issue_iocfacts, cfg_get_enclosure_pg0,
         EnclosuresDone, mpi3mr_qcmd, cfg_get_sas_exp_pg0, report_manufacturer,
         ExpandersDone, CloseIoc, Talking
<1>11. ASSUME NEW x \in Removable, Change(x) PROVE FALSE
  BY <1>11 DEF Change, Going, Clean
<1> QED BY <1>2, <1>3, <1>4, <1>5, <1>6, <1>7, <1>8, <1>9, <1>10, <1>11 DEF Next, Going

-----------------------------------------------------------------------------
(* slot_discover leaves no node out.                                       *)
LEMMA PassedKept ==
    ASSUME Going, UNCHANGED list, pc' = "idle" => pc = "idle",
           pc \in Talking => pc' \in Talking /\ tobj'.node = tobj.node
    PROVE  PassedInv'
<1> SUFFICES ASSUME op = "slot_discover" PROVE PassedInv'
  BY GoesOn DEF PassedInv, Onward
<1>1. Onward /\ PassedInv /\ Directory(op)' = Directory(op)
  BY GoesOn, DirectoryOn
<1>2. \A s \in Ses : Whole(s) => Whole(s)'
  BY <1>1, WholeOn
<1>3. \A n : Boxes(n) \subseteq Ses
  BY BoxesAreSes
<1> QED BY <1>1, <1>2, <1>3 DEF PassedInv, Onward

LEMMA PassedStep ==
    ASSUME Going
    PROVE  PassedInv'
<1> SUFFICES ASSUME op = "slot_discover" PROVE PassedInv'
  BY GoesOn DEF PassedInv, Onward
<1>1. /\ Onward /\ PassedInv /\ AskedInv /\ Directory(op)' = Directory(op)
      /\ UNCHANGED <<here, op>>
  BY GoesOn, DirectoryOn DEF Onward
<1>2. \A s \in Ses : Whole(s) => Whole(s)'
  BY <1>1, WholeOn
<1>3. \A n : Boxes(n) \subseteq Ses
  BY BoxesAreSes
<1>4. pc # "idle" => pc \in {"node", "slot", "walked", "close"}
  BY GoesOn DEF StepsInv, OpSteps
<1>5. [Next]_vars
  BY DEF Going
<1>6. CASE UNCHANGED vars
  BY <1>6, PassedKept DEF vars
<1>7. CASE OpenNode
  <2>1. PICK j \in list, ok \in BOOLEAN :
           /\ smp_initiator_open(Nodes(op)[j], Interface, 0, ok)
           /\ list' = list \ {j} /\ pc' = IF ok THEN FirstStep ELSE "node"
    BY <1>7 DEF OpenNode
  <2>2. PICK n : n = Expanders[j]
    OBVIOUS
  <2>3. n \in here
    BY <1>1, <2>2 DEF PassedInv, Directory, Nodes
  <2>4. smp_initiator_open(n, "I_SGV4", 0, ok)
    BY <2>1, <2>2 DEF Nodes, Interface
  <2>5. ok /\ tobj'.node = n
    BY <2>3, <2>4, OpensWell DEF Going, Clean
  <2>6. pc = "node" /\ pc' = "slot"
    BY <1>7, <2>1, <2>5 DEF FirstStep, OpenNode
  <2>7. \A l \in Directory(op) \ list : \A s \in Boxes(Expanders[l]) \cap here : Whole(s)'
    BY <1>1, <1>2, <1>3, <2>6 DEF PassedInv, Talking
  <2>8. list' \subseteq Directory(op)'
    BY <1>1, <2>1 DEF PassedInv
  <2>9. \A l \in Directory(op)' \ list' : l = j \/ l \in Directory(op) \ list
    BY <1>1, <2>1
  <2> QED BY <1>1, <2>2, <2>5, <2>6, <2>7, <2>8, <2>9 DEF PassedInv, Talking
<1>8. CASE NodesDone
  <2>1. pc = "node" /\ list = {} /\ list' = {} /\ pc' = "idle"
    BY <1>8 DEF NodesDone
  <2>2. \A l \in Directory(op) \ list : \A s \in Boxes(Expanders[l]) \cap here : Whole(s)'
    BY <1>1, <1>2, <1>3, <2>1 DEF PassedInv, Talking
  <2> QED BY <1>1, <2>1, <2>2 DEF PassedInv
<1>9. CASE Close
  <2>1. pc = "close" /\ pc' = "node" /\ UNCHANGED list
    BY <1>9 DEF Close
  <2>2. tobj.node \in here /\ tobj.selector = "I_SGV4" /\ \A s \in Reached : Whole(s)
    BY <1>1, <2>1 DEF AskedInv, Talking
  <2>3. Reached = Boxes(tobj.node) \cap here
    BY <2>2 DEF Reached, Target
  <2>4. \A l \in Directory(op) \ list : \A s \in Boxes(Expanders[l]) \cap here : Whole(s)
    BY <1>1, <2>2, <2>3 DEF PassedInv
  <2>5. \A l \in Directory(op) \ list : \A s \in Boxes(Expanders[l]) \cap here : Whole(s)'
    BY <1>2, <1>3, <2>4
  <2> QED BY <1>1, <2>1, <2>5 DEF PassedInv
<1>10. CASE Walk
  <2>1. UNCHANGED <<list, tobj>> /\ pc # "idle" /\ pc' # "idle" /\ (pc \in Talking => pc' \in Talking)
    BY <1>10 DEF Walk, Walking, ReportGeneral, AskPhy, AskSlotPhy, PhysWalked, Result, Talking
  <2> QED BY <2>1, PassedKept
<1>11. CASE Walked
  <2>1. UNCHANGED <<list, tobj>> /\ pc = "walked" /\ pc' = "close"
    BY <1>11 DEF Walked, StartWalk
  <2> QED BY <2>1, PassedKept DEF Talking
<1>12. ~NextAddress /\ ~AddressesDone /\ ~OpenPath /\ ~PathsDone
  BY <1>4 DEF NextAddress, AddressesDone, OpenPath, PathsDone
<1>13. ~mpi3mr_iocfacts
  BY <1>4 DEF mpi3mr_iocfacts, populate_adpinfo, issue_iocfacts, cfg_get_enclosure_pg0,
         EnclosuresDone, mpi3mr_qcmd, cfg_get_sas_exp_pg0, report_manufacturer,
         ExpandersDone, CloseIoc
<1>14. ASSUME NEW x \in Removable, Change(x) PROVE FALSE
  BY <1>14 DEF Change, Going, Clean
<1> QED BY <1>5, <1>6, <1>7, <1>8, <1>9, <1>10, <1>11, <1>12, <1>13, <1>14 DEF Next, Going

-----------------------------------------------------------------------------
(* A page of zeros comes when every page has been read.                    *)
LEMMA Least ==
    ASSUME NEW S, S \subseteq Nat, S # {}
    PROVE  \E m \in S : \A n \in S : m <= n
<1>1. PICK m \in S : \A n \in S : <<n, m>> \notin OpToRel(<, Nat)
  BY WFMin, NatLessThanWellFounded, Zenon
<1>2. ASSUME NEW n \in S PROVE m <= n
  <2>1. n \in Nat /\ m \in Nat
    OBVIOUS
  <2>2. ~(n < m)
    BY <1>1, <2>1, Zenon DEF OpToRel
  <2> QED BY <2>1, <2>2
<1> QED BY <1>2

LEMMA LastPage ==
    ASSUME NEW own \in BOOLEAN, NEW page, page = Page(own), page[2] = NoDev, handle \in Nat
    PROVE  UpTo(ListedAt(tobj.node), handle) = ListedAt(tobj.node)
<1> DEFINE all == Pages(own)
           next == {p \in all : p[1] > handle /\ \A q \in all : q[1] > handle => p[1] <= q[1]}
           chain == Chain[tobj.node]
           L == ListedAt(tobj.node)
           M == {l \in L : l + 1 > handle}
<1>1. page = IF next = {} THEN <<0, NoDev>> ELSE CHOOSE p \in next : TRUE
  BY DEF Page
<1>2. all = (IF own THEN {<<1, Own>>} ELSE {}) \cup {<<j + 1, chain[j]>> : j \in L}
  BY DEF Pages, ListedAt
<1>3. \A j \in L : chain[j] # NoDev /\ j \in Nat \ {0}
  BY ListedFinite, BoxesAreSes, TableAssumption DEF ListedAt, DName
<1> HIDE DEF next
<1>4. next = {}
  <2> SUFFICES ASSUME next # {} PROVE FALSE
    OBVIOUS
  <2>1. page \in next
    BY <1>1
  <2>2. page \in all
    BY <2>1 DEF next
  <2> HIDE DEF all, chain, L
  <2>3. CASE own /\ page = <<1, Own>>
    <3>1. page = <<1, Own>>
      BY <2>3
    <3>2. page[2] = Own
      BY <3>1, Pair
    <3> QED BY <3>2, QueryAssumption
  <2>4. CASE \E j \in L : page = <<j + 1, chain[j]>>
    <3>1. PICK j \in L : page = <<j + 1, chain[j]>>
      BY <2>4
    <3>2. page[2] = chain[j]
      BY <3>1
    <3> QED BY <1>3, <3>2
  <2> QED BY <1>2, <2>2, <2>3, <2>4
<1> HIDE DEF all, chain, L
<1>5. ASSUME M # {} PROVE next # {}
  <2>1. M \subseteq Nat
    BY <1>3
  <2>2. PICK m \in M : \A l \in M : m <= l
    BY <1>5, <2>1, Least
  <2>3. m \in L /\ m \in Nat /\ m + 1 > handle
    BY <2>1
  <2>4. \A q \in all : (q = <<1, Own>> /\ own) \/ \E j \in L : q = <<j + 1, chain[j]>>
    BY <1>2
  <2>5. \A q \in all : (q[1] = 1 /\ own) \/ \E j \in L : q[1] = j + 1
    BY <2>4
  <2>6. CASE own /\ 1 > handle
    <3>1. PICK p : p = <<1, Own>>
      OBVIOUS
    <3>2. p[1] = 1 /\ p \in all
      BY <1>2, <2>6, <3>1
    <3>3. \A q \in all : p[1] <= q[1]
      BY <1>3, <2>5, <3>2
    <3>4. p[1] > handle
      BY <2>6, <3>2
    <3>5. p \in next
      BY <3>2, <3>3, <3>4 DEF next
    <3> QED BY <3>5
  <2>7. CASE ~(own /\ 1 > handle)
    <3>1. PICK p : p = <<m + 1, chain[m]>>
      OBVIOUS
    <3>2. p[1] = m + 1 /\ p \in all
      BY <1>2, <2>3, <3>1
    <3>3. ASSUME NEW q \in all, q[1] > handle PROVE p[1] <= q[1]
      <4>1. PICK j \in L : q[1] = j + 1
        BY <2>5, <2>7, <3>3
      <4>2. j \in M
        BY <3>3, <4>1
      <4>3. m <= j /\ j \in Nat
        BY <1>3, <2>2, <4>2
      <4> QED BY <2>3, <3>2, <4>1, <4>3
    <3>4. p[1] > handle
      BY <2>3, <3>2
    <3>5. p \in next
      BY <3>2, <3>3, <3>4 DEF next
    <3> QED BY <3>5
  <2> QED BY <2>6, <2>7
<1>6. \A l \in L : l + 1 <= handle
  BY <1>3, <1>4, <1>5
<1>7. UpTo(L, handle) = L
  BY <1>6 DEF UpTo
<1> QED BY <1>7 DEF L

(* One adapter read to the end.                                            *)
LEMMA IocGoes ==
    ASSUME Going, pc \in IocSteps
    PROVE  /\ op = "mpi3mr_slot_discover" /\ FilledInv /\ Reading /\ RowsType /\ Onward
           /\ ioc_cnt \in Iocs /\ DOMAIN tobj = {"opened", "node", "selector", "addr"}
           /\ handle \in Nat /\ iexp \in Nat /\ e \in Nat /\ NUM_EXP_PER_HBA \in Nat
           /\ iexp <= NUM_EXP_PER_HBA
           /\ pc = "qcmd" => iexp \in Exps
           /\ pc = "manu" => e \in Exps
<1>1. op = "mpi3mr_slot_discover"
  BY GoesOn DEF Going, StepsInv, OpSteps, SlotOps, IocSteps
<1>2. FilledInv /\ Onward
  BY <1>1, GoesOn
<1>3. ~moved
  BY <1>2 DEF Onward, Clean
<1>4. Reading /\ Querying /\ ObjectInv
  BY <1>1, <1>3 DEF Going, SameInv, InfoInv
<1>5. NUM_EXP_PER_HBA \in Nat
  BY QueryAssumption
<1>6. RowsType /\ CountersType
  BY DEF Going, TypeInv
<1>7. /\ handle \in Nat /\ iexp \in Nat /\ e \in Nat /\ iexp <= NUM_EXP_PER_HBA
      /\ pc = "qcmd" => iexp \in Exps
      /\ pc = "manu" => e \in Exps
  BY <1>5, <1>6 DEF CountersType, Exps
<1> QED BY <1>1, <1>2, <1>4, <1>5, <1>6, <1>7 DEF Querying, ObjectInv

LEMMA FieldSet ==
    ASSUME RowsType, NEW c \in Iocs, c = ioc_cnt, NEW x \in Exps, NEW f \in Part, NEW v,
           exps' = WithField(x, f, v)
    PROVE  \A y \in Exps, g \in Part :
              exps'[c][y][g] = IF y = x /\ g = f THEN v ELSE exps[c][y][g]
<1>1. exps' = [exps EXCEPT ![c] = [exps[c] EXCEPT ![x] = [exps[c][x] EXCEPT ![f] = v]]]
  BY DEF WithField
<1>2. DOMAIN exps = Iocs /\ DOMAIN exps[c] = Exps /\ \A y \in Exps : DOMAIN exps[c][y] = Part
  BY DEF RowsType, Entry, Part
<1>3. \A y \in Exps : exps'[c][y] = IF y = x THEN [exps[c][x] EXCEPT ![f] = v] ELSE exps[c][y]
  BY <1>1, <1>2
<1> QED BY <1>2, <1>3

LEMMA IocKeeps ==
    ASSUME Onward, UNCHANGED <<ioc_cnt, exps>>, tobj'.node = tobj.node
    PROVE  /\ UNCHANGED iexp /\ VersionsRead => VersionsRead'
           /\ UNCHANGED iexp /\ AllOr(iexp) => AllOr(iexp)'
           /\ UNCHANGED e /\ AllOr(e) => AllOr(e)'
<1>1. PICK n : n = tobj.node
  OBVIOUS
<1>2. ListedAt(n)' = ListedAt(n)
  BY DEF ListedAt, Onward
<1>3. ListedAt(tobj.node)' = ListedAt(tobj.node)
  BY <1>1, <1>2
<1> QED BY <1>3 DEF VersionsRead, AllOr

LEMMA PathsRegistered ==
    ASSUME Onward, UNCHANGED e, tobj'.node = tobj.node,
           \A j \in ListedAt(tobj.node) : Place(j) < e =>
              bsg_path[Index(Chain[tobj.node][j])] # NoPath
    PROVE  \A j \in ListedAt(tobj.node)' : Place(j)' < e' =>
              bsg_path'[Index(Chain[tobj'.node][j])] # NoPath
<1>1. PICK n : n = tobj.node
  OBVIOUS
<1>2. ListedAt(n)' = ListedAt(n)
  BY DEF ListedAt, Onward
<1>3. ListedAt(tobj.node)' = ListedAt(n)
  BY <1>1, <1>2
<1>4. \A j \in ListedAt(n) : Chain[n][j] \in Ses
  BY BoxesAreSes DEF ListedAt
<1>5. \A j \in ListedAt(n) : Index(Chain[n][j]) \in Expdrs
  BY <1>4, IndexOf
<1>6. \A j \in ListedAt(n) : Place(j)' = Place(j)
  BY <1>1, <1>3 DEF Place, Under
<1>7. \A j \in ListedAt(n) : Place(j) < e => bsg_path'[Index(Chain[n][j])] # NoPath
  BY <1>1, <1>5 DEF Onward
<1> QED BY <1>1, <1>3, <1>6, <1>7

LEMMA NothingRegistered ==
    ASSUME e' = 0
    PROVE  AddressesRead'
<1>1. \A x \in Exps : ~(x < e')
  BY QueryAssumption DEF Exps
<1>2. PICK n : n = tobj'.node
  OBVIOUS
<1>3. ASSUME NEW L, IsFiniteSet(L), NEW j PROVE ~(Cardinality(Under(L, j)) < e')
  <2>1. IsFiniteSet(Under(L, j))
    BY <1>3, FS_Subset DEF Under
  <2>2. Cardinality(Under(L, j)) \in Nat
    BY <2>1, FS_CardinalityType
  <2> QED BY <2>2
<1>4. PICK H : H = here'
  OBVIOUS
<1>5. IsFiniteSet(ListedAt(tobj.node))'
  <2>1. CASE n \notin Node
    <3>1. ListedAt(tobj.node)' = {}
      BY <1>2, <2>1 DEF ListedAt, Boxes
    <3> QED BY <3>1, FS_EmptySet
  <2>2. CASE n \in Node
    <3>1. Len(Chain[n]) \in Nat /\ DOMAIN Chain[n] = 1 .. Len(Chain[n])
      BY <2>2, SessionAssumption
    <3>2. ListedAt(tobj.node)' \subseteq 1 .. Len(Chain[n])
      BY <1>2, <3>1 DEF ListedAt
    <3>3. IsFiniteSet(1 .. Len(Chain[n]))
      BY <3>1, FS_Interval
    <3> QED BY <3>2, <3>3, FS_Subset
  <2> QED BY <2>1, <2>2
<1>6. \A j : ~(Place(j)' < e')
  BY <1>3, <1>5 DEF Place
<1> QED BY <1>1, <1>6 DEF AddressesRead

LEMMA FilledEnclosure ==
    ASSUME Going, cfg_get_enclosure_pg0
    PROVE  FilledInv'
<1>1. /\ pc = "encl" /\ pc \in IocSteps /\ EnclosureTries(e)
      /\ UNCHANGED <<tobj, ioc_cnt, iexp>>
  BY DEF cfg_get_enclosure_pg0, IocSteps
<1>2. /\ FilledInv /\ Reading /\ RowsType /\ Onward /\ ioc_cnt \in Iocs
      /\ handle \in Nat /\ iexp \in Nat /\ e \in Nat /\ NUM_EXP_PER_HBA \in Nat
  BY <1>1, IocGoes
<1>3. tobj'.opened /\ tobj'.node \in here' /\ VersionsRead
  BY <1>1, <1>2 DEF FilledInv, Onward
<1>4. PICK page : page = Page(TRUE)
  OBVIOUS
<1>5. IF page[2] = NoDev
      THEN pc' = "exp" /\ e' = 0 /\ handle' = 0 /\ UNCHANGED exps
      ELSE /\ handle' = page[1]
           /\ IF page[2] # Own /\ iexp < NUM_EXP_PER_HBA
              THEN /\ exps' = [exps EXCEPT ![ioc_cnt][iexp].encl = page[2]]
                   /\ pc' = "qcmd" /\ UNCHANGED e
              ELSE e' = e + 1 /\ UNCHANGED <<exps, pc>>
  <2>1. PICK ok \in BOOLEAN :
          /\ Luck(Answers, ok)
          /\ IF ~ok \/ Page(TRUE)[2] = NoDev
             THEN /\ pc' = "exp" /\ e' = 0 /\ handle' = 0
                  /\ UNCHANGED exps
             ELSE /\ handle' = Page(TRUE)[1]
                  /\ IF Page(TRUE)[2] # Own /\ iexp < NUM_EXP_PER_HBA
                     THEN /\ exps' = [exps EXCEPT ![ioc_cnt][iexp].encl = Page(TRUE)[2]]
                          /\ pc' = "qcmd" /\ UNCHANGED e
                     ELSE e' = e + 1 /\ UNCHANGED <<exps, pc>>
    BY DEF cfg_get_enclosure_pg0
  <2>2. Answers
    BY <1>2 DEF FilledInv, Answers
  <2>3. ok
    BY <2>1, <2>2 DEF Luck, Going, Clean
  <2> QED BY <1>4, <2>1, <2>3
<1>6. CASE page[2] = NoDev
  <2>1. pc' = "exp" /\ e' = 0 /\ UNCHANGED exps
    BY <1>5, <1>6
  <2>2. AllOr(iexp)
    <3>1. UpTo(ListedAt(tobj.node), handle) = ListedAt(tobj.node)
      BY <1>2, <1>4, <1>6, LastPage
    <3>2. iexp < NUM_EXP_PER_HBA => iexp = Counted
      BY <1>1, <1>2 DEF Reading
    <3> QED BY <1>2, <3>1, <3>2 DEF AllOr, Counted
  <2>3. VersionsRead' /\ AllOr(iexp)'
    BY <1>1, <1>2, <1>3, <2>1, <2>2, IocKeeps
  <2> QED BY <1>3, <2>1, <2>3, NothingRegistered DEF FilledInv
<1>7. CASE page[2] # NoDev /\ page[2] # Own /\ iexp < NUM_EXP_PER_HBA
  <2>1. PICK v : v = page[2]
    OBVIOUS
  <2>2. pc' = "qcmd" /\ UNCHANGED e /\ handle' = page[1] /\ exps' = WithField(iexp, "encl", v)
    BY <1>5, <1>7, <2>1 DEF WithField
  <2>3. PICK c \in Iocs : c = ioc_cnt
    BY <1>2
  <2>4. iexp \in Exps /\ "encl" \in Part /\ "scsi" \in Part
    BY <1>2, <1>7 DEF Exps, Part
  <2>5. \A y \in Exps, g \in Part :
           exps'[c][y][g] = IF y = iexp /\ g = "encl" THEN v ELSE exps[c][y][g]
    BY <1>2, <2>2, <2>3, <2>4, FieldSet
  <2>6. VersionsRead'
    BY <1>1, <1>3, <1>7, <2>1, <2>3, <2>4, <2>5 DEF VersionsRead
  <2>7. handle' # 0
    <3>1. \E j \in ListedAt(tobj.node) : page[1] = j + 1
      BY <1>4, <1>7, PageIs
    <3> QED BY <2>2, <3>1, ListedFinite
  <2>8. e' <= iexp' + 1
    <3>1. e <= iexp + (IF handle = 0 THEN 0 ELSE 1)
      BY <1>1, <1>2, <1>7 DEF FilledInv
    <3> QED BY <1>1, <1>2, <2>2, <3>1
  <2>9. exps'[ioc_cnt'][iexp'].encl # NoDev
    BY <1>1, <1>7, <2>1, <2>3, <2>4, <2>5
  <2> QED BY <1>3, <2>2, <2>6, <2>7, <2>8, <2>9 DEF FilledInv
<1>8. CASE page[2] # NoDev /\ ~(page[2] # Own /\ iexp < NUM_EXP_PER_HBA)
  <2>1. pc' = "encl" /\ e' = e + 1 /\ handle' = page[1] /\ UNCHANGED exps
    BY <1>1, <1>5, <1>8
  <2>2. VersionsRead'
    BY <1>1, <1>2, <1>3, <2>1, IocKeeps
  <2>3. iexp' < NUM_EXP_PER_HBA => e' <= iexp' + (IF handle' = 0 THEN 0 ELSE 1)
    <3> SUFFICES ASSUME iexp < NUM_EXP_PER_HBA
                 PROVE  e + 1 <= iexp + (IF handle' = 0 THEN 0 ELSE 1)
      BY <1>1, <2>1
    <3>1. page[2] = Own /\ Own # NoDev
      BY <1>8
    <3>2. page[1] = 1 /\ 1 > handle
      BY <1>4, <3>1, OwnPageFirst
    <3>3. e <= iexp
      BY <1>1, <1>2, <3>2 DEF FilledInv
    <3> QED BY <1>2, <2>1, <3>2, <3>3
  <2> QED BY <1>3, <2>1, <2>2, <2>3 DEF FilledInv
<1> QED BY <1>6, <1>7, <1>8

LEMMA FilledVersion ==
    ASSUME Going, mpi3mr_qcmd
    PROVE  FilledInv'
<1>1. /\ pc = "qcmd" /\ pc \in IocSteps /\ pc' = "encl" /\ e' = e + 1
      /\ UNCHANGED <<tobj, ioc_cnt, handle>>
  BY DEF mpi3mr_qcmd, IocSteps
<1>2. /\ FilledInv /\ Reading /\ RowsType /\ Onward /\ ioc_cnt \in Iocs
      /\ handle \in Nat /\ iexp \in Nat /\ e \in Nat /\ iexp \in Exps
  BY <1>1, IocGoes
<1>3. PICK c \in Iocs : c = ioc_cnt
  BY <1>2
<1>4. PICK v : v = exps[c][iexp].encl
  OBVIOUS
<1>5. "encl" \in Part /\ "scsi" \in Part
  BY DEF Part
<1>6. v # NoDev /\ v \in here
  <2>1. v # NoDev
    BY <1>1, <1>2, <1>3, <1>4 DEF FilledInv
  <2>2. Placed(tobj.node, iexp, v)
    BY <1>2, <1>3, <1>4, <1>5, <2>1 DEF Reading, RowPlaced
  <2> QED BY <2>1, <2>2 DEF Placed, ListedAt
<1>7. iexp' = iexp + 1 /\ exps' = WithField(iexp, "scsi", v)
  <2>1. PICK ok \in BOOLEAN :
          /\ Luck(Answers /\ exps[ioc_cnt][iexp].encl \in here, ok)
          /\ exps' = IF ok THEN [exps EXCEPT ![ioc_cnt][iexp].scsi =
                                    exps[ioc_cnt][iexp].encl] ELSE exps
          /\ iexp' = NextExp(iexp, ok)
    BY DEF mpi3mr_qcmd
  <2>2. Answers /\ exps[ioc_cnt][iexp].encl \in here
    BY <1>2, <1>3, <1>4, <1>6 DEF FilledInv, Answers
  <2>3. ok
    BY <2>1, <2>2 DEF Luck, Going, Clean
  <2> QED BY <1>3, <1>4, <2>1, <2>3 DEF NextExp, WithField
<1>8. \A y \in Exps, g \in Part :
         exps'[c][y][g] = IF y = iexp /\ g = "scsi" THEN v ELSE exps[c][y][g]
  BY <1>2, <1>3, <1>5, <1>7, FieldSet
<1>9. VersionsRead'
  <2> SUFFICES ASSUME NEW x \in Exps, x < iexp'
               PROVE  exps'[c][x].encl # NoDev /\ exps'[c][x].scsi # NoDev
    BY <1>1, <1>3 DEF VersionsRead
  <2>1. x \in Nat
    BY QueryAssumption DEF Exps
  <2>2. CASE x < iexp
    BY <1>1, <1>2, <1>3, <1>5, <1>6, <1>8, <2>2 DEF FilledInv, VersionsRead
  <2>3. CASE x = iexp
    BY <1>4, <1>5, <1>6, <1>8, <2>3
  <2> QED BY <1>2, <1>7, <2>1, <2>2, <2>3
<1>10. e' <= iexp' + (IF handle' = 0 THEN 0 ELSE 1)
  <2>1. handle # 0 /\ e <= iexp + 1
    BY <1>1, <1>2 DEF FilledInv
  <2> QED BY <1>1, <1>2, <1>7, <2>1
<1>11. tobj'.opened /\ tobj'.node \in here'
  BY <1>1, <1>2 DEF FilledInv, Onward
<1> QED BY <1>1, <1>9, <1>10, <1>11 DEF FilledInv

LEMMA FilledExpander ==
    ASSUME Going, cfg_get_sas_exp_pg0
    PROVE  FilledInv'
<1>1. pc = "exp" /\ pc \in IocSteps /\ e < NUM_EXP_PER_HBA /\ UNCHANGED <<ioc_cnt, iexp, e, tableVars>>
  BY DEF cfg_get_sas_exp_pg0, IocSteps
<1>2. /\ FilledInv /\ Reading /\ RowsType /\ Onward /\ ioc_cnt \in Iocs
      /\ handle \in Nat /\ iexp \in Nat /\ e \in Nat /\ NUM_EXP_PER_HBA \in Nat
      /\ DOMAIN tobj = {"opened", "node", "selector", "addr"}
  BY <1>1, IocGoes
<1>3. VersionsRead /\ AllOr(iexp) /\ AddressesRead
  BY <1>1, <1>2 DEF FilledInv
<1>4. PICK page : page = Page(FALSE)
  OBVIOUS
<1>5. IF page[2] = NoDev
      THEN pc' = "closeIoc" /\ UNCHANGED <<exps, tobj>>
      ELSE /\ pc' = "manu" /\ \E a : tobj' = [tobj EXCEPT !.addr = a]
           /\ exps' = [exps EXCEPT ![ioc_cnt][e].sas = page[2]]
  <2>1. PICK ok \in BOOLEAN :
          /\ Luck(Answers, ok)
          /\ IF ~ok \/ Behind(Page(FALSE))
             THEN pc' = "closeIoc" /\ UNCHANGED <<exps, tobj, handle>>
             ELSE /\ pc' = "manu"
                  /\ tobj' = [tobj EXCEPT !.addr = Address(Page(FALSE)[2])]
                  /\ exps' = [exps EXCEPT ![ioc_cnt][e].sas = Page(FALSE)[2]]
    BY DEF cfg_get_sas_exp_pg0
  <2>2. Answers
    BY <1>2 DEF FilledInv, Answers
  <2>3. ok
    BY <2>1, <2>2 DEF Luck, Going, Clean
  <2> QED BY <1>4, <2>1, <2>3 DEF Behind
<1>6. tobj'.opened /\ tobj'.node = tobj.node /\ tobj'.node \in here'
  BY <1>2, <1>5 DEF FilledInv, Onward
<1>7. \A j \in ListedAt(tobj.node)' : Place(j)' < e' =>
         bsg_path'[Index(Chain[tobj'.node][j])] # NoPath
  BY <1>1, <1>2, <1>3, <1>6, PathsRegistered DEF AddressesRead
<1>8. CASE page[2] = NoDev
  <2>1. pc' = "closeIoc" /\ UNCHANGED exps
    BY <1>5, <1>8
  <2>2. AllOr(e)
    <3>1. UpTo(ListedAt(tobj.node), handle) = ListedAt(tobj.node)
      BY <1>2, <1>4, <1>8, LastPage
    <3>2. e = Counted
      BY <1>1, <1>2 DEF Reading
    <3> QED BY <3>1, <3>2 DEF AllOr, Counted
  <2>3. VersionsRead' /\ AllOr(iexp)' /\ AllOr(e)'
    BY <1>1, <1>2, <1>3, <1>6, <2>1, <2>2, IocKeeps
  <2>4. AddressesRead'
    BY <1>1, <1>3, <1>7, <2>1 DEF AddressesRead
  <2> QED BY <1>6, <2>1, <2>3, <2>4 DEF FilledInv
<1>9. CASE page[2] # NoDev
  <2>1. PICK v : v = page[2]
    OBVIOUS
  <2>2. pc' = "manu" /\ exps' = WithField(e, "sas", v)
    BY <1>5, <1>9, <2>1 DEF WithField
  <2>3. PICK c \in Iocs : c = ioc_cnt
    BY <1>2
  <2>4. e \in Exps /\ Part = {"encl", "scsi", "sas", "manu"}
    BY <1>1, <1>2 DEF Exps, Part
  <2>5. \A y \in Exps, g \in Part :
           exps'[c][y][g] = IF y = e /\ g = "sas" THEN v ELSE exps[c][y][g]
    BY <1>2, <2>2, <2>3, <2>4, FieldSet
  <2>6. VersionsRead'
    BY <1>1, <1>3, <2>3, <2>4, <2>5 DEF VersionsRead
  <2>7. AddressesRead'
    <3>1. \A x \in Exps : x < e' => exps'[c][x].sas # NoDev /\ exps'[c][x].manu # NoDev
      BY <1>1, <1>3, <1>9, <2>1, <2>3, <2>4, <2>5 DEF AddressesRead
    <3> QED BY <1>1, <1>7, <2>3, <3>1 DEF AddressesRead
  <2>8. AllOr(iexp)'
    <3>1. PICK n : n = tobj.node
      OBVIOUS
    <3>2. ListedAt(n)' = ListedAt(n)
      BY <1>2 DEF ListedAt, Onward
    <3>3. ListedAt(tobj.node)' = ListedAt(tobj.node)
      BY <1>6, <3>1, <3>2
    <3> QED BY <1>1, <1>3, <3>3 DEF AllOr
  <2>9. exps'[ioc_cnt'][e'].sas # NoDev
    BY <1>1, <1>9, <2>1, <2>3, <2>4, <2>5
  <2> QED BY <1>6, <2>2, <2>6, <2>7, <2>8, <2>9 DEF FilledInv
<1> QED BY <1>8, <1>9

LEMMA ManufacturerTold ==
    ASSUME Going, report_manufacturer, NEW s \in Ses, tobj.addr = Wwid[s],
           Placed(tobj.node, e, s)
    PROVE  exps' = WithField(e, "manu", s)
<1>1. pc = "manu" /\ pc \in IocSteps
  BY DEF report_manufacturer, IocSteps
<1>2. FilledInv /\ Reading
  BY <1>1, IocGoes
<1>3. tobj.opened /\ tobj.node \in here /\ tobj.selector = "I_SGV4_MPI"
  BY <1>2 DEF FilledInv, Reading
<1>4. s \in Boxes(tobj.node) \cap here
  BY DEF Placed, ListedAt
<1>5. s \in Reached
  BY <1>3, <1>4 DEF Reached, Target
<1>6. \A t \in Target : t = s
  BY <1>3, BoxesAreSes, OneAddress DEF Target
<1>7. Peer = s
  BY <1>5, <1>6 DEF Peer, Reached
<1>8. PICK o \in Outcomes(ManufacturerAnswer) :
        /\ Suffers(o, ManufacturerAnswer)
        /\ exps' = IF Respond(Zero, o).buf = Zero THEN exps
                   ELSE [exps EXCEPT ![ioc_cnt][e].manu = Peer]
  BY DEF report_manufacturer
<1>9. o = Accepted(ManufacturerAnswer)
  BY <1>5, <1>8 DEF Suffers, Luck, Going, Clean
<1>10. PICK f : f = ManufacturerAnswer
  OBVIOUS
<1>11. f \in Frame /\ f # Zero
  <2>1. Field = {"type", "fn", "res", "words", "phy", "dev", "rate", "init", "addr", "hba",
                 "name", "dsn"}
    BY DEF Field, LastByte
  <2>2. f = [[[[Zero EXCEPT !.type = RESP] EXCEPT !.fn = REPORT_MANUFACTURER] EXCEPT !.res = 0]
               EXCEPT !.words = 14]
    BY <1>10 DEF ManufacturerAnswer, Reporting
  <2>3. Zero = [x \in Field |-> 0]
    BY DEF Zero
  <2>4. f = [x \in Field |-> IF x = "type" THEN RESP ELSE IF x = "fn" THEN REPORT_MANUFACTURER
                             ELSE IF x = "words" THEN 14 ELSE 0]
    BY <2>1, <2>2, <2>3
  <2>5. f["type"] = RESP /\ Zero["type"] = 0 /\ RESP # 0
    BY <2>1, <2>3, <2>4 DEF RESP
  <2>6. f \in Frame
    <3>1. Header \subseteq Field
      BY <2>1 DEF Header
    <3>2. {0, 1, 14, RESP, REPORT_MANUFACTURER} \subseteq Byte \cap Nat
      BY DEF RESP, REPORT_MANUFACTURER, Byte
    <3>3. f \in [Field -> Nat] /\ \A x \in Header : f[x] \in Byte
      BY <2>4, <3>1, <3>2
    <3> QED BY <3>3 DEF Frame
  <2> QED BY <2>5, <2>6
<1>12. PICK r : r = smp_send_req(TRUE, "I_SGV4_MPI", Zero, Accepted(f))
  OBVIOUS
<1>13. r = Respond(Zero, o)
  <2>1. PICK t : t = tobj.opened
    OBVIOUS
  <2>2. t = TRUE
    BY <1>3, <2>1 DEF Going, TypeInv, AnswerInv, ObjectInv
  <2>3. o = Accepted(f)
    BY <1>9, <1>10
  <2>4. Respond(Zero, o) = smp_send_req(t, "I_SGV4_MPI", Zero, o)
    BY <1>3, <2>1 DEF Respond
  <2> QED BY <1>12, <2>2, <2>3, <2>4
<1>14. Brings(r, f)
  BY <1>11, <1>12, AcceptedReply
<1>15. exps' = [exps EXCEPT ![ioc_cnt][e].manu = s]
  BY <1>7, <1>8, <1>11, <1>13, <1>14 DEF Brings
<1> QED BY <1>15 DEF WithField

LEMMA FilledManufacturer ==
    ASSUME Going, report_manufacturer
    PROVE  FilledInv'
<1>1. /\ pc = "manu" /\ pc \in IocSteps /\ pc' = "exp" /\ e' = e + 1
      /\ UNCHANGED <<ioc_cnt, iexp, tobj>>
      /\ SetBsgPath(WWID_TO_INDEX(tobj.addr), tobj.node)
  BY DEF report_manufacturer, IocSteps
<1>2. /\ FilledInv /\ Reading /\ RowsType /\ Onward /\ ioc_cnt \in Iocs
      /\ iexp \in Nat /\ e \in Nat /\ e \in Exps
  BY <1>1, IocGoes
<1>3. VersionsRead /\ AllOr(iexp) /\ AddressesRead /\ tobj'.opened /\ tobj'.node \in here'
  BY <1>1, <1>2 DEF FilledInv, Onward
<1>4. PICK s \in Ses : tobj.addr = Wwid[s] /\ Placed(tobj.node, e, s)
  BY <1>1, <1>2 DEF Reading
<1>5. exps' = WithField(e, "manu", s)
  BY <1>4, ManufacturerTold
<1>6. PICK c \in Iocs : c = ioc_cnt
  BY <1>2
<1>7. Part = {"encl", "scsi", "sas", "manu"}
  BY DEF Part
<1>8. \A y \in Exps, g \in Part :
         exps'[c][y][g] = IF y = e /\ g = "manu" THEN s ELSE exps[c][y][g]
  BY <1>2, <1>5, <1>6, <1>7, FieldSet
<1>9. s # NoDev
  BY TableAssumption DEF DName
<1>10. VersionsRead'
  BY <1>1, <1>3, <1>6, <1>7, <1>8 DEF VersionsRead
<1>11. \A x \in Exps : x < e' => exps'[c][x].sas # NoDev /\ exps'[c][x].manu # NoDev
  <2> SUFFICES ASSUME NEW x \in Exps, x < e'
               PROVE  exps'[c][x].sas # NoDev /\ exps'[c][x].manu # NoDev
    OBVIOUS
  <2>1. x \in Nat
    BY QueryAssumption DEF Exps
  <2>2. CASE x < e
    BY <1>3, <1>6, <1>7, <1>8, <1>9, <2>2 DEF AddressesRead
  <2>3. CASE x = e
    BY <1>1, <1>2, <1>6, <1>7, <1>8, <1>9, <2>3 DEF FilledInv
  <2> QED BY <1>1, <1>2, <2>1, <2>2, <2>3
<1>12. PICK n : n = tobj.node
  OBVIOUS
<1>13. ListedAt(n)' = ListedAt(n)
  BY <1>2 DEF ListedAt, Onward
<1>14. ListedAt(tobj.node)' = ListedAt(n) /\ tobj'.node = n
  BY <1>1, <1>12, <1>13
<1>15. \A j \in ListedAt(n) : bsg_path'[Index(Chain[n][j])] # NoPath \/ ~(Place(j)' < e')
  <2> SUFFICES ASSUME NEW j \in ListedAt(n), Place(j)' < e'
               PROVE  bsg_path'[Index(Chain[n][j])] # NoPath
    OBVIOUS
  <2>1. PICK x : x = Cardinality(Under(ListedAt(n), j))
    OBVIOUS
  <2>2. Place(j) = x /\ Place(j)' = x
    BY <1>12, <1>14, <2>1 DEF Place
  <2>3. x \in Nat
    <3>1. IsFiniteSet(Under(ListedAt(n), j))
      BY ListedFinite, FS_Subset DEF Under
    <3> QED BY <2>1, <3>1, FS_CardinalityType
  <2>4. Index(Chain[n][j]) \in Expdrs
    <3>1. Chain[n][j] \in Ses
      BY BoxesAreSes DEF ListedAt
    <3> QED BY <3>1, IndexOf
  <2>5. CASE x < e
    BY <1>2, <1>3, <1>12, <2>2, <2>4, <2>5 DEF AddressesRead, Onward
  <2>6. CASE x = e
    <3>1. Placed(n, e, Chain[n][j])
      BY <2>1, <2>6 DEF Placed
    <3>2. Chain[n][j] = s
      <4>1. Placed(n, e, s)
        BY <1>4, <1>12
      <4>2. PICK v : v = Chain[n][j]
        OBVIOUS
      <4>3. Placed(n, e, v)
        BY <3>1, <4>2
      <4>4. v = s
        BY <4>1, <4>3, PlacedOne
      <4> QED BY <4>2, <4>4
    <3>3. SetBsgPath(Index(s), n)
      BY <1>1, <1>4, <1>12 DEF Index
    <3>4. n # NoPath /\ DOMAIN bsg_path = Expdrs
      <4>1. n \in Node
        BY <1>4, <1>12 DEF Placed, ListedAt, Boxes
      <4> QED BY <4>1, SessionAssumption DEF Going, TypeInv, AnswerInv
    <3> QED BY <2>4, <3>2, <3>3, <3>4 DEF SetBsgPath
  <2> QED BY <1>1, <1>2, <2>2, <2>3, <2>5, <2>6
<1>16. AddressesRead'
  BY <1>1, <1>6, <1>11, <1>14, <1>15 DEF AddressesRead
<1>17. AllOr(iexp)'
  BY <1>1, <1>3, <1>12, <1>14 DEF AllOr
<1> QED BY <1>1, <1>3, <1>10, <1>16, <1>17 DEF FilledInv

LEMMA FilledOpens ==
    ASSUME Going, OpenNode, op = "mpi3mr_slot_discover", pc' \in IocSteps
    PROVE  pc' = "adpinfo" /\ tobj'.opened /\ tobj'.node \in here' /\ tobj'.selector = "I_SGV4_MPI"
<1>1. pc = "node" /\ AdaptersInv /\ Onward
  BY GoesOn DEF OpenNode
<1>2. PICK j \in list, ok \in BOOLEAN :
         smp_initiator_open(Nodes(op)[j], Interface, 0, ok) /\ pc' = IF ok THEN FirstStep ELSE "node"
  BY DEF OpenNode
<1>3. PICK n : n = Adapters[j]
  OBVIOUS
<1>4. n \in here
  BY <1>1, <1>3 DEF AdaptersInv, Directory, Nodes
<1>5. smp_initiator_open(n, "I_SGV4_MPI", 0, ok)
  BY <1>2, <1>3 DEF Nodes, Interface
<1>6. ok /\ tobj'.opened /\ tobj'.node = n /\ tobj'.selector = "I_SGV4_MPI"
  BY <1>4, <1>5, OpensWell DEF Going, Clean
<1> QED BY <1>1, <1>2, <1>4, <1>6 DEF FirstStep, Onward

LEMMA FilledStep ==
    ASSUME Going, op = "mpi3mr_slot_discover", pc' \in IocSteps
    PROVE  FilledInv'
<1>1. [Next]_vars
  BY DEF Going
<1>2. CASE UNCHANGED vars
  <2>1. FilledInv /\ Onward
    BY <1>2, GoesOn DEF vars
  <2>2. /\ UNCHANGED <<tobj, here, pc, e, iexp, handle, exps, ioc_cnt, bsg_path>>
    BY <1>2 DEF vars, infoVars, queryVars, envVars, tableVars, ctrlVars
  <2>3. ListedAt(tobj.node)' = ListedAt(tobj.node)
    BY <2>2 DEF ListedAt
  <2>4. (\A j : Place(j)' = Place(j)) /\ VersionsRead' = VersionsRead
    BY <2>2, <2>3 DEF Place, Under, VersionsRead
  <2>5. AllOr(iexp)' = AllOr(iexp) /\ AllOr(e)' = AllOr(e) /\ AddressesRead' = AddressesRead
    BY <2>2, <2>3, <2>4 DEF AddressesRead, AllOr
  <2> QED BY <2>1, <2>2, <2>4, <2>5 DEF FilledInv
<1>3. CASE OpenNode
  BY <1>3, FilledOpens DEF FilledInv
<1>4. CASE populate_adpinfo
  <2>1. pc \in IocSteps /\ pc' = "facts" /\ UNCHANGED tobj
    BY <1>4 DEF populate_adpinfo, IocSteps
  <2> QED BY <2>1, IocGoes DEF FilledInv, Onward
<1>5. CASE issue_iocfacts
  <2>1. pc \in IocSteps /\ pc' = "encl" /\ UNCHANGED tobj /\ iexp' = 0 /\ e' = 0 /\ handle' = 0
    BY <1>5 DEF issue_iocfacts, IocSteps
  <2>2. VersionsRead'
    <3>1. \A x \in Exps : ~(x < iexp')
      BY <2>1, QueryAssumption DEF Exps
    <3> QED BY <3>1 DEF VersionsRead
  <2> QED BY <2>1, <2>2, IocGoes DEF FilledInv, Onward
<1>6. CASE cfg_get_enclosure_pg0
  BY <1>6, FilledEnclosure
<1>7. CASE EnclosuresDone
  <2>1. /\ pc = "encl" /\ pc \in IocSteps /\ ~EnclosureTries(e) /\ pc' = "exp" /\ e' = 0
        /\ UNCHANGED <<tobj, iexp, ioc_cnt, exps>>
    BY <1>7 DEF EnclosuresDone, IocSteps, infoVars
  <2>2. /\ FilledInv /\ Onward
        /\ iexp \in Nat /\ e \in Nat /\ NUM_EXP_PER_HBA \in Nat
    BY <2>1, IocGoes
  <2>3. AllOr(iexp)
    <3> SUFFICES ASSUME iexp < NUM_EXP_PER_HBA PROVE FALSE
      BY <2>2 DEF AllOr
    <3>1. e <= iexp + (IF handle = 0 THEN 0 ELSE 1)
      BY <2>1, <2>2 DEF FilledInv
    <3> QED BY <2>1, <2>2, <3>1 DEF EnclosureTries
  <2>4. VersionsRead /\ tobj'.opened /\ tobj'.node \in here'
    BY <2>1, <2>2 DEF FilledInv, Onward
  <2>5. VersionsRead' /\ AllOr(iexp)'
    BY <2>1, <2>2, <2>3, <2>4, IocKeeps
  <2> QED BY <2>1, <2>4, <2>5, NothingRegistered DEF FilledInv
<1>8. CASE mpi3mr_qcmd
  BY <1>8, FilledVersion
<1>9. CASE cfg_get_sas_exp_pg0
  BY <1>9, FilledExpander
<1>10. CASE report_manufacturer
  BY <1>10, FilledManufacturer
<1>11. CASE ExpandersDone
  <2>1. /\ pc = "exp" /\ pc \in IocSteps /\ e = NUM_EXP_PER_HBA /\ pc' = "closeIoc"
        /\ UNCHANGED <<tobj, iexp, e, ioc_cnt, exps>>
    BY <1>11 DEF ExpandersDone, IocSteps, infoVars, queryVars
  <2>2. FilledInv /\ Onward /\ e \in Nat
    BY <2>1, IocGoes
  <2>3. /\ VersionsRead /\ AllOr(iexp) /\ AddressesRead /\ AllOr(e)
        /\ tobj'.opened /\ tobj'.node \in here'
    BY <2>1, <2>2 DEF FilledInv, Onward, AllOr
  <2>4. VersionsRead' /\ AllOr(iexp)' /\ AllOr(e)'
    BY <2>1, <2>2, <2>3, IocKeeps
  <2>5. \A j \in ListedAt(tobj.node)' : Place(j)' < e' =>
           bsg_path'[Index(Chain[tobj'.node][j])] # NoPath
    BY <2>1, <2>2, <2>3, PathsRegistered DEF AddressesRead
  <2>6. AddressesRead'
    BY <2>1, <2>3, <2>5 DEF AddressesRead
  <2> QED BY <2>1, <2>3, <2>4, <2>6 DEF FilledInv
<1>12. ~CloseIoc /\ ~NodesDone /\ ~NextAddress /\ ~AddressesDone /\ ~OpenPath /\ ~PathsDone
       /\ ~Walked /\ ~Close
  BY GoesOn DEF CloseIoc, NodesDone, NextAddress, AddressesDone, OpenPath, PathsDone, Walked,
                StartWalk, Close, IocSteps
<1>13. ~Walk
  BY DEF Walk, Walking, ReportGeneral, AskPhy, AskSlotPhy, PhysWalked, Result, IocSteps
<1>14. ASSUME NEW x \in Removable, Change(x) PROVE FALSE
  BY <1>14 DEF Change, Going, Clean
<1> QED BY <1>1, <1>2, <1>3, <1>4, <1>5, <1>6, <1>7, <1>8, <1>9, <1>10, <1>11, <1>12, <1>13,
           <1>14 DEF Next, mpi3mr_iocfacts, Going

-----------------------------------------------------------------------------
(* The row of an adapter that has been read shows the boxes it has room    *)
(* for.                                                                    *)
LEMMA PlaceFits ==
    ASSUME NEW n, NEW j \in ListedAt(n)
    PROVE  /\ Cardinality(Under(ListedAt(n), j)) \in Nat
           /\ Cardinality(Under(ListedAt(n), j)) < j
           /\ Cardinality(Under(ListedAt(n), j)) < Cardinality(ListedAt(n))
<1>1. PICK L : L = ListedAt(n)
  OBVIOUS
<1>2. IsFiniteSet(L) /\ (\A l \in L : l \in Nat \ {0}) /\ j \in L
  BY <1>1, ListedFinite
<1>3. PICK U : U = Under(L, j)
  OBVIOUS
<1>4. U \subseteq L /\ j \notin U /\ \A l \in U : l \in 1 .. j - 1
  BY <1>2, <1>3 DEF Under
<1>5. IsFiniteSet(U) /\ Cardinality(U) <= Cardinality(L) /\ Cardinality(U) # Cardinality(L)
  BY <1>2, <1>4, FS_Subset
<1>6. Cardinality(U) \in Nat /\ Cardinality(L) \in Nat
  BY <1>2, <1>5, FS_CardinalityType
<1>7. Cardinality(U) < j
  <2>1. PICK m \in Nat : m = j - 1
    BY <1>2
  <2>2. IsFiniteSet(1 .. j - 1) /\ Cardinality(1 .. j - 1) = j - 1
    <3>1. IsFiniteSet(1 .. m) /\ Cardinality(1 .. m) = IF 1 > m THEN 0 ELSE m - 1 + 1
      BY FS_Interval
    <3>2. Cardinality(1 .. m) = m
      BY <3>1
    <3> QED BY <2>1, <3>1, <3>2
  <2>3. U \in SUBSET (1 .. j - 1)
    BY <1>4
  <2>4. Cardinality(U) <= Cardinality(1 .. j - 1)
    BY <2>2, <2>3, FS_Subset
  <2>5. j \in Nat
    BY <1>2
  <2> QED BY <1>6, <2>2, <2>4, <2>5
<1> QED BY <1>1, <1>3, <1>5, <1>6, <1>7

LEMMA RowShows ==
    ASSUME Going, CloseIoc, NEW n, n = tobj.node
    PROVE  Shows(n)'
<1>1. pc = "closeIoc" /\ pc \in IocSteps /\ ioc_cnt' = ioc_cnt + 1 /\ UNCHANGED <<exps, bsg_path>>
  BY DEF CloseIoc, IocSteps, tableVars, ctrlVars
<1>2. /\ FilledInv /\ Reading /\ RowsType /\ Onward /\ ioc_cnt \in Iocs
      /\ iexp \in Nat /\ e \in Nat /\ NUM_EXP_PER_HBA \in Nat
  BY <1>1, IocGoes
<1>3. VersionsRead /\ AllOr(iexp) /\ AddressesRead /\ AllOr(e)
  BY <1>1, <1>2 DEF FilledInv
<1>4. PICK c \in Iocs : c = ioc_cnt
  BY <1>2
<1> SUFFICES ASSUME NEW j \in DOMAIN Chain[n] \cap 1 .. NUM_EXP_PER_HBA, Chain[n][j] \in here
             PROVE  /\ bsg_path[Index(Chain[n][j])] # NoPath
                    /\ \E b \in Shown' : exps[b[1]][b[2]] = Full(Chain[n][j])
  BY <1>1, <1>2 DEF Shows, Onward
<1>5. n \in Node
  <2>1. Querying
    BY <1>1 DEF Going, TypeInv, InfoInv
  <2> QED BY <2>1 DEF Querying, Going, TypeInv, ObjTypeOK
<1>6. j \in ListedAt(n)
  BY <1>5 DEF ListedAt, Boxes
<1>7. PICK s \in Ses : s = Chain[n][j]
  BY <1>6, BoxesAreSes DEF ListedAt
<1>8. PICK x : x = Cardinality(Under(ListedAt(n), j))
  OBVIOUS
<1>9. x \in Nat /\ x < j /\ x < Cardinality(ListedAt(n)) /\ j <= NUM_EXP_PER_HBA /\ j \in Nat
  BY <1>2, <1>6, <1>8, PlaceFits
<1>10. Cardinality(ListedAt(n)) \in Nat
  BY ListedFinite, FS_CardinalityType
<1>11. x \in Exps /\ x < iexp /\ x < e
  BY <1>2, <1>3, <1>9, <1>10 DEF AllOr, Exps
<1>12. bsg_path[Index(s)] # NoPath
  BY <1>3, <1>6, <1>7, <1>8, <1>11 DEF AddressesRead, Place
<1>13. Placed(n, x, s)
  BY <1>6, <1>7, <1>8 DEF Placed
<1>14. Part = {"encl", "scsi", "sas", "manu"}
  BY DEF Part
<1>15. \A f \in Part : exps[c][x][f] # NoDev
  BY <1>3, <1>4, <1>11, <1>14 DEF VersionsRead, AddressesRead
<1>16. \A f \in Part : exps[c][x][f] = s
  <2> SUFFICES ASSUME NEW f \in Part PROVE exps[c][x][f] = s
    OBVIOUS
  <2>1. PICK v : v = exps[c][x][f]
    OBVIOUS
  <2>2. Placed(n, x, v)
    BY <1>2, <1>4, <1>11, <1>15, <2>1 DEF Reading, RowPlaced
  <2>3. v = s
    BY <1>13, <2>2, PlacedOne
  <2> QED BY <2>1, <2>3
<1>17. exps[c][x] = Full(s)
  <2>1. PICK r \in Entry : r = exps[c][x]
    BY <1>2, <1>11 DEF RowsType
  <2>2. r.encl = s /\ r.scsi = s /\ r.sas = s /\ r.manu = s
    BY <1>14, <1>16, <2>1
  <2>3. r = [encl |-> r.encl, scsi |-> r.scsi, sas |-> r.sas, manu |-> r.manu]
    BY DEF Entry
  <2> QED BY <2>1, <2>2, <2>3 DEF Full
<1>18. PICK b : b = <<c, x>>
  OBVIOUS
<1>19. b[1] = c /\ b[2] = x
  BY <1>18, Pair
<1>20. b \in Shown'
  <2>1. b \in Iocs \X Exps
    BY <1>11, <1>18
  <2>2. c < ioc_cnt'
    BY <1>1, <1>4, QueryAssumption DEF Iocs
  <2>3. exps[c][x].sas # NoDev
    BY <1>14, <1>15
  <2>4. x % 2 = 1 => exps[c][x - 1].sas # NoDev
    <3> SUFFICES ASSUME x % 2 = 1 PROVE exps[c][x - 1].sas # NoDev
      OBVIOUS
    <3>1. x # 0
      OBVIOUS
    <3>2. x - 1 \in Exps /\ x - 1 < e
      BY <1>2, <1>9, <1>11, <3>1 DEF Exps
    <3> QED BY <1>3, <1>4, <3>2 DEF AddressesRead
  <2> QED BY <1>1, <1>19, <2>1, <2>2, <2>3, <2>4 DEF Shown
<1> QED BY <1>7, <1>12, <1>17, <1>19, <1>20

LEMMA DirectoryFinite ==
    ASSUME op \in SlotOps
    PROVE  /\ IsFiniteSet(Directory(op)) /\ \A a \in Directory(op) : a \in Nat
           /\ op = "mpi3mr_slot_discover" =>
                 \A a \in Directory(op) : a \in DOMAIN Adapters /\ Adapters[a] \in Node \cap here
<1>1. op \in Discovery
  BY DEF SlotOps, Discovery
<1>2. Nodes(op) \in Seq(Node)
  BY <1>1, NodesAre
<1>3. DOMAIN Nodes(op) = 1 .. Len(Nodes(op)) /\ Len(Nodes(op)) \in Nat
  BY <1>2
<1>4. IsFiniteSet(DOMAIN Nodes(op))
  BY <1>3, FS_Interval
<1>5. Directory(op) \subseteq DOMAIN Nodes(op)
  BY DEF Directory
<1>6. IsFiniteSet(Directory(op))
  BY <1>4, <1>5, FS_Subset
<1>7. op = "mpi3mr_slot_discover" => Nodes(op) = Adapters
  BY DEF Nodes
<1> QED BY <1>2, <1>3, <1>5, <1>6, <1>7 DEF Directory

LEMMA AdaptersKept ==
    ASSUME Going, op = "mpi3mr_slot_discover", UNCHANGED <<list, ioc_cnt>>,
           pc \in IocSteps \cup {"node"}, pc' = "node" <=> pc = "node",
           pc # "node" => tobj'.node = tobj.node
    PROVE  AdaptersInv'
<1>1. AdaptersInv /\ Onward /\ Directory(op)' = Directory(op) /\ UNCHANGED op
  BY GoesOn, DirectoryOn DEF Onward
<1>2. \A a \in Directory(op) : Shows(Adapters[a]) => Shows(Adapters[a])'
  BY <1>1, DirectoryFinite, ShowsOn DEF Going
<1> QED BY <1>1, <1>2 DEF AdaptersInv

LEMMA AdaptersOpen ==
    ASSUME Going, op = "mpi3mr_slot_discover", OpenNode
    PROVE  AdaptersInv'
<1>1. pc = "node" /\ AdaptersInv /\ Onward /\ Directory(op)' = Directory(op) /\ UNCHANGED <<op, ioc_cnt>>
  BY GoesOn, DirectoryOn DEF OpenNode, Onward, infoVars
<1>2. \A a \in Directory(op) : Shows(Adapters[a]) => Shows(Adapters[a])'
  BY <1>1, DirectoryFinite, ShowsOn DEF Going
<1>3. PICK j \in list, ok \in BOOLEAN :
        /\ \A l \in list : j <= l
        /\ list' = list \ {j}
        /\ smp_initiator_open(Nodes(op)[j], Interface, 0, ok)
        /\ pc' = IF ok THEN FirstStep ELSE "node"
  BY DEF OpenNode
<1>4. PICK n : n = Adapters[j]
  OBVIOUS
<1>5. list \subseteq Directory(op) /\ \A a \in list, b \in Directory(op) \ list : b < a
  BY <1>1 DEF AdaptersInv
<1>6. n \in here
  BY <1>4, <1>5, DirectoryFinite DEF Going
<1>7. smp_initiator_open(n, "I_SGV4_MPI", 0, ok)
  BY <1>3, <1>4 DEF Nodes, Interface
<1>8. ok /\ tobj'.node = n
  BY <1>6, <1>7, OpensWell DEF Going, Clean
<1>9. pc' = "adpinfo"
  BY <1>3, <1>8 DEF FirstStep
<1>10. \A a \in Directory(op) : a \in Nat
  BY DirectoryFinite DEF Going
<1>11. Directory(op) \ list' = (Directory(op) \ list) \cup {j}
  BY <1>3, <1>5
<1>12. \A a \in list', b \in Directory(op) \ list' : b < a
  <2> SUFFICES ASSUME NEW a \in list', NEW b \in Directory(op) \ list' PROVE b < a
    OBVIOUS
  <2>1. a \in list /\ a # j /\ j <= a /\ a \in Nat /\ j \in Nat
    BY <1>3, <1>5, <1>10
  <2>2. CASE b = j
    BY <2>1, <2>2
  <2>3. CASE b # j
    BY <1>5, <1>11, <2>1, <2>3
  <2> QED BY <2>2, <2>3
<1>13. Cardinality(Directory(op) \ list') = ioc_cnt + 1
  <2>1. Cardinality(Directory(op) \ list) = ioc_cnt
    <3>1. Directory(op) # {}
      BY <1>5
    <3> QED BY <1>1, <3>1, QueryAssumption DEF AdaptersInv, Going, TypeInv, RowsType
  <2>2. IsFiniteSet(Directory(op) \ list) /\ j \notin Directory(op) \ list
    BY DirectoryFinite, FS_Subset DEF Going
  <2>3. PICK D : D = Directory(op) \ list
    OBVIOUS
  <2>4. Cardinality(D \cup {j}) = Cardinality(D) + 1
    BY <2>2, <2>3, FS_AddElement
  <2> QED BY <1>11, <2>1, <2>3, <2>4
<1>14. \A a \in Directory(op) \ list' : Shows(Adapters[a])' \/ tobj'.node = Adapters[a]
  BY <1>1, <1>2, <1>4, <1>8, <1>11 DEF AdaptersInv
<1>15. list' \subseteq Directory(op)
  BY <1>3, <1>5
<1> QED BY <1>1, <1>9, <1>12, <1>13, <1>14, <1>15 DEF AdaptersInv

LEMMA AdaptersClose ==
    ASSUME Going, CloseIoc
    PROVE  AdaptersInv'
<1>1. /\ pc = "closeIoc" /\ pc \in IocSteps /\ pc' = "node" /\ ioc_cnt' = ioc_cnt + 1
      /\ UNCHANGED list
  BY DEF CloseIoc, IocSteps
<1>2. op = "mpi3mr_slot_discover"
  BY <1>1, IocGoes
<1>3. AdaptersInv /\ Onward /\ Directory(op)' = Directory(op) /\ UNCHANGED op
  BY <1>2, GoesOn, DirectoryOn DEF Onward
<1>4. \A a \in Directory(op) : Shows(Adapters[a]) => Shows(Adapters[a])'
  BY <1>2, <1>3, DirectoryFinite, ShowsOn DEF Going
<1>5. \A a \in Directory(op) \ list : Shows(Adapters[a])'
  <2> SUFFICES ASSUME NEW a \in Directory(op) \ list PROVE Shows(Adapters[a])'
    OBVIOUS
  <2>1. CASE Shows(Adapters[a])
    BY <1>4, <2>1
  <2>2. CASE tobj.node = Adapters[a]
    <3>1. PICK n : n = Adapters[a]
      OBVIOUS
    <3>2. Shows(n)'
      BY <2>2, <3>1, RowShows
    <3> QED BY <3>1, <3>2
  <2> QED BY <1>1, <1>3, <2>1, <2>2 DEF AdaptersInv
<1>6. Directory(op) # {} => Cardinality(Directory(op) \ list) = ioc_cnt + 1
  BY <1>1, <1>3 DEF AdaptersInv
<1>7. ioc_cnt \in Nat
  BY QueryAssumption DEF Going, TypeInv, RowsType
<1>8. list \subseteq Directory(op) /\ \A a \in list, b \in Directory(op) \ list : b < a
  BY <1>1, <1>3 DEF AdaptersInv
<1>9. /\ list' \subseteq Directory(op)'
      /\ \A a \in list', b \in Directory(op)' \ list' : b < a
      /\ \A a \in Directory(op)' \ list' : Shows(Adapters[a])'
      /\ Directory(op)' # {} => Cardinality(Directory(op)' \ list') = ioc_cnt' + 0
  BY <1>1, <1>3, <1>5, <1>6, <1>7, <1>8
<1> QED BY <1>1, <1>3, <1>9 DEF AdaptersInv

LEMMA AdaptersStep ==
    ASSUME Going, op = "mpi3mr_slot_discover"
    PROVE  AdaptersInv'
<1> SUFFICES ASSUME pc' \in IocSteps \cup {"node"} PROVE AdaptersInv'
  BY DEF AdaptersInv
<1>1. [Next]_vars
  BY DEF Going
<1>2. CASE UNCHANGED vars
  <2>1. UNCHANGED <<pc, tobj, list, ioc_cnt>>
    BY <1>2 DEF vars, infoVars
  <2> QED BY <2>1, AdaptersKept
<1>3. CASE OpenNode
  BY <1>3, AdaptersOpen
<1>4. CASE CloseIoc
  BY <1>4, AdaptersClose
<1>5. CASE mpi3mr_iocfacts /\ ~CloseIoc
  <2>1. /\ pc \in IocSteps /\ pc' \in IocSteps /\ pc # "node" /\ pc' # "node"
        /\ UNCHANGED <<list, ioc_cnt>>
    BY <1>5 DEF mpi3mr_iocfacts, populate_adpinfo, issue_iocfacts, cfg_get_enclosure_pg0,
                EnclosuresDone, mpi3mr_qcmd, cfg_get_sas_exp_pg0, report_manufacturer,
                ExpandersDone, IocSteps, infoVars
  <2>2. DOMAIN tobj = {"opened", "node", "selector", "addr"}
    BY <2>1, IocGoes
  <2>3. tobj'.node = tobj.node
    BY <1>5, <2>2 DEF mpi3mr_iocfacts, populate_adpinfo, issue_iocfacts, cfg_get_enclosure_pg0,
                EnclosuresDone, mpi3mr_qcmd, cfg_get_sas_exp_pg0, report_manufacturer,
                ExpandersDone
  <2> QED BY <2>1, <2>3, AdaptersKept
<1>6. ~NodesDone /\ ~NextAddress /\ ~AddressesDone /\ ~OpenPath /\ ~PathsDone
      /\ ~Walked /\ ~Close
  BY GoesOn DEF NodesDone, NextAddress, AddressesDone, OpenPath, PathsDone, Walked,
                StartWalk, Close, IocSteps
<1>7. ~Walk
  BY DEF Walk, Walking, ReportGeneral, AskPhy, AskSlotPhy, PhysWalked, Result, IocSteps
<1>8. ASSUME NEW x \in Removable, Change(x) PROVE FALSE
  BY <1>8 DEF Change, Going, Clean
<1> QED BY <1>1, <1>2, <1>3, <1>4, <1>5, <1>6, <1>7, <1>8 DEF Next, Going

-----------------------------------------------------------------------------
(* Every path registered is walked, and it leads where its box is.         *)
LEMMA TurnBehind ==
    ASSUME NEW D, IsFiniteSet(D), \A c \in D : c \in Nat, NEW l, l \subseteq D, NEW a \in l,
           \A b \in D \ l : b < a
    PROVE  Cardinality({c \in D : c <= a}) >= Cardinality(D \ l) + 1
<1>1. PICK T : T = {c \in D : c <= a}
  OBVIOUS
<1>2. PICK U : U = D \ l
  OBVIOUS
<1>3. IsFiniteSet(T) /\ IsFiniteSet(U)
  BY <1>1, <1>2, FS_Subset
<1>4. a \in D /\ a \in Nat /\ a \notin U
  BY <1>2
<1>5. U \cup {a} \subseteq T
  BY <1>1, <1>2, <1>4
<1>6. Cardinality(U \cup {a}) = Cardinality(U) + 1
  BY <1>3, <1>4, FS_AddElement
<1>7. Cardinality(U \cup {a}) <= Cardinality(T)
  BY <1>3, <1>5, FS_Subset
<1>8. Cardinality(U) \in Nat /\ Cardinality(T) \in Nat
  BY <1>3, FS_CardinalityType
<1> QED BY <1>1, <1>2, <1>6, <1>7, <1>8

LEMMA AllShownOn ==
    ASSUME Going, op = "mpi3mr_slot_discover", AllShown
    PROVE  AllShown'
<1>1. Onward /\ Directory(op)' = Directory(op)
  BY GoesOn, DirectoryOn
<1>2. \A a \in Directory(op) : Shows(Adapters[a]) => Shows(Adapters[a])'
  BY <1>1, DirectoryFinite, ShowsOn DEF Going
<1>3. \A a \in Directory(op) : Turn(a)' = Turn(a)
  BY <1>1 DEF Turn
<1> QED BY <1>1, <1>2, <1>3 DEF AllShown

LEMMA PathsAskedOn ==
    ASSUME Going, PathsAsked, UNCHANGED i, pc' = "idle" => pc = "idle",
           \A el \in Expdrs : el < i \/ pc = "idle" => bsg_path'[el] = bsg_path[el]
    PROVE  PathsAsked'
<1>1. Onward
  BY GoesOn
<1>2. \A s \in Ses : Whole(s) => Whole(s)'
  BY <1>1, WholeOn
<1>3. \A s \in Ses : Index(s) \in Expdrs
  BY IndexOf
<1> QED BY <1>1, <1>2, <1>3 DEF PathsAsked, Onward

LEMMA PathsKept ==
    ASSUME Going, op = "mpi3mr_slot_discover",
           \A el \in Expdrs : bsg_path'[el] # NoPath => bsg_path'[el] \in here,
           pc' \in Talking => tobj'.node = bsg_path'[i'] /\ tobj'.addr = wwid64(i)',
           pc' \in Talking \cup {"path", "idle"} => AllShown' /\ PathsAsked'
    PROVE  PathsInv'
<1>1. PathsInv /\ Onward
  BY GoesOn
<1> QED BY <1>1 DEF PathsInv, Onward

LEMMA PathsNodesDone ==
    ASSUME Going, op = "mpi3mr_slot_discover", NodesDone
    PROVE  PathsInv'
<1>1. /\ pc = "node" /\ pc' = "path" /\ i' = 0 /\ UNCHANGED bsg_path
      /\ list = {} \/ ~(ioc_cnt < NUM_IOC)
  BY DEF NodesDone, tableVars, ctrlVars, RoomForIoc
<1>2. AdaptersInv /\ PathsInv /\ Onward
  BY GoesOn
<1>3. \A a \in Directory(op) \ list : Shows(Adapters[a])
  BY <1>1, <1>2 DEF AdaptersInv
<1>4. AllShown
  <2> SUFFICES ASSUME NEW a \in Directory(op), Turn(a) <= NUM_IOC, a \in list PROVE FALSE
    BY <1>3 DEF AllShown
  <2>1. /\ list \subseteq Directory(op) /\ \A b \in Directory(op) \ list : b < a
        /\ Cardinality(Directory(op) \ list) = ioc_cnt + 0
    BY <1>1, <1>2 DEF AdaptersInv
  <2>2. IsFiniteSet(Directory(op)) /\ \A c \in Directory(op) : c \in Nat
    BY DirectoryFinite DEF Going
  <2>3. PICK D : D = Directory(op)
    OBVIOUS
  <2>4. Cardinality({c \in D : c <= a}) >= Cardinality(D \ list) + 1
    BY <2>1, <2>2, <2>3, TurnBehind
  <2>5. PICK t : t = Cardinality({c \in D : c <= a})
    OBVIOUS
  <2>6. t \in Nat
    <3>1. IsFiniteSet({c \in D : c <= a})
      BY <2>2, <2>3, FS_Subset
    <3> QED BY <2>5, <3>1, FS_CardinalityType
  <2>7. t >= ioc_cnt + 1 /\ t <= NUM_IOC
    BY <2>1, <2>3, <2>4, <2>5, <2>6, QueryAssumption DEF Turn, Going, TypeInv, RowsType
  <2> QED BY <1>1, <2>6, <2>7, QueryAssumption DEF Going, TypeInv, RowsType
<1>5. PathsAsked'
  <2>1. \A s \in Ses : ~(Index(s) < i')
    BY <1>1, IndexOf DEF Expdrs
  <2> QED BY <1>1, <2>1 DEF PathsAsked
<1>6. AllShown'
  BY <1>4, AllShownOn
<1> QED BY <1>1, <1>2, <1>5, <1>6, PathsKept DEF PathsInv, Talking

LEMMA PathsOpen ==
    ASSUME Going, op = "mpi3mr_slot_discover", OpenPath
    PROVE  PathsInv'
<1>1. pc = "path" /\ i < NEXPDR /\ i \in 0 .. 3 /\ i \in Expdrs /\ UNCHANGED <<bsg_path, ctrl>>
  BY GoesOn, SessionAssumption DEF OpenPath, StepsInv, tableVars, ctrlVars, Expdrs
<1>2. PathsInv /\ Onward
  BY GoesOn
<1>3. AllShown /\ PathsAsked
  BY <1>1, <1>2 DEF PathsInv
<1>4. AllShown'
  BY <1>3, AllShownOn
<1>5. CASE bsg_path[i] = NoPath
  <2>1. i' = i + 1 /\ pc' = "path"
    BY <1>1, <1>5 DEF OpenPath
  <2>2. \A s \in Ses : Index(s) < i + 1 => Index(s) < i \/ Index(s) = i
    <3>1. \A s \in Ses : Index(s) \in 0 .. 3
      BY IndexOf, SessionAssumption DEF Expdrs
    <3> QED BY <1>1, <3>1
  <2>3. \A s \in Ses : Whole(s) => Whole(s)'
    BY <1>2, WholeOn
  <2>4. PathsAsked'
    BY <1>1, <1>2, <1>3, <1>5, <2>1, <2>2, <2>3 DEF PathsAsked, Onward
  <2> QED BY <1>1, <1>2, <1>4, <2>1, <2>4, PathsKept DEF PathsInv, Talking
<1>6. CASE bsg_path[i] # NoPath
  <2>1. PICK n \in here : n = bsg_path[i]
    BY <1>1, <1>2, <1>6 DEF PathsInv
  <2>2. PICK a : a = wwid64(i)
    OBVIOUS
  <2>3. PICK ok \in BOOLEAN :
          /\ smp_initiator_open(n, "I_SGV4_MPI", a, ok)
          /\ IF ok THEN pc' = "slot" /\ UNCHANGED i ELSE i' = i + 1 /\ UNCHANGED pc
    BY <1>6, <2>1, <2>2 DEF OpenPath
  <2>4. ok /\ tobj'.node = n /\ tobj'.addr = a
    BY <2>3, OpensWell DEF Going, Clean
  <2>5. pc' = "slot" /\ UNCHANGED i
    BY <2>3, <2>4
  <2>6. wwid64(i)' = wwid64(i)
    BY <1>1, <2>5 DEF wwid64, Address
  <2>7. PathsAsked'
    BY <1>1, <1>3, <2>5, PathsAskedOn
  <2> QED BY <1>1, <1>2, <1>4, <2>1, <2>2, <2>4, <2>5, <2>6, <2>7, PathsKept DEF PathsInv
<1> QED BY <1>5, <1>6

(* The box of path i is the one asked along it.                            *)
LEMMA PathTarget ==
    ASSUME Going, op = "mpi3mr_slot_discover", pc \in Talking
    PROVE  /\ i \in Expdrs /\ \A s \in Target : Index(s) = i
           /\ \A s \in here \cap Ses : bsg_path[i] # NoPath /\ Index(s) = i => s \in Reached
<1>1. i \in Expdrs
  BY GoesOn, SessionAssumption DEF StepsInv, InLoop, Talking, Expdrs
<1>2. PathsInv /\ AskedInv
  BY GoesOn
<1>3. /\ tobj.node = bsg_path[i] /\ tobj.addr = Address(ctrl[i]) /\ tobj.node \in here
      /\ tobj.selector = "I_SGV4_MPI"
  BY <1>2 DEF PathsInv, AskedInv, wwid64
<1>4. ASSUME NEW s \in Target PROVE Index(s) = i
  <2>1. s \in Ses /\ Wwid[s] = tobj.addr
    BY <1>3, BoxesAreSes DEF Target
  <2>2. ctrl[i] # NoDev /\ ctrl[i] \in Ses
    BY <1>1, <1>3, <2>1, SessionAssumption DEF Address, Going, TypeInv, TabType, CtrlType
  <2>3. Wwid[ctrl[i]] = tobj.addr
    BY <1>3, <2>2 DEF Address
  <2>4. s = ctrl[i]
    BY <2>1, <2>2, <2>3, OneAddress
  <2> QED BY <1>1, <1>2, <2>2, <2>4 DEF PathsInv
<1>5. ASSUME NEW s \in here \cap Ses, bsg_path[i] # NoPath, Index(s) = i PROVE s \in Reached
  <2>1. PICK t \in Boxes(tobj.node) : Index(t) = i
    BY <1>1, <1>3, <1>5 DEF Going, TypeInv, AnswerInv, OwnAnswer
  <2>2. t = s
    BY <1>5, <2>1, BoxesAreSes, SessionAssumption
  <2>3. ctrl[i] = s
    BY <1>2, <1>5 DEF PathsInv
  <2>4. tobj.addr = Wwid[s]
    BY <1>3, <2>3, TableAssumption DEF Address, DName
  <2> QED BY <1>3, <1>5, <2>1, <2>2, <2>4 DEF Reached, Target
<1> QED BY <1>1, <1>4, <1>5

LEMMA PathsClose ==
    ASSUME Going, op = "mpi3mr_slot_discover", Close
    PROVE  PathsInv'
<1>1. pc = "close" /\ pc' = "path" /\ i' = i + 1 /\ UNCHANGED bsg_path
  BY DEF Close, tableVars, ctrlVars
<1>2. PathsInv /\ Onward /\ AskedInv
  BY GoesOn
<1>3. AllShown /\ PathsAsked
  BY <1>1, <1>2 DEF PathsInv, Talking
<1>4. AllShown'
  BY <1>3, AllShownOn
<1>5. \A s \in Ses : Index(s) < i + 1 => Index(s) < i \/ Index(s) = i
  <2>1. \A s \in Ses : Index(s) \in 0 .. 3
    BY IndexOf, SessionAssumption DEF Expdrs
  <2>2. i \in Int
    BY GoesOn, SessionAssumption DEF StepsInv
  <2> QED BY <2>1, <2>2
<1>6. \A s \in here \cap Ses : bsg_path[i] # NoPath /\ Index(s) = i => Whole(s)
  BY <1>1, <1>2, PathTarget DEF AskedInv, Talking
<1>7. \A s \in Ses : Whole(s) => Whole(s)'
  BY <1>2, WholeOn
<1>8. PathsAsked'
  BY <1>1, <1>2, <1>3, <1>5, <1>6, <1>7 DEF PathsAsked, Onward
<1> QED BY <1>1, <1>2, <1>4, <1>8, PathsKept DEF PathsInv, Talking

LEMMA PathsDoneAll ==
    ASSUME Going, op = "mpi3mr_slot_discover", PathsDone
    PROVE  PathsInv'
<1>1. pc = "path" /\ pc' = "idle" /\ i = NEXPDR /\ UNCHANGED <<i, bsg_path>>
  BY DEF PathsDone, tableVars, ctrlVars
<1>2. PathsInv /\ Onward
  BY GoesOn
<1>3. AllShown /\ PathsAsked
  BY <1>1, <1>2 DEF PathsInv
<1>4. AllShown'
  BY <1>3, AllShownOn
<1>5. \A s \in Ses : Index(s) < i
  <2>1. \A s \in Ses : Index(s) \in 0 .. 3
    BY IndexOf, SessionAssumption DEF Expdrs
  <2> QED BY <1>1, <2>1, SessionAssumption
<1>6. \A s \in Ses : Whole(s) => Whole(s)'
  BY <1>2, WholeOn
<1>7. PathsAsked'
  BY <1>1, <1>2, <1>3, <1>5, <1>6 DEF PathsAsked, Onward
<1> QED BY <1>1, <1>2, <1>4, <1>7, PathsKept DEF PathsInv, Talking

LEMMA PathsAskSlot ==
    ASSUME Going, op = "mpi3mr_slot_discover", AskSlotPhy, UNCHANGED i
    PROVE  PathsInv'
<1>1. pc = "slot" /\ pc' \in {"slot", "walked"} /\ UNCHANGED tobj /\ pc \in Talking /\ pc' \in Talking
  BY DEF AskSlotPhy, Result, Talking
<1>2. PathsInv /\ Onward /\ AskedInv
  BY GoesOn
<1>3. i \in Expdrs /\ \A s \in Target : Index(s) = i
  BY <1>1, PathTarget
<1>4. UNCHANGED bsg_path \/ bsg_path' = [bsg_path EXCEPT ![i] = tobj.node]
  <2>1. CASE Reached = {}
    <3>1. PICK o \in Outcomes(DiscoverAnswer) :
             LET r == Respond(Zero, o)
                 len == do_discover(r)
             IN  IF len >= 0 THEN Store(len, r.buf)
                 ELSE UNCHANGED <<slotVars, ctrlVars, hba_sa>>
      BY DEF AskSlotPhy
    <3>2. PICK r : r = smp_send_req(tobj.opened, tobj.selector, Zero, o)
      OBVIOUS
    <3>3. PICK len : len = do_discover(r)
      OBVIOUS
    <3>4. ~(len >= 0)
      BY <2>1, <3>2, <3>3, NoneReached DEF Going, TypeInv, AnswerInv, ObjectInv
    <3> QED BY <3>1, <3>2, <3>3, <3>4 DEF Respond, ctrlVars
  <2>2. CASE Reached # {}
    <3>1. PICK s : s = Peer
      OBVIOUS
    <3>2. PICK p : p = k
      OBVIOUS
    <3>3. s \in Target
      BY <2>2, <3>1 DEF Reached, Peer
    <3>4. \A t \in Reached : t = s
      BY <1>1, <1>2, <3>3 DEF AskedInv, Reached
    <3>5. hba_sa => bsg_path[Index(s)] # NoPath
      BY <1>1, <1>2, <2>2, <3>4 DEF AskedInv
    <3>6. /\ tobj.opened /\ tobj.selector \in {"I_SGV4", "I_SGV4_MPI"} /\ ~faulted'
      BY <1>1, <1>2 DEF AskedInv, Going, Clean
    <3>7. UNCHANGED bsg_path \/ bsg_path' = [bsg_path EXCEPT ![Index(s)] = tobj.node]
      BY <2>2, <3>1, <3>2, <3>5, <3>6, PhyTold DEF Going
    <3> QED BY <1>3, <3>3, <3>7
  <2> QED BY <2>1, <2>2
<1>5. tobj.node = bsg_path[i] /\ tobj.addr = wwid64(i) /\ tobj.node \in here
  BY <1>1, <1>2 DEF PathsInv, AskedInv
<1>6. \A el \in Expdrs : bsg_path'[el] = bsg_path[el]
  BY <1>4, <1>5 DEF Going, TypeInv, AnswerInv
<1>7. wwid64(i)' = wwid64(i)
  BY <1>2 DEF wwid64, Address, Onward
<1>8. AllShown'
  BY <1>1, <1>2, AllShownOn DEF PathsInv
<1>9. PathsAsked'
  BY <1>1, <1>2, <1>6, PathsAskedOn DEF PathsInv, Talking
<1> QED BY <1>1, <1>2, <1>3, <1>5, <1>6, <1>7, <1>8, <1>9, PathsKept DEF PathsInv

(* A step that keeps the paths.                                            *)
LEMMA PathsSame ==
    ASSUME Going, op = "mpi3mr_slot_discover", UNCHANGED bsg_path,
           pc' \in Talking => pc \in Talking /\ UNCHANGED <<tobj, i>>,
           pc' \in Talking \cup {"path", "idle"} =>
              pc \in Talking \cup {"path", "idle"} /\ UNCHANGED i /\ (pc' = "idle" => pc = "idle")
    PROVE  PathsInv'
<1>1. PathsInv /\ Onward
  BY GoesOn
<1>2. \A el \in Expdrs : bsg_path'[el] # NoPath => bsg_path'[el] \in here
  BY <1>1 DEF PathsInv
<1>3. pc' \in Talking => tobj'.node = bsg_path'[i'] /\ tobj'.addr = wwid64(i)'
  BY <1>1 DEF PathsInv, wwid64, Address, Onward
<1>4. pc' \in Talking \cup {"path", "idle"} => AllShown' /\ PathsAsked'
  BY <1>1, AllShownOn, PathsAskedOn DEF PathsInv
<1> QED BY <1>2, <1>3, <1>4, PathsKept

LEMMA PathsStep ==
    ASSUME Going, op = "mpi3mr_slot_discover"
    PROVE  PathsInv'
<1>1. [Next]_vars /\ (pc # "idle" => pc \in OpSteps(op))
  BY GoesOn DEF Going, StepsInv
<1>2. CASE UNCHANGED vars
  <2>1. UNCHANGED <<pc, tobj, i, bsg_path>>
    BY <1>2 DEF vars, tableVars, ctrlVars
  <2> QED BY <2>1, PathsSame
<1>3. CASE OpenNode
  <2>1. UNCHANGED bsg_path /\ pc' \in {"adpinfo", "node"}
    BY <1>3 DEF OpenNode, FirstStep, tableVars, ctrlVars
  <2> QED BY <2>1, PathsSame DEF Talking
<1>4. CASE NodesDone
  BY <1>4, PathsNodesDone
<1>5. CASE OpenPath
  BY <1>5, PathsOpen
<1>6. CASE PathsDone
  BY <1>6, PathsDoneAll
<1>7. CASE Close
  BY <1>7, PathsClose
<1>8. CASE Walk
  <2>1. UNCHANGED i
    BY <1>8 DEF Walk
  <2>2. ~ReportGeneral /\ ~AskPhy
    BY <1>1 DEF ReportGeneral, AskPhy, OpSteps, IocSteps
  <2>3. CASE AskSlotPhy
    BY <2>1, <2>3, PathsAskSlot
  <2>4. CASE PhysWalked
    <3>1. pc = "slot" /\ pc' = "walked" /\ UNCHANGED <<bsg_path, tobj>>
      BY <1>1, <2>4 DEF PhysWalked, OpSteps, IocSteps, tableVars, ctrlVars
    <3> QED BY <2>1, <3>1, PathsSame DEF Talking
  <2> QED BY <1>8, <2>2, <2>3, <2>4 DEF Walk, Walking
<1>9. CASE Walked
  <2>1. pc = "walked" /\ pc' = "close" /\ UNCHANGED <<bsg_path, tobj, i>>
    BY <1>9 DEF Walked, StartWalk, tableVars, ctrlVars
  <2> QED BY <2>1, PathsSame DEF Talking
<1>10. CASE report_manufacturer
  <2>1. /\ pc = "manu" /\ pc \in IocSteps /\ pc' = "exp"
        /\ SetBsgPath(WWID_TO_INDEX(tobj.addr), tobj.node)
    BY <1>10 DEF report_manufacturer, IocSteps
  <2>2. tobj.node \in here /\ PathsInv
    BY <2>1, IocGoes, GoesOn DEF FilledInv
  <2>3. \A el \in Expdrs : bsg_path'[el] # NoPath => bsg_path'[el] \in here
    BY <2>1, <2>2 DEF SetBsgPath, PathsInv, Going, TypeInv, AnswerInv
  <2> QED BY <2>1, <2>3, PathsKept DEF Talking
<1>11. CASE mpi3mr_iocfacts /\ ~report_manufacturer
  <2>1. UNCHANGED bsg_path /\ pc' \in IocSteps \cup {"node"}
    BY <1>11 DEF mpi3mr_iocfacts, populate_adpinfo, issue_iocfacts, cfg_get_enclosure_pg0,
                 EnclosuresDone, mpi3mr_qcmd, cfg_get_sas_exp_pg0, ExpandersDone, CloseIoc,
                 IocSteps, tableVars, ctrlVars
  <2> QED BY <2>1, PathsSame DEF Talking, IocSteps
<1>12. ~NextAddress /\ ~AddressesDone
  BY <1>1 DEF NextAddress, AddressesDone, OpSteps, IocSteps
<1>13. ASSUME NEW x \in Removable, Change(x) PROVE FALSE
  BY <1>13 DEF Change, Going, Clean
<1> QED BY <1>1, <1>2, <1>3, <1>4, <1>5, <1>6, <1>7, <1>8, <1>9, <1>10, <1>11, <1>12, <1>13
        DEF Next, Going

-----------------------------------------------------------------------------
(* A refresh begins: nothing is asked, no path is known, no row is filled. *)
LEMMA LostStart == Init => LostInv
<1>1. Init => op = "none"
  BY DEF Init
<1> QED BY <1>1 DEF LostInv, SlotOps

LEMMA ListedOnes ==
    ASSUME Listed
    PROVE  /\ \A el \in Expdrs : bsg_path'[el] = NoPath
           /\ \A el \in Expdrs : ctrl'[el] # NoDev => Index(ctrl'[el]) = el
           /\ \A s \in here \cap Ses : ctrl'[Index(s)] = s
<1>1. /\ bsg_path' = [el \in Expdrs |-> NoPath]
      /\ ctrl' = [el \in Expdrs |-> IF \E s \in here \cap Ses : Index(s) = el
                                    THEN CHOOSE s \in here \cap Ses : Index(s) = el
                                    ELSE NoDev]
  BY DEF Listed
<1>2. ASSUME NEW el \in Expdrs, ctrl'[el] # NoDev PROVE Index(ctrl'[el]) = el
  <2>1. \E s \in here \cap Ses : Index(s) = el
    BY <1>1, <1>2
  <2>2. ctrl'[el] = CHOOSE s \in here \cap Ses : Index(s) = el
    BY <1>1, <2>1
  <2> QED BY <2>1, <2>2
<1>3. ASSUME NEW s \in here \cap Ses PROVE ctrl'[Index(s)] = s
  <2>1. PICK el \in Expdrs : el = Index(s)
    BY IndexOf
  <2>2. ctrl'[el] = CHOOSE t \in here \cap Ses : Index(t) = el
    BY <1>1, <2>1
  <2>3. \E t \in here \cap Ses : Index(t) = el
    BY <2>1
  <2>4. ctrl'[el] \in here \cap Ses /\ Index(ctrl'[el]) = el
    BY <2>2, <2>3
  <2>5. ctrl'[el] = s
    BY <2>1, <2>4, SessionAssumption
  <2> QED BY <2>1, <2>5
<1> QED BY <1>1, <1>2, <1>3

LEMMA LostBegins ==
    ASSUME TypeInv, NEW o \in Ops, Start(o), op' \in SlotOps
    PROVE  LostInv'
<1>1. /\ op' = o /\ pc' = "node" /\ UNCHANGED here /\ Listed
      /\ list' = Directory(o)
  BY DEF Start, SlotOps
<1>2. Directory(op)' = list'
  BY <1>1 DEF Directory, Nodes
<1>3. AskedInv'
  BY <1>1 DEF AskedInv, Talking
<1>4. PassedInv'
  BY <1>1, <1>2 DEF PassedInv
<1>5. ASSUME o = "mpi3mr_slot_discover" PROVE AdaptersInv'
  <2>1. Directory(op)' # {} => ioc_cnt' = 0
    BY <1>1, <1>2, <1>5 DEF Start, Clear
  <2>2. Directory(op)' \ list' = {}
    BY <1>2
  <2>3. Cardinality(Directory(op)' \ list') = 0
    BY <2>2, FS_EmptySet
  <2> QED BY <1>1, <1>2, <2>1, <2>2, <2>3 DEF AdaptersInv
<1>6. PathsInv'
  BY <1>1, ListedOnes DEF PathsInv, Talking
<1>7. pc' \notin IocSteps
  BY <1>1 DEF IocSteps
<1> QED BY <1>1, <1>3, <1>4, <1>5, <1>6, <1>7 DEF LostInv

LEMMA LostStep ==
    ASSUME TypeInv, SameInv, LostInv, [Next]_vars
    PROVE  LostInv'
<1> SUFFICES ASSUME op' \in SlotOps, Clean' PROVE LostInv'
  BY DEF LostInv
<1>1. CASE \E o \in Ops : Start(o)
  BY <1>1, LostBegins
<1>2. CASE \A o \in Ops : ~Start(o)
  <2>1. Onward
    BY <1>2, OnwardStep
  <2>2. Going /\ UNCHANGED op
    BY <1>2, <2>1 DEF Going, Onward
  <2>3. AskedInv' /\ PassedInv'
    BY <2>2, AskedStep, PassedStep
  <2>4. op' = "mpi3mr_slot_discover" =>
           AdaptersInv' /\ PathsInv' /\ (pc' \in IocSteps => FilledInv')
    BY <2>2, AdaptersStep, PathsStep, FilledStep
  <2> QED BY <2>3, <2>4 DEF LostInv
<1> QED BY <1>1, <1>2

-----------------------------------------------------------------------------
(* The slots of two expanders are apart, so that a response is that of the *)
(* phy the slot is wired to.                                               *)
LEMMA SlotsApart ==
    ASSUME NEW s \in Ses, NEW t \in Ses, NEW sl,
           sl \in SlotsOf(Index(s)), sl \in SlotsOf(Index(t))
    PROVE  s = t
<1>1. PICK a \in 0 .. 3 : a = Index(s)
  BY IndexOf, SessionAssumption DEF Expdrs
<1>2. PICK b \in 0 .. 3 : b = Index(t)
  BY IndexOf, SessionAssumption DEF Expdrs
<1>3. PICK n : n = NSLOT_PEREXP
  OBVIOUS
<1>4. n \in Nat \ {0}
  BY <1>3, TableAssumption
<1>5. sl \in a * n .. (a + 1) * n - 1 /\ sl \in b * n .. (b + 1) * n - 1
  BY <1>1, <1>2, <1>3 DEF SlotsOf
<1>6. a = b
  <2>1. \A x \in 0 .. 3 : x = 0 \/ x = 1 \/ x = 2 \/ x = 3
    OBVIOUS
  <2>2. (a = 0 \/ a = 1 \/ a = 2 \/ a = 3) /\ (b = 0 \/ b = 1 \/ b = 2 \/ b = 3)
    BY <2>1
  <2>3. sl \in Int /\ a * n <= sl /\ sl < (a + 1) * n /\ b * n <= sl /\ sl < (b + 1) * n
    BY <1>4, <1>5
  <2>4. CASE a = 0
    BY <1>4, <2>2, <2>3, <2>4
  <2>5. CASE a = 1
    BY <1>4, <2>2, <2>3, <2>5
  <2>6. CASE a = 2
    BY <1>4, <2>2, <2>3, <2>6
  <2>7. CASE a = 3
    BY <1>4, <2>2, <2>3, <2>7
  <2> QED BY <2>2, <2>4, <2>5, <2>6, <2>7
<1> QED BY <1>1, <1>2, <1>6, SessionAssumption

LEMMA OwnPhy ==
    ASSUME TypeInv, NEW s \in Ses, NEW p \in DOMAIN Wiring[s], Wiring[s][p] > 0,
           resp[Wiring[s][p] - 1] # NoResp
    PROVE  resp[Wiring[s][p] - 1].phy = p
<1>1. PICK sl : sl = Wiring[s][p] - 1
  OBVIOUS
<1>2. sl \in SlotsOf(Index(s)) /\ sl \in Slots
  <2>1. sl \in SlotsOf(Index(s))
    BY <1>1, SessionAssumption
  <2>2. PICK n \in 1 .. NUM_PHY :
           Wiring[s] \in [0 .. n - 1 -> 1 .. NSLOT \cup {HbaPhy, NoSlot, Vacant}]
    BY SessionAssumption
  <2>3. Wiring[s][p] \in 1 .. NSLOT
    BY <2>2 DEF HbaPhy, NoSlot, Vacant
  <2>4. NSLOT \in Nat
    BY TableAssumption DEF NSLOT
  <2> QED BY <1>1, <2>1, <2>3, <2>4 DEF Slots
<1>3. PICK t \in Ses : /\ resp[sl].phy \in DOMAIN Wiring[t]
                      /\ Wiring[t][resp[sl].phy] - 1 = sl
  BY <1>1, <1>2 DEF TypeInv, AnswerInv, OwnAnswer
<1>4. PICK q \in DOMAIN Wiring[t] : q = resp[sl].phy
  BY <1>3
<1>5. Wiring[t][q] \in Int /\ Wiring[s][p] \in Int
  BY PhysAre
<1>6. Wiring[t][q] = Wiring[s][p]
  BY <1>1, <1>3, <1>4, <1>5
<1>7. sl \in SlotsOf(Index(t))
  <2>1. Wiring[t][q] - 1 \in SlotsOf(Index(t))
    BY <1>6, SessionAssumption
  <2> QED BY <1>3, <1>4, <2>1
<1>8. s = t
  BY <1>2, <1>7, SlotsApart
<1>9. p = q
  BY <1>6, <1>8, SessionAssumption
<1> QED BY <1>1, <1>4, <1>9

(* What a refresh shows of an expander it could reach.                     *)
LEMMA WholeSaid ==
    ASSUME TypeInv, NEW s \in Ses, Whole(s), NEW p \in DOMAIN Wiring[s]
    PROVE  /\ Wiring[s][p] > 0 => resp[Wiring[s][p] - 1].phy = p
           /\ Wiring[s][p] = HbaPhy => bsg_path[Index(s)] # NoPath
<1>1. Told(s, p)
  BY DEF Whole
<1> QED BY <1>1, OwnPhy DEF Told

LEMMA LostSafe ==
    ASSUME TypeInv, LostInv
    PROVE  NothingLost
<1> SUFFICES ASSUME pc = "idle", ~faulted, ~moved, op \in SlotOps,
                    NEW s \in Reachable, NEW p \in DOMAIN Wiring[s]
             PROVE  /\ Wiring[s][p] > 0 => resp[Wiring[s][p] - 1].phy = p
                    /\ Wiring[s][p] = HbaPhy => bsg_path[Index(s)] # NoPath
                    /\ op = "mpi3mr_slot_discover" =>
                          \E b \in Shown : exps[b[1]][b[2]] = Full(s)
  BY DEF NothingLost, SlotOps, Full
<1>1. /\ PassedInv
      /\ op = "mpi3mr_slot_discover" => PathsInv
  BY DEF LostInv, Clean
<1>2. CASE op = "slot_discover"
  <2>1. PICK j \in Directory(op) : s \in Boxes(Expanders[j]) /\ s \in here
    BY <1>2 DEF Reachable
  <2>2. Whole(s)
    BY <1>1, <1>2, <2>1 DEF PassedInv, Talking
  <2>3. s \in Ses
    BY <2>1, BoxesAreSes
  <2> QED BY <1>2, <2>2, <2>3, WholeSaid
<1>3. CASE op = "mpi3mr_slot_discover"
  <2>1. s \in here
    BY DEF Reachable
  <2>2. PICK a \in Directory(op) :
           /\ Cardinality({c \in Directory(op) : c <= a}) <= NUM_IOC
           /\ s \in {Chain[Adapters[a]][j] :
                       j \in DOMAIN Chain[Adapters[a]] \cap 1 .. NUM_EXP_PER_HBA}
    BY <1>3 DEF Reachable
  <2>3. PICK n \in Node : n = Adapters[a]
    BY <1>3, DirectoryFinite
  <2>4. PICK j \in DOMAIN Chain[n] \cap 1 .. NUM_EXP_PER_HBA : s = Chain[n][j]
    BY <2>2, <2>3
  <2>5. s \in Ses
    BY <2>3, <2>4, BoxesAreSes DEF Boxes
  <2>6. Shows(n)
    BY <1>1, <1>3, <2>2, <2>3 DEF PathsInv, AllShown, Turn, Talking
  <2>7. bsg_path[Index(s)] # NoPath /\ \E b \in Shown : exps[b[1]][b[2]] = Full(s)
    BY <2>1, <2>4, <2>6 DEF Shows
  <2>8. Whole(s)
    BY <1>1, <1>3, <2>1, <2>5, <2>7 DEF PathsInv, PathsAsked, Talking
  <2> QED BY <2>5, <2>7, <2>8, WholeSaid
<1> QED BY <1>2, <1>3 DEF SlotOps

(* When nothing fails or moves, a refresh leaves no phy of an expander it  *)
(* can reach unasked and no such expander without its path or its full     *)
(* entry on the Info tab, with any number of adapters, also more than the  *)
(* tables have room for, and any cabling of the expanders behind them:     *)
(* slot_discover, mpi3mr_slot_discover, mpi3mr_iocfacts.                   *)
THEOREM NothingLostSafe == Spec => []NothingLost
<1> DEFINE Inv == TypeInv /\ SameInv /\ LostInv
<1>1. Init => Inv
  BY TypeStart, SameStart, LostStart
<1>2. Inv /\ [Next]_vars => Inv'
  BY TypeStep, SameStep, LostStep
<1>3. Inv => NothingLost
  BY LostSafe
<1> QED BY <1>1, <1>2, <1>3, PTL DEF Spec

-----------------------------------------------------------------------------
(* A conversation tells the tables what the phy asked for is wired to.     *)
LEMMA SeenAsWired ==
    ASSUME TypeInv, Reached # {}, NEW s, s = Peer, NEW p, p = k, NEW f, f = DiscoverAnswer,
           f["res"] = 0
    PROVE  /\ s \in Ses /\ p \in DOMAIN Wiring[s] /\ f["phy"] = p /\ f["addr"] = Wwid[s]
           /\ f["init"] % 16 # 0 <=> Wiring[s][p] = HbaPhy
           /\ Wiring[s][p] # HbaPhy => StoredLink(f) = LinkIs(s, p)
           /\ \A len : SlotNumber(len, f) = -1 \/ SlotNumber(len, f) = Wiring[s][p]
<1>1. s \in Ses /\ p \in Nat /\ HbaWwid \in Nat \ {0}
  BY PeerReached, SessionAssumption DEF TypeInv, AnswerInv
<1>2. Phys(s) \in Nat /\ DOMAIN Wiring[s] = 0 .. Phys(s) - 1
  BY <1>1, PhysAre
<1>3. /\ p >= Phys(s) => f["res"] = NO_PHY
      /\ p < Phys(s) /\ Wiring[s][p] = Vacant => f["res"] = PHY_VACANT
      /\ p < Phys(s) /\ Wiring[s][p] # Vacant =>
            LET hba == IF Wiring[s][p] = HbaPhy THEN HbaWwid ELSE 0
            IN  /\ f["phy"] = p /\ f["addr"] = Wwid[s]
                /\ f["init"] = IF hba # 0 THEN 8 ELSE 0
                /\ f["dev"] = IF hba # 0 \/ Attached[s][p] # NoDev THEN 16 ELSE 0
                /\ f["rate"] = IF <<s, p>> \in Off THEN 1 ELSE 11
                /\ f["dsn"] = IF Wiring[s][p] > 0 THEN Wiring[s][p] ELSE 255
  BY <1>1, DiscoverAnswerHas
<1>4. p < Phys(s) /\ Wiring[s][p] # Vacant
  BY <1>1, <1>2, <1>3 DEF NO_PHY, PHY_VACANT
<1>5. p \in DOMAIN Wiring[s] /\ f["phy"] = p /\ f["addr"] = Wwid[s]
  BY <1>1, <1>2, <1>3, <1>4
<1>6. f["init"] % 16 # 0 <=> Wiring[s][p] = HbaPhy
  <2>1. CASE Wiring[s][p] = HbaPhy
    <3>1. f["init"] = 8
      BY <1>1, <1>3, <1>4, <2>1
    <3> QED BY <2>1, <3>1
  <2>2. CASE Wiring[s][p] # HbaPhy
    <3>1. f["init"] = 0
      BY <1>3, <1>4, <2>2
    <3> QED BY <2>2, <3>1
  <2> QED BY <2>1, <2>2
<1>7. ASSUME Wiring[s][p] # HbaPhy PROVE StoredLink(f) = LinkIs(s, p)
  <2>1. /\ f["dev"] = IF Attached[s][p] # NoDev THEN 16 ELSE 0
        /\ f["rate"] = IF <<s, p>> \in Off THEN 1 ELSE 11
    BY <1>3, <1>4, <1>7
  <2>2. f["rate"] % 16 = 1 <=> <<s, p>> \in Off
    BY <2>1
  <2>3. (f["dev"] \div 16) % 8 = 0 <=> Attached[s][p] = NoDev
    BY <2>1
  <2> QED BY <2>2, <2>3 DEF StoredLink, LinkIs
<1>8. \A len : SlotNumber(len, f) = -1 \/ SlotNumber(len, f) = Wiring[s][p]
  <2>1. f["dsn"] = 255 \/ f["dsn"] = Wiring[s][p]
    BY <1>3, <1>4
  <2> QED BY <2>1 DEF SlotNumber
<1> QED BY <1>1, <1>5, <1>6, <1>7, <1>8

LEMMA NoSlotTold ==
    ASSUME NEW dsn \in {0, -1}, NEW q, SetDiscoverResp(dsn, q)
    PROVE  UNCHANGED slotVars
<1>1. dsn - 1 \notin Slots
  BY DEF Slots
<1> QED BY <1>1 DEF SetDiscoverResp

LEMMA SlotPhyTold ==
    ASSUME TypeInv, AskSlotPhy
    PROVE  TablesTold
<1>1. PICK o \in Outcomes(DiscoverAnswer) :
         LET r == Respond(Zero, o)
             len == do_discover(r)
         IN  IF len >= 0 THEN Store(len, r.buf)
             ELSE UNCHANGED <<slotVars, ctrlVars, hba_sa>>
  BY DEF AskSlotPhy
<1>2. PICK r : r = smp_send_req(tobj.opened, tobj.selector, Zero, o)
  OBVIOUS
<1>3. PICK len : len = do_discover(r)
  OBVIOUS
<1>4. IF len >= 0 THEN Store(len, r.buf) ELSE UNCHANGED <<slotVars, ctrlVars, hba_sa>>
  BY <1>1, <1>2, <1>3 DEF Respond
<1>5. CASE ~(len >= 0)
  BY <1>4, <1>5 DEF TablesTold
<1>6. CASE len >= 0
  <2>1. tobj.opened \in BOOLEAN /\ tobj.selector \in Selector /\ k \in Nat /\ pc = "slot"
    BY DEF TypeInv, AnswerInv, ObjectInv, AskSlotPhy
  <2>2. Reached # {} /\ tobj.node \in here
    <3>1. Reached # {}
      BY <1>2, <1>3, <1>6, <2>1, NoneReached
    <3> QED BY <3>1 DEF Reached
  <2>3. PICK f \in Frame : f = DiscoverAnswer
    BY <2>1, <2>2, DiscoverAnswerIs
  <2>4. /\ f["res"] = 0
        /\ r.buf = f \/ (r.buf["init"] = 0 /\ r.buf["dsn"] = 0)
    BY <1>2, <1>3, <1>6, <2>1, <2>3, AnswerOrLittle
  <2>5. PICK s : s = Peer
    OBVIOUS
  <2>6. PICK p : p = k
    OBVIOUS
  <2>7. s \in Boxes(tobj.node)
    BY <2>2, <2>5, PeerReached
  <2>8. /\ p \in DOMAIN Wiring[s] /\ f["phy"] = p /\ f["addr"] = Wwid[s]
        /\ f["init"] % 16 # 0 <=> Wiring[s][p] = HbaPhy
        /\ Wiring[s][p] # HbaPhy => StoredLink(f) = LinkIs(s, p)
        /\ \A x : SlotNumber(x, f) = -1 \/ SlotNumber(x, f) = Wiring[s][p]
    BY <2>2, <2>3, <2>4, <2>5, <2>6, SeenAsWired
  <2>9. ASSUME Tells(s, p) PROVE TablesTold
    BY <2>1, <2>2, <2>6, <2>7, <2>8, <2>9 DEF TablesTold
  <2>10. Store(len, r.buf)
    BY <1>4, <1>6
  <2>11. CASE r.buf["init"] % 16 # 0
    <3>1. r.buf = f /\ Wiring[s][p] = HbaPhy
      BY <2>4, <2>8, <2>11
    <3>2. \/ SetBsgPath(Index(s), tobj.node) /\ UNCHANGED slotVars
          \/ UNCHANGED <<slotVars, ctrlVars>>
      BY <2>8, <2>10, <2>11, <3>1 DEF Store, Index
    <3> QED BY <2>9, <3>1, <3>2 DEF Tells, TablesTold
  <2>12. CASE ~(r.buf["init"] % 16 # 0)
    <3>1. PICK q : q = [phy |-> r.buf["phy"], link |-> StoredLink(r.buf)]
      OBVIOUS
    <3>2. PICK dsn : dsn = SlotNumber(len, r.buf)
      OBVIOUS
    <3>3. SetDiscoverResp(dsn, q) /\ UNCHANGED ctrlVars
      BY <2>10, <2>12, <3>1, <3>2 DEF Store
    <3>4. CASE dsn \in {0, -1}
      BY <3>3, <3>4, NoSlotTold DEF TablesTold
    <3>5. CASE dsn \notin {0, -1}
      <4>1. r.buf = f /\ Wiring[s][p] # HbaPhy
        <5>1. r.buf["dsn"] # 0
          BY <3>2, <3>5 DEF SlotNumber
        <5>2. r.buf = f
          BY <2>4, <5>1
        <5> QED BY <2>8, <2>12, <5>2
      <4>2. dsn = Wiring[s][p]
        BY <2>8, <3>2, <3>5, <4>1
      <4>3. q = [phy |-> p, link |-> LinkIs(s, p)]
        BY <2>8, <3>1, <4>1
      <4>4. Tells(s, p)
        BY <3>3, <4>1, <4>2, <4>3 DEF Tells
      <4> QED BY <2>9, <4>4
    <3> QED BY <3>4, <3>5
  <2> QED BY <2>11, <2>12
<1> QED BY <1>5, <1>6

LEMMA ToldStep ==
    ASSUME TypeInv, [Next]_vars
    PROVE  [TablesTold]_vars
<1>1. CASE UNCHANGED vars
  BY <1>1
<1>2. ASSUME UNCHANGED tableVars PROVE TablesTold
  BY <1>2 DEF TablesTold, tableVars
<1>3. ASSUME NEW o \in Ops, Start(o) PROVE TablesTold
  BY <1>3 DEF Start, TablesTold
<1>4. CASE OpenNode \/ NodesDone \/ NextAddress \/ AddressesDone \/ OpenPath \/ PathsDone
           \/ Walked \/ Close
  BY <1>2, <1>4 DEF OpenNode, NodesDone, NextAddress, AddressesDone, OpenPath, PathsDone,
                    Walked, Close
<1>5. CASE Walk
  BY <1>2, <1>5, SlotPhyTold DEF Walk, Walking, ReportGeneral, AskPhy, PhysWalked
<1>6. CASE report_manufacturer
  <2>1. /\ pc = "manu" /\ UNCHANGED slotVars
        /\ SetBsgPath(WWID_TO_INDEX(tobj.addr), tobj.node)
    BY <1>6 DEF report_manufacturer
  <2>2. PICK s \in Boxes(tobj.node) : tobj.addr = Wwid[s]
    BY <2>1 DEF TypeInv, AnswerInv
  <2>3. SetBsgPath(Index(s), tobj.node)
    BY <2>1, <2>2 DEF Index
  <2> QED BY <2>1, <2>3 DEF TablesTold
<1>7. CASE populate_adpinfo \/ issue_iocfacts \/ cfg_get_enclosure_pg0 \/ EnclosuresDone
           \/ mpi3mr_qcmd \/ cfg_get_sas_exp_pg0 \/ ExpandersDone \/ CloseIoc
  BY <1>2, <1>7 DEF populate_adpinfo, issue_iocfacts, cfg_get_enclosure_pg0, EnclosuresDone,
                    mpi3mr_qcmd, cfg_get_sas_exp_pg0, ExpandersDone, CloseIoc
<1>8. ASSUME NEW x \in Removable, Change(x) PROVE TablesTold
  BY <1>2, <1>8 DEF Change
<1> QED BY <1>1, <1>3, <1>4, <1>5, <1>6, <1>7, <1>8 DEF Next, mpi3mr_iocfacts

(* Whatever fails, is cut short or comes and goes, a conversation writes   *)
(* to the tables what Canvas!DiscoverPhy writes for the phy asked for, or  *)
(* nothing, and report_manufacturer the path of an expander behind the     *)
(* open node: do_multiple_slot, do_discover, setDiscoverResp.              *)
THEOREM DiscoverPhyTold == Spec => AsDiscoverPhy
<1>1. TypeInv /\ [Next]_vars => [TablesTold]_vars
  BY ToldStep
<1>2. TypeInv /\ [Next]_vars => TypeInv'
  BY TypeStep
<1> QED BY <1>1, <1>2, TypeStart, PTL DEF Spec, AsDiscoverPhy

=============================================================================
