---------------------------- MODULE FioBatchProofs ----------------------------
(***************************************************************************)
(* Theorems about the test batches for every number of slots, fan duties,  *)
(* nested batches and errors, and for every window that keeps what Window  *)
(* promises.                                                               *)
(***************************************************************************)
EXTENDS FioBatch, FiniteSetTheorems, SequenceTheorems, TLAPS

-----------------------------------------------------------------------------
(* Slot numbers and expander numbers.                                      *)

LEMMA SameExpander ==
    ASSUME NEW sl \in Nat, (sl + 1) % NSLOT_PEREXP # 0
    PROVE  Expander(sl + 1) = Expander(sl)
<1> DEFINE N == NSLOT_PEREXP
<1>1. N \in Nat \ {0}
  BY BatchAssumption
<1> HIDE DEF N
<1>2. sl \div N \in Nat /\ sl % N \in 0 .. N - 1 /\ sl = N * (sl \div N) + (sl % N)
  BY <1>1
<1>3. /\ (sl + 1) \div N \in Nat /\ (sl + 1) % N \in 0 .. N - 1
      /\ sl + 1 = N * ((sl + 1) \div N) + ((sl + 1) % N)
  BY <1>1
<1>4. (sl + 1) % N # 0
  BY DEF N
<1>5. (sl + 1) \div N = sl \div N
  BY <1>1, <1>2, <1>3, <1>4
<1> QED BY <1>5 DEF N, Expander

(* A slot number at the end of the table, or inside it, is a whole number  *)
(* of expanders away from the end exactly when an expander begins there.   *)
LEMMA NextExpanderInTable ==
    ASSUME NEW sl \in Nat, sl % NSLOT_PEREXP = 0, sl < NSLOT
    PROVE  sl + NSLOT_PEREXP <= NSLOT /\ (sl + NSLOT_PEREXP) % NSLOT_PEREXP = 0
<1> DEFINE N == NSLOT_PEREXP
           q == sl \div N
<1>1. N \in Nat \ {0} /\ NEXPDR \in Nat \ {0} /\ NSLOT = NEXPDR * N
  BY BatchAssumption DEF NSLOT
<1> HIDE DEF N
<1>2. q \in Nat /\ sl = N * q
  BY <1>1 DEF N
<1> HIDE DEF q
<1>3. q < NEXPDR
  BY <1>1, <1>2
<1>4. sl + N = (q + 1) * N /\ (q + 1) * N <= NEXPDR * N
  BY <1>1, <1>2, <1>3
<1>5. ((q + 1) * N) % N = 0
  BY <1>1, <1>2
<1> QED BY <1>1, <1>4, <1>5 DEF N

LEMMA TableEnd ==
    /\ NSLOT \in Nat \ {0} /\ NSLOT % NSLOT_PEREXP = 0 /\ 0 % NSLOT_PEREXP = 0
<1> DEFINE N == NSLOT_PEREXP
<1>1. N \in Nat \ {0} /\ NEXPDR \in Nat \ {0} /\ NSLOT = NEXPDR * N
  BY BatchAssumption DEF NSLOT
<1> HIDE DEF N
<1>2. NEXPDR * N \in Nat \ {0} /\ (NEXPDR * N) % N = 0 /\ 0 % N = 0
  BY <1>1
<1> QED BY <1>1, <1>2 DEF N

-----------------------------------------------------------------------------
(* What becomes of the stack.                                              *)

LEMMA SetTopStack ==
    ASSUME NEW S, stack \in Seq(S), stack # <<>>, NEW f \in S, SetTop(f)
    PROVE  /\ stack' \in Seq(S) /\ Len(stack') = Len(stack)
           /\ Len(stack) \in Nat \ {0}
           /\ \A n \in 1 .. Len(stack) :
                 stack'[n] = IF n = Len(stack) THEN f ELSE stack[n]
<1>1. Len(stack) \in Nat \ {0}
  BY EmptySeq
<1> QED BY <1>1, ExceptSeq DEF SetTop

LEMMA PopStack ==
    ASSUME NEW S, stack \in Seq(S), stack # <<>>, stack' = Front(stack)
    PROVE  /\ stack' \in Seq(S) /\ Len(stack') = Len(stack) - 1
           /\ Len(stack) \in Nat \ {0}
           /\ \A n \in 1 .. Len(stack) - 1 : stack'[n] = stack[n]
<1>1. Len(stack) \in Nat \ {0} /\ \A n \in 1 .. Len(stack) - 1 : stack[n] \in S
  BY EmptySeq, ElementOfSeq
<1> DEFINE m == Len(stack) - 1
<1>2. m \in Int /\ 1 \in Int /\ \A n \in 1 .. m : stack[n] \in S
  BY <1>1
<1>3. /\ SubSeq(stack, 1, m) \in Seq(S)
      /\ Len(SubSeq(stack, 1, m)) = IF 1 <= m THEN m - 1 + 1 ELSE 0
      /\ \A i \in 1 .. m - 1 + 1 : SubSeq(stack, 1, m)[i] = stack[1 + i - 1]
  BY <1>2, SubSeqProperties
<1>4. m \in Nat /\ m - 1 + 1 = m
  BY <1>1
<1>5. ASSUME NEW i \in 1 .. m PROVE SubSeq(stack, 1, m)[i] = stack[i]
  <2>1. 1 + i - 1 = i /\ i \in 1 .. m - 1 + 1
    BY <1>4
  <2> QED BY <1>3, <2>1
<1>6. stack' = SubSeq(stack, 1, m)
  BY DEF Front
<1> HIDE DEF m
<1>7. Len(stack') = m
  BY <1>3, <1>4, <1>6
<1> QED BY <1>1, <1>3, <1>5, <1>6, <1>7 DEF m

LEMMA TopFrame ==
    ASSUME NEW S, stack \in Seq(S), stack # <<>>
    PROVE  /\ Len(stack) \in Nat \ {0} /\ DOMAIN stack = 1 .. Len(stack)
           /\ top = stack[Len(stack)] /\ top \in S
<1>1. Len(stack) \in Nat \ {0}
  BY EmptySeq
<1> QED BY <1>1, LenProperties DEF top, Last

LEMMA MappedStack ==
    ASSUME NEW S, stack \in Seq(S), DOMAIN stack' = DOMAIN stack,
           \A n \in DOMAIN stack : stack'[n] \in S,
           stack' = [n \in DOMAIN stack |-> stack'[n]]
    PROVE  stack' \in Seq(S) /\ Len(stack') = Len(stack) /\ DOMAIN stack = 1 .. Len(stack)
<1>1. Len(stack) \in Nat /\ DOMAIN stack = 1 .. Len(stack)
  BY LenProperties
<1>2. stack' \in [1 .. Len(stack) -> S]
  BY <1>1
<1>3. stack' \in Seq(S)
  BY <1>1, <1>2, SeqDef
<1>4. Len(stack') \in Nat /\ 1 .. Len(stack') = 1 .. Len(stack)
  BY <1>1, <1>3, LenProperties
<1> QED BY <1>1, <1>3, <1>4

-----------------------------------------------------------------------------
(* Type correctness.  The loops stay in the table and in the fan duties,   *)
(* and there is always a name for a script: every script on the disk is    *)
(* either a waiting test's or an error's, and the errors are bounded.      *)
WinType ==
    /\ pic \in [Slots -> Drive \cup {NoDev}]
    /\ checked \in [Slots -> BOOLEAN]
    /\ pathed \subseteq Expdrs
    /\ busy \in BOOLEAN

Testing == {"pause", "write", "written", "test"}
InDuty == {"fan1", "fan2", "set", "expander", "slot", "round"} \cup Testing

InLoops(f) ==
    /\ f.at \in InDuty => f.duty <= FD
    /\ f.kind = "autofio" /\ f.at = "expander" => f.sl % NSLOT_PEREXP = 0
    /\ f.kind = "autofio" /\ f.at \in {"slot"} \cup Testing => f.sl < NSLOT
    /\ f.time # 0 => f.at \in {"written", "test"}

GoodFrame == {f \in Frame : InLoops(f)}

Times == {stack[n].time : n \in DOMAIN stack}

StackInv ==
    /\ stack \in Seq(GoodFrame) /\ Len(stack) <= MaxNest
    /\ scripts \subseteq 1 .. MaxErrors /\ errors \in Nat
    /\ errors + Len(stack) <= MaxErrors
    /\ Cardinality(scripts \ Times) <= errors

BatchInv ==
    /\ WinType /\ StackInv
    /\ fd \in [Duties -> BOOLEAN] /\ fdEnabled \in BOOLEAN
    /\ fan \in 0 .. FD
    /\ m_closed \in BOOLEAN /\ closed \in BOOLEAN

LEMMA ScriptsFinite ==
    ASSUME StackInv
    PROVE  /\ IsFiniteSet(scripts) /\ Cardinality(scripts) \in Nat
           /\ IsFiniteSet(scripts \ Times) /\ Cardinality(scripts \ Times) \in Nat
           /\ 0 \notin scripts
<1>1. IsFiniteSet(1 .. MaxErrors)
  BY BatchAssumption, FS_Interval
<1>2. scripts \subseteq 1 .. MaxErrors /\ scripts \ Times \subseteq scripts
  BY DEF StackInv
<1>3. IsFiniteSet(scripts) /\ Cardinality(scripts) \in Nat
  BY <1>1, <1>2, FS_Subset, FS_CardinalityType
<1>4. IsFiniteSet(scripts \ Times) /\ Cardinality(scripts \ Times) \in Nat
  BY <1>2, <1>3, FS_Subset, FS_CardinalityType
<1>5. 0 \notin 1 .. MaxErrors
  BY BatchAssumption
<1> QED BY <1>2, <1>3, <1>4, <1>5

LEMMA FewerScripts ==
    ASSUME StackInv, NEW S \in SUBSET (scripts \ Times)
    PROVE  IsFiniteSet(S) /\ Cardinality(S) \in Nat /\ Cardinality(S) <= errors
<1>1. IsFiniteSet(S) /\ Cardinality(S) \in Nat /\ Cardinality(S) <= Cardinality(scripts \ Times)
  BY ScriptsFinite, FS_Subset, FS_CardinalityType
<1> QED BY <1>1, ScriptsFinite DEF StackInv

LEMMA Moved ==
    ASSUME StackInv, stack # <<>>, NEW f \in GoodFrame, SetTop(f),
           f.time = top.time, UNCHANGED <<scripts, errors>>
    PROVE  StackInv'
<1>1. stack \in Seq(GoodFrame)
  BY DEF StackInv
<1>2. /\ stack' \in Seq(GoodFrame) /\ Len(stack') = Len(stack)
      /\ Len(stack) \in Nat \ {0}
      /\ \A n \in 1 .. Len(stack) :
            stack'[n] = IF n = Len(stack) THEN f ELSE stack[n]
  BY <1>1, SetTopStack
<1>3. DOMAIN stack = 1 .. Len(stack) /\ DOMAIN stack' = 1 .. Len(stack)
      /\ top = stack[Len(stack)]
  BY <1>1, <1>2, LenProperties, TopFrame
<1>4. \A n \in DOMAIN stack : stack'[n].time = stack[n].time
  BY <1>2, <1>3
<1>5. Times' = Times
  BY <1>3, <1>4 DEF Times
<1> QED BY <1>2, <1>5 DEF StackInv

LEMMA Popped ==
    ASSUME StackInv, stack # <<>>, stack' = Front(stack), scripts' = scripts,
           \/ errors' = errors /\ top.time = 0
           \/ errors' = errors + 1
    PROVE  StackInv'
<1>1. stack \in Seq(GoodFrame)
  BY DEF StackInv
<1>2. /\ stack' \in Seq(GoodFrame) /\ Len(stack') = Len(stack) - 1
      /\ Len(stack) \in Nat \ {0}
      /\ \A n \in 1 .. Len(stack) - 1 : stack'[n] = stack[n]
  BY <1>1, PopStack
<1>3. DOMAIN stack = 1 .. Len(stack) /\ DOMAIN stack' = 1 .. Len(stack) - 1
      /\ top = stack[Len(stack)]
  BY <1>1, <1>2, LenProperties, TopFrame
<1>4. Times \subseteq Times' \cup {top.time}
  BY <1>2, <1>3 DEF Times
<1>5. errors' \in Nat /\ errors' + Len(stack') <= MaxErrors /\ Len(stack') <= MaxNest
  BY <1>2, BatchAssumption DEF StackInv
<1>6. Cardinality(scripts' \ Times') <= errors'
  <2>1. CASE errors' = errors /\ top.time = 0
    <3>1. scripts' \ Times' \subseteq scripts \ Times
      BY <1>4, <2>1, ScriptsFinite
    <3> QED BY <2>1, <3>1, FewerScripts
  <2>2. CASE errors' = errors + 1
    <3> DEFINE S == (scripts \ Times') \ {top.time}
    <3>1. S \subseteq scripts \ Times /\ IsFiniteSet(scripts \ Times')
      BY <1>4, ScriptsFinite, FS_Subset
    <3>2. IsFiniteSet(S) /\ Cardinality(S) \in Nat /\ Cardinality(S) <= errors
      BY <3>1, FewerScripts
    <3>3. Cardinality(S) = IF top.time \in scripts \ Times'
                           THEN Cardinality(scripts \ Times') - 1
                           ELSE Cardinality(scripts \ Times')
      BY <3>1, FS_RemoveElement
    <3>4. Cardinality(scripts \ Times') \in Nat /\ errors \in Nat
      BY <3>1, FS_CardinalityType DEF StackInv
    <3> HIDE DEF S
    <3>5. Cardinality(scripts \ Times') <= errors + 1
      BY <3>2, <3>3, <3>4
    <3> QED BY <2>2, <3>5
  <2> QED BY <2>1, <2>2
<1> QED BY <1>2, <1>5, <1>6 DEF StackInv

LEMMA Pushed ==
    ASSUME StackInv, NEW f \in GoodFrame, stack' = Append(stack, f),
           Len(stack) < MaxNest, errors + Len(stack) < MaxErrors,
           UNCHANGED <<scripts, errors>>
    PROVE  StackInv'
<1>1. stack \in Seq(GoodFrame) /\ Len(stack) \in Nat
  BY LenProperties DEF StackInv
<1>2. /\ stack' \in Seq(GoodFrame) /\ Len(stack') = Len(stack) + 1
      /\ \A n \in 1 .. Len(stack) : stack'[n] = stack[n]
  BY <1>1
<1>3. DOMAIN stack = 1 .. Len(stack) /\ DOMAIN stack' = 1 .. Len(stack) + 1
  BY <1>1, <1>2, LenProperties
<1>4. Times \subseteq Times'
  BY <1>1, <1>2, <1>3 DEF Times
<1>5. Cardinality(scripts' \ Times') <= errors'
  BY <1>4, FewerScripts
<1> QED BY <1>1, <1>2, <1>5, BatchAssumption DEF StackInv

LEMMA Mapped ==
    ASSUME StackInv, stack' = [n \in DOMAIN stack |-> stack'[n]],
           DOMAIN stack' = DOMAIN stack,
           \A n \in DOMAIN stack : /\ stack'[n] \in GoodFrame
                                   /\ stack'[n].time = stack[n].time,
           UNCHANGED <<scripts, errors>>
    PROVE  StackInv'
<1>1. stack \in Seq(GoodFrame)
  BY DEF StackInv
<1>2. stack' \in Seq(GoodFrame) /\ Len(stack') = Len(stack)
  BY <1>1, MappedStack
<1>3. Times' = Times
  BY DEF Times
<1> QED BY <1>2, <1>3 DEF StackInv

LEMMA Same ==
    ASSUME StackInv, UNCHANGED <<stack, scripts, errors>>
    PROVE  StackInv'
BY DEF StackInv, Times

(* What a script names are drives; what is counted fits the tables.        *)
LEMMA BlocksAreDrives ==
    ASSUME WinType
    PROVE  /\ \A slots \in SUBSET Occupied : Blocks(slots) \in SUBSET Drive
           /\ sdxlist_sit \in SUBSET Drive
           /\ \A sl : sdxlist_wl(sl) \in Script
           /\ Blocks(Testable) \in SUBSET Drive
<1>1. \A slots \in SUBSET Occupied : Blocks(slots) \in SUBSET Drive
  BY DEF WinType, Occupied, Blocks
<1> HIDE DEF Blocks
<1>2. sdxlist_sit \in SUBSET Drive
  BY <1>1 DEF sdxlist_sit
<1>3. \A sl : sdxlist_wl(sl) \in Script
  BY <1>1, <1>2 DEF sdxlist_wl, Script
<1>4. Blocks(Testable) \in SUBSET Drive
  BY <1>1 DEF Testable, Selected
<1> QED BY <1>1, <1>2, <1>3, <1>4

LEMMA CountedFits ==
    /\ Cardinality(Selected) \in 0 .. NSLOT
    /\ \A g : Cardinality({l \in Duties : g[l]}) \in 0 .. FD
<1>1. IsFiniteSet(Slots) /\ Cardinality(Slots) = NSLOT
  BY TableEnd, FS_Interval DEF Slots
<1>2. IsFiniteSet(Duties) /\ Cardinality(Duties) = FD
  BY BatchAssumption, FS_Interval DEF Duties
<1>3. Selected \subseteq Slots
  BY DEF Selected, Occupied
<1>4. \A S : S \subseteq Slots => Cardinality(S) \in 0 .. NSLOT
  BY <1>1, FS_Subset, FS_CardinalityType, TableEnd
<1>5. \A S : S \subseteq Duties => Cardinality(S) \in 0 .. FD
  BY <1>2, FS_Subset, FS_CardinalityType, BatchAssumption
<1>6. \A g : {l \in Duties : g[l]} \subseteq Duties
  OBVIOUS
<1> QED BY <1>3, <1>4, <1>5, <1>6

LEMMA WinTypeInit == WinInit => WinType
BY DEF WinInit, WinType, Blank, Unchecked

LEMMA WinTypeStep ==
    ASSUME WinType,
           \/ UNCHANGED winVars
           \/ BeginRefresh \/ filloutCanvas
           \/ \E marks \in [Slots -> BOOLEAN] : Click(marks)
    PROVE  WinType'
<1>1. CASE UNCHANGED winVars
  BY <1>1 DEF winVars, WinType
<1>2. CASE BeginRefresh
  BY <1>2 DEF BeginRefresh, WinType, Blank, Unchecked
<1>3. CASE EndRefresh
  BY <1>3 DEF EndRefresh, WinType
<1>4. ASSUME NEW sl \in Slots, Hide(sl) \/ \E d \in Drive : Show(sl, d) PROVE WinType'
  BY <1>4 DEF Hide, Show, WinType
<1>5. ASSUME NEW el \in Expdrs, Reach({el}) PROVE WinType'
  BY <1>5 DEF Reach, WinType
<1>6. ASSUME NEW marks \in [Slots -> BOOLEAN], Click(marks) PROVE WinType'
  BY <1>6 DEF Click, WinType
<1> QED BY <1>1, <1>2, <1>3, <1>4, <1>5, <1>6 DEF filloutCanvas

(* The frames the actions put on top.                                      *)
LEMMA ForgetfulFrame ==
    ASSUME NEW f \in GoodFrame, NEW X
    PROVE  [f EXCEPT !.fresh = @ \ X] \in GoodFrame /\ [f EXCEPT !.fresh = @ \ X].time = f.time
BY DEF GoodFrame, Frame, InLoops

LEMMA WaitingFrame ==
    ASSUME NEW f \in GoodFrame, NEW at \in {"begin", "fan2", "set", "test", "write", "over"},
           \/ at = "begin" /\ f.at = "ask"
           \/ at = "fan2" /\ f.at = "fan1"
           \/ at = "set" /\ f.at = "fan2"
           \/ at = "test" /\ f.at = "written"
           \/ at = "write" /\ f.at = "pause"
           \/ at = "over" /\ f.at \in {"duty", "round"}
    PROVE  /\ [f EXCEPT !.at = at] \in GoodFrame
           /\ [f EXCEPT !.at = at].time = f.time
<1>1. [f EXCEPT !.at = at] \in Frame
  BY DEF GoodFrame, Frame, Waits, Boxes, Programs, Runs
<1>2. InLoops([f EXCEPT !.at = at])
  BY DEF GoodFrame, Frame, InLoops, InDuty, Testing
<1> QED BY <1>1, <1>2 DEF GoodFrame, Frame

LEMMA NewFrames ==
    /\ NewFrame("autofio", "ask") \in GoodFrame /\ NewFrame("fio2", "begin") \in GoodFrame
    /\ \A list \in Script : [NewFrame("list", "told") EXCEPT !.script = list] \in GoodFrame
<1>1. NoScript \in Script /\ 1 \in 1 .. FD + 1 /\ 0 \in 0 .. NSLOT
      /\ 0 \in 0 .. FD + RW_ALL /\ 0 \in 0 .. MaxErrors
  BY BatchAssumption, TableEnd DEF NoScript, Script
<1>2. \A kind \in Handler, at \in {"ask", "begin", "told"} : NewFrame(kind, at) \in Frame
  BY <1>1 DEF NewFrame, Frame, Waits, Boxes, Runs, Handler
<1>3. \A list \in Script : [NewFrame("list", "told") EXCEPT !.script = list] \in Frame
  BY <1>2 DEF Frame, Handler
<1> QED BY <1>2, <1>3 DEF GoodFrame, NewFrame, InLoops, InDuty, Testing, Handler

LEMMA BegunFrames ==
    ASSUME NEW f \in GoodFrame, f.at = "begin", NEW n \in 0 .. NSLOT, NEW m \in 0 .. FD
    PROVE  /\ [f EXCEPT !.at = "duty", !.fresh = {"begin"}, !.devCount = n, !.loops = m] \in GoodFrame
           /\ [f EXCEPT !.at = "fan1", !.fresh = {"fan"}, !.duty = FD, !.devCount = n] \in GoodFrame
<1>1. m \in 0 .. FD + RW_ALL /\ FD \in 1 .. FD + 1 /\ FD \in Int
  BY BatchAssumption
<1>2. /\ [f EXCEPT !.at = "duty", !.fresh = {"begin"}, !.devCount = n, !.loops = m] \in Frame
      /\ [f EXCEPT !.at = "fan1", !.fresh = {"fan"}, !.duty = FD, !.devCount = n] \in Frame
  BY <1>1 DEF GoodFrame, Frame, Waits, Programs, Runs, Fresh
<1>3. f \in Frame /\ f.time = 0
  BY DEF GoodFrame, InLoops
<1>4. InLoops([f EXCEPT !.at = "duty", !.fresh = {"begin"}, !.devCount = n, !.loops = m])
  BY <1>3 DEF Frame, InLoops, InDuty, Testing
<1>5. InLoops([f EXCEPT !.at = "fan1", !.fresh = {"fan"}, !.duty = FD, !.devCount = n])
  BY <1>1, <1>3 DEF Frame, InLoops, InDuty, Testing
<1> QED BY <1>2, <1>4, <1>5 DEF GoodFrame

LEMMA DutyFrames ==
    ASSUME NEW f \in GoodFrame, f.kind = "autofio"
    PROVE  /\ f.at = "duty" /\ f.duty <= FD =>
                 /\ [f EXCEPT !.duty = @ + 1] \in GoodFrame
                 /\ [f EXCEPT !.at = "fan1", !.fresh = @ \cup {"fan"}] \in GoodFrame
           /\ f.at = "set" => [f EXCEPT !.at = "expander", !.sl = 0] \in GoodFrame
<1>1. ASSUME f.at = "duty", f.duty <= FD
      PROVE  /\ [f EXCEPT !.duty = @ + 1] \in GoodFrame
             /\ [f EXCEPT !.at = "fan1", !.fresh = @ \cup {"fan"}] \in GoodFrame
  <2>1. f.duty + 1 \in 1 .. FD + 1
    BY <1>1, BatchAssumption DEF GoodFrame, Frame
  <2>2. /\ [f EXCEPT !.duty = @ + 1] \in Frame
        /\ [f EXCEPT !.at = "fan1", !.fresh = @ \cup {"fan"}] \in Frame
    BY <2>1 DEF GoodFrame, Frame, Waits, Programs, Fresh
  <2> QED BY <1>1, <2>2 DEF GoodFrame, Frame, InLoops, InDuty, Testing
<1>2. ASSUME f.at = "set" PROVE [f EXCEPT !.at = "expander", !.sl = 0] \in GoodFrame
  <2>1. 0 \in 0 .. NSLOT /\ 0 % NSLOT_PEREXP = 0
    BY TableEnd
  <2>2. [f EXCEPT !.at = "expander", !.sl = 0] \in Frame
    BY <2>1 DEF GoodFrame, Frame, Runs
  <2> QED BY <1>2, <2>1, <2>2 DEF GoodFrame, Frame, InLoops, InDuty, Testing
<1> QED BY <1>1, <1>2

LEMMA ExpanderFrames ==
    ASSUME NEW f \in GoodFrame, f.kind = "autofio", f.at = "expander"
    PROVE  /\ f.sl = NSLOT => [f EXCEPT !.at = "duty", !.duty = @ + 1] \in GoodFrame
           /\ f.sl < NSLOT =>
                 /\ [f EXCEPT !.sl = @ + NSLOT_PEREXP] \in GoodFrame
                 /\ [f EXCEPT !.at = "slot", !.fresh = @ \cup {"expander"}] \in GoodFrame
<1>1. f \in Frame /\ f.duty \in 1 .. FD + 1 /\ f.duty <= FD /\ f.sl \in Nat
      /\ f.sl % NSLOT_PEREXP = 0 /\ f.time = 0
  BY DEF GoodFrame, Frame, InLoops, InDuty
<1>2. [f EXCEPT !.at = "duty", !.duty = @ + 1] \in GoodFrame
  <2>1. f.duty + 1 \in 1 .. FD + 1
    BY <1>1, BatchAssumption
  <2>2. [f EXCEPT !.at = "duty", !.duty = @ + 1] \in Frame
    BY <1>1, <2>1 DEF Frame, Runs
  <2> QED BY <1>1, <2>2 DEF GoodFrame, Frame, InLoops, InDuty, Testing
<1>3. ASSUME f.sl < NSLOT PROVE [f EXCEPT !.sl = @ + NSLOT_PEREXP] \in GoodFrame
  <2>1. f.sl + NSLOT_PEREXP \in 0 .. NSLOT /\ (f.sl + NSLOT_PEREXP) % NSLOT_PEREXP = 0
    BY <1>1, <1>3, NextExpanderInTable, BatchAssumption
  <2>2. [f EXCEPT !.sl = @ + NSLOT_PEREXP] \in Frame
    BY <1>1, <2>1 DEF Frame
  <2> QED BY <1>1, <2>1, <2>2 DEF GoodFrame, Frame, InLoops, InDuty, Testing
<1>4. ASSUME f.sl < NSLOT
      PROVE  [f EXCEPT !.at = "slot", !.fresh = @ \cup {"expander"}] \in GoodFrame
  <2>1. [f EXCEPT !.at = "slot", !.fresh = @ \cup {"expander"}] \in Frame
    BY <1>1 DEF Frame, Runs, Fresh
  <2> QED BY <1>1, <1>4, <2>1 DEF GoodFrame, Frame, InLoops, InDuty, Testing
<1> QED BY <1>2, <1>3, <1>4

LEMMA SlotFrames ==
    ASSUME NEW f \in GoodFrame, f.kind = "autofio",
           f.at = "slot" \/ (f.at = "test" /\ f.time = 0)
    PROVE  PastSlot(f) \in GoodFrame /\ PastSlot(f).time = 0
<1>1. f \in Frame /\ f.sl \in Nat /\ f.sl < NSLOT /\ f.time = 0 /\ f.duty <= FD
  BY DEF GoodFrame, Frame, InLoops, InDuty, Testing
<1>2. f.sl + 1 \in 0 .. NSLOT
  BY <1>1, TableEnd
<1>3. CASE (f.sl + 1) % NSLOT_PEREXP = 0
  <2> DEFINE g == [f EXCEPT !.sl = @ + 1, !.at = "expander", !.fresh = @ \ {"slot", "expander"}]
  <2>1. g \in Frame
    BY <1>1, <1>2 DEF Frame, Runs
  <2>2. InLoops(g)
    BY <1>1, <1>3 DEF Frame, InLoops, InDuty, Testing
  <2> QED BY <1>1, <1>3, <2>1, <2>2 DEF PastSlot, GoodFrame, Frame
<1>4. CASE (f.sl + 1) % NSLOT_PEREXP # 0
  <2> DEFINE g == [f EXCEPT !.sl = @ + 1, !.at = "slot", !.fresh = @ \ {"slot"}]
  <2>1. g \in Frame
    BY <1>1, <1>2 DEF Frame, Runs
  <2>2. f.sl + 1 < NSLOT
    BY <1>1, <1>4, TableEnd
  <2>3. InLoops(g)
    BY <1>1, <2>2 DEF Frame, InLoops, InDuty, Testing
  <2> QED BY <1>1, <1>4, <2>1, <2>3 DEF PastSlot, GoodFrame, Frame
<1> QED BY <1>3, <1>4

LEMMA TestFrames ==
    ASSUME NEW f \in GoodFrame, NEW at \in {"pause", "write"},
           \/ f.kind = "autofio" /\ f.at = "slot"
           \/ f.kind = "fio2" /\ f.at = "round"
    PROVE  /\ [f EXCEPT !.at = at, !.tested = TRUE] \in GoodFrame
           /\ f.fresh \cup {"slot"} \in SUBSET Fresh
           /\ f.time = 0
<1>1. f \in Frame /\ f.time = 0 /\ f.duty <= FD /\ (f.kind = "autofio" => f.sl < NSLOT)
  BY DEF GoodFrame, Frame, InLoops, InDuty, Testing
<1>2. [f EXCEPT !.at = at, !.tested = TRUE] \in Frame
  BY <1>1 DEF Frame, Waits, Runs
<1>3. InLoops([f EXCEPT !.at = at, !.tested = TRUE])
  BY <1>1 DEF Frame, InLoops, InDuty, Testing
<1> QED BY <1>1, <1>2, <1>3 DEF GoodFrame, Frame, Fresh

LEMMA LookedFrame ==
    ASSUME NEW f \in GoodFrame
    PROVE  [f EXCEPT !.fresh = @ \cup {"slot"}] \in GoodFrame
BY DEF GoodFrame, Frame, Fresh, InLoops

LEMMA OverFrames ==
    ASSUME NEW f \in GoodFrame, f.at = "test"
    PROVE  /\ [f EXCEPT !.script = NoScript, !.time = 0] \in GoodFrame
           /\ f.kind = "fio2" =>
                 [[f EXCEPT !.script = NoScript, !.time = 0] EXCEPT !.at = "round"] \in GoodFrame
<1>1. f \in Frame /\ f.duty <= FD /\ (f.kind = "autofio" => f.sl < NSLOT)
  BY DEF GoodFrame, Frame, InLoops, InDuty, Testing
<1>2. NoScript \in Script /\ 0 \in 0 .. MaxErrors
  BY BatchAssumption DEF NoScript, Script
<1> DEFINE g == [f EXCEPT !.script = NoScript, !.time = 0]
<1>3. g \in GoodFrame
  <2>1. g \in Frame
    BY <1>1, <1>2 DEF Frame
  <2>2. InLoops(g)
    BY <1>1 DEF Frame, InLoops, InDuty, Testing
  <2> QED BY <2>1, <2>2 DEF GoodFrame
<1>4. ASSUME f.kind = "fio2" PROVE [g EXCEPT !.at = "round"] \in GoodFrame
  <2>1. [g EXCEPT !.at = "round"] \in Frame
    BY <1>3 DEF GoodFrame, Frame, Runs
  <2>2. InLoops([g EXCEPT !.at = "round"])
    BY <1>1, <1>4 DEF Frame, InLoops, InDuty, Testing
  <2> QED BY <2>1, <2>2 DEF GoodFrame
<1> QED BY <1>3, <1>4

LEMMA WrittenFrame ==
    ASSUME NEW f \in GoodFrame, f.at = "write", NEW t \in 0 .. MaxErrors, NEW s \in Script
    PROVE  [f EXCEPT !.at = "written", !.processed = @ + 1, !.time = t, !.script = s] \in GoodFrame
<1>1. f \in Frame /\ f.duty <= FD /\ (f.kind = "autofio" => f.sl < NSLOT)
  BY DEF GoodFrame, Frame, InLoops, InDuty, Testing
<1> DEFINE g == [f EXCEPT !.at = "written", !.processed = @ + 1, !.time = t, !.script = s]
<1>2. f.processed + 1 \in Nat
  BY <1>1 DEF Frame
<1>3. g \in Frame
  BY <1>1, <1>2 DEF Frame, Runs
<1>4. InLoops(g)
  BY <1>1 DEF Frame, InLoops, InDuty, Testing
<1> QED BY <1>3, <1>4 DEF GoodFrame

LEMMA RoundFrame ==
    ASSUME NEW f \in GoodFrame, f.at = "set", f.kind = "fio2", NEW n \in {1, RW_ALL}
    PROVE  [f EXCEPT !.at = "round", !.loops = n] \in GoodFrame /\ f.time = 0
<1>1. f \in Frame /\ f.duty <= FD /\ f.time = 0
  BY DEF GoodFrame, Frame, InLoops, InDuty, Testing
<1>2. n \in 0 .. FD + RW_ALL
  BY BatchAssumption
<1>3. [f EXCEPT !.at = "round", !.loops = n] \in Frame
  BY <1>1, <1>2 DEF Frame, Runs
<1>4. InLoops([f EXCEPT !.at = "round", !.loops = n])
  BY <1>1 DEF Frame, InLoops, InDuty, Testing
<1> QED BY <1>1, <1>3, <1>4 DEF GoodFrame

(* There is a name for the script of a test that is about to run.          *)
NewTime == CHOOSE t \in 1 .. MaxErrors : t \notin scripts

LEMMA TestsWithScripts ==
    ASSUME stack \in Seq(GoodFrame)
    PROVE  LET Kept == {n \in DOMAIN stack : stack[n].time # 0}
           IN  /\ IsFiniteSet(Kept) /\ IsFiniteSet(Times \ {0})
               /\ Cardinality(Times \ {0}) <= Cardinality(Kept)
<1> DEFINE Kept == {n \in DOMAIN stack : stack[n].time # 0}
           Img == {stack[n].time : n \in Kept}
<1>1. Len(stack) \in Nat /\ DOMAIN stack = 1 .. Len(stack)
  BY LenProperties
<1>2. IsFiniteSet(1 .. Len(stack))
  BY <1>1, FS_Interval
<1>3. IsFiniteSet(Kept)
  BY <1>1, <1>2, FS_Subset
<1>4. Times \ {0} = Img
  BY DEF Times
<1> HIDE DEF Kept
<1>5. [n \in Kept |-> stack[n].time] \in Surjection(Kept, Img)
  BY DEF Surjection
<1>6. IsFiniteSet(Img) /\ Cardinality(Img) <= Cardinality(Kept)
  BY <1>3, <1>5, FS_Surjection
<1> QED BY <1>3, <1>4, <1>6 DEF Kept

LEMMA ScriptsBounded ==
    ASSUME StackInv, NEW n \in Nat, NEW S, IsFiniteSet(S),
           Times \ {0} \subseteq S, Cardinality(S) <= n
    PROVE  Cardinality(scripts) <= errors + n
<1>1. scripts \subseteq (scripts \ Times) \cup S
  BY ScriptsFinite
<1>2. /\ IsFiniteSet((scripts \ Times) \cup S)
      /\ Cardinality((scripts \ Times) \cup S) <= Cardinality(scripts \ Times) + Cardinality(S)
  <2> DEFINE A == scripts \ Times
  <2>1. IsFiniteSet(A) /\ Cardinality(A) \in Nat /\ Cardinality(S) \in Nat
    BY ScriptsFinite, FS_CardinalityType
  <2> HIDE DEF A
  <2>2. IsFiniteSet(A \cap S) /\ Cardinality(A \cap S) \in Nat
    BY <2>1, FS_Subset, FS_CardinalityType
  <2>3. /\ IsFiniteSet(A \cup S)
        /\ Cardinality(A \cup S) = Cardinality(A) + Cardinality(S) - Cardinality(A \cap S)
    BY <2>1, FS_Union
  <2>4. Cardinality(A \cup S) <= Cardinality(A) + Cardinality(S)
    BY <2>1, <2>2, <2>3
  <2> QED BY <2>3, <2>4 DEF A
<1>3. Cardinality(scripts) <= Cardinality((scripts \ Times) \cup S)
  BY <1>1, <1>2, FS_Subset
<1> QED BY <1>2, <1>3, ScriptsFinite, FS_CardinalityType DEF StackInv

LEMMA FreeName ==
    ASSUME StackInv, stack # <<>>, top.time = 0
    PROVE  NewTime \in 1 .. MaxErrors /\ NewTime \notin scripts
<1>1. stack \in Seq(GoodFrame)
  BY DEF StackInv
<1>2. /\ Len(stack) \in Nat \ {0} /\ DOMAIN stack = 1 .. Len(stack)
      /\ top = stack[Len(stack)]
  BY <1>1, TopFrame
<1> DEFINE m == Len(stack) - 1
           Img == {stack[n].time : n \in 1 .. m}
<1>3. m \in Nat /\ errors + m < MaxErrors
  BY <1>2, BatchAssumption DEF StackInv
<1>4. Times \ {0} \subseteq Img
  BY <1>2 DEF Times
<1> HIDE DEF m
<1>5. IsFiniteSet(1 .. m) /\ Cardinality(1 .. m) = m
  BY <1>3, FS_Interval
<1>6. [n \in 1 .. m |-> stack[n].time] \in Surjection(1 .. m, Img)
  BY DEF Surjection
<1>7. IsFiniteSet(Img) /\ Cardinality(Img) <= m
  BY <1>5, <1>6, FS_Surjection
<1>8. Cardinality(scripts) < MaxErrors
  <2>1. Cardinality(scripts) <= errors + m
    BY <1>3, <1>4, <1>7, ScriptsBounded
  <2> QED BY <1>3, <2>1, ScriptsFinite, BatchAssumption DEF StackInv
<1>9. \E t \in 1 .. MaxErrors : t \notin scripts
  <2> SUFFICES ASSUME 1 .. MaxErrors \subseteq scripts PROVE FALSE
    OBVIOUS
  <2>1. scripts = 1 .. MaxErrors
    BY DEF StackInv
  <2>2. Cardinality(1 .. MaxErrors) = MaxErrors
    BY BatchAssumption, FS_Interval
  <2> QED BY <1>8, <2>1, <2>2, BatchAssumption
<1> QED BY <1>9 DEF NewTime

LEMMA StartedStack ==
    ASSUME StackInv, stack # <<>>, NEW f \in GoodFrame, f.time = top.time,
           StartProgram(f), scripts' = scripts
    PROVE  StackInv'
<1>1. CASE Throw
  BY <1>1, Popped DEF Throw, Leave
<1>2. CASE SetTop(f) /\ UNCHANGED errors
  BY <1>2, Moved
<1> QED BY <1>1, <1>2 DEF StartProgram

LEMMA EnabledType ==
    ASSUME fdEnabled \in BOOLEAN, Leave \/ Disabled \/ UNCHANGED fdEnabled
    PROVE  fdEnabled' \in BOOLEAN
BY DEF Leave, Disabled

(* A test's script is removed, or written.                                 *)
LEMMA RemovedStack ==
    ASSUME StackInv, stack # <<>>, NEW f \in GoodFrame, SetTop(f), errors' = errors,
           \/ scripts' = scripts \ {top.time}
           \/ scripts' = scripts \cup ({f.time} \ {0}) /\ top.time = 0
    PROVE  StackInv'
<1>1. stack \in Seq(GoodFrame)
  BY DEF StackInv
<1>2. /\ stack' \in Seq(GoodFrame) /\ Len(stack') = Len(stack)
      /\ Len(stack) \in Nat \ {0}
      /\ \A n \in 1 .. Len(stack) :
            stack'[n] = IF n = Len(stack) THEN f ELSE stack[n]
  BY <1>1, SetTopStack
<1>3. DOMAIN stack = 1 .. Len(stack) /\ DOMAIN stack' = 1 .. Len(stack)
      /\ top = stack[Len(stack)]
  BY <1>1, <1>2, LenProperties, TopFrame
<1>4. Times \subseteq Times' \cup {top.time} /\ f.time \in Times'
  <2>1. Len(stack) \in DOMAIN stack' /\ stack'[Len(stack)] = f
    <3>1. Len(stack) \in 1 .. Len(stack)
      BY <1>2
    <3>2. Len(stack) \in DOMAIN stack'
      BY <1>3, <3>1
    <3>3. stack'[Len(stack)] = IF Len(stack) = Len(stack) THEN f ELSE stack[Len(stack)]
      BY <1>2, <3>1
    <3> QED BY <3>2, <3>3
  <2>2. f.time \in Times'
    BY <2>1 DEF Times
  <2>3. ASSUME NEW n \in DOMAIN stack PROVE stack[n].time \in Times' \cup {top.time}
    BY <1>2, <1>3 DEF Times
  <2> QED BY <2>2, <2>3 DEF Times
<1>5. scripts' \ Times' \subseteq scripts \ Times
  BY <1>4, ScriptsFinite
<1>6. Cardinality(scripts' \ Times') <= errors'
  BY <1>5, FewerScripts
<1>7. scripts' \subseteq 1 .. MaxErrors
  <2>1. f.time \in 0 .. MaxErrors /\ scripts \subseteq 1 .. MaxErrors
    BY DEF StackInv, GoodFrame, Frame
  <2>2. {f.time} \ {0} \subseteq 1 .. MaxErrors
    BY <2>1, BatchAssumption
  <2> QED BY <2>1, <2>2
<1> QED BY <1>2, <1>6, <1>7 DEF StackInv

(* The stack under the batches' own actions.                               *)
LEMMA BeginStack ==
    ASSUME StackInv, BeginAutofio \/ BeginFio2
    PROVE  StackInv'
<1>1. stack # <<>> /\ stack \in Seq(GoodFrame) /\ top.at = "begin" /\ scripts' = scripts
  BY DEF BeginAutofio, BeginFio2, Running, StackInv
<1>2. top \in GoodFrame /\ top.time = 0 /\ DOMAIN stack = 1 .. Len(stack)
      /\ top = stack[Len(stack)]
  BY <1>1, TopFrame DEF GoodFrame, InLoops
<1>3. ASSUME Throw PROVE StackInv'
  BY <1>1, <1>3, Popped DEF Throw, Leave
<1>4. ASSUME NEW f \in GoodFrame, f.time = 0, Begin(f), errors' = errors PROVE StackInv'
  <2> DEFINE forgets == IF f.kind = "autofio" THEN {"fan", "begin"} ELSE {"fan"}
  <2>1. stack' = [n \in DOMAIN stack |-> IF n = Len(stack) THEN f
                    ELSE [stack[n] EXCEPT !.fresh = @ \ forgets]]
    BY <1>4 DEF Begin
  <2> HIDE DEF forgets
  <2>2. ASSUME NEW n \in DOMAIN stack
        PROVE  stack'[n] \in GoodFrame /\ stack'[n].time = stack[n].time
    <3>1. stack[n] \in GoodFrame
      BY <1>1, <1>2, ElementOfSeq
    <3> QED BY <1>2, <1>4, <2>1, <3>1, ForgetfulFrame
  <2>3. DOMAIN stack' = DOMAIN stack /\ stack' = [n \in DOMAIN stack |-> stack'[n]]
    BY <2>1
  <2> QED BY <1>1, <1>4, <2>2, <2>3, Mapped
<1>5. CASE BeginAutofio /\ ~Throw
  <2> DEFINE n == Cardinality(Selected)
             m == Cardinality({l \in Duties : fd'[l]})
  <2>1. n \in 0 .. NSLOT /\ m \in 0 .. FD
    BY CountedFits
  <2>2. /\ Begin([top EXCEPT !.at = "duty", !.fresh = {"begin"}, !.devCount = n, !.loops = m])
        /\ errors' = errors
    BY <1>5 DEF BeginAutofio
  <2> HIDE DEF n, m
  <2>3. [top EXCEPT !.at = "duty", !.fresh = {"begin"}, !.devCount = n, !.loops = m] \in GoodFrame
    BY <1>1, <1>2, <2>1, BegunFrames
  <2>4. [top EXCEPT !.at = "duty", !.fresh = {"begin"}, !.devCount = n, !.loops = m].time = 0
    BY <1>2 DEF GoodFrame, Frame
  <2> QED BY <1>4, <2>2, <2>3, <2>4
<1>6. CASE BeginFio2 /\ ~Throw
  <2> DEFINE n == Cardinality(Selected)
  <2>1. n \in 0 .. NSLOT
    BY CountedFits
  <2>2. /\ Begin([top EXCEPT !.at = "fan1", !.fresh = {"fan"}, !.duty = FD, !.devCount = n])
        /\ errors' = errors
    BY <1>6 DEF BeginFio2
  <2> HIDE DEF n
  <2>3. [top EXCEPT !.at = "fan1", !.fresh = {"fan"}, !.duty = FD, !.devCount = n] \in GoodFrame
    <3>1. 0 \in 0 .. FD
      BY BatchAssumption
    <3> QED BY <1>1, <1>2, <2>1, <3>1, BegunFrames
  <2>4. [top EXCEPT !.at = "fan1", !.fresh = {"fan"}, !.duty = FD, !.devCount = n].time = 0
    BY <1>2 DEF GoodFrame, Frame
  <2> QED BY <1>4, <2>2, <2>3, <2>4
<1> QED BY <1>3, <1>5, <1>6

LEMMA ProgramStack ==
    ASSUME WinType, StackInv, \/ Fails \/ Commanded \/ FanSet \/ Tested \/ RunTest \/ EndBatch
                     \/ pauseBar \/ \E n \in DOMAIN stack : FanTurns(n)
    PROVE  StackInv'
<1>1. stack \in Seq(GoodFrame)
  BY DEF StackInv
<1>2. ASSUME stack # <<>> PROVE top \in GoodFrame
  BY <1>1, <1>2, TopFrame
<1>3. CASE Fails
  BY <1>3, Popped DEF Fails, Running, Throw, Leave
<1>4. CASE Commanded
  <2>1. stack # <<>> /\ top.at = "fan1" /\ StartProgram([top EXCEPT !.at = "fan2"]) /\ scripts' = scripts
    BY <1>4 DEF Commanded, Running
  <2> QED BY <1>2, <2>1, WaitingFrame, StartedStack
<1>5. CASE RunTest
  <2>1. stack # <<>> /\ top.at = "written" /\ StartProgram([top EXCEPT !.at = "test"]) /\ scripts' = scripts
    BY <1>5 DEF RunTest, Running
  <2> QED BY <1>2, <2>1, WaitingFrame, StartedStack
<1>6. CASE FanSet
  <2>1. stack # <<>> /\ top.at = "set" /\ UNCHANGED <<scripts, errors>> /\ top \in GoodFrame
    BY <1>2, <1>6 DEF FanSet, Running
  <2>2. top.time = 0
    BY <2>1 DEF GoodFrame, InLoops
  <2>3. CASE top.kind = "autofio" /\ SetTop([top EXCEPT !.at = "expander", !.sl = 0])
    <3>1. [top EXCEPT !.at = "expander", !.sl = 0].time = 0
      BY <2>1, <2>2 DEF GoodFrame, Frame
    <3> QED BY <2>1, <2>2, <2>3, <3>1, DutyFrames, Moved
  <2>4. ASSUME top.kind = "fio2", NEW n \in {1, RW_ALL}, SetTop([top EXCEPT !.at = "round", !.loops = n])
        PROVE  StackInv'
    <3>1. [top EXCEPT !.at = "round", !.loops = n].time = 0
      BY <2>1, <2>2 DEF GoodFrame, Frame
    <3> QED BY <2>1, <2>2, <2>4, <3>1, RoundFrame, Moved
  <2> QED BY <1>6, <2>3, <2>4 DEF FanSet
<1>7. CASE EndBatch
  <2>1. stack # <<>> /\ top.at = "over" /\ stack' = Front(stack) /\ UNCHANGED <<scripts, errors>>
    BY <1>7 DEF EndBatch, Running, Leave
  <2>2. top.time = 0
    BY <1>2, <2>1 DEF GoodFrame, InLoops
  <2> QED BY <2>1, <2>2, Popped
<1>8. CASE pauseBar
  <2>1. stack # <<>> /\ top.at = "pause" /\ SetTop([top EXCEPT !.at = "write"])
        /\ UNCHANGED <<scripts, errors>>
    BY <1>8 DEF pauseBar, Running
  <2> QED BY <1>2, <2>1, WaitingFrame, Moved
<1>9. ASSUME NEW n \in DOMAIN stack, FanTurns(n) PROVE StackInv'
  <2>1. stack[n].at = "fan2" /\ stack' = [stack EXCEPT ![n].at = "set"] /\ UNCHANGED <<scripts, errors>>
    BY <1>9 DEF FanTurns
  <2>2. DOMAIN stack = 1 .. Len(stack)
    BY <1>1, LenProperties
  <2>3. stack[n] \in GoodFrame
    BY <1>1, <2>2, ElementOfSeq
  <2>4. [stack[n] EXCEPT !.at = "set"] \in GoodFrame /\ [stack[n] EXCEPT !.at = "set"].time = stack[n].time
    BY <2>1, <2>3, WaitingFrame
  <2>5. \A m \in DOMAIN stack :
           stack'[m] = IF m = n THEN [stack[n] EXCEPT !.at = "set"] ELSE stack[m]
    BY <2>1
  <2>6. DOMAIN stack' = DOMAIN stack /\ stack' = [m \in DOMAIN stack |-> stack'[m]]
    BY <2>1
  <2>7. ASSUME NEW m \in DOMAIN stack
        PROVE  stack'[m] \in GoodFrame /\ stack'[m].time = stack[m].time
    <3>1. stack[m] \in GoodFrame
      BY <1>1, <2>2, ElementOfSeq
    <3> QED BY <2>4, <2>5, <3>1
  <2> QED BY <2>1, <2>6, <2>7, Mapped
<1>10. CASE Tested
  <2> DEFINE f == [top EXCEPT !.script = NoScript, !.time = 0]
             g == IF f.kind = "autofio" THEN PastSlot(f) ELSE [f EXCEPT !.at = "round"]
  <2>1. /\ stack # <<>> /\ top.at = "test" /\ top.kind \in {"autofio", "fio2"}
        /\ scripts' = scripts \ {top.time} /\ SetTop(g) /\ errors' = errors
    BY <1>10 DEF Tested, Running, Batches, Removed
  <2>2. top \in GoodFrame
    BY <1>2, <2>1
  <2>3. f \in GoodFrame /\ f.kind = top.kind /\ f.at = "test" /\ f.time = 0
    BY <2>1, <2>2, OverFrames DEF GoodFrame, Frame
  <2>4. g \in GoodFrame /\ g.time = 0
    <3>1. CASE f.kind = "autofio"
      BY <2>3, <3>1, SlotFrames
    <3>2. CASE f.kind # "autofio"
      <4>1. [f EXCEPT !.at = "round"] \in GoodFrame
        BY <2>1, <2>2, <2>3, <3>2, OverFrames
      <4>2. [f EXCEPT !.at = "round"].time = 0
        BY <2>3 DEF GoodFrame, Frame
      <4> QED BY <3>2, <4>1, <4>2
    <3> QED BY <3>1, <3>2
  <2> HIDE DEF f, g
  <2> QED BY <2>1, <2>2, <2>4, RemovedStack
<1> QED BY <1>3, <1>4, <1>5, <1>6, <1>7, <1>8, <1>9, <1>10

LEMMA LoopStack ==
    ASSUME WinType, StackInv,
           NextDuty \/ NextExpander \/ NextSlot \/ NextRound \/ WriteScript
    PROVE  StackInv'
<1>1. /\ stack # <<>> /\ stack \in Seq(GoodFrame) /\ top.at \in {"duty", "expander", "slot", "round", "write"}
      /\ errors' = errors \/ WriteScript \/ NextDuty
  BY DEF NextDuty, NextExpander, NextSlot, NextRound, WriteScript, Running, StackInv
<1>2. top \in GoodFrame /\ top.time = 0
  BY <1>1, TopFrame DEF GoodFrame, InLoops
<1>3. CASE NextDuty
  <2>1. top.kind = "autofio" /\ top.at = "duty" /\ scripts' = scripts
    BY <1>3 DEF NextDuty, Running
  <2>2. CASE SetTop([top EXCEPT !.at = "over"]) /\ errors' = errors
    BY <1>1, <1>2, <2>1, <2>2, WaitingFrame, Moved
  <2>3. CASE top.duty <= FD /\ SetTop([top EXCEPT !.duty = @ + 1]) /\ errors' = errors
    <3>1. [top EXCEPT !.duty = @ + 1].time = 0
      BY <1>2 DEF GoodFrame, Frame
    <3> QED BY <1>1, <1>2, <2>1, <2>3, <3>1, DutyFrames, Moved
  <2>4. CASE top.duty <= FD /\ StartProgram([top EXCEPT !.at = "fan1", !.fresh = @ \cup {"fan"}])
    <3>1. [top EXCEPT !.at = "fan1", !.fresh = @ \cup {"fan"}].time = 0
      BY <1>2 DEF GoodFrame, Frame
    <3> QED BY <1>1, <1>2, <2>1, <2>4, <3>1, DutyFrames, StartedStack
  <2> QED BY <1>3, <2>2, <2>3, <2>4 DEF NextDuty
<1>4. CASE NextExpander
  <2>1. top.kind = "autofio" /\ top.at = "expander" /\ UNCHANGED <<scripts, errors>>
    BY <1>4 DEF NextExpander, Running
  <2>2. CASE top.sl = NSLOT /\ SetTop([top EXCEPT !.at = "duty", !.duty = @ + 1])
    <3>1. [top EXCEPT !.at = "duty", !.duty = @ + 1].time = 0
      BY <1>2 DEF GoodFrame, Frame
    <3> QED BY <1>1, <1>2, <2>1, <2>2, <3>1, ExpanderFrames, Moved
  <2>3. CASE top.sl < NSLOT /\ SetTop([top EXCEPT !.sl = @ + NSLOT_PEREXP])
    <3>1. [top EXCEPT !.sl = @ + NSLOT_PEREXP].time = 0
      BY <1>2 DEF GoodFrame, Frame
    <3> QED BY <1>1, <1>2, <2>1, <2>3, <3>1, ExpanderFrames, Moved
  <2>4. CASE top.sl < NSLOT /\ SetTop([top EXCEPT !.at = "slot", !.fresh = @ \cup {"expander"}])
    <3>1. [top EXCEPT !.at = "slot", !.fresh = @ \cup {"expander"}].time = 0
      BY <1>2 DEF GoodFrame, Frame
    <3> QED BY <1>1, <1>2, <2>1, <2>4, <3>1, ExpanderFrames, Moved
  <2> QED BY <1>4, <2>2, <2>3, <2>4 DEF NextExpander
<1>5. ASSUME NEW f \in GoodFrame, f.time = 0, PauseOrWrite(f), UNCHANGED <<scripts, errors>>,
             \/ f.kind = "autofio" /\ f.at = "slot"
             \/ f.kind = "fio2" /\ f.at = "round"
      PROVE  StackInv'
  <2>1. PICK at \in {"pause", "write"} : SetTop([f EXCEPT !.at = at, !.tested = TRUE])
    BY <1>5 DEF PauseOrWrite
  <2>2. [f EXCEPT !.at = at, !.tested = TRUE] \in GoodFrame
    BY <1>5, TestFrames
  <2>3. [f EXCEPT !.at = at, !.tested = TRUE].time = 0
    BY <1>5 DEF GoodFrame, Frame
  <2> QED BY <1>1, <1>2, <1>5, <2>1, <2>2, <2>3, Moved
<1>6. CASE NextSlot
  <2>1. top.kind = "autofio" /\ top.at = "slot" /\ UNCHANGED <<scripts, errors>>
    BY <1>6 DEF NextSlot, Running
  <2>2. CASE SetTop(PastSlot(top))
    BY <1>1, <1>2, <2>1, <2>2, SlotFrames, Moved
  <2>3. CASE PauseOrWrite([top EXCEPT !.fresh = @ \cup {"slot"}])
    <3> DEFINE f == [top EXCEPT !.fresh = @ \cup {"slot"}]
    <3>1. f \in GoodFrame /\ f.time = 0 /\ f.kind = "autofio" /\ f.at = "slot"
      BY <1>2, <2>1, LookedFrame DEF GoodFrame, Frame
    <3> HIDE DEF f
    <3>2. PauseOrWrite(f)
      BY <2>3 DEF f
    <3> QED BY <1>5, <2>1, <3>1, <3>2
  <2> QED BY <1>6, <2>2, <2>3 DEF NextSlot
<1>7. CASE NextRound
  <2>1. top.kind = "fio2" /\ top.at = "round" /\ UNCHANGED <<scripts, errors>>
    BY <1>7 DEF NextRound, Running
  <2>2. CASE SetTop([top EXCEPT !.at = "over"])
    BY <1>1, <1>2, <2>1, <2>2, WaitingFrame, Moved
  <2>3. CASE PauseOrWrite(top)
    BY <1>2, <1>5, <2>1, <2>3
  <2> QED BY <1>7, <2>2, <2>3 DEF NextRound
<1>8. CASE WriteScript
  <2>1. top.at = "write"
    BY <1>8 DEF WriteScript, Running
  <2>2. CASE Throw /\ scripts' = scripts
    BY <1>1, <2>2, Popped DEF Throw, Leave
  <2> DEFINE time == IF top.kind = "autofio" THEN NewTime ELSE 0
             s == Listing(top)
             f == [top EXCEPT !.at = "written", !.processed = @ + 1, !.time = time, !.script = s]
  <2>3. ASSUME SetTop(f), scripts' = scripts \cup ({time} \ {0}), errors' = errors
        PROVE  StackInv'
    <3>2. time \in 0 .. MaxErrors
      <4>1. NewTime \in 1 .. MaxErrors
        BY <1>1, <1>2, FreeName
      <4>2. NewTime \in 0 .. MaxErrors /\ 0 \in 0 .. MaxErrors
        BY <4>1, BatchAssumption
      <4> QED BY <4>2
    <3>3. s \in Script
      BY BlocksAreDrives DEF Listing, Script
    <3> HIDE DEF time, s
    <3>4. f \in GoodFrame
      BY <1>2, <2>1, <3>2, <3>3, WrittenFrame
    <3>5. f.time = time
      BY <1>2 DEF GoodFrame, Frame
    <3> HIDE DEF f
    <3> QED BY <1>1, <1>2, <2>3, <3>4, <3>5, RemovedStack
  <2> QED BY <1>8, <2>2, <2>3 DEF WriteScript, NewTime
<1> QED BY <1>3, <1>4, <1>6, <1>7, <1>8

(* The stack while the window is served, and when a handler begins.        *)
LEMMA ServedStack ==
    ASSUME WinType, StackInv,
           \/ ComesBetween /\ UNCHANGED <<scripts, errors>>
           \/ btnListSdxClicked \/ btnFio2GoClicked \/ Answer
    PROVE  StackInv'
<1>1. stack \in Seq(GoodFrame) /\ DOMAIN stack = 1 .. Len(stack)
  BY LenProperties DEF StackInv
<1>2. CASE ComesBetween /\ UNCHANGED <<scripts, errors>>
  <2> DEFINE X == {"begin", "expander", "slot"}
  <2>1. stack' = [n \in DOMAIN stack |-> [stack[n] EXCEPT !.fresh = @ \ X]]
    BY <1>2 DEF ComesBetween
  <2> HIDE DEF X
  <2>2. ASSUME NEW n \in DOMAIN stack
        PROVE  stack'[n] \in GoodFrame /\ stack'[n].time = stack[n].time
    <3>1. stack[n] \in GoodFrame
      BY <1>1, ElementOfSeq
    <3> QED BY <2>1, <3>1, ForgetfulFrame
  <2>3. DOMAIN stack' = DOMAIN stack /\ stack' = [n \in DOMAIN stack |-> stack'[n]]
    BY <2>1
  <2> QED BY <1>2, <2>2, <2>3, Mapped
<1>3. ASSUME NEW f \in GoodFrame, Push(f) PROVE StackInv'
  BY <1>3, Pushed DEF Push
<1>4. CASE btnFio2GoClicked
  BY <1>3, <1>4, NewFrames DEF btnFio2GoClicked
<1>5. CASE btnListSdxClicked
  <2>1. CASE Push(NewFrame("autofio", "ask"))
    BY <1>3, <2>1, NewFrames
  <2>2. ASSUME NEW list \in {[jobs |-> sdxlist_sit, aim |-> {}], sdxlist_wl(Selected)},
               Push([NewFrame("list", "told") EXCEPT !.script = list])
        PROVE  StackInv'
    <3>1. list \in Script
      BY BlocksAreDrives DEF Script
    <3> QED BY <1>3, <2>2, <3>1, NewFrames
  <2> QED BY <1>5, <2>1, <2>2 DEF btnListSdxClicked
<1>6. CASE Answer
  <2>1. stack # <<>> /\ top.at \in {"ask", "told"} /\ UNCHANGED <<scripts, errors>>
    BY <1>6 DEF Answer, Running
  <2>2. top \in GoodFrame /\ top.time = 0
    BY <1>1, <2>1, TopFrame DEF GoodFrame, InLoops
  <2>3. CASE stack' = Front(stack)
    BY <2>1, <2>2, <2>3, Popped
  <2>4. CASE top.at = "ask" /\ SetTop([top EXCEPT !.at = "begin"])
    BY <2>1, <2>2, <2>4, WaitingFrame, Moved
  <2> QED BY <1>6, <2>3, <2>4 DEF Answer, Running
<1> QED BY <1>2, <1>4, <1>5, <1>6

-----------------------------------------------------------------------------
(* The whole invariant.                                                    *)
LEMMA BatchStart == Init => BatchInv
<1> SUFFICES ASSUME Init PROVE BatchInv
  OBVIOUS
<1>1. stack = <<>> /\ scripts = {} /\ errors = 0 /\ fan = 0
  BY DEF Init
<1>2. stack \in Seq(GoodFrame) /\ Len(stack) = 0
  BY <1>1, EmptySeq
<1>3. scripts \ Times = {} /\ Cardinality({}) = 0
  BY <1>1, FS_EmptySet
<1>4. StackInv
  BY <1>1, <1>2, <1>3, BatchAssumption DEF StackInv
<1>5. /\ fd \in [Duties -> BOOLEAN] /\ fdEnabled \in BOOLEAN
      /\ m_closed \in BOOLEAN /\ closed \in BOOLEAN
  BY DEF Init
<1>6. fan \in 0 .. FD
  BY <1>1, BatchAssumption
<1> QED BY <1>4, <1>5, <1>6, WinTypeInit DEF BatchInv, Init

(* The fans turn at a duty a batch asked for.                              *)
LEMMA FanFits ==
    ASSUME StackInv, NEW n \in DOMAIN stack, FanTurns(n)
    PROVE  fan' \in 0 .. FD
<1>1. DOMAIN stack = 1 .. Len(stack) /\ stack \in Seq(GoodFrame)
  BY LenProperties DEF StackInv
<1>2. stack[n] \in GoodFrame /\ stack[n].at = "fan2" /\ fan' = stack[n].duty
  BY <1>1, ElementOfSeq DEF FanTurns
<1>3. fan' \in 1 .. FD + 1 /\ fan' <= FD
  BY <1>2 DEF GoodFrame, Frame, InLoops, InDuty
<1> QED BY <1>3, BatchAssumption

LEMMA BatchStep == BatchInv /\ [Next]_vars => BatchInv'
<1> SUFFICES ASSUME BatchInv, [Next]_vars PROVE BatchInv'
  OBVIOUS
<1> USE DEF BatchInv
<1> DEFINE Rest == /\ fd \in [Duties -> BOOLEAN] /\ fdEnabled \in BOOLEAN
                   /\ fan \in 0 .. FD /\ m_closed \in BOOLEAN /\ closed \in BOOLEAN
<1>1. CASE UNCHANGED vars
  BY <1>1, WinTypeStep, Same DEF vars, batchVars, closeVars
<1>2. ASSUME Disturb, WinType' PROVE BatchInv'
  BY <1>2, ServedStack DEF Disturb, closeVars
<1>3. CASE showModified
  BY <1>2, <1>3, WinTypeStep DEF showModified
<1>4. CASE btnRefreshClicked
  BY <1>2, <1>4, WinTypeStep DEF btnRefreshClicked
<1>5. CASE filloutCanvas
  BY <1>5, WinTypeStep, Same DEF filloutCanvas, batchVars, closeVars
<1>6. ASSUME NEW sl \in Slots, ClickSlot(sl) PROVE BatchInv'
  <2>1. [checked EXCEPT ![sl] = ~@] \in [Slots -> BOOLEAN]
    BY DEF WinType
  <2> QED BY <1>2, <1>6, <2>1, WinTypeStep DEF ClickSlot
<1>7. CASE btnSelectAllClicked
  <2>1. [sl \in Slots |-> checked[sl] \/ sl \in Occupied] \in [Slots -> BOOLEAN]
    BY DEF WinType
  <2> QED BY <1>7, <2>1, WinTypeStep, ServedStack DEF btnSelectAllClicked, closeVars
<1>8. ASSUME NEW l \in Duties, ClickDuty(l) PROVE BatchInv'
  BY <1>8, WinTypeStep, Same DEF ClickDuty, closeVars
<1>9. CASE closeEvent
  BY <1>9, WinTypeStep, Same DEF closeEvent, batchVars
<1>10. ASSUME Undisturbed PROVE WinType' /\ UNCHANGED <<m_closed, closed>>
  BY <1>10, WinTypeStep DEF Undisturbed, closeVars
<1>11. CASE btnListSdxClicked \/ btnFio2GoClicked \/ Answer
  BY <1>10, <1>11, ServedStack DEF btnListSdxClicked, btnFio2GoClicked, Answer, Push
<1>12. CASE BeginAutofio \/ BeginFio2
  <2>1. fd' \in [Duties -> BOOLEAN]
    BY <1>12, BatchAssumption DEF BeginAutofio, BeginFio2, Duties
  <2>2. fdEnabled' \in BOOLEAN
    BY <1>12, EnabledType DEF BeginAutofio, BeginFio2, Throw
  <2> QED BY <1>10, <1>12, <2>1, <2>2, BeginStack DEF BeginAutofio, BeginFio2
<1>13. ASSUME NEW n \in DOMAIN stack, FanTurns(n) PROVE BatchInv'
  BY <1>10, <1>13, FanFits, ProgramStack DEF FanTurns
<1>14. CASE Fails \/ Commanded \/ RunTest \/ EndBatch
  <2>1. fdEnabled' \in BOOLEAN
    BY <1>14, EnabledType DEF Fails, Commanded, RunTest, EndBatch, Throw, StartProgram
  <2> QED BY <1>10, <1>14, <2>1, ProgramStack DEF Fails, Commanded, RunTest, EndBatch
<1>15. CASE FanSet \/ Tested \/ pauseBar
  BY <1>10, <1>15, ProgramStack DEF FanSet, Tested, pauseBar
<1>16. CASE NextDuty \/ WriteScript
  <2>1. fdEnabled' \in BOOLEAN
    BY <1>16, EnabledType DEF NextDuty, WriteScript, Throw, StartProgram
  <2> QED BY <1>10, <1>16, <2>1, LoopStack DEF NextDuty, WriteScript
<1>17. CASE NextExpander \/ NextSlot \/ NextRound
  BY <1>10, <1>17, LoopStack DEF NextExpander, NextSlot, NextRound
<1> QED BY <1>1, <1>3, <1>4, <1>5, <1>6, <1>7, <1>8, <1>9, <1>11, <1>12, <1>13, <1>14,
           <1>15, <1>16, <1>17 DEF Next

(* Sizes of the stack and the loops, and which frame owns which script.    *)
THEOREM BatchInvariant == Spec => []BatchInv
BY BatchStart, BatchStep, PTL DEF Spec

(* The handlers on the GUI thread stay within the fan duties and the table *)
(* of slots, their scripts name drives only, and there is always a name    *)
(* for the next script (autofio_wls, btnFio2GoClicked, sdxlist_wl1, _wl2). *)
THEOREM TypeCorrect == Spec => []TypeOK
<1>1. BatchInv => TypeOK
  <2> SUFFICES ASSUME BatchInv PROVE TypeOK
    OBVIOUS
  <2>1. stack \in Seq(GoodFrame) /\ GoodFrame \subseteq Frame /\ errors \in Nat
        /\ Len(stack) \in Nat /\ errors + Len(stack) <= MaxErrors
    BY LenProperties DEF BatchInv, StackInv, GoodFrame
  <2>2. stack \in Seq(Frame)
    BY <2>1
  <2>3. errors \in 0 .. MaxErrors
    BY <2>1, BatchAssumption
  <2> QED BY <2>2, <2>3 DEF BatchInv, StackInv, TypeOK
<1> QED BY <1>1, BatchInvariant, PTL

(* Whatever batches are started on top of each other, thrown out of,       *)
(* cancelled or closed: a script that is still on the disk is a running    *)
(* test's, or an error message was shown for it (autofio_wls).             *)
THEOREM ScriptsSafe == Spec => []ScriptsExplained
<1>1. BatchInv => ScriptsExplained
  <2> SUFFICES ASSUME BatchInv PROVE ScriptsExplained
    OBVIOUS
  <2> DEFINE Kept == {n \in DOMAIN stack : stack[n].time # 0}
  <2>1. StackInv /\ stack \in Seq(GoodFrame)
    BY DEF BatchInv, StackInv
  <2>2. /\ IsFiniteSet(Kept) /\ IsFiniteSet(Times \ {0})
        /\ Cardinality(Times \ {0}) <= Cardinality(Kept)
    BY <2>1, TestsWithScripts
  <2>3. Cardinality(Kept) \in Nat
    BY <2>2, FS_CardinalityType
  <2> HIDE DEF Kept
  <2>4. Cardinality(scripts) <= errors + Cardinality(Kept)
    BY <2>1, <2>2, <2>3, ScriptsBounded
  <2> QED BY <2>4 DEF Kept, ScriptsExplained
<1> QED BY <1>1, BatchInvariant, PTL

-----------------------------------------------------------------------------
(* What a test is aimed at, and the duty it runs at.  Only the last handler*)
(* on the stack runs: the ones below wait, and know of nothing that was    *)
(* done on top of them.  What it holds of the window, if fresh, is true    *)
(* from the moment it looked until the script is written.                  *)
Lists == [sl \in 0 .. NSLOT |-> sdxlist_wl({sl})]

Aimed(f, selected, paths, lists) ==
    f.kind = "autofio" =>
        /\ f.at \in {"pause", "write", "written"} =>
              /\ "slot" \in f.fresh => f.sl \in selected
              /\ "expander" \in f.fresh => "slot" \in f.fresh
        /\ f.at \in {"slot", "test"} \cup {"pause", "write", "written"} =>
              ("expander" \in f.fresh => Expander(f.sl) \in paths)
        /\ f.at = "written" => f.script = lists[f.sl]

(* It waits and nothing it has read is fresh.                              *)
Calm(f) == f.at \in Waits /\ "slot" \notin f.fresh /\ "expander" \notin f.fresh

AimInv ==
    /\ \A n \in DOMAIN stack : Aimed(stack[n], Selected, pathed, Lists)
    /\ \A n \in DOMAIN stack : n # Len(stack) => stack[n].at \in Waits
    /\ busy => \A n \in DOMAIN stack : Calm(stack[n])

(* The fans: a batch that began took every other's claim to them.          *)
HasBegun(f) == f.at \notin {"ask", "told", "begin"}
Held == {"set", "expander", "slot", "round", "pause", "write", "written", "test"}

FanKept(f) == f.at \in Held /\ "fan" \in f.fresh
FanPending(n) == \E m \in 1 .. n - 1 : stack[m].at \in {"fan1", "fan2", "set"}

DutyInv ==
    /\ \A n \in DOMAIN stack : FanKept(stack[n]) => (fan = stack[n].duty \/ FanPending(n))
    /\ \A m, n \in DOMAIN stack : n < m /\ HasBegun(stack[m]) => "fan" \notin stack[n].fresh

LEMMA CalmIsAimed ==
    ASSUME NEW f, NEW selected, NEW paths, NEW lists, Calm(f)
    PROVE  Aimed(f, selected, paths, lists)
BY DEF Calm, Aimed, Waits, Boxes, Programs

LEMMA SameWindow ==
    ASSUME UNCHANGED winVars
    PROVE  Selected' = Selected /\ pathed' = pathed /\ Lists' = Lists /\ busy' = busy
<1>1. Occupied' = Occupied
  BY DEF winVars, Occupied
<1>2. Selected' = Selected
  BY <1>1 DEF winVars, Selected
<1>3. \A slots : Blocks(slots)' = Blocks(slots)
  BY DEF winVars, Blocks
<1>4. sdxlist_sit' = sdxlist_sit
  BY <1>1 DEF winVars, sdxlist_sit, Blocks
<1>5. \A sl : sdxlist_wl({sl})' = sdxlist_wl({sl})
  BY <1>1, <1>4 DEF winVars, sdxlist_wl, Blocks
<1>6. Lists' = Lists
  BY <1>5 DEF Lists
<1> QED BY <1>2, <1>6 DEF winVars

LEMMA TopReplaced ==
    ASSUME StackInv, StackInv', stack # <<>>, NEW f, SetTop(f)
    PROVE  /\ Len(stack) \in Nat \ {0} /\ Len(stack') = Len(stack)
           /\ DOMAIN stack = 1 .. Len(stack) /\ DOMAIN stack' = 1 .. Len(stack)
           /\ \A n \in 1 .. Len(stack) :
                 stack'[n] = IF n = Len(stack) THEN f ELSE stack[n]
           /\ top = stack[Len(stack)] /\ top \in GoodFrame /\ Len(stack) \in DOMAIN stack
<1>1. stack \in Seq(GoodFrame) /\ stack' \in Seq(GoodFrame)
  BY DEF StackInv
<1>2. Len(stack) \in Nat \ {0} /\ DOMAIN stack = 1 .. Len(stack) /\ top = stack[Len(stack)]
      /\ top \in GoodFrame
  BY <1>1, TopFrame
<1>3. DOMAIN stack' = DOMAIN stack
  BY DEF SetTop
<1>4. DOMAIN stack' = 1 .. Len(stack') /\ Len(stack') \in Nat
  BY <1>1, LenProperties
<1>5. Len(stack') = Len(stack)
  BY <1>2, <1>3, <1>4
<1>6. \A n \in DOMAIN stack : stack'[n] = IF n = Len(stack) THEN f ELSE stack[n]
  BY DEF SetTop
<1>7. Len(stack) \in 1 .. Len(stack)
  BY <1>2
<1> QED BY <1>2, <1>3, <1>5, <1>6, <1>7

LEMMA TopGone ==
    ASSUME StackInv, StackInv', stack # <<>>, stack' = Front(stack)
    PROVE  /\ Len(stack) \in Nat \ {0} /\ Len(stack') = Len(stack) - 1
           /\ DOMAIN stack = 1 .. Len(stack) /\ DOMAIN stack' = 1 .. Len(stack) - 1
           /\ \A n \in 1 .. Len(stack) - 1 : stack'[n] = stack[n]
<1>1. stack \in Seq(GoodFrame) /\ stack' \in Seq(GoodFrame)
  BY DEF StackInv
<1>2. /\ Len(stack') = Len(stack) - 1 /\ Len(stack) \in Nat \ {0}
      /\ \A n \in 1 .. Len(stack) - 1 : stack'[n] = stack[n]
  BY <1>1, PopStack
<1> QED BY <1>1, <1>2, LenProperties

LEMMA Below ==
    ASSUME NEW L \in Nat, NEW n \in 1 .. L
    PROVE  /\ \A m \in 1 .. n - 1 : m \in 1 .. L /\ m # L
           /\ \A m \in 1 .. L : n < m => n # L
OBVIOUS

(* The running handler goes on.                                            *)
Advances(g, f) ==
    /\ HasBegun(g)
    /\ FanKept(f) => FanKept(g) /\ f.duty = g.duty

LEMMA AdvancedStack ==
    ASSUME StackInv, StackInv', AimInv, DutyInv, stack # <<>>, ~busy,
           UNCHANGED <<winVars, fan>>,
           \/ stack' = Front(stack)
           \/ \E f : /\ SetTop(f) /\ Aimed(f, Selected, pathed, Lists)
                     /\ Advances(top, f) \/ ~HasBegun(f)
    PROVE  AimInv' /\ DutyInv'
<1>1. Selected' = Selected /\ pathed' = pathed /\ Lists' = Lists /\ ~busy' /\ fan' = fan
  BY SameWindow
<1>2. CASE stack' = Front(stack)
  <2>1. /\ Len(stack) \in Nat \ {0} /\ Len(stack') = Len(stack) - 1
        /\ DOMAIN stack = 1 .. Len(stack) /\ DOMAIN stack' = 1 .. Len(stack) - 1
        /\ \A n \in 1 .. Len(stack) - 1 : stack'[n] = stack[n]
    BY <1>2, TopGone
  <2>2. AimInv'
    BY <1>1, <2>1 DEF AimInv
  <2>3. ASSUME NEW n \in DOMAIN stack', FanPending(n) PROVE FanPending(n)'
    <3>1. PICK m \in 1 .. n - 1 : stack[m].at \in {"fan1", "fan2", "set"}
      BY <2>3 DEF FanPending
    <3>2. stack'[m] = stack[m]
      BY <2>1
    <3> QED BY <3>1, <3>2 DEF FanPending
  <2>4. DutyInv'
    BY <1>1, <2>1, <2>3 DEF DutyInv
  <2> QED BY <2>2, <2>4
<1>3. ASSUME NEW f, SetTop(f), Aimed(f, Selected, pathed, Lists),
             Advances(top, f) \/ ~HasBegun(f)
      PROVE  AimInv' /\ DutyInv'
  <2>1. /\ Len(stack) \in Nat \ {0} /\ Len(stack') = Len(stack)
        /\ DOMAIN stack = 1 .. Len(stack) /\ DOMAIN stack' = 1 .. Len(stack)
        /\ \A n \in 1 .. Len(stack) :
              stack'[n] = IF n = Len(stack) THEN f ELSE stack[n]
        /\ top = stack[Len(stack)] /\ Len(stack) \in DOMAIN stack
    BY <1>3, TopReplaced
  <2>2. AimInv'
    BY <1>1, <1>3, <2>1 DEF AimInv
  <2>3. ASSUME NEW n \in DOMAIN stack', FanPending(n) PROVE FanPending(n)'
    <3>1. PICK m \in 1 .. n - 1 : stack[m].at \in {"fan1", "fan2", "set"}
      BY <2>3 DEF FanPending
    <3>2. stack'[m] = stack[m]
      <4>1. m \in 1 .. Len(stack) /\ m # Len(stack)
        BY <2>1, Below
      <4> QED BY <2>1, <4>1
    <3> QED BY <3>1, <3>2 DEF FanPending
  <2>4. ASSUME NEW n \in DOMAIN stack', FanKept(stack'[n])
        PROVE  fan' = stack'[n].duty \/ FanPending(n)'
    <3>1. CASE n = Len(stack)
      <4>1. FanKept(f)
        BY <2>1, <2>4, <3>1
      <4>2. FanKept(top) /\ f.duty = top.duty
        BY <1>3, <4>1 DEF Advances, HasBegun, FanKept, Held
      <4>3. fan = top.duty \/ FanPending(n)
        BY <2>1, <3>1, <4>2 DEF DutyInv
      <4> QED BY <1>1, <2>1, <2>3, <3>1, <4>2, <4>3
    <3>2. CASE n # Len(stack)
      BY <1>1, <2>1, <2>3, <2>4, <3>2 DEF DutyInv
    <3> QED BY <3>1, <3>2
  <2>5. ASSUME NEW m \in DOMAIN stack', NEW n \in DOMAIN stack', n < m, HasBegun(stack'[m])
        PROVE  "fan" \notin stack'[n].fresh
    <3>1. n # Len(stack) /\ stack'[n] = stack[n]
      <4>1. n \in 1 .. Len(stack) /\ m \in 1 .. Len(stack)
        BY <2>1
      <4>2. n # Len(stack)
        BY <2>1, <2>5, <4>1, Below
      <4> QED BY <2>1, <4>1, <4>2
    <3>2. HasBegun(stack[m])
      BY <1>3, <2>1, <2>5 DEF Advances
    <3> QED BY <2>1, <2>5, <3>1, <3>2 DEF DutyInv
  <2>6. DutyInv'
    BY <2>4, <2>5 DEF DutyInv
  <2> QED BY <2>2, <2>6
<1> QED BY <1>2, <1>3

(* What the running handler goes on to, from a frame g to a frame f, for   *)
(* any window.                                                             *)
LEMMA ProgramAdvances ==
    ASSUME NEW g \in Frame, NEW f, NEW selected, NEW paths, NEW lists,
           Aimed(g, selected, paths, lists),
           \/ g.at = "fan1" /\ f = [g EXCEPT !.at = "fan2"]
           \/ g.at = "written" /\ f = [g EXCEPT !.at = "test"]
           \/ g.at = "pause" /\ f = [g EXCEPT !.at = "write"]
           \/ g.at = "set" /\ f = [g EXCEPT !.at = "expander", !.sl = 0]
           \/ /\ g.at = "set" /\ g.kind = "fio2"
              /\ \E n : f = [g EXCEPT !.at = "round", !.loops = n]
           \/ g.at \in {"duty", "round"} /\ f = [g EXCEPT !.at = "over"]
    PROVE  Aimed(f, selected, paths, lists) /\ Advances(g, f)
<1> USE DEF Aimed, Advances, HasBegun, FanKept, Held
<1>1. CASE g.at = "fan1" /\ f = [g EXCEPT !.at = "fan2"]
  BY <1>1 DEF Frame
<1>2. CASE g.at = "written" /\ f = [g EXCEPT !.at = "test"]
  BY <1>2 DEF Frame
<1>3. CASE g.at = "pause" /\ f = [g EXCEPT !.at = "write"]
  BY <1>3 DEF Frame
<1>4. CASE g.at = "set" /\ f = [g EXCEPT !.at = "expander", !.sl = 0]
  BY <1>4 DEF Frame
<1>5. ASSUME g.at = "set", g.kind = "fio2", NEW n, f = [g EXCEPT !.at = "round", !.loops = n]
      PROVE  Aimed(f, selected, paths, lists) /\ Advances(g, f)
  BY <1>5 DEF Frame
<1>6. CASE g.at \in {"duty", "round"} /\ f = [g EXCEPT !.at = "over"]
  BY <1>6 DEF Frame
<1> QED BY <1>1, <1>2, <1>3, <1>4, <1>5, <1>6

LEMMA LoopAdvances ==
    ASSUME NEW g \in Frame, NEW f, NEW selected, NEW paths, NEW lists,
           Aimed(g, selected, paths, lists),
           \/ g.at = "duty" /\ f = [g EXCEPT !.duty = @ + 1]
           \/ g.at = "duty" /\ f = [g EXCEPT !.at = "fan1", !.fresh = @ \cup {"fan"}]
           \/ g.at = "expander" /\ f = [g EXCEPT !.at = "duty", !.duty = @ + 1]
           \/ g.at = "expander" /\ f = [g EXCEPT !.sl = @ + NSLOT_PEREXP]
           \/ /\ g.at = "expander" /\ Expander(g.sl) \in paths
              /\ f = [g EXCEPT !.at = "slot", !.fresh = @ \cup {"expander"}]
    PROVE  Aimed(f, selected, paths, lists) /\ Advances(g, f)
<1> USE DEF Aimed, Advances, HasBegun, FanKept, Held
<1>1. CASE g.at = "duty" /\ f = [g EXCEPT !.duty = @ + 1]
  BY <1>1 DEF Frame
<1>2. CASE g.at = "duty" /\ f = [g EXCEPT !.at = "fan1", !.fresh = @ \cup {"fan"}]
  BY <1>2 DEF Frame
<1>3. CASE g.at = "expander" /\ f = [g EXCEPT !.at = "duty", !.duty = @ + 1]
  BY <1>3 DEF Frame
<1>4. CASE g.at = "expander" /\ f = [g EXCEPT !.sl = @ + NSLOT_PEREXP]
  BY <1>4 DEF Frame
<1>5. CASE /\ g.at = "expander" /\ Expander(g.sl) \in paths
           /\ f = [g EXCEPT !.at = "slot", !.fresh = @ \cup {"expander"}]
  <2>1. /\ f.at = "slot" /\ f.sl = g.sl /\ f.kind = g.kind /\ f.duty = g.duty
        /\ f.fresh = g.fresh \cup {"expander"}
    BY <1>5 DEF Frame
  <2> QED BY <1>5, <2>1
<1> QED BY <1>1, <1>2, <1>3, <1>4, <1>5

LEMMA WriteAdvances ==
    ASSUME NEW g \in Frame, NEW selected, NEW paths, NEW lists,
           Aimed(g, selected, paths, lists), g.at = "write", NEW t, NEW s,
           g.kind = "autofio" => s = lists[g.sl]
    PROVE  LET f == [g EXCEPT !.at = "written", !.processed = @ + 1, !.time = t, !.script = s]
           IN  Aimed(f, selected, paths, lists) /\ Advances(g, f)
<1> DEFINE f == [g EXCEPT !.at = "written", !.processed = @ + 1, !.time = t, !.script = s]
<1>1. /\ f.at = "written" /\ f.sl = g.sl /\ f.kind = g.kind /\ f.duty = g.duty
      /\ f.fresh = g.fresh /\ f.script = s
  BY DEF Frame
<1> HIDE DEF f
<1>2. Aimed(f, selected, paths, lists)
  BY <1>1 DEF Aimed
<1>3. Advances(g, f)
  BY <1>1 DEF Advances, HasBegun, FanKept, Held
<1> QED BY <1>2, <1>3 DEF f

(* A slot is done: the next one is of the same expander, or its path will  *)
(* be looked at.                                                           *)
LEMMA SlotAdvances ==
    ASSUME NEW g \in Frame, NEW h \in Frame, NEW selected, NEW paths, NEW lists,
           Aimed(g, selected, paths, lists), g.kind = "autofio", g.at \in {"slot", "test"},
           h.kind = g.kind, h.sl = g.sl, h.fresh = g.fresh, h.duty = g.duty
    PROVE  Aimed(PastSlot(h), selected, paths, lists) /\ Advances(g, PastSlot(h))
<1>1. CASE (h.sl + 1) % NSLOT_PEREXP = 0
  <2> DEFINE f == [h EXCEPT !.sl = @ + 1, !.at = "expander", !.fresh = @ \ {"slot", "expander"}]
  <2>1. PastSlot(h) = f
    BY <1>1 DEF PastSlot
  <2>2. f.at = "expander" /\ f.fresh = h.fresh \ {"slot", "expander"} /\ f.duty = h.duty
    BY DEF Frame
  <2> HIDE DEF f
  <2> QED BY <2>1, <2>2 DEF Aimed, Advances, HasBegun, FanKept, Held
<1>2. CASE (h.sl + 1) % NSLOT_PEREXP # 0
  <2> DEFINE f == [h EXCEPT !.sl = @ + 1, !.at = "slot", !.fresh = @ \ {"slot"}]
  <2>1. PastSlot(h) = f
    BY <1>2 DEF PastSlot
  <2>2. f.at = "slot" /\ f.fresh = h.fresh \ {"slot"} /\ f.duty = h.duty /\ f.sl = h.sl + 1
    BY DEF Frame
  <2>3. h.sl \in Nat
    BY DEF Frame
  <2>4. Expander(f.sl) = Expander(g.sl)
    BY <1>2, <2>2, <2>3, SameExpander
  <2> HIDE DEF f
  <2> QED BY <2>1, <2>2, <2>4 DEF Aimed, Advances, HasBegun, FanKept, Held
<1> QED BY <1>1, <1>2

LEMMA TestAdvances ==
    ASSUME NEW g \in Frame, NEW f, NEW at \in {"pause", "write"},
           NEW selected, NEW paths, NEW lists, Aimed(g, selected, paths, lists),
           \/ /\ g.kind = "autofio" /\ g.at = "slot" /\ g.sl \in selected
              /\ f = [[g EXCEPT !.fresh = @ \cup {"slot"}] EXCEPT !.at = at, !.tested = TRUE]
           \/ /\ g.kind = "fio2" /\ g.at = "round"
              /\ f = [g EXCEPT !.at = at, !.tested = TRUE]
    PROVE  Aimed(f, selected, paths, lists) /\ Advances(g, f)
<1>1. CASE /\ g.kind = "fio2" /\ g.at = "round"
           /\ f = [g EXCEPT !.at = at, !.tested = TRUE]
  BY <1>1 DEF Frame, Aimed, Advances, HasBegun, FanKept, Held
<1>2. CASE /\ g.kind = "autofio" /\ g.at = "slot" /\ g.sl \in selected
           /\ f = [[g EXCEPT !.fresh = @ \cup {"slot"}] EXCEPT !.at = at, !.tested = TRUE]
  <2>1. /\ f.at = at /\ f.kind = "autofio" /\ f.sl = g.sl /\ f.duty = g.duty
        /\ f.fresh = g.fresh \cup {"slot"}
    BY <1>2 DEF Frame
  <2>2. Aimed(f, selected, paths, lists)
    BY <1>2, <2>1 DEF Aimed
  <2>3. Advances(g, f)
    BY <1>2, <2>1 DEF Advances, HasBegun, FanKept, Held
  <2> QED BY <2>2, <2>3
<1> QED BY <1>1, <1>2

GoesOn ==
    \/ stack' = Front(stack)
    \/ \E f : /\ SetTop(f) /\ Aimed(f, Selected, pathed, Lists)
              /\ Advances(top, f) \/ ~HasBegun(f)

LEMMA RunningStep ==
    ASSUME StackInv, AimInv,
           \/ Answer \/ Fails \/ Commanded \/ FanSet \/ Tested \/ RunTest \/ EndBatch \/ pauseBar
           \/ NextDuty \/ NextExpander \/ NextSlot \/ NextRound \/ WriteScript
    PROVE  stack # <<>> /\ ~busy /\ UNCHANGED <<winVars, fan>> /\ GoesOn
<1>1. stack # <<>> /\ ~busy
  BY DEF Answer, Fails, Commanded, FanSet, Tested, RunTest, EndBatch, pauseBar,
         NextDuty, NextExpander, NextSlot, NextRound, WriteScript, Running
<1>2. UNCHANGED <<winVars, fan>>
  BY DEF Answer, Fails, Commanded, FanSet, Tested, RunTest, EndBatch, pauseBar,
         NextDuty, NextExpander, NextSlot, NextRound, WriteScript, Undisturbed
<1> SUFFICES GoesOn
  BY <1>1, <1>2
<1>3. top \in Frame /\ Aimed(top, Selected, pathed, Lists)
  <2>1. stack \in Seq(GoodFrame)
    BY DEF StackInv
  <2>2. top = stack[Len(stack)] /\ top \in GoodFrame /\ Len(stack) \in DOMAIN stack
    BY <1>1, <2>1, TopFrame
  <2> QED BY <2>2 DEF GoodFrame, AimInv
<1> DEFINE Good(f) == Aimed(f, Selected, pathed, Lists) /\ Advances(top, f)
<1>4. ASSUME NEW f, StartProgram(f) \/ SetTop(f) \/ Throw, Good(f) PROVE GoesOn
  BY <1>4 DEF StartProgram, Throw, Leave, GoesOn
<1> HIDE DEF Good
<1>5. CASE Answer
  <2>1. CASE top.at = "ask" /\ SetTop([top EXCEPT !.at = "begin"])
    <3> DEFINE f == [top EXCEPT !.at = "begin"]
    <3>1. f.at = "begin"
      BY <1>3 DEF Frame
    <3> HIDE DEF f
    <3>2. Aimed(f, Selected, pathed, Lists) /\ ~HasBegun(f)
      BY <3>1 DEF Aimed, HasBegun
    <3> QED BY <2>1, <3>2 DEF f, GoesOn
  <2> QED BY <1>5, <2>1 DEF Answer, Running, GoesOn
<1>6. CASE Fails \/ EndBatch
  BY <1>6 DEF Fails, EndBatch, Throw, Leave, GoesOn
<1>7. CASE Commanded
  <2>1. top.at = "fan1" /\ StartProgram([top EXCEPT !.at = "fan2"])
    BY <1>7 DEF Commanded, Running
  <2>2. Good([top EXCEPT !.at = "fan2"])
    BY <1>3, <2>1, ProgramAdvances DEF Good
  <2> QED BY <1>4, <2>1, <2>2
<1>8. CASE RunTest
  <2>1. top.at = "written" /\ StartProgram([top EXCEPT !.at = "test"])
    BY <1>8 DEF RunTest, Running
  <2>2. Good([top EXCEPT !.at = "test"])
    BY <1>3, <2>1, ProgramAdvances DEF Good
  <2> QED BY <1>4, <2>1, <2>2
<1>9. CASE pauseBar
  <2>1. top.at = "pause" /\ SetTop([top EXCEPT !.at = "write"])
    BY <1>9 DEF pauseBar, Running
  <2>2. Good([top EXCEPT !.at = "write"])
    BY <1>3, <2>1, ProgramAdvances DEF Good
  <2> QED BY <1>4, <2>1, <2>2
<1>10. CASE FanSet
  <2>1. top.at = "set"
    BY <1>10 DEF FanSet, Running
  <2>2. CASE SetTop([top EXCEPT !.at = "expander", !.sl = 0])
    <3>1. Good([top EXCEPT !.at = "expander", !.sl = 0])
      BY <1>3, <2>1, ProgramAdvances DEF Good
    <3> QED BY <1>4, <2>2, <3>1
  <2>3. ASSUME NEW n, top.kind = "fio2", SetTop([top EXCEPT !.at = "round", !.loops = n])
        PROVE  GoesOn
    <3>1. Good([top EXCEPT !.at = "round", !.loops = n])
      BY <1>3, <2>1, <2>3, ProgramAdvances DEF Good
    <3> QED BY <1>4, <2>3, <3>1
  <2> QED BY <1>10, <2>2, <2>3 DEF FanSet
<1>11. CASE NextDuty
  <2>1. top.at = "duty"
    BY <1>11 DEF NextDuty, Running
  <2>2. Good([top EXCEPT !.at = "over"])
    BY <1>3, <2>1, ProgramAdvances DEF Good
  <2>3. Good([top EXCEPT !.duty = @ + 1])
    BY <1>3, <2>1, LoopAdvances DEF Good
  <2>4. Good([top EXCEPT !.at = "fan1", !.fresh = @ \cup {"fan"}])
    BY <1>3, <2>1, LoopAdvances DEF Good
  <2> QED BY <1>4, <1>11, <2>2, <2>3, <2>4 DEF NextDuty
<1>12. CASE NextExpander
  <2>1. top.at = "expander"
    BY <1>12 DEF NextExpander, Running
  <2>2. Good([top EXCEPT !.at = "duty", !.duty = @ + 1])
    BY <1>3, <2>1, LoopAdvances DEF Good
  <2>3. Good([top EXCEPT !.sl = @ + NSLOT_PEREXP])
    BY <1>3, <2>1, LoopAdvances DEF Good
  <2>4. ASSUME Expander(top.sl) \in pathed
        PROVE  Good([top EXCEPT !.at = "slot", !.fresh = @ \cup {"expander"}])
    BY <1>3, <2>1, <2>4, LoopAdvances DEF Good
  <2> QED BY <1>4, <1>12, <2>2, <2>3, <2>4 DEF NextExpander
<1>13. CASE NextSlot
  <2>1. top.at = "slot" /\ top.kind = "autofio"
    BY <1>13 DEF NextSlot, Running
  <2>2. Good(PastSlot(top))
    BY <1>3, <2>1, SlotAdvances DEF Good
  <2>3. CASE top.sl \in Selected /\ PauseOrWrite([top EXCEPT !.fresh = @ \cup {"slot"}])
    <3>1. PICK at \in {"pause", "write"} :
             SetTop([[top EXCEPT !.fresh = @ \cup {"slot"}] EXCEPT !.at = at, !.tested = TRUE])
      BY <2>3 DEF PauseOrWrite
    <3>2. Good([[top EXCEPT !.fresh = @ \cup {"slot"}] EXCEPT !.at = at, !.tested = TRUE])
      BY <1>3, <2>1, <2>3, TestAdvances DEF Good
    <3> QED BY <1>4, <3>1, <3>2
  <2> QED BY <1>4, <1>13, <2>2, <2>3 DEF NextSlot
<1>14. CASE NextRound
  <2>1. top.at = "round" /\ top.kind = "fio2"
    BY <1>14 DEF NextRound, Running
  <2>2. Good([top EXCEPT !.at = "over"])
    BY <1>3, <2>1, ProgramAdvances DEF Good
  <2>3. CASE PauseOrWrite(top)
    <3>1. PICK at \in {"pause", "write"} : SetTop([top EXCEPT !.at = at, !.tested = TRUE])
      BY <2>3 DEF PauseOrWrite
    <3>2. Good([top EXCEPT !.at = at, !.tested = TRUE])
      BY <1>3, <2>1, TestAdvances DEF Good
    <3> QED BY <1>4, <3>1, <3>2
  <2> QED BY <1>4, <1>14, <2>2, <2>3 DEF NextRound
<1>15. CASE Tested
  <2> DEFINE h == [top EXCEPT !.script = NoScript, !.time = 0]
             f == IF h.kind = "autofio" THEN PastSlot(h) ELSE [h EXCEPT !.at = "round"]
  <2>1. top.at = "test" /\ SetTop(f) /\ top.kind \in {"autofio", "fio2"}
    BY <1>15 DEF Tested, Running, Batches
  <2>2. h \in Frame /\ h.at = top.at /\ h.kind = top.kind /\ h.sl = top.sl
        /\ h.fresh = top.fresh /\ h.duty = top.duty
    <3>1. NoScript \in Script /\ 0 \in 0 .. MaxErrors
      BY BatchAssumption DEF NoScript, Script
    <3> QED BY <1>3, <3>1 DEF Frame
  <2> HIDE DEF h
  <2>3. Good(f)
    <3>1. CASE top.kind = "autofio"
      <4>1. Good(PastSlot(h))
        BY <1>3, <2>1, <2>2, <3>1, SlotAdvances DEF Good
      <4> QED BY <2>2, <3>1, <4>1
    <3>2. CASE top.kind = "fio2"
      <4>1. f.at = "round" /\ f.kind = "fio2" /\ f.duty = h.duty /\ f.fresh = h.fresh
        BY <2>2, <3>2 DEF Frame
      <4> HIDE DEF f
      <4> QED BY <2>1, <2>2, <4>1 DEF Good, Aimed, Advances, HasBegun, FanKept, Held
    <3> QED BY <2>1, <3>1, <3>2
  <2> HIDE DEF f
  <2> QED BY <1>4, <2>1, <2>3
<1>16. CASE WriteScript
  <2>1. top.at = "write" /\ top.sl \in 0 .. NSLOT
    BY <1>3, <1>16 DEF WriteScript, Running, Frame
  <2>2. CASE Throw
    BY <2>2 DEF Throw, Leave, GoesOn
  <2>3. ASSUME NEW time,
               SetTop([top EXCEPT !.at = "written", !.processed = @ + 1, !.time = time,
                                  !.script = Listing(top)])
        PROVE  GoesOn
    <3> DEFINE s == Listing(top)
    <3>1. top.kind = "autofio" => s = Lists[top.sl]
      BY <2>1 DEF Listing, Lists
    <3> HIDE DEF s
    <3>2. Good([top EXCEPT !.at = "written", !.processed = @ + 1, !.time = time, !.script = s])
      BY <1>3, <2>1, <3>1, WriteAdvances DEF Good
    <3>3. SetTop([top EXCEPT !.at = "written", !.processed = @ + 1, !.time = time, !.script = s])
      BY <2>3 DEF s
    <3> QED BY <1>4, <3>2, <3>3
  <2> QED BY <1>16, <2>2, <2>3 DEF WriteScript
<1> QED BY <1>5, <1>6, <1>7, <1>8, <1>9, <1>10, <1>11, <1>12, <1>13, <1>14, <1>15, <1>16

(* The same for the steps that leave no handler where it was: the stack is *)
(* passed over, or one is put on top of it.                                *)
LEMMA DisturbedStack ==
    ASSUME StackInv, AimInv, DutyInv, Serving, ComesBetween, fan' = fan
    PROVE  AimInv' /\ DutyInv'
<1>1. stack \in Seq(GoodFrame) /\ DOMAIN stack = 1 .. Len(stack) /\ Len(stack) \in Nat
  BY LenProperties DEF StackInv
<1> DEFINE X == {"begin", "expander", "slot"}
<1>2. stack' = [n \in DOMAIN stack |-> [stack[n] EXCEPT !.fresh = @ \ X]]
  BY DEF ComesBetween
<1>3. DOMAIN stack' = DOMAIN stack
  BY <1>2
<1>4. ASSUME NEW n \in DOMAIN stack
      PROVE  /\ stack'[n].at = stack[n].at /\ stack'[n].duty = stack[n].duty
             /\ stack'[n].fresh = stack[n].fresh \ X
  <2>1. stack[n] \in Frame
    BY <1>1, ElementOfSeq DEF GoodFrame
  <2>2. stack'[n] = [stack[n] EXCEPT !.fresh = @ \ X]
    BY <1>2
  <2> QED BY <2>1, <2>2 DEF Frame
<1>5. ASSUME NEW n \in DOMAIN stack PROVE Calm(stack'[n])
  <2>1. stack[n].at \in Waits
    <3>1. CASE n = Len(stack)
      <4>1. stack # <<>>
        BY <1>1
      <4>2. top.at \in Waits
        BY <4>1 DEF Serving
      <4> QED BY <3>1, <4>2 DEF top, Last
    <3>2. CASE n # Len(stack)
      BY <3>2 DEF AimInv
    <3> QED BY <3>1, <3>2
  <2> QED BY <1>4, <2>1 DEF Calm
<1>6. AimInv'
  BY <1>3, <1>5, CalmIsAimed DEF AimInv, Calm
<1>7. ASSUME NEW n \in DOMAIN stack, FanPending(n) PROVE FanPending(n)'
  <2>1. PICK m \in 1 .. n - 1 : stack[m].at \in {"fan1", "fan2", "set"}
    BY <1>7 DEF FanPending
  <2>2. m \in DOMAIN stack
    BY <1>1, Below
  <2>3. stack'[m].at = stack[m].at
    BY <1>4, <2>2
  <2> QED BY <2>1, <2>3 DEF FanPending
<1>8. \A n \in DOMAIN stack : FanKept(stack'[n]) => FanKept(stack[n])
  BY <1>4 DEF FanKept
<1>9. \A n \in DOMAIN stack : HasBegun(stack'[n]) => HasBegun(stack[n])
  BY <1>4 DEF HasBegun
<1> HIDE DEF X
<1>10. DutyInv'
  BY <1>3, <1>4, <1>7, <1>8, <1>9 DEF DutyInv
<1> QED BY <1>6, <1>10

LEMMA PushedStack ==
    ASSUME StackInv, StackInv', AimInv, DutyInv, NEW f, Push(f), ~HasBegun(f)
    PROVE  AimInv' /\ DutyInv'
<1>1. /\ ~busy /\ (stack # <<>> => top.at \in Waits) /\ stack' = Append(stack, f)
      /\ UNCHANGED <<winVars, fan>>
  BY DEF Push, Clickable, Serving, Undisturbed
<1>2. stack \in Seq(GoodFrame) /\ stack' \in Seq(GoodFrame)
  BY DEF StackInv
<1>3. DOMAIN stack = 1 .. Len(stack) /\ Len(stack) \in Nat /\ DOMAIN stack' = 1 .. Len(stack')
  BY <1>2, LenProperties
<1>4. Len(stack') = Len(stack) + 1
  BY <1>1, <1>2
<1>5. \A n \in 1 .. Len(stack) : stack'[n] = stack[n]
  BY <1>1, <1>2, <1>3
<1>6. stack'[Len(stack) + 1] = f
  BY <1>1, <1>2, <1>3
<1>7. \A n \in DOMAIN stack' : n \in DOMAIN stack \/ n = Len(stack) + 1
  BY <1>3, <1>4
<1>8. \A n \in DOMAIN stack : stack[n].at \in Waits
  <2>1. ASSUME stack # <<>> PROVE stack[Len(stack)].at \in Waits
    BY <1>1, <2>1 DEF top, Last
  <2>2. ASSUME NEW n \in DOMAIN stack PROVE stack # <<>>
    BY <1>3
  <2> QED BY <2>1, <2>2 DEF AimInv
<1>9. Selected' = Selected /\ pathed' = pathed /\ Lists' = Lists /\ ~busy' /\ fan' = fan
  BY <1>1, SameWindow
<1>10. Aimed(f, Selected, pathed, Lists)
  BY DEF HasBegun, Aimed
<1>11. AimInv'
  BY <1>3, <1>4, <1>5, <1>6, <1>7, <1>8, <1>9, <1>10 DEF AimInv
<1>12. ASSUME NEW n \in DOMAIN stack, FanPending(n) PROVE FanPending(n)'
  <2>1. PICK m \in 1 .. n - 1 : stack[m].at \in {"fan1", "fan2", "set"}
    BY <1>12 DEF FanPending
  <2>2. m \in DOMAIN stack
    BY <1>3, Below
  <2> QED BY <1>3, <1>5, <2>1, <2>2 DEF FanPending
<1>13. ASSUME NEW n \in DOMAIN stack', FanKept(stack'[n])
       PROVE  fan' = stack'[n].duty \/ FanPending(n)'
  <2>1. n \in DOMAIN stack
    BY <1>6, <1>7, <1>13 DEF FanKept, HasBegun, Held
  <2> QED BY <1>3, <1>5, <1>9, <1>12, <1>13, <2>1 DEF DutyInv
<1>14. ASSUME NEW m \in DOMAIN stack', NEW n \in DOMAIN stack', n < m, HasBegun(stack'[m])
       PROVE  "fan" \notin stack'[n].fresh
  <2>1. m \in DOMAIN stack
    BY <1>6, <1>7, <1>14
  <2>2. n \in DOMAIN stack
    BY <1>3, <1>4, <1>14, <2>1
  <2> QED BY <1>3, <1>5, <1>14, <2>1, <2>2 DEF DutyInv
<1> QED BY <1>11, <1>13, <1>14 DEF DutyInv

LEMMA BegunStack ==
    ASSUME StackInv, AimInv, DutyInv, ~busy, stack # <<>>,
           UNCHANGED <<winVars, fan>>, NEW f, Begin(f), f.at \in {"duty", "fan1"}
    PROVE  AimInv' /\ DutyInv'
<1>1. /\ Len(stack) \in Nat \ {0} /\ DOMAIN stack = 1 .. Len(stack)
      /\ stack \in Seq(GoodFrame)
  BY TopFrame DEF StackInv
<1> DEFINE X == IF f.kind = "autofio" THEN {"fan", "begin"} ELSE {"fan"}
<1>2. /\ "slot" \notin X /\ "expander" \notin X /\ "fan" \in X
      /\ stack' = [n \in DOMAIN stack |->
                     IF n = Len(stack) THEN f ELSE [stack[n] EXCEPT !.fresh = @ \ X]]
  BY DEF Begin
<1> HIDE DEF X
<1>3. DOMAIN stack' = 1 .. Len(stack)
  BY <1>1, <1>2
<1>4. Len(stack') = Len(stack)
  <2>1. stack' = [n \in 1 .. Len(stack) |-> stack'[n]]
    BY <1>1, <1>2
  <2>2. \A n \in 1 .. Len(stack) : stack'[n] \in {stack'[m] : m \in 1 .. Len(stack)}
    OBVIOUS
  <2> DEFINE S == {stack'[m] : m \in 1 .. Len(stack)}
  <2>3. stack' \in [1 .. Len(stack) -> S]
    BY <2>1, <2>2
  <2>4. stack' \in Seq(S)
    BY <1>1, <2>3, SeqDef
  <2>5. Len(stack') \in Nat /\ 1 .. Len(stack') = 1 .. Len(stack)
    BY <1>3, <2>4, LenProperties
  <2> QED BY <1>1, <2>5
<1>5. ASSUME NEW n \in 1 .. Len(stack), n # Len(stack)
      PROVE  /\ stack[n].at \in Waits /\ stack'[n].at = stack[n].at /\ stack'[n].duty = stack[n].duty
             /\ stack'[n].fresh = stack[n].fresh \ X /\ stack'[n].sl = stack[n].sl
             /\ stack'[n].kind = stack[n].kind /\ stack'[n].script = stack[n].script
  <2>1. stack[n] \in Frame
    BY <1>1, ElementOfSeq DEF GoodFrame
  <2>2. stack'[n] = [stack[n] EXCEPT !.fresh = @ \ X]
    BY <1>1, <1>2, <1>5
  <2>3. stack[n].at \in Waits
    BY <1>1, <1>5 DEF AimInv
  <2> QED BY <2>1, <2>2, <2>3 DEF Frame
<1>6. stack'[Len(stack)] = f /\ Len(stack) \in 1 .. Len(stack)
  BY <1>1, <1>2
<1>7. Selected' = Selected /\ pathed' = pathed /\ Lists' = Lists /\ ~busy' /\ fan' = fan
  BY SameWindow
<1>8. \A n \in 1 .. Len(stack) : Aimed(stack'[n], Selected, pathed, Lists)
  <2>1. Aimed(f, Selected, pathed, Lists)
    BY DEF Aimed
  <2>2. ASSUME NEW n \in 1 .. Len(stack), n # Len(stack)
        PROVE  Aimed(stack'[n], Selected, pathed, Lists)
    <3>1. Aimed(stack[n], Selected, pathed, Lists)
      BY <1>1 DEF AimInv
    <3> QED BY <1>2, <1>5, <2>2, <3>1 DEF Aimed
  <2> QED BY <1>6, <2>1, <2>2
<1>9. AimInv'
  BY <1>3, <1>4, <1>5, <1>7, <1>8 DEF AimInv
<1>10. \A n \in 1 .. Len(stack) : ~FanKept(stack'[n])
  BY <1>2, <1>5, <1>6 DEF FanKept, Held
<1>11. ASSUME NEW m \in 1 .. Len(stack), NEW n \in 1 .. Len(stack), n < m
       PROVE  "fan" \notin stack'[n].fresh
  <2>1. n # Len(stack)
    BY <1>1, <1>11, Below
  <2> QED BY <1>2, <1>5, <2>1
<1>12. DutyInv'
  BY <1>3, <1>10, <1>11 DEF DutyInv
<1> QED BY <1>9, <1>12

LEMMA TurnedStack ==
    ASSUME StackInv, StackInv', AimInv, DutyInv, NEW k \in DOMAIN stack, FanTurns(k)
    PROVE  AimInv' /\ DutyInv'
<1>1. /\ ~busy /\ stack[k].at = "fan2" /\ fan' = stack[k].duty
      /\ stack' = [stack EXCEPT ![k].at = "set"] /\ UNCHANGED winVars
  BY DEF FanTurns, Undisturbed
<1>2. stack \in Seq(GoodFrame) /\ stack' \in Seq(GoodFrame)
  BY DEF StackInv
<1>3. DOMAIN stack = 1 .. Len(stack) /\ Len(stack) \in Nat
      /\ DOMAIN stack' = 1 .. Len(stack') /\ Len(stack') \in Nat
  BY <1>2, LenProperties
<1>4. DOMAIN stack' = DOMAIN stack /\ Len(stack') = Len(stack)
  BY <1>1, <1>3
<1>5. /\ stack'[k].at = "set" /\ stack'[k].fresh = stack[k].fresh
      /\ stack'[k].duty = stack[k].duty /\ stack'[k].kind = stack[k].kind
  <2>1. stack[k] \in Frame
    BY <1>2, <1>3, ElementOfSeq DEF GoodFrame
  <2>2. stack'[k] = [stack[k] EXCEPT !.at = "set"]
    BY <1>1
  <2> QED BY <2>1, <2>2 DEF Frame
<1>6. \A n \in DOMAIN stack : n # k => stack'[n] = stack[n]
  BY <1>1
<1>7. Selected' = Selected /\ pathed' = pathed /\ Lists' = Lists /\ ~busy'
  BY <1>1, SameWindow
<1>8. Aimed(stack'[k], Selected, pathed, Lists) /\ stack'[k].at \in Waits
  BY <1>5 DEF Aimed, Waits, Programs
<1>9. AimInv'
  BY <1>4, <1>6, <1>7, <1>8 DEF AimInv
<1>10. ASSUME NEW n \in DOMAIN stack, FanKept(stack'[n])
       PROVE  fan' = stack'[n].duty \/ FanPending(n)'
  <2>1. CASE n = k
    BY <1>1, <1>5, <2>1
  <2>2. CASE k < n
    <3>1. k \in 1 .. n - 1
      BY <1>3, <2>2
    <3> QED BY <1>5, <3>1 DEF FanPending
  <2>3. CASE n < k
    <3>1. "fan" \notin stack[n].fresh
      BY <1>1, <2>3 DEF DutyInv, HasBegun
    <3>2. stack'[n] = stack[n]
      BY <1>3, <1>6, <2>3
    <3> QED BY <1>10, <3>1, <3>2 DEF FanKept
  <2> QED BY <1>3, <2>1, <2>2, <2>3
<1>11. ASSUME NEW m \in DOMAIN stack, NEW n \in DOMAIN stack, n < m, HasBegun(stack'[m])
       PROVE  "fan" \notin stack'[n].fresh
  <2>1. HasBegun(stack[m])
    BY <1>1, <1>6, <1>11 DEF HasBegun
  <2>2. stack'[n].fresh = stack[n].fresh
    BY <1>5, <1>6
  <2> QED BY <1>11, <2>1, <2>2 DEF DutyInv
<1> QED BY <1>4, <1>9, <1>10, <1>11 DEF DutyInv

LEMMA AimStart == Init => AimInv /\ DutyInv
<1> SUFFICES ASSUME Init PROVE AimInv /\ DutyInv
  OBVIOUS
<1>1. DOMAIN stack = {}
  <2>1. stack = <<>>
    BY DEF Init
  <2>2. stack \in Seq({}) /\ Len(stack) = 0
    BY <2>1, EmptySeq
  <2>3. DOMAIN stack = 1 .. 0
    BY <2>2, LenProperties
  <2> QED BY <2>3
<1> QED BY <1>1 DEF AimInv, DutyInv

LEMMA AimStep ==
    BatchInv /\ AimInv /\ DutyInv /\ [Next]_vars => AimInv' /\ DutyInv'
<1> SUFFICES ASSUME BatchInv, AimInv, DutyInv, [Next]_vars PROVE AimInv' /\ DutyInv'
  OBVIOUS
<1>1. StackInv /\ StackInv'
  BY BatchStep DEF BatchInv
<1>2. ASSUME UNCHANGED <<winVars, stack, fan>> PROVE AimInv' /\ DutyInv'
  <2>1. Selected' = Selected /\ pathed' = pathed /\ Lists' = Lists /\ busy' = busy
    BY <1>2, SameWindow
  <2>2. AimInv'
    BY <1>2, <2>1 DEF AimInv
  <2>3. DutyInv'
    BY <1>2 DEF DutyInv, FanPending
  <2> QED BY <2>2, <2>3
<1>3. CASE UNCHANGED vars
  BY <1>2, <1>3 DEF vars, batchVars
<1>4. ASSUME Serving, ComesBetween, fan' = fan PROVE AimInv' /\ DutyInv'
  BY <1>1, <1>4, DisturbedStack
<1>5. CASE showModified \/ btnRefreshClicked
  BY <1>4, <1>5 DEF showModified, btnRefreshClicked, Clickable, Disturb
<1>6. CASE filloutCanvas
  <2>1. busy /\ UNCHANGED <<stack, fan>>
    BY <1>6 DEF filloutCanvas, EndRefresh, Hide, Show, Reach, batchVars
  <2>2. AimInv'
    BY <2>1, CalmIsAimed DEF AimInv, Calm
  <2>3. DutyInv'
    BY <2>1 DEF DutyInv, FanPending
  <2> QED BY <2>2, <2>3
<1>7. ASSUME NEW sl \in Slots, ClickSlot(sl) PROVE AimInv' /\ DutyInv'
  BY <1>4, <1>7 DEF ClickSlot, Clickable, Disturb
<1>8. CASE btnSelectAllClicked
  BY <1>4, <1>8 DEF btnSelectAllClicked, Clickable
<1>9. ASSUME (\E l \in Duties : ClickDuty(l)) \/ closeEvent PROVE AimInv' /\ DutyInv'
  BY <1>2, <1>9 DEF ClickDuty, closeEvent, batchVars
<1>10. CASE btnListSdxClicked \/ btnFio2GoClicked
  <2>1. \A list : ~HasBegun([NewFrame("list", "told") EXCEPT !.script = list])
    BY DEF NewFrame, HasBegun
  <2>2. ~HasBegun(NewFrame("autofio", "ask")) /\ ~HasBegun(NewFrame("fio2", "begin"))
    BY DEF NewFrame, HasBegun
  <2>3. PICK f : Push(f) /\ ~HasBegun(f)
    BY <1>10, <2>1, <2>2 DEF btnListSdxClicked, btnFio2GoClicked
  <2> QED BY <1>1, <2>3, PushedStack
<1>11. ASSUME stack # <<>>, ~busy, UNCHANGED <<winVars, fan>>, GoesOn
       PROVE  AimInv' /\ DutyInv'
  BY <1>1, <1>11, AdvancedStack DEF GoesOn
<1>12. CASE BeginAutofio \/ BeginFio2
  <2>1. stack # <<>> /\ ~busy /\ UNCHANGED <<winVars, fan>>
    BY <1>12 DEF BeginAutofio, BeginFio2, Running, Undisturbed
  <2>2. CASE Throw
    BY <1>11, <2>1, <2>2 DEF Throw, Leave, GoesOn
  <2>3. ASSUME NEW n, NEW m,
               Begin([top EXCEPT !.at = "duty", !.fresh = {"begin"}, !.devCount = n, !.loops = m])
        PROVE  AimInv' /\ DutyInv'
    <3> DEFINE f == [top EXCEPT !.at = "duty", !.fresh = {"begin"}, !.devCount = n, !.loops = m]
    <3>1. f.at = "duty"
      BY <1>1, <2>1, TopFrame DEF StackInv, GoodFrame, Frame
    <3> HIDE DEF f
    <3>2. Begin(f)
      BY <2>3 DEF f
    <3> QED BY <1>1, <2>1, <3>1, <3>2, BegunStack
  <2>4. ASSUME NEW n,
               Begin([top EXCEPT !.at = "fan1", !.fresh = {"fan"}, !.duty = FD, !.devCount = n])
        PROVE  AimInv' /\ DutyInv'
    <3> DEFINE f == [top EXCEPT !.at = "fan1", !.fresh = {"fan"}, !.duty = FD, !.devCount = n]
    <3>1. f.at = "fan1"
      BY <1>1, <2>1, TopFrame DEF StackInv, GoodFrame, Frame
    <3> HIDE DEF f
    <3>2. Begin(f)
      BY <2>4 DEF f
    <3> QED BY <1>1, <2>1, <3>1, <3>2, BegunStack
  <2> QED BY <1>12, <2>2, <2>3, <2>4 DEF BeginAutofio, BeginFio2
<1>13. ASSUME NEW n \in DOMAIN stack, FanTurns(n) PROVE AimInv' /\ DutyInv'
  BY <1>1, <1>13, TurnedStack
<1>14. CASE \/ Answer \/ Fails \/ Commanded \/ FanSet \/ Tested \/ RunTest \/ EndBatch \/ pauseBar
            \/ NextDuty \/ NextExpander \/ NextSlot \/ NextRound \/ WriteScript
  BY <1>1, <1>11, <1>14, RunningStep
<1> QED BY <1>3, <1>5, <1>6, <1>7, <1>8, <1>9, <1>10, <1>12, <1>13, <1>14 DEF Next

(* What each frame still knows of the window, the drives and the fans.     *)
THEOREM AimInvariant == Spec => [](BatchInv /\ AimInv /\ DutyInv)
<1>1. Init => BatchInv /\ AimInv /\ DutyInv
  BY BatchStart, AimStart
<1>2. BatchInv /\ AimInv /\ DutyInv /\ [Next]_vars => (BatchInv /\ AimInv /\ DutyInv)'
  BY BatchStep, AimStep
<1> QED BY <1>1, <1>2, PTL DEF Spec

(* Whatever was clicked, plugged or started meanwhile: an autofio test     *)
(* writes to no other drive than that of its slot; and if nothing came in  *)
(* between, the slot is a selected one, and the test does write to its     *)
(* drive (autofio_wls, sdxlist_wl1, sdxlist_wl2).                          *)
THEOREM AimSafe == Spec => []AimedAtSelected
<1>1. BatchInv /\ AimInv => AimedAtSelected
  <2> SUFFICES ASSUME BatchInv, AimInv, NEW n \in DOMAIN stack,
                      stack[n].kind = "autofio", stack[n].at = "written"
               PROVE  /\ "slot" \in stack[n].fresh => stack[n].sl \in Selected
                      /\ "expander" \in stack[n].fresh => stack[n].script.aim = {pic[stack[n].sl]}
                      /\ stack[n].script.aim \subseteq Blocks({stack[n].sl}) \cap stack[n].script.jobs
    BY DEF AimedAtSelected, Frames
  <2> DEFINE sl == stack[n].sl
             fresh == stack[n].fresh
             script == stack[n].script
  <2>1. sl \in 0 .. NSLOT
    <3>1. stack \in Seq(GoodFrame) /\ DOMAIN stack = 1 .. Len(stack)
      BY LenProperties DEF BatchInv, StackInv
    <3>2. stack[n] \in Frame
      BY <3>1, ElementOfSeq DEF GoodFrame
    <3> QED BY <3>2 DEF Frame
  <2>2. /\ "slot" \in fresh => sl \in Selected
        /\ "expander" \in fresh => "slot" \in fresh
        /\ "expander" \in fresh => Expander(sl) \in pathed
        /\ script = Lists[sl]
    BY DEF AimInv, Aimed
  <2> HIDE DEF sl, fresh, script
  <2>3. script = sdxlist_wl({sl})
    BY <2>1, <2>2 DEF Lists
  <2>4. /\ script.jobs = Blocks({s \in Occupied : Expander(s) \in pathed})
        /\ script.aim = Blocks({s \in {sl} : s \in Occupied /\ Expander(s) \in pathed})
    BY <2>3 DEF sdxlist_wl, sdxlist_sit
  <2>5. ASSUME "expander" \in fresh PROVE script.aim = {pic[sl]}
    <3>1. sl \in Occupied /\ Expander(sl) \in pathed
      BY <2>2, <2>5 DEF Selected
    <3>2. {s \in {sl} : s \in Occupied /\ Expander(s) \in pathed} = {sl}
      BY <3>1
    <3> QED BY <2>4, <3>2 DEF Blocks
  <2>6. script.aim \subseteq Blocks({sl}) \cap script.jobs
    BY <2>4 DEF Blocks
  <2> QED BY <2>2, <2>5, <2>6 DEF sl, fresh, script
<1> QED BY <1>1, AimInvariant, PTL

(* A test runs at the fan duty its name tells, however many batches were   *)
(* started on top of each other, as long as none was started on top of it  *)
(* and none below it waits for its ipmitool (setFanDuty, autofio_wls).     *)
THEOREM DutySafe == Spec => []DutyHeld
<1>1. DutyInv => DutyHeld
  BY DEF DutyInv, DutyHeld, FanKept, FanPending, Held
<1> QED BY <1>1, AimInvariant, PTL

-----------------------------------------------------------------------------
(* What a batch has done by the time it is over: so many tests for every   *)
(* fan duty behind it, and those before its slot for the present one.      *)
Before(S, x) == {t \in S : t < x}
On(duties) == {l \in Duties : duties[l]}
ReachedBy(selected, paths) == {t \in selected : Expander(t) \in paths}

LEMMA BeforeNext ==
    ASSUME NEW S, IsFiniteSet(S), S \subseteq Nat, NEW x \in Nat
    PROVE  /\ Cardinality(Before(S, x)) \in Nat
           /\ x \in S => Cardinality(Before(S, x + 1)) = Cardinality(Before(S, x)) + 1
           /\ x \notin S => Before(S, x + 1) = Before(S, x)
<1>1. \A t \in S : t < x + 1 <=> t < x \/ t = x
  <2> SUFFICES ASSUME NEW t \in S PROVE t < x + 1 <=> t < x \/ t = x
    OBVIOUS
  <2>1. t \in Nat
    OBVIOUS
  <2> QED BY <2>1
<1>2. IsFiniteSet(Before(S, x)) /\ Cardinality(Before(S, x)) \in Nat
  BY FS_Subset, FS_CardinalityType DEF Before
<1>3. ASSUME x \in S PROVE Before(S, x + 1) = Before(S, x) \cup {x}
  BY <1>1, <1>3 DEF Before
<1>4. x \notin Before(S, x)
  BY DEF Before
<1>5. ASSUME x \notin S PROVE Before(S, x + 1) = Before(S, x)
  BY <1>1, <1>5 DEF Before
<1> QED BY <1>2, <1>3, <1>4, <1>5, FS_AddElement

(* Slots of one expander are next to each other.                           *)
LEMMA OneExpander ==
    ASSUME NEW sl \in Nat, sl % NSLOT_PEREXP = 0, NEW t \in Nat,
           sl <= t, t < sl + NSLOT_PEREXP
    PROVE  Expander(t) = Expander(sl)
<1> DEFINE N == NSLOT_PEREXP
           p == sl \div N
           q == t \div N
           r == t % N
<1>1. N \in Nat \ {0}
  BY BatchAssumption
<1>2. p \in Nat /\ sl = N * p
  BY <1>1
<1>3. q \in Nat /\ r \in 0 .. N - 1 /\ t = N * q + r
  BY <1>1
<1>4. sl <= t /\ t < sl + N
  OBVIOUS
<1> HIDE DEF N, p, q, r
<1>5. q < p + 1
  <2>1. N * q < N * (p + 1)
    <3>1. N * (p + 1) = N * p + N
      BY <1>1, <1>2
    <3>2. N * q \in Nat /\ N * p \in Nat
      BY <1>1, <1>2, <1>3
    <3> QED BY <1>1, <1>2, <1>3, <1>4, <3>1, <3>2
  <2> QED BY <1>1, <1>2, <1>3, <2>1
<1>6. p < q + 1
  <2>1. N * p < N * (q + 1)
    <3>1. N * (q + 1) = N * q + N
      BY <1>1, <1>3
    <3>2. N * q \in Nat /\ N * p \in Nat
      BY <1>1, <1>2, <1>3
    <3> QED BY <1>1, <1>2, <1>3, <1>4, <3>1, <3>2
  <2> QED BY <1>1, <1>2, <1>3, <2>1
<1>7. p = q
  BY <1>2, <1>3, <1>5, <1>6
<1> QED BY <1>7 DEF N, p, q, Expander

(* An expander without a path has no slot to test.                         *)
LEMMA PassedOver ==
    ASSUME NEW selected, selected \subseteq Nat, NEW paths, NEW sl \in Nat,
           sl % NSLOT_PEREXP = 0, Expander(sl) \notin paths
    PROVE  Before(ReachedBy(selected, paths), sl + NSLOT_PEREXP) = Before(ReachedBy(selected, paths), sl)
<1> DEFINE S == ReachedBy(selected, paths)
<1>1. ASSUME NEW t \in S PROVE t < sl + NSLOT_PEREXP <=> t < sl
  <2>1. t \in Nat /\ Expander(t) \in paths
    BY DEF ReachedBy
  <2>2. ~(sl <= t /\ t < sl + NSLOT_PEREXP)
    BY <2>1, OneExpander
  <2> QED BY <2>1, <2>2, BatchAssumption
<1> QED BY <1>1 DEF Before

LEMMA SelectedCounted ==
    /\ Selected \subseteq Slots /\ IsFiniteSet(Selected) /\ Selected \subseteq Nat
    /\ Testable = ReachedBy(Selected, pathed)
<1>1. Selected \subseteq Slots
  BY DEF Selected, Occupied
<1>2. IsFiniteSet(Slots) /\ Slots \subseteq Nat
  BY TableEnd, FS_Interval DEF Slots
<1>3. IsFiniteSet(Selected)
  BY <1>1, <1>2, FS_Subset
<1> QED BY <1>1, <1>2, <1>3 DEF Testable, ReachedBy

LEMMA ReachedCounted ==
    ASSUME NEW selected, IsFiniteSet(selected), selected \subseteq Slots, NEW paths
    PROVE  LET S == ReachedBy(selected, paths)
           IN  /\ IsFiniteSet(S) /\ S \subseteq Nat
               /\ Cardinality(S) \in Nat /\ Cardinality(selected) \in Nat
               /\ Cardinality(S) <= Cardinality(selected)
               /\ Cardinality(Before(S, 0)) = 0 /\ Before(S, NSLOT) = S
<1> DEFINE S == ReachedBy(selected, paths)
<1>1. S \subseteq selected
  BY DEF ReachedBy
<1> HIDE DEF S
<1>2. /\ IsFiniteSet(S) /\ Cardinality(S) \in Nat /\ Cardinality(selected) \in Nat
      /\ Cardinality(S) <= Cardinality(selected)
  BY <1>1, FS_Subset, FS_CardinalityType
<1>3. \A t \in S : t \in Nat /\ ~(t < 0) /\ t < NSLOT
  BY <1>1, TableEnd DEF Slots
<1>4. Before(S, 0) = {} /\ Before(S, NSLOT) = S
  BY <1>3 DEF Before
<1> QED BY <1>2, <1>3, <1>4, FS_EmptySet DEF S

LEMMA DutiesCounted ==
    ASSUME NEW duties
    PROVE  /\ IsFiniteSet(On(duties)) /\ On(duties) \subseteq Nat
           /\ Cardinality(On(duties)) \in Nat
           /\ Cardinality(Before(On(duties), 1)) = 0
           /\ Before(On(duties), FD + 1) = On(duties)
<1> DEFINE S == On(duties)
<1>1. S \subseteq Duties
  BY DEF On
<1>2. IsFiniteSet(Duties)
  BY BatchAssumption, FS_Interval DEF Duties
<1> HIDE DEF S
<1>3. IsFiniteSet(S) /\ Cardinality(S) \in Nat
  BY <1>1, <1>2, FS_Subset, FS_CardinalityType
<1>4. \A l \in S : l \in Nat /\ ~(l < 1) /\ l < FD + 1
  BY <1>1, BatchAssumption DEF Duties
<1>5. Before(S, 1) = {} /\ Before(S, FD + 1) = S
  BY <1>4 DEF Before
<1> QED BY <1>3, <1>4, <1>5, FS_EmptySet DEF S

LEMMA OneMore ==
    ASSUME NEW a \in Nat, NEW b \in Nat
    PROVE  /\ a * b \in Nat /\ (a + 1) * b = a * b + b /\ 0 * b = 0
           /\ \A d \in Nat : b <= d => a * b <= a * d
<1>1. a * b \in Nat /\ (a + 1) * b = a * b + b /\ 0 * b = 0
  OBVIOUS
<1>2. ASSUME NEW d \in Nat, b <= d PROVE a * b <= a * d
  <2>1. PICK x \in Nat : d = b + x
    <3>1. d - b \in Nat /\ d = b + (d - b)
      BY <1>2
    <3> QED BY <3>1
  <2>2. a * d = a * b + a * x /\ a * x \in Nat /\ a * b \in Nat
    BY <2>1
  <2> QED BY <2>2
<1> QED BY <1>1, <1>2

(* The tests behind a batch f that nothing came between.                   *)
Behind(f, duties, S) ==
    Cardinality(Before(On(duties), f.duty)) * Cardinality(S)
      + (IF f.at \in {"expander", "slot"} \cup Testing THEN Cardinality(Before(S, f.sl)) ELSE 0)
      + (IF f.at \in {"written", "test"} THEN 1 ELSE 0)

Tallied(f, duties, selected, paths) ==
    /\ f.kind = "autofio" /\ ~HasBegun(f) =>
          f.duty = 1 /\ f.processed = 0 /\ "begin" \notin f.fresh
    /\ f.kind = "autofio" /\ "begin" \in f.fresh =>
          /\ selected # {}
          /\ f.loops = Cardinality(On(duties)) /\ f.devCount = Cardinality(selected)
          /\ f.at \in InDuty => f.duty \in On(duties)
          /\ f.at = "over" => f.duty = FD + 1
          /\ f.at \in {"slot"} \cup Testing => Expander(f.sl) \in paths
          /\ f.at \in Testing => f.sl \in selected
          /\ f.processed = Behind(f, duties, ReachedBy(selected, paths))

(* An autofio batch that begins takes the claim of those below.            *)
CompleteInv ==
    /\ \A n \in DOMAIN stack : Tallied(stack[n], fd, Selected, pathed)
    /\ \A n \in DOMAIN stack :
          stack[n].kind = "autofio" /\ "begin" \in stack[n].fresh => ~busy /\ ~fdEnabled
    /\ \A m, n \in DOMAIN stack :
          n < m /\ stack[m].kind = "autofio" /\ HasBegun(stack[m]) => "begin" \notin stack[n].fresh

LEMMA TallyGoes ==
    ASSUME NEW g, NEW f, NEW duties, NEW selected, NEW paths, Tallied(g, duties, selected, paths),
           f.kind = g.kind, f.loops = g.loops, f.devCount = g.devCount, f.duty = g.duty,
           f.sl = g.sl, f.processed = g.processed, "begin" \in f.fresh => "begin" \in g.fresh,
           g.kind = "autofio" =>
              \/ g.at = "ask" /\ f.at = "begin"
              \/ g.at = "fan1" /\ f.at = "fan2"
              \/ g.at = "fan2" /\ f.at = "set"
              \/ g.at = "pause" /\ f.at = "write"
              \/ g.at = "written" /\ f.at = "test"
              \/ g.at = "duty" /\ f.at = "fan1" /\ f.duty \in On(duties)
              \/ g.at = "duty" /\ f.at = "over" /\ f.duty = FD + 1
              \/ g.at = "expander" /\ f.at = "slot" /\ Expander(f.sl) \in paths
              \/ g.at = "slot" /\ f.at \in {"pause", "write"} /\ f.sl \in selected
    PROVE  Tallied(f, duties, selected, paths)
<1>1. CASE f.kind # "autofio"
  BY <1>1 DEF Tallied
<1>2. CASE f.kind = "autofio" /\ "begin" \notin f.fresh
  BY <1>2 DEF Tallied, HasBegun
<1>3. CASE f.kind = "autofio" /\ "begin" \in f.fresh
  <2>1. HasBegun(g)
    BY <1>3 DEF Tallied
  <2>2. HasBegun(f)
    BY <1>3, <2>1 DEF HasBegun
  <2>3. Behind(f, duties, ReachedBy(selected, paths)) = Behind(g, duties, ReachedBy(selected, paths))
    <3>1. /\ (f.at \in {"expander", "slot"} \cup Testing) <=> (g.at \in {"expander", "slot"} \cup Testing)
          /\ (f.at \in {"written", "test"}) <=> (g.at \in {"written", "test"})
      BY <1>3, <2>1 DEF Testing, HasBegun
    <3> QED BY <3>1 DEF Behind
  <2> QED BY <1>3, <2>1, <2>2, <2>3 DEF Tallied, InDuty, Testing, HasBegun
<1> QED BY <1>1, <1>2, <1>3

(* The loops move on: a test more, a slot, an expander or a duty behind.   *)
LEMMA TallyCounts ==
    ASSUME NEW g \in GoodFrame, NEW f, NEW duties,
           NEW selected, IsFiniteSet(selected), selected \subseteq Slots, NEW paths,
           Tallied(g, duties, selected, paths),
           f.kind = g.kind, f.loops = g.loops, f.devCount = g.devCount,
           "begin" \in f.fresh => "begin" \in g.fresh, HasBegun(g), HasBegun(f),
           f.processed = g.processed + (IF f.at = "written" THEN 1 ELSE 0),
           \/ g.at = "set" /\ f.at = "expander" /\ f.sl = 0 /\ f.duty = g.duty
           \/ g.at = "duty" /\ f.at = "duty" /\ f.duty = g.duty + 1 /\ g.duty \notin On(duties)
           \/ g.at = "expander" /\ f.at = "duty" /\ f.duty = g.duty + 1 /\ g.sl = NSLOT
           \/ /\ g.at = "expander" /\ f.at = "expander" /\ f.duty = g.duty
              /\ f.sl = g.sl + NSLOT_PEREXP /\ Expander(g.sl) \notin paths
           \/ /\ (g.at = "slot" /\ g.sl \notin selected) \/ g.at = "test"
              /\ f.at \in {"expander", "slot"} /\ f.sl = g.sl + 1 /\ f.duty = g.duty
              /\ f.at = "slot" => (g.sl + 1) % NSLOT_PEREXP # 0
           \/ g.at = "write" /\ f.at = "written" /\ f.sl = g.sl /\ f.duty = g.duty
    PROVE  Tallied(f, duties, selected, paths)
<1> SUFFICES ASSUME f.kind = "autofio", "begin" \in f.fresh
             PROVE  Tallied(f, duties, selected, paths)
  BY DEF Tallied
<1> DEFINE S == ReachedBy(selected, paths)
           D == On(duties)
           done == Cardinality(Before(D, g.duty))
           some == Cardinality(Before(S, g.sl))
<1>1. /\ g \in Frame /\ InLoops(g) /\ g.kind = "autofio" /\ "begin" \in g.fresh
      /\ g.sl \in Nat /\ g.duty \in Nat /\ g.processed \in Nat
  BY DEF GoodFrame, Frame
<1>2. /\ selected # {} /\ g.loops = Cardinality(D) /\ g.devCount = Cardinality(selected)
      /\ g.at \in InDuty => g.duty \in D
      /\ g.at \in {"slot"} \cup Testing => Expander(g.sl) \in paths
      /\ g.at \in Testing => g.sl \in selected
      /\ g.processed = Behind(g, duties, S)
  BY <1>1 DEF Tallied
<1>3. /\ IsFiniteSet(S) /\ S \subseteq Nat /\ Cardinality(S) \in Nat
      /\ Cardinality(Before(S, 0)) = 0 /\ Before(S, NSLOT) = S
      /\ IsFiniteSet(D) /\ D \subseteq Nat
  BY ReachedCounted, DutiesCounted
<1>4. /\ done \in Nat /\ some \in Nat
      /\ g.duty \in D => Cardinality(Before(D, g.duty + 1)) = done + 1
      /\ g.duty \notin D => Cardinality(Before(D, g.duty + 1)) = done
      /\ g.sl \in S => Cardinality(Before(S, g.sl + 1)) = some + 1
      /\ g.sl \notin S => Cardinality(Before(S, g.sl + 1)) = some
  BY <1>1, <1>3, BeforeNext
<1>5. /\ done * Cardinality(S) \in Nat
      /\ (done + 1) * Cardinality(S) = done * Cardinality(S) + Cardinality(S)
  BY <1>3, <1>4, OneMore
<1>6. g.sl \in S <=> g.sl \in selected /\ Expander(g.sl) \in paths
  BY DEF ReachedBy
<1>7. g.processed = done * Cardinality(S)
                      + (IF g.at \in {"expander", "slot"} \cup Testing THEN some ELSE 0)
                      + (IF g.at \in {"written", "test"} THEN 1 ELSE 0)
  BY <1>2 DEF Behind
<1>8. Behind(f, duties, S) = Cardinality(Before(D, f.duty)) * Cardinality(S)
        + (IF f.at \in {"expander", "slot"} \cup Testing THEN Cardinality(Before(S, f.sl)) ELSE 0)
        + (IF f.at \in {"written", "test"} THEN 1 ELSE 0)
  BY DEF Behind
<1> DEFINE Rest == /\ f.at \in InDuty => f.duty \in D
                   /\ f.at = "over" => f.duty = FD + 1
                   /\ f.at \in {"slot"} \cup Testing => Expander(f.sl) \in paths
                   /\ f.at \in Testing => f.sl \in selected
                   /\ f.processed = Behind(f, duties, S)
<1> SUFFICES Rest
  BY <1>1, <1>2 DEF Tallied
<1> HIDE DEF S, D, done, some
<1>9. CASE g.at = "set" /\ f.at = "expander" /\ f.sl = 0 /\ f.duty = g.duty
  <2>1. f.processed = done * Cardinality(S) /\ Behind(f, duties, S) = done * Cardinality(S)
    BY <1>1, <1>3, <1>5, <1>7, <1>8, <1>9 DEF Testing, done
  <2> QED BY <1>2, <1>9, <2>1 DEF InDuty, Testing
<1>10. CASE g.at = "duty" /\ f.at = "duty" /\ f.duty = g.duty + 1 /\ g.duty \notin D
  <2>1. f.processed = done * Cardinality(S) /\ Behind(f, duties, S) = done * Cardinality(S)
    BY <1>1, <1>4, <1>5, <1>7, <1>8, <1>10 DEF Testing
  <2> QED BY <1>10, <2>1 DEF InDuty, Testing
<1>11. CASE g.at = "expander" /\ f.at = "duty" /\ f.duty = g.duty + 1 /\ g.sl = NSLOT
  <2>1. g.duty \in D /\ some = Cardinality(S)
    BY <1>2, <1>3, <1>11 DEF InDuty, some
  <2>2. f.processed = done * Cardinality(S) + Cardinality(S)
    BY <1>1, <1>3, <1>5, <1>7, <1>11, <2>1 DEF Testing
  <2>3. Behind(f, duties, S) = (done + 1) * Cardinality(S)
    BY <1>4, <1>5, <1>3, <1>8, <1>11, <2>1 DEF Testing
  <2> QED BY <1>5, <1>11, <2>2, <2>3 DEF InDuty, Testing
<1>12. CASE /\ g.at = "expander" /\ f.at = "expander" /\ f.duty = g.duty
            /\ f.sl = g.sl + NSLOT_PEREXP /\ Expander(g.sl) \notin paths
  <2>1. g.sl % NSLOT_PEREXP = 0
    BY <1>1, <1>12 DEF InLoops
  <2>2. Before(S, f.sl) = Before(S, g.sl)
    <3>1. selected \subseteq Nat
      BY TableEnd DEF Slots
    <3>2. g.sl \in Nat /\ f.sl = g.sl + NSLOT_PEREXP /\ Expander(g.sl) \notin paths
      BY <1>1, <1>12, TableEnd DEF Frame
    <3>3. Before(ReachedBy(selected, paths), g.sl + NSLOT_PEREXP)
             = Before(ReachedBy(selected, paths), g.sl)
      BY <2>1, <3>1, <3>2, PassedOver
    <3> QED BY <3>2, <3>3 DEF S
  <2>3. f.processed = done * Cardinality(S) + some /\ Behind(f, duties, S) = done * Cardinality(S) + some
    BY <1>1, <1>4, <1>5, <1>7, <1>8, <1>12, <2>2 DEF Testing, done, some
  <2> QED BY <1>2, <1>12, <2>3 DEF InDuty, Testing
<1>13. CASE /\ (g.at = "slot" /\ g.sl \notin selected) \/ g.at = "test"
            /\ f.at \in {"expander", "slot"} /\ f.sl = g.sl + 1 /\ f.duty = g.duty
            /\ f.at = "slot" => (g.sl + 1) % NSLOT_PEREXP # 0
  <2>1. f.at = "slot" => Expander(f.sl) \in paths
    BY <1>1, <1>2, <1>13, SameExpander DEF Testing
  <2>2. CASE g.at = "slot" /\ g.sl \notin selected
    <3>1. Cardinality(Before(S, f.sl)) = some
      BY <1>4, <1>6, <1>13, <2>2
    <3>2. f.processed = done * Cardinality(S) + some /\ Behind(f, duties, S) = done * Cardinality(S) + some
      BY <1>1, <1>4, <1>5, <1>7, <1>8, <1>13, <2>2, <3>1 DEF Testing, done
    <3> QED BY <1>2, <1>13, <2>1, <2>2, <3>2 DEF InDuty, Testing
  <2>3. CASE g.at = "test"
    <3>1. Cardinality(Before(S, f.sl)) = some + 1
      BY <1>2, <1>4, <1>6, <1>13, <2>3 DEF Testing
    <3>2. f.processed = done * Cardinality(S) + some + 1
      BY <1>1, <1>4, <1>5, <1>7, <1>13, <2>3 DEF Testing
    <3>3. Behind(f, duties, S) = done * Cardinality(S) + (some + 1)
      BY <1>4, <1>5, <1>8, <1>13, <3>1 DEF Testing, done
    <3> QED BY <1>2, <1>4, <1>5, <1>13, <2>1, <2>3, <3>2, <3>3 DEF InDuty, Testing
  <2> QED BY <1>13, <2>2, <2>3
<1>14. CASE g.at = "write" /\ f.at = "written" /\ f.sl = g.sl /\ f.duty = g.duty
  <2>1. f.processed = done * Cardinality(S) + some + 1
    BY <1>1, <1>4, <1>5, <1>7, <1>14 DEF Testing
  <2>2. Behind(f, duties, S) = done * Cardinality(S) + some + 1
    BY <1>4, <1>5, <1>8, <1>14 DEF Testing, done, some
  <2> QED BY <1>2, <1>14, <2>1, <2>2 DEF InDuty, Testing
<1> QED BY <1>9, <1>10, <1>11, <1>12, <1>13, <1>14 DEF D

LEMMA CompleteStart == Init => CompleteInv
<1> SUFFICES ASSUME Init PROVE CompleteInv
  OBVIOUS
<1>1. DOMAIN stack = {}
  <2>1. stack = <<>>
    BY DEF Init
  <2>2. stack \in Seq({}) /\ Len(stack) = 0
    BY <2>1, EmptySeq
  <2>3. DOMAIN stack = 1 .. 0
    BY <2>2, LenProperties
  <2> QED BY <2>3
<1> QED BY <1>1 DEF CompleteInv

(* The running handler goes on, or is left.                                *)
Follows(g, f) ==
    /\ f.kind = g.kind /\ (HasBegun(f) => HasBegun(g))
    /\ "begin" \in f.fresh => "begin" \in g.fresh

TallyKept ==
    \/ /\ stack' = Front(stack)
       /\ \/ fd' = fd /\ (fdEnabled' => fdEnabled \/ (top.kind = "autofio" /\ HasBegun(top)))
          \/ Selected = {}
    \/ \E f : /\ SetTop(f) /\ Tallied(f, fd, Selected, pathed) /\ Follows(top, f)
              /\ UNCHANGED <<fd, fdEnabled>>

LEMMA TallyAdvanced ==
    ASSUME StackInv, StackInv', CompleteInv, stack # <<>>, ~busy, UNCHANGED winVars, TallyKept
    PROVE  CompleteInv'
<1>1. Selected' = Selected /\ pathed' = pathed /\ ~busy'
  BY SameWindow
<1>2. CASE /\ stack' = Front(stack)
           /\ \/ fd' = fd /\ (fdEnabled' => fdEnabled \/ (top.kind = "autofio" /\ HasBegun(top)))
              \/ Selected = {}
  <2>1. /\ Len(stack) \in Nat \ {0} /\ Len(stack') = Len(stack) - 1
        /\ DOMAIN stack = 1 .. Len(stack) /\ DOMAIN stack' = 1 .. Len(stack) - 1
        /\ \A n \in 1 .. Len(stack) - 1 : stack'[n] = stack[n]
    BY <1>2, TopGone
  <2>2. top = stack[Len(stack)]
    BY <2>1 DEF top, Last
  <2>3. \A n \in DOMAIN stack' : n \in DOMAIN stack /\ n < Len(stack) /\ stack'[n] = stack[n]
    BY <2>1
  <2>4. ASSUME NEW n \in DOMAIN stack' PROVE Tallied(stack[n], fd', Selected, pathed)
    <3>1. Tallied(stack[n], fd, Selected, pathed)
      BY <2>3 DEF CompleteInv
    <3>2. CASE fd' = fd
      BY <3>1, <3>2
    <3>3. CASE Selected = {}
      BY <3>1, <3>3 DEF Tallied
    <3> QED BY <1>2, <3>2, <3>3
  <2>5. ASSUME NEW n \in DOMAIN stack', stack[n].kind = "autofio", "begin" \in stack[n].fresh
        PROVE  ~fdEnabled'
    <3>1. Selected # {}
      BY <2>3, <2>5 DEF CompleteInv, Tallied
    <3>2. ~fdEnabled
      BY <2>3, <2>5 DEF CompleteInv
    <3>3. ~(top.kind = "autofio" /\ HasBegun(top))
      <4>1. Len(stack) \in DOMAIN stack
        BY <2>1
      <4> QED BY <2>2, <2>3, <2>5, <4>1 DEF CompleteInv
    <3> QED BY <1>2, <3>1, <3>2, <3>3
  <2>6. \A m, n \in DOMAIN stack' :
           n < m /\ stack[m].kind = "autofio" /\ HasBegun(stack[m]) => "begin" \notin stack[n].fresh
    BY <2>3 DEF CompleteInv
  <2> QED BY <1>1, <2>3, <2>4, <2>5, <2>6 DEF CompleteInv
<1>3. ASSUME NEW f, SetTop(f), Tallied(f, fd, Selected, pathed), Follows(top, f),
             UNCHANGED <<fd, fdEnabled>>
      PROVE  CompleteInv'
  <2>1. \A n \in DOMAIN stack : (stack[n] = top /\ stack'[n] = f) \/ stack'[n] = stack[n]
    <3>1. top = stack[Len(stack)]
      BY DEF top, Last
    <3>2. \A n \in DOMAIN stack : stack'[n] = IF n = Len(stack) THEN f ELSE stack[n]
      BY <1>3 DEF SetTop
    <3> QED BY <3>1, <3>2
  <2>2. \A n \in DOMAIN stack : Tallied(stack'[n], fd, Selected, pathed)
    <3>1. \A n \in DOMAIN stack : Tallied(stack[n], fd, Selected, pathed)
      BY DEF CompleteInv
    <3> HIDE DEF CompleteInv
    <3> QED BY <1>3, <2>1, <3>1
  <2>3. \A n \in DOMAIN stack : Follows(stack[n], stack'[n])
    <3>1. \A n : Follows(stack[n], stack[n])
      BY DEF Follows
    <3> QED BY <1>3, <2>1, <3>1
  <2>4. \A n \in DOMAIN stack :
           stack'[n].kind = "autofio" /\ "begin" \in stack'[n].fresh => ~fdEnabled
    BY <2>3 DEF CompleteInv, Follows
  <2>5. ASSUME NEW m \in DOMAIN stack, NEW n \in DOMAIN stack, n < m,
               stack'[m].kind = "autofio", HasBegun(stack'[m])
        PROVE  "begin" \notin stack'[n].fresh
    <3>1. stack[m].kind = "autofio" /\ HasBegun(stack[m])
      BY <2>3, <2>5 DEF Follows
    <3>2. "begin" \notin stack[n].fresh
      BY <2>5, <3>1 DEF CompleteInv
    <3> QED BY <2>3, <3>2 DEF Follows
  <2>6. DOMAIN stack' = DOMAIN stack
    BY <1>3 DEF SetTop
  <2>7. fd' = fd /\ fdEnabled' = fdEnabled
    BY <1>3
  <2> QED BY <1>1, <2>2, <2>4, <2>5, <2>6, <2>7 DEF CompleteInv
<1> QED BY <1>2, <1>3 DEF TallyKept

LEMMA TallyDisturbed ==
    ASSUME StackInv, CompleteInv, ComesBetween
    PROVE  CompleteInv'
<1>1. stack \in Seq(GoodFrame) /\ DOMAIN stack = 1 .. Len(stack)
  BY LenProperties DEF StackInv
<1> DEFINE X == {"begin", "expander", "slot"}
<1>2. stack' = [n \in DOMAIN stack |-> [stack[n] EXCEPT !.fresh = @ \ X]]
  BY DEF ComesBetween
<1>3. DOMAIN stack' = DOMAIN stack
  BY <1>2
<1>4. ASSUME NEW n \in DOMAIN stack
      PROVE  /\ stack'[n].at = stack[n].at /\ stack'[n].kind = stack[n].kind
             /\ stack'[n].duty = stack[n].duty /\ stack'[n].processed = stack[n].processed
             /\ "begin" \notin stack'[n].fresh
  <2>1. stack[n] \in Frame
    BY <1>1, ElementOfSeq DEF GoodFrame
  <2>2. stack'[n] = [stack[n] EXCEPT !.fresh = @ \ X]
    BY <1>2
  <2> QED BY <2>1, <2>2 DEF Frame
<1> HIDE DEF X
<1>5. ASSUME NEW n \in DOMAIN stack PROVE Tallied(stack'[n], fd', Selected', pathed')
  <2>1. Tallied(stack[n], fd, Selected, pathed)
    BY DEF CompleteInv
  <2> QED BY <1>4, <2>1 DEF Tallied, HasBegun
<1> QED BY <1>3, <1>4, <1>5 DEF CompleteInv

LEMMA TallyPushed ==
    ASSUME StackInv, StackInv', CompleteInv, NEW f, Push(f), ~HasBegun(f), "begin" \notin f.fresh,
           f.kind = "autofio" => f.duty = 1 /\ f.processed = 0
    PROVE  CompleteInv'
<1>1. /\ ~busy /\ stack' = Append(stack, f) /\ UNCHANGED <<winVars, fd, fdEnabled>>
  BY DEF Push, Clickable, Serving, Undisturbed
<1>2. stack \in Seq(GoodFrame) /\ stack' \in Seq(GoodFrame)
  BY DEF StackInv
<1>3. DOMAIN stack = 1 .. Len(stack) /\ Len(stack) \in Nat /\ DOMAIN stack' = 1 .. Len(stack')
  BY <1>2, LenProperties
<1>4. Len(stack') = Len(stack) + 1
  BY <1>1, <1>2
<1>5. /\ \A n \in 1 .. Len(stack) : stack'[n] = stack[n]
      /\ stack'[Len(stack) + 1] = f
  BY <1>1, <1>2, <1>3
<1>6. Selected' = Selected /\ pathed' = pathed /\ ~busy'
  BY <1>1, SameWindow
<1>7. Tallied(f, fd, Selected, pathed)
  BY DEF Tallied
<1>8. \A n \in DOMAIN stack' :
         (n \in DOMAIN stack /\ stack'[n] = stack[n]) \/ (n = Len(stack) + 1 /\ stack'[n] = f)
  BY <1>3, <1>4, <1>5
<1>9. \A n \in DOMAIN stack' : Tallied(stack'[n], fd, Selected, pathed)
  BY <1>7, <1>8 DEF CompleteInv
<1>10. \A n \in DOMAIN stack' :
          stack'[n].kind = "autofio" /\ "begin" \in stack'[n].fresh => ~fdEnabled
  BY <1>8 DEF CompleteInv
<1>11. ASSUME NEW m \in DOMAIN stack', NEW n \in DOMAIN stack', n < m,
              stack'[m].kind = "autofio", HasBegun(stack'[m])
       PROVE  "begin" \notin stack'[n].fresh
  <2>1. m \in DOMAIN stack /\ stack'[m] = stack[m]
    BY <1>8, <1>11
  <2>2. n \in DOMAIN stack /\ stack'[n] = stack[n]
    BY <1>3, <1>4, <1>5, <1>11, <2>1
  <2> QED BY <1>11, <2>1, <2>2 DEF CompleteInv
<1> QED BY <1>1, <1>6, <1>9, <1>10, <1>11 DEF CompleteInv

(* A batch begins with nothing behind it.                                  *)
LEMMA TallyBegun ==
    ASSUME StackInv, CompleteInv, ~busy, stack # <<>>, UNCHANGED winVars, NEW f, Begin(f), HasBegun(f),
           \/ f.kind = "fio2" /\ UNCHANGED <<fd, fdEnabled>>
           \/ f.kind = "autofio" /\ ~fdEnabled' /\ Tallied(f, fd', Selected, pathed)
    PROVE  CompleteInv'
<1>1. /\ Len(stack) \in Nat \ {0} /\ DOMAIN stack = 1 .. Len(stack)
      /\ stack \in Seq(GoodFrame)
  BY TopFrame DEF StackInv
<1> DEFINE X == IF f.kind = "autofio" THEN {"fan", "begin"} ELSE {"fan"}
<1>2. /\ f.kind = "autofio" => "begin" \in X
      /\ stack' = [n \in DOMAIN stack |->
                     IF n = Len(stack) THEN f ELSE [stack[n] EXCEPT !.fresh = @ \ X]]
  BY DEF Begin
<1> HIDE DEF X
<1>3. DOMAIN stack' = 1 .. Len(stack)
  BY <1>1, <1>2
<1>4. ASSUME NEW n \in 1 .. Len(stack), n # Len(stack)
      PROVE  /\ stack'[n].at = stack[n].at /\ stack'[n].duty = stack[n].duty
             /\ stack'[n].fresh = stack[n].fresh \ X /\ stack'[n].sl = stack[n].sl
             /\ stack'[n].kind = stack[n].kind /\ stack'[n].processed = stack[n].processed
             /\ stack'[n].loops = stack[n].loops /\ stack'[n].devCount = stack[n].devCount
  <2>1. stack[n] \in Frame
    BY <1>1, ElementOfSeq DEF GoodFrame
  <2>2. stack'[n] = [stack[n] EXCEPT !.fresh = @ \ X]
    BY <1>1, <1>2, <1>4
  <2> QED BY <2>1, <2>2 DEF Frame
<1>5. stack'[Len(stack)] = f /\ Len(stack) \in 1 .. Len(stack)
  BY <1>1, <1>2
<1>6. Selected' = Selected /\ pathed' = pathed /\ ~busy'
  BY SameWindow
<1>7. ASSUME NEW n \in 1 .. Len(stack), n # Len(stack)
      PROVE  Tallied(stack'[n], fd', Selected, pathed)
  <2>1. Tallied(stack[n], fd, Selected, pathed)
    BY <1>1 DEF CompleteInv
  <2>2. CASE f.kind = "autofio"
    BY <1>2, <1>4, <1>7, <2>1, <2>2 DEF Tallied, HasBegun
  <2>3. CASE f.kind = "fio2"
    BY <1>4, <1>7, <2>1, <2>3 DEF Tallied, HasBegun, Behind
  <2> QED BY <2>2, <2>3
<1>8. Tallied(f, fd', Selected, pathed)
  BY DEF Tallied
<1>9. ASSUME NEW n \in 1 .. Len(stack), stack'[n].kind = "autofio", "begin" \in stack'[n].fresh
      PROVE  ~fdEnabled'
  <2>1. CASE f.kind = "autofio"
    BY <2>1
  <2>2. CASE f.kind = "fio2"
    <3>1. n # Len(stack)
      BY <1>5, <1>9, <2>2
    <3>2. n \in DOMAIN stack
      BY <1>1
    <3>3. stack'[n].kind = stack[n].kind /\ stack'[n].fresh = stack[n].fresh \ X
      BY <1>4, <3>1
    <3>4. stack[n].kind = "autofio" /\ "begin" \in stack[n].fresh
      BY <1>9, <3>3
    <3>5. ~fdEnabled
      BY <3>2, <3>4 DEF CompleteInv
    <3>6. fdEnabled' = fdEnabled
      BY <2>2
    <3> QED BY <3>5, <3>6
  <2> QED BY <2>1, <2>2
<1>10. ASSUME NEW m \in 1 .. Len(stack), NEW n \in 1 .. Len(stack), n < m,
              stack'[m].kind = "autofio", HasBegun(stack'[m])
       PROVE  "begin" \notin stack'[n].fresh
  <2>1. n # Len(stack)
    <3>1. Len(stack) \in Nat /\ n < m
      BY <1>1, <1>10
    <3> QED BY <3>1
  <2>2. CASE f.kind = "autofio"
    BY <1>2, <1>4, <2>1, <2>2
  <2>3. CASE f.kind = "fio2"
    <3>1. m # Len(stack)
      BY <1>5, <1>10, <2>3
    <3>2. HasBegun(stack[m]) /\ stack[m].kind = "autofio"
      BY <1>4, <1>10, <3>1 DEF HasBegun
    <3>3. "begin" \notin stack[n].fresh
      BY <1>1, <1>10, <3>2 DEF CompleteInv
    <3> QED BY <1>4, <2>1, <3>3
  <2> QED BY <2>2, <2>3
<1> QED BY <1>3, <1>5, <1>6, <1>7, <1>8, <1>9, <1>10 DEF CompleteInv

LEMMA TallyTurned ==
    ASSUME StackInv, StackInv', CompleteInv, NEW k \in DOMAIN stack, FanTurns(k)
    PROVE  CompleteInv'
<1>1. /\ ~busy /\ stack[k].at = "fan2" /\ stack' = [stack EXCEPT ![k].at = "set"]
      /\ UNCHANGED <<winVars, fd, fdEnabled>>
  BY DEF FanTurns, Undisturbed
<1>2. stack \in Seq(GoodFrame) /\ DOMAIN stack = 1 .. Len(stack) /\ DOMAIN stack' = DOMAIN stack
  BY <1>1, LenProperties DEF StackInv
<1>3. stack[k] \in Frame /\ stack'[k] = [stack[k] EXCEPT !.at = "set"]
  BY <1>1, <1>2, ElementOfSeq DEF GoodFrame
<1>4. /\ stack'[k].at = "set" /\ stack'[k].fresh = stack[k].fresh
      /\ stack'[k].kind = stack[k].kind /\ stack'[k].loops = stack[k].loops
      /\ stack'[k].devCount = stack[k].devCount /\ stack'[k].duty = stack[k].duty
      /\ stack'[k].sl = stack[k].sl /\ stack'[k].processed = stack[k].processed
  BY <1>3 DEF Frame
<1>5. \A n \in DOMAIN stack : n # k => stack'[n] = stack[n]
  BY <1>1
<1>6. Selected' = Selected /\ pathed' = pathed /\ ~busy'
  BY <1>1, SameWindow
<1>7. Tallied(stack'[k], fd, Selected, pathed)
  <2>1. Tallied(stack[k], fd, Selected, pathed)
    BY DEF CompleteInv
  <2> QED BY <1>1, <1>4, <2>1, TallyGoes
<1>8. \A n \in DOMAIN stack : Follows(stack[n], stack'[n])
  BY <1>1, <1>4, <1>5 DEF Follows, HasBegun
<1>9. \A n \in DOMAIN stack :
         /\ Tallied(stack'[n], fd, Selected, pathed)
         /\ stack'[n].kind = "autofio" /\ "begin" \in stack'[n].fresh => ~fdEnabled
  BY <1>5, <1>7, <1>8 DEF CompleteInv, Follows
<1>10. \A m, n \in DOMAIN stack :
          n < m /\ stack'[m].kind = "autofio" /\ HasBegun(stack'[m]) => "begin" \notin stack'[n].fresh
  BY <1>8 DEF CompleteInv, Follows
<1> QED BY <1>1, <1>2, <1>6, <1>9, <1>10 DEF CompleteInv


(* The frames of the steps that count nothing.                             *)
Alike(g, f) ==
    /\ f.kind = g.kind /\ f.loops = g.loops /\ f.devCount = g.devCount /\ f.duty = g.duty
    /\ f.sl = g.sl /\ f.processed = g.processed
    /\ "begin" \in f.fresh => "begin" \in g.fresh

Advanced(f) == Tallied(f, fd, Selected, pathed) /\ Follows(top, f)

LEMMA AdvancedAlike ==
    ASSUME Tallied(top, fd, Selected, pathed), NEW f, Alike(top, f), HasBegun(f) => HasBegun(top),
           top.kind = "autofio" =>
              \/ top.at = "ask" /\ f.at = "begin"
              \/ top.at = "fan1" /\ f.at = "fan2"
              \/ top.at = "pause" /\ f.at = "write"
              \/ top.at = "written" /\ f.at = "test"
              \/ top.at = "duty" /\ f.at = "fan1" /\ f.duty \in On(fd)
              \/ top.at = "duty" /\ f.at = "over" /\ f.duty = FD + 1
              \/ top.at = "expander" /\ f.at = "slot" /\ Expander(f.sl) \in pathed
              \/ top.at = "slot" /\ f.at \in {"pause", "write"} /\ f.sl \in Selected
    PROVE  Advanced(f)
<1>1. Tallied(f, fd, Selected, pathed)
  BY TallyGoes DEF Alike
<1> QED BY <1>1 DEF Alike, Advanced, Follows

LEMMA AdvancedFio2 ==
    ASSUME NEW f, f.kind # "autofio", f.kind = top.kind, HasBegun(top), f.fresh = top.fresh
    PROVE  Advanced(f)
BY DEF Advanced, Follows, Tallied

(* The frames of those that count.                                         *)
LEMMA AdvancedCounts ==
    ASSUME top \in GoodFrame, Tallied(top, fd, Selected, pathed), HasBegun(top), NEW f,
           f.kind = top.kind, f.loops = top.loops, f.devCount = top.devCount,
           "begin" \in f.fresh => "begin" \in top.fresh, HasBegun(f),
           f.processed = top.processed + (IF f.at = "written" THEN 1 ELSE 0),
           \/ top.at = "set" /\ f.at = "expander" /\ f.sl = 0 /\ f.duty = top.duty
           \/ top.at = "duty" /\ f.at = "duty" /\ f.duty = top.duty + 1 /\ top.duty \notin On(fd)
           \/ top.at = "expander" /\ f.at = "duty" /\ f.duty = top.duty + 1 /\ top.sl = NSLOT
           \/ /\ top.at = "expander" /\ f.at = "expander" /\ f.duty = top.duty
              /\ f.sl = top.sl + NSLOT_PEREXP /\ Expander(top.sl) \notin pathed
           \/ /\ (top.at = "slot" /\ top.sl \notin Selected) \/ top.at = "test"
              /\ f.at \in {"expander", "slot"} /\ f.sl = top.sl + 1 /\ f.duty = top.duty
              /\ f.at = "slot" => (top.sl + 1) % NSLOT_PEREXP # 0
           \/ top.at = "write" /\ f.at = "written" /\ f.sl = top.sl /\ f.duty = top.duty
    PROVE  Advanced(f)
<1>1. IsFiniteSet(Selected) /\ Selected \subseteq Slots
  BY SelectedCounted
<1> HIDE DEF top, Selected
<1>2. Tallied(f, fd, Selected, pathed)
  BY <1>1, TallyCounts
<1> QED BY <1>2 DEF Advanced, Follows

LEMMA PastSlotFields ==
    ASSUME NEW g \in Frame, NEW f, f = PastSlot(g)
    PROVE  /\ f.kind = g.kind /\ f.loops = g.loops /\ f.devCount = g.devCount
           /\ f.processed = g.processed /\ f.duty = g.duty /\ f.sl = g.sl + 1
           /\ "begin" \in f.fresh => "begin" \in g.fresh
           /\ f.at \in {"expander", "slot"}
           /\ f.at = "slot" => (g.sl + 1) % NSLOT_PEREXP # 0
<1>1. CASE (g.sl + 1) % NSLOT_PEREXP = 0
  <2>1. f = [g EXCEPT !.sl = @ + 1, !.at = "expander", !.fresh = @ \ {"slot", "expander"}]
    BY <1>1 DEF PastSlot
  <2> QED BY <2>1 DEF Frame
<1>2. CASE (g.sl + 1) % NSLOT_PEREXP # 0
  <2>1. f = [g EXCEPT !.sl = @ + 1, !.at = "slot", !.fresh = @ \ {"slot"}]
    BY <1>2 DEF PastSlot
  <2> QED BY <1>2, <2>1 DEF Frame
<1> QED BY <1>1, <1>2

LEMMA TallyRunning ==
    ASSUME BatchInv, CompleteInv,
           \/ Answer \/ Fails \/ Commanded \/ FanSet \/ Tested \/ RunTest \/ EndBatch \/ pauseBar
           \/ NextDuty \/ NextExpander \/ NextSlot \/ NextRound \/ WriteScript
    PROVE  stack # <<>> /\ ~busy /\ UNCHANGED winVars /\ TallyKept
<1>1. stack # <<>> /\ ~busy
  BY DEF Answer, Fails, Commanded, FanSet, Tested, RunTest, EndBatch, pauseBar,
         NextDuty, NextExpander, NextSlot, NextRound, WriteScript, Running
<1>2. UNCHANGED <<winVars, fd>>
  BY DEF Answer, Fails, Commanded, FanSet, Tested, RunTest, EndBatch, pauseBar,
         NextDuty, NextExpander, NextSlot, NextRound, WriteScript, Undisturbed
<1> SUFFICES TallyKept
  BY <1>1, <1>2
<1>3. top \in GoodFrame /\ top \in Frame /\ Tallied(top, fd, Selected, pathed)
  <2>1. stack \in Seq(GoodFrame)
    BY DEF BatchInv, StackInv
  <2>2. top = stack[Len(stack)] /\ top \in GoodFrame /\ Len(stack) \in DOMAIN stack
    BY <1>1, <2>1, TopFrame
  <2> QED BY <2>2 DEF GoodFrame, CompleteInv
<1>4. ASSUME NEW f, Advanced(f), SetTop(f), fdEnabled' = fdEnabled PROVE TallyKept
  BY <1>2, <1>4 DEF Advanced, TallyKept
<1>5. ASSUME Leave, HasBegun(top) PROVE TallyKept
  BY <1>2, <1>5, Zenon DEF Leave, TallyKept
<1>6. ASSUME NEW f, Advanced(f), HasBegun(top), StartProgram(f) PROVE TallyKept
  BY <1>4, <1>5, <1>6 DEF StartProgram, Throw
<1>7. CASE Answer
  <2>1. CASE stack' = Front(stack)
    BY <1>2, <1>7, <2>1 DEF Answer, TallyKept
  <2>2. CASE top.at = "ask" /\ SetTop([top EXCEPT !.at = "begin"])
    <3>1. PICK f : f = [top EXCEPT !.at = "begin"]
      BY Zenon
    <3>2. Alike(top, f) /\ f.at = "begin"
      BY <1>3, <3>1 DEF Alike, Frame
    <3>3. Advanced(f)
      BY <1>3, <2>2, <3>2, AdvancedAlike DEF HasBegun
    <3> QED BY <1>4, <1>7, <2>2, <3>1, <3>3 DEF Answer
  <2> QED BY <1>7, <2>1, <2>2 DEF Answer, Running
<1>8. CASE Fails \/ EndBatch
  <2>1. Leave /\ top.at \in Programs \cup {"over"}
    BY <1>8 DEF Fails, EndBatch, Throw, Running
  <2> QED BY <1>5, <2>1 DEF Programs, HasBegun
<1>9. ASSUME NEW from, NEW to, top.at = from,
             \/ from = "fan1" /\ to = "fan2"
             \/ from = "pause" /\ to = "write"
             \/ from = "written" /\ to = "test"
      PROVE  HasBegun(top) /\ Advanced([top EXCEPT !.at = to])
  <2>1. PICK f : f = [top EXCEPT !.at = to]
    BY Zenon
  <2>2. Alike(top, f) /\ f.at = to
    BY <1>3, <2>1 DEF Alike, Frame
  <2>3. HasBegun(top)
    BY <1>9 DEF HasBegun
  <2>4. Advanced(f)
    BY <1>3, <1>9, <2>2, <2>3, AdvancedAlike
  <2> QED BY <2>1, <2>3, <2>4
<1>10. CASE Commanded
  <2>1. top.at = "fan1" /\ StartProgram([top EXCEPT !.at = "fan2"])
    BY <1>10 DEF Commanded, Running
  <2> QED BY <1>6, <1>9, <2>1
<1>11. CASE RunTest
  <2>1. top.at = "written" /\ StartProgram([top EXCEPT !.at = "test"])
    BY <1>11 DEF RunTest, Running
  <2> QED BY <1>6, <1>9, <2>1
<1>12. CASE pauseBar
  <2>1. top.at = "pause" /\ SetTop([top EXCEPT !.at = "write"]) /\ fdEnabled' = fdEnabled
    BY <1>12 DEF pauseBar, Running
  <2> QED BY <1>4, <1>9, <2>1
<1>13. CASE FanSet
  <2>1. top.at = "set" /\ fdEnabled' = fdEnabled /\ HasBegun(top)
    BY <1>13 DEF FanSet, Running, HasBegun
  <2>2. CASE SetTop([top EXCEPT !.at = "expander", !.sl = 0])
    <3>1. PICK f : f = [top EXCEPT !.at = "expander", !.sl = 0]
      OBVIOUS
    <3>2. /\ f.kind = top.kind /\ f.loops = top.loops /\ f.devCount = top.devCount
          /\ f.fresh = top.fresh /\ f.at = "expander" /\ f.sl = 0 /\ f.duty = top.duty
          /\ f.processed = top.processed /\ top.processed \in Nat
      BY <1>3, <3>1 DEF Frame
    <3>3. Advanced(f)
      BY <1>3, <2>1, <3>2, AdvancedCounts DEF HasBegun
    <3> QED BY <1>4, <2>1, <2>2, <3>1, <3>3
  <2>3. CASE top.kind = "fio2" /\ ~SetTop([top EXCEPT !.at = "expander", !.sl = 0])
    <3>1. PICK n \in {1, RW_ALL} : SetTop([top EXCEPT !.at = "round", !.loops = n])
      BY <1>13, <2>3 DEF FanSet
    <3>2. PICK f : f = [top EXCEPT !.at = "round", !.loops = n]
      OBVIOUS
    <3>3. f.kind = top.kind /\ f.fresh = top.fresh
      BY <1>3, <3>2 DEF Frame
    <3>4. Advanced(f)
      BY <2>1, <2>3, <3>3, AdvancedFio2
    <3> QED BY <1>4, <2>1, <3>1, <3>2, <3>4
  <2> QED BY <1>13, <2>2, <2>3 DEF FanSet
<1>14. CASE NextDuty
  <2>1. top.at = "duty" /\ top.kind = "autofio" /\ HasBegun(top) /\ top.duty \in 1 .. FD + 1
    BY <1>3, <1>14 DEF NextDuty, Running, HasBegun, Frame
  <2>2. ASSUME top.duty > FD, SetTop([top EXCEPT !.at = "over"]), fdEnabled' = fdEnabled
        PROVE  TallyKept
    <3>1. PICK f : f = [top EXCEPT !.at = "over"]
      OBVIOUS
    <3>2. Alike(top, f) /\ f.at = "over"
      BY <1>3, <3>1 DEF Alike, Frame
    <3>3. f.duty = FD + 1
      BY <2>1, <2>2, <3>2, BatchAssumption DEF Alike
    <3>4. Advanced(f)
      BY <1>3, <2>1, <3>2, <3>3, AdvancedAlike
    <3> QED BY <1>4, <2>2, <3>1, <3>4
  <2>3. ASSUME ~fd[top.duty], SetTop([top EXCEPT !.duty = @ + 1]), fdEnabled' = fdEnabled
        PROVE  TallyKept
    <3>1. PICK f : f = [top EXCEPT !.duty = @ + 1]
      OBVIOUS
    <3>2. /\ f.kind = top.kind /\ f.loops = top.loops /\ f.devCount = top.devCount
          /\ f.fresh = top.fresh /\ f.at = top.at /\ f.duty = top.duty + 1
          /\ f.processed = top.processed /\ top.processed \in Nat
      BY <1>3, <3>1 DEF Frame
    <3>3. top.duty \notin On(fd)
      BY <2>3 DEF On
    <3>4. Advanced(f)
      BY <1>3, <2>1, <3>2, <3>3, AdvancedCounts DEF HasBegun
    <3> QED BY <1>4, <2>3, <3>1, <3>4
  <2>4. ASSUME top.duty <= FD, fd[top.duty],
               StartProgram([top EXCEPT !.at = "fan1", !.fresh = @ \cup {"fan"}])
        PROVE  TallyKept
    <3>1. PICK f : f = [top EXCEPT !.at = "fan1", !.fresh = @ \cup {"fan"}]
      OBVIOUS
    <3>2. Alike(top, f) /\ f.at = "fan1"
      BY <1>3, <3>1 DEF Alike, Frame
    <3>3. f.duty \in On(fd)
      BY <2>1, <2>4, <3>2, BatchAssumption DEF Alike, On, Duties
    <3>4. Advanced(f)
      BY <1>3, <2>1, <3>2, <3>3, AdvancedAlike
    <3> QED BY <1>6, <2>1, <2>4, <3>1, <3>4
  <2> QED BY <1>14, <2>2, <2>3, <2>4 DEF NextDuty
<1>15. CASE NextExpander
  <2>1. top.at = "expander" /\ HasBegun(top) /\ fdEnabled' = fdEnabled
    BY <1>15 DEF NextExpander, Running, HasBegun
  <2>2. ASSUME top.sl = NSLOT, SetTop([top EXCEPT !.at = "duty", !.duty = @ + 1])
        PROVE  TallyKept
    <3>1. PICK f : f = [top EXCEPT !.at = "duty", !.duty = @ + 1]
      OBVIOUS
    <3>2. /\ f.kind = top.kind /\ f.loops = top.loops /\ f.devCount = top.devCount
          /\ f.fresh = top.fresh /\ f.at = "duty" /\ f.duty = top.duty + 1
          /\ f.processed = top.processed /\ top.processed \in Nat
      BY <1>3, <3>1 DEF Frame
    <3>3. Advanced(f)
      BY <1>3, <2>1, <2>2, <3>2, AdvancedCounts DEF HasBegun
    <3> QED BY <1>4, <2>1, <2>2, <3>1, <3>3
  <2>3. ASSUME Expander(top.sl) \notin pathed, SetTop([top EXCEPT !.sl = @ + NSLOT_PEREXP])
        PROVE  TallyKept
    <3>1. PICK f : f = [top EXCEPT !.sl = @ + NSLOT_PEREXP]
      OBVIOUS
    <3>2. /\ f.kind = top.kind /\ f.loops = top.loops /\ f.devCount = top.devCount
          /\ f.fresh = top.fresh /\ f.at = top.at /\ f.duty = top.duty
          /\ f.sl = top.sl + NSLOT_PEREXP
          /\ f.processed = top.processed /\ top.processed \in Nat
      BY <1>3, <3>1 DEF Frame
    <3>3. Advanced(f)
      BY <1>3, <2>1, <2>3, <3>2, AdvancedCounts DEF HasBegun
    <3> QED BY <1>4, <2>1, <2>3, <3>1, <3>3
  <2>4. ASSUME Expander(top.sl) \in pathed,
               SetTop([top EXCEPT !.at = "slot", !.fresh = @ \cup {"expander"}])
        PROVE  TallyKept
    <3>1. PICK f : f = [top EXCEPT !.at = "slot", !.fresh = @ \cup {"expander"}]
      OBVIOUS
    <3>2. Alike(top, f) /\ f.at = "slot"
      BY <1>3, <3>1 DEF Alike, Frame
    <3>3. Expander(f.sl) \in pathed
      BY <2>4, <3>2 DEF Alike
    <3>4. Advanced(f)
      BY <1>3, <2>1, <3>2, <3>3, AdvancedAlike
    <3> QED BY <1>4, <2>1, <2>4, <3>1, <3>4
  <2> QED BY <1>15, <2>2, <2>3, <2>4 DEF NextExpander
<1>16. CASE NextSlot
  <2>1. top.at = "slot" /\ HasBegun(top) /\ fdEnabled' = fdEnabled
    BY <1>16 DEF NextSlot, Running, HasBegun
  <2>2. ASSUME top.sl \notin Selected, SetTop(PastSlot(top)) PROVE TallyKept
    <3>1. PICK f : f = PastSlot(top)
      OBVIOUS
    <3>2. top.processed \in Nat
      BY <1>3 DEF Frame
    <3>3. Advanced(f)
      BY <1>3, <2>1, <2>2, <3>1, <3>2, PastSlotFields, AdvancedCounts DEF HasBegun
    <3> QED BY <1>4, <2>1, <2>2, <3>1, <3>3
  <2>3. ASSUME top.sl \in Selected, PauseOrWrite([top EXCEPT !.fresh = @ \cup {"slot"}])
        PROVE  TallyKept
    <3>1. PICK at \in {"pause", "write"} :
             SetTop([[top EXCEPT !.fresh = @ \cup {"slot"}] EXCEPT !.at = at, !.tested = TRUE])
      BY <2>3 DEF PauseOrWrite
    <3>2. PICK h : h = [top EXCEPT !.fresh = @ \cup {"slot"}]
      OBVIOUS
    <3>3. PICK f : f = [h EXCEPT !.at = at, !.tested = TRUE]
      OBVIOUS
    <3>4. Alike(top, h) /\ DOMAIN h = DOMAIN top
      BY <1>3, <3>2 DEF Alike, Frame
    <3>5. Alike(top, f) /\ f.at = at
      BY <1>3, <3>3, <3>4 DEF Alike, Frame
    <3>6. f.sl \in Selected
      BY <2>3, <3>5 DEF Alike
    <3>7. Advanced(f)
      BY <1>3, <2>1, <3>5, <3>6, AdvancedAlike
    <3> QED BY <1>4, <2>1, <3>1, <3>2, <3>3, <3>7
  <2> QED BY <1>16, <2>2, <2>3 DEF NextSlot
<1>17. CASE NextRound
  <2>1. top.kind = "fio2" /\ HasBegun(top) /\ fdEnabled' = fdEnabled
    BY <1>17 DEF NextRound, Running, HasBegun
  <2>2. CASE SetTop([top EXCEPT !.at = "over"])
    <3>1. PICK f : f = [top EXCEPT !.at = "over"]
      OBVIOUS
    <3>2. f.kind = top.kind /\ f.fresh = top.fresh
      BY <1>3, <3>1 DEF Frame
    <3> QED BY <1>4, <2>1, <2>2, <3>1, <3>2, AdvancedFio2
  <2>3. CASE PauseOrWrite(top)
    <3>1. PICK at \in {"pause", "write"} : SetTop([top EXCEPT !.at = at, !.tested = TRUE])
      BY <2>3 DEF PauseOrWrite
    <3>2. PICK f : f = [top EXCEPT !.at = at, !.tested = TRUE]
      OBVIOUS
    <3>3. f.kind = top.kind /\ f.fresh = top.fresh
      BY <1>3, <3>2 DEF Frame
    <3> QED BY <1>4, <2>1, <3>1, <3>2, <3>3, AdvancedFio2
  <2> QED BY <1>17, <2>2, <2>3 DEF NextRound
<1>18. CASE Tested
  <2>1. /\ top.at = "test" /\ HasBegun(top) /\ fdEnabled' = fdEnabled
        /\ top.kind \in {"autofio", "fio2"}
    BY <1>18 DEF Tested, Running, HasBegun, Batches
  <2>2. PICK h : h = [top EXCEPT !.script = NoScript, !.time = 0]
    OBVIOUS
  <2>3. /\ h \in Frame /\ h.kind = top.kind /\ h.sl = top.sl /\ h.fresh = top.fresh
        /\ h.duty = top.duty /\ h.processed = top.processed /\ h.loops = top.loops
        /\ h.devCount = top.devCount /\ top.processed \in Nat
    <3>1. NoScript \in Script /\ 0 \in 0 .. MaxErrors
      BY BatchAssumption DEF NoScript, Script
    <3> QED BY <1>3, <2>2, <3>1 DEF Frame
  <2>4. SetTop(IF h.kind = "autofio" THEN PastSlot(h) ELSE [h EXCEPT !.at = "round"])
    BY <1>18, <2>2 DEF Tested
  <2>5. CASE top.kind = "autofio"
    <3>1. PICK f : f = PastSlot(h)
      OBVIOUS
    <3>2. /\ f.kind = h.kind /\ f.loops = h.loops /\ f.devCount = h.devCount
          /\ f.processed = h.processed /\ f.duty = h.duty /\ f.sl = h.sl + 1
          /\ "begin" \in f.fresh => "begin" \in h.fresh
          /\ f.at \in {"expander", "slot"}
          /\ f.at = "slot" => (h.sl + 1) % NSLOT_PEREXP # 0
      BY <2>3, <3>1, PastSlotFields
    <3>3. Advanced(f)
      BY <1>3, <2>1, <2>3, <3>2, AdvancedCounts DEF HasBegun
    <3>4. SetTop(f)
      BY <2>3, <2>4, <2>5, <3>1
    <3> QED BY <1>4, <2>1, <3>3, <3>4
  <2>6. CASE top.kind = "fio2"
    <3>1. PICK f : f = [h EXCEPT !.at = "round"]
      OBVIOUS
    <3>2. f.kind = top.kind /\ f.fresh = top.fresh
      BY <2>3, <3>1 DEF Frame
    <3>3. Advanced(f)
      BY <2>1, <2>6, <3>2, AdvancedFio2
    <3>4. SetTop(f)
      BY <2>3, <2>4, <2>6, <3>1
    <3> QED BY <1>4, <2>1, <3>3, <3>4
  <2> QED BY <2>1, <2>5, <2>6
<1>19. CASE WriteScript
  <2>1. top.at = "write" /\ HasBegun(top)
    BY <1>19 DEF WriteScript, Running, HasBegun
  <2>2. CASE Throw
    BY <1>5, <2>1, <2>2 DEF Throw
  <2>3. CASE ~Throw
    <3> DEFINE time == IF top.kind = "autofio"
                       THEN CHOOSE t \in 1 .. MaxErrors : t \notin scripts ELSE 0
    <3>1. /\ SetTop([top EXCEPT !.at = "written", !.processed = @ + 1, !.time = time,
                                !.script = Listing(top)])
          /\ fdEnabled' = fdEnabled
      BY <1>19, <2>3, Zenon DEF WriteScript
    <3> HIDE DEF time
    <3>2. PICK s : s = Listing(top)
      OBVIOUS
    <3>3. PICK f : f = [top EXCEPT !.at = "written", !.processed = @ + 1, !.time = time, !.script = s]
      OBVIOUS
    <3>4. /\ f.kind = top.kind /\ f.loops = top.loops /\ f.devCount = top.devCount
          /\ f.fresh = top.fresh /\ f.at = "written" /\ f.duty = top.duty /\ f.sl = top.sl
          /\ f.processed = top.processed + 1
      BY <1>3, <3>3 DEF Frame
    <3>5. Advanced(f)
      BY <1>3, <2>1, <3>4, AdvancedCounts DEF HasBegun
    <3>6. SetTop(f)
      BY <3>1, <3>2, <3>3
    <3> QED BY <1>4, <3>1, <3>5, <3>6
  <2> QED BY <2>2, <2>3
<1> QED BY <1>7, <1>8, <1>10, <1>11, <1>12, <1>13, <1>14, <1>15, <1>16, <1>17, <1>18, <1>19

LEMMA TallyOpens ==
    ASSUME BatchInv, CompleteInv, BeginAutofio \/ BeginFio2
    PROVE  /\ stack # <<>> /\ ~busy /\ UNCHANGED winVars
           /\ \/ TallyKept
              \/ \E f : /\ Begin(f) /\ HasBegun(f)
                        /\ \/ f.kind = "fio2" /\ UNCHANGED <<fd, fdEnabled>>
                           \/ f.kind = "autofio" /\ ~fdEnabled' /\ Tallied(f, fd', Selected, pathed)
<1> DEFINE Opened(f) == /\ Begin(f) /\ HasBegun(f)
                        /\ \/ f.kind = "fio2" /\ UNCHANGED <<fd, fdEnabled>>
                           \/ f.kind = "autofio" /\ ~fdEnabled' /\ Tallied(f, fd', Selected, pathed)
<1>1. stack # <<>> /\ ~busy /\ UNCHANGED winVars /\ top.at = "begin"
  BY DEF BeginAutofio, BeginFio2, Running, Undisturbed
<1> SUFFICES TallyKept \/ \E f : Opened(f)
  BY <1>1
<1> HIDE DEF Opened
<1>2. top \in Frame /\ Tallied(top, fd, Selected, pathed)
  <2>1. stack \in Seq(GoodFrame)
    BY DEF BatchInv, StackInv
  <2>2. top = stack[Len(stack)] /\ top \in GoodFrame /\ Len(stack) \in DOMAIN stack
    BY <1>1, <2>1, TopFrame
  <2> QED BY <2>2 DEF GoodFrame, CompleteInv
<1>3. CASE BeginAutofio /\ Selected = {}
  <2>1. stack' = Front(stack)
    BY <1>3 DEF BeginAutofio, Throw, Leave
  <2> QED BY <1>3, <2>1 DEF TallyKept
<1>4. CASE BeginAutofio /\ Selected # {}
  <2>1. PICK n : n = Cardinality(Selected)
    BY Zenon
  <2>2. PICK m : m = Cardinality(On(fd'))
    BY Zenon
  <2>3. PICK f : f = [top EXCEPT !.at = "duty", !.fresh = {"begin"}, !.devCount = n, !.loops = m]
    BY Zenon
  <2>4. top.kind = "autofio" /\ ~fdEnabled' /\ Begin(f)
    BY <1>4, <2>1, <2>2, <2>3 DEF BeginAutofio, Running, Disabled, On
  <2>5. /\ f.kind = "autofio" /\ f.at = "duty" /\ f.devCount = n /\ f.loops = m
        /\ f.duty = top.duty /\ f.processed = top.processed
    BY <1>2, <2>3, <2>4 DEF Frame
  <2>6. top.duty = 1 /\ top.processed = 0
    BY <1>1, <1>2, <2>4 DEF Tallied, HasBegun
  <2>7. Behind(f, fd', ReachedBy(Selected, pathed)) = 0
    <3> DEFINE S == ReachedBy(Selected, pathed)
    <3>1. Cardinality(Before(On(fd'), f.duty)) = 0
      BY <2>5, <2>6, DutiesCounted
    <3>2. Cardinality(S) \in Nat
      BY SelectedCounted, ReachedCounted
    <3> HIDE DEF S
    <3>3. Behind(f, fd', S) = 0 * Cardinality(S) + 0 + 0
      BY <2>5, <3>1 DEF Behind, Testing
    <3>4. Behind(f, fd', S) = 0
      BY <3>2, <3>3
    <3> QED BY <3>4 DEF S
  <2>8. HasBegun(f)
    BY <2>5 DEF HasBegun
  <2>9. Tallied(f, fd', Selected, pathed)
    BY <1>4, <2>1, <2>2, <2>5, <2>6, <2>7, <2>8 DEF Tallied, InDuty, Testing
  <2> QED BY <2>4, <2>5, <2>8, <2>9 DEF Opened
<1>5. CASE BeginFio2
  <2>1. top.kind = "fio2" /\ fd' = fd
    BY <1>5 DEF BeginFio2, Running
  <2>2. CASE Throw
    BY <2>1, <2>2 DEF Throw, Leave, TallyKept
  <2>3. CASE ~Throw
    <3>1. PICK n : n = Cardinality(Selected)
      BY Zenon
    <3>2. PICK f : f = [top EXCEPT !.at = "fan1", !.fresh = {"fan"}, !.duty = FD, !.devCount = n]
      BY Zenon
    <3>3. Begin(f) /\ fdEnabled' = fdEnabled
      BY <1>5, <2>3, <3>1, <3>2 DEF BeginFio2
    <3>4. f.kind = "fio2" /\ f.at = "fan1"
      BY <1>2, <2>1, <3>2 DEF Frame
    <3> QED BY <2>1, <3>3, <3>4 DEF Opened, HasBegun
  <2> QED BY <2>2, <2>3
<1> QED BY <1>3, <1>4, <1>5

LEMMA CompleteStep ==
    BatchInv /\ CompleteInv /\ [Next]_vars => CompleteInv'
<1> SUFFICES ASSUME BatchInv, CompleteInv, [Next]_vars PROVE CompleteInv'
  OBVIOUS
<1>1. StackInv /\ StackInv'
  BY BatchStep DEF BatchInv
<1>2. ASSUME UNCHANGED <<winVars, stack, fd, fdEnabled>> PROVE CompleteInv'
  <2>1. Selected' = Selected /\ pathed' = pathed /\ busy' = busy
    BY <1>2, SameWindow
  <2> QED BY <1>2, <2>1 DEF CompleteInv
<1>3. CASE UNCHANGED vars \/ closeEvent
  BY <1>2, <1>3 DEF vars, batchVars, closeEvent
<1>4. ASSUME ComesBetween PROVE CompleteInv'
  BY <1>1, <1>4, TallyDisturbed
<1>5. CASE showModified \/ btnRefreshClicked \/ btnSelectAllClicked
  BY <1>4, <1>5 DEF showModified, btnRefreshClicked, btnSelectAllClicked, Disturb
<1>6. ASSUME NEW sl \in Slots, ClickSlot(sl) PROVE CompleteInv'
  BY <1>4, <1>6 DEF ClickSlot, Disturb
<1>7. ASSUME stack' = stack,
             \A n \in DOMAIN stack : stack[n].kind = "autofio" => "begin" \notin stack[n].fresh
      PROVE  CompleteInv'
  <2>1. \A n \in DOMAIN stack : Tallied(stack[n], fd', Selected', pathed')
    BY <1>7 DEF CompleteInv, Tallied
  <2> QED BY <1>7, <2>1 DEF CompleteInv
<1>8. CASE filloutCanvas
  <2>1. busy /\ stack' = stack
    BY <1>8 DEF filloutCanvas, EndRefresh, Hide, Show, Reach, batchVars
  <2> QED BY <1>7, <2>1 DEF CompleteInv
<1>9. ASSUME NEW l \in Duties, ClickDuty(l) PROVE CompleteInv'
  <2>1. fdEnabled /\ stack' = stack
    BY <1>9 DEF ClickDuty
  <2> QED BY <1>7, <2>1 DEF CompleteInv
<1>10. CASE btnListSdxClicked \/ btnFio2GoClicked
  <2> DEFINE New(f) == /\ ~HasBegun(f) /\ "begin" \notin f.fresh
                       /\ f.kind = "autofio" => f.duty = 1 /\ f.processed = 0
  <2>1. \A list : New([NewFrame("list", "told") EXCEPT !.script = list])
    BY DEF NewFrame, HasBegun
  <2>2. New(NewFrame("autofio", "ask")) /\ New(NewFrame("fio2", "begin"))
    BY DEF NewFrame, HasBegun
  <2> HIDE DEF New
  <2>3. PICK f : Push(f) /\ New(f)
    BY <1>10, <2>1, <2>2 DEF btnListSdxClicked, btnFio2GoClicked
  <2> QED BY <1>1, <2>3, TallyPushed DEF New
<1>11. ASSUME stack # <<>>, ~busy, UNCHANGED winVars, TallyKept PROVE CompleteInv'
  BY <1>1, <1>11, TallyAdvanced
<1>12. CASE BeginAutofio \/ BeginFio2
  BY <1>1, <1>11, <1>12, TallyOpens, TallyBegun
<1>13. ASSUME NEW n \in DOMAIN stack, FanTurns(n) PROVE CompleteInv'
  BY <1>1, <1>13, TallyTurned
<1>14. CASE \/ Answer \/ Fails \/ Commanded \/ FanSet \/ Tested \/ RunTest \/ EndBatch \/ pauseBar
            \/ NextDuty \/ NextExpander \/ NextSlot \/ NextRound \/ WriteScript
  BY <1>11, <1>14, TallyRunning
<1> QED BY <1>3, <1>5, <1>6, <1>8, <1>9, <1>10, <1>12, <1>13, <1>14 DEF Next

(* A batch that nobody came between is completed when it made one test per *)
(* fan duty and selected drive within reach, which is no more than it had  *)
(* announced, however many batches it was on top of (autofio_wls).         *)
THEOREM CompleteSafe == Spec => []Complete
<1>1. Init => BatchInv /\ CompleteInv
  BY BatchStart, CompleteStart
<1>2. BatchInv /\ CompleteInv /\ [Next]_vars => (BatchInv /\ CompleteInv)'
  BY BatchStep, CompleteStep
<1>3. BatchInv /\ CompleteInv => Complete
  <2> SUFFICES ASSUME CompleteInv, NEW n \in DOMAIN stack, stack[n].kind = "autofio",
                      stack[n].at = "over", "begin" \in stack[n].fresh
               PROVE  /\ stack[n].processed = stack[n].loops * Cardinality(Testable)
                      /\ stack[n].processed <= stack[n].loops * stack[n].devCount
    BY DEF Complete, Frames
  <2>1. PICK f : f = stack[n]
    BY Zenon
  <2>2. PICK S : S = ReachedBy(Selected, pathed)
    BY Zenon
  <2>3. /\ f.loops = Cardinality(On(fd)) /\ f.devCount = Cardinality(Selected)
        /\ f.duty = FD + 1 /\ f.processed = Behind(f, fd, S)
    BY <2>1, <2>2 DEF CompleteInv, Tallied
  <2>4. /\ Cardinality(S) \in Nat /\ Cardinality(Selected) \in Nat
        /\ Cardinality(S) <= Cardinality(Selected) /\ Testable = S
    BY <2>2, SelectedCounted, ReachedCounted
  <2>5. Before(On(fd), f.duty) = On(fd) /\ Cardinality(On(fd)) \in Nat
    BY <2>3, DutiesCounted
  <2>6. Behind(f, fd, S) = f.loops * Cardinality(S) + 0 + 0
    BY <2>1, <2>3, <2>5 DEF Behind, Testing
  <2>7. f.processed = f.loops * Cardinality(S)
    BY <2>3, <2>4, <2>5, <2>6, OneMore
  <2>8. f.loops * Cardinality(S) <= f.loops * f.devCount
    BY <2>3, <2>4, <2>5, OneMore
  <2> QED BY <2>1, <2>4, <2>7, <2>8
<1> QED BY <1>1, <1>2, <1>3, PTL DEF Spec

===============================================================================
