--------------------------- MODULE SmpFramesProofs ---------------------------
(***************************************************************************)
(* What the callers of the transports can rely on, for every response an   *)
(* expander, a driver or the firmware may come back with.                  *)
(***************************************************************************)
EXTENDS SmpFrames, TLAPS

(* A frame's header is made of bytes.                                      *)
LEMMA HeaderBytes ==
    ASSUME NEW f \in Frame
    PROVE  f.fn \in Byte /\ f.res \in Byte /\ f.words \in Byte /\ f.type \in Byte
BY DEF Frame, Header

(* A deduced length covers the header and what one byte of words can say.  *)
LEMMA DeducedRange ==
    ASSUME NEW f \in Frame
    PROVE  Deduced(f) \in 4 .. 4 + 4 * 255
<1>1. f.words \in 0 .. 255 /\ f.fn \in 0 .. 255 BY HeaderBytes DEF Byte
<1>2. smp_get_func_def_resp_len(f.fn) \in 0 .. 14
  BY <1>1 DEF smp_get_func_def_resp_len
<1> QED BY <1>1, <1>2 DEF Deduced

(* The length the checks return is never more than what arrived when that  *)
(* is known, and never less than the header, so the fields guarded by it   *)
(* were transferred: the length checks of get_num_phys and do_discover.    *)
THEOREM LengthCovered ==
    ASSUME NEW fn \in Byte, NEW r \in Reply, Checked(fn, r) >= 0
    PROVE  /\ Checked(fn, r) \in 4 .. 4 + 4 * 255
           /\ r.act >= 0 => Checked(fn, r) <= r.act
           /\ r.res = 0 /\ r.err = 0
           /\ r.buf.type = RESP /\ r.buf.fn = fn /\ r.buf.res = 0
<1>1. r.buf \in Frame /\ r.act \in Int BY DEF Reply
<1>2. r.buf.res \in 0 .. 255 BY <1>1, HeaderBytes DEF Byte
<1>3. /\ ~(r.res # 0 \/ r.err # 0) /\ r.act \notin 0 .. 3
      /\ r.buf.type = RESP /\ r.buf.fn = fn /\ r.buf.res = 0
      /\ Checked(fn, r) = ResponseLength(r)
  BY <1>2 DEF Checked, Malformed
<1>4. Deduced(r.buf) \in 4 .. 4 + 4 * 255 BY <1>1, DeducedRange
<1>5. ResponseLength(r) \in 4 .. 4 + 4 * 255
      /\ (r.act >= 0 => ResponseLength(r) <= r.act)
  <2>1. r.act \in Int /\ ~(0 <= r.act /\ r.act <= 3) BY <1>1, <1>3
  <2>2. CASE r.act >= 0 /\ Deduced(r.buf) > r.act
    <3>1. ResponseLength(r) = r.act BY <2>2 DEF ResponseLength
    <3>2. Deduced(r.buf) <= 4 + 4 * 255 BY <1>4
    <3>3. r.act >= 4 /\ r.act <= 4 + 4 * 255 BY <1>4, <2>1, <2>2, <3>2
    <3>4. r.act \in 4 .. 4 + 4 * 255 BY <2>1, <3>3
    <3> QED BY <2>1, <3>1, <3>4
  <2>3. CASE ~(r.act >= 0 /\ Deduced(r.buf) > r.act)
    <3>1. ResponseLength(r) = Deduced(r.buf) BY <2>3 DEF ResponseLength
    <3> QED BY <1>4, <2>1, <2>3, <3>1
  <2> QED BY <2>2, <2>3
<1> QED BY <1>3, <1>5

(* do_multiple and do_multiple_slot see exactly the function result of a   *)
(* well-formed response, 97 for a malformed one, -1 when none came, so no  *)
(* failure looks like another target's NO PHY or PHY VACANT.               *)
THEOREM FunctionResultRecovered ==
    ASSUME NEW fn \in Byte, NEW r \in Reply
    PROVE  FunctionResult(Checked(fn, r)) =
               IF r.res # 0 \/ r.err # 0 THEN -1
               ELSE IF \/ r.act \in 0 .. 3
                       \/ r.buf.type # RESP \/ r.buf.fn # fn THEN 97
               ELSE r.buf.res
<1>1. r.buf \in Frame BY DEF Reply
<1>2. r.buf.res \in 0 .. 255 BY <1>1, HeaderBytes DEF Byte
<1>3. CASE r.res # 0 \/ r.err # 0
  BY <1>3 DEF Checked, FunctionResult
<1>4. CASE ~(r.res # 0 \/ r.err # 0) /\ (r.act \in 0 .. 3 \/ r.buf.type # RESP \/ r.buf.fn # fn)
  <2>1. Checked(fn, r) = -101 BY <1>4 DEF Checked, Malformed
  <2> QED BY <1>4, <2>1 DEF FunctionResult
<1>5. CASE ~(r.res # 0 \/ r.err # 0) /\ ~(r.act \in 0 .. 3 \/ r.buf.type # RESP \/ r.buf.fn # fn)
  <2>1. CASE r.buf.res = 0
    <3>1. Checked(fn, r) = ResponseLength(r) BY <1>5, <2>1 DEF Checked
    <3>2. Deduced(r.buf) \in 4 .. 4 + 4 * 255 BY <1>1, DeducedRange
    <3>3. ResponseLength(r) >= 0 BY <3>2 DEF ResponseLength, Reply
    <3> QED BY <1>5, <2>1, <3>1, <3>3 DEF FunctionResult
  <2>2. CASE r.buf.res # 0
    <3>1. Checked(fn, r) = -4 - r.buf.res BY <1>5, <2>2 DEF Checked
    <3> QED BY <1>2, <1>5, <2>2, <3>1 DEF FunctionResult
  <2> QED BY <2>1, <2>2
<1> QED BY <1>3, <1>4, <1>5

(* Sent with a zeroed buffer, as do_discover sends it, a request leaves no *)
(* byte in it that is neither zero nor of this very response, whichever    *)
(* transport carried it and however much of the response arrived.          *)
THEOREM NothingStale ==
    ASSUME NEW opened \in BOOLEAN, NEW selector \in Selector,
           NEW o \in Outcome, NEW x \in Field
    PROVE  smp_send_req(opened, selector, Zero, o).buf[x] \in {0, o.frame[x]}
<1>1. Zero[x] = 0 BY DEF Zero
<1>2. Overlay(Zero, o.got, o.frame)[x] \in {0, o.frame[x]} BY <1>1 DEF Overlay
<1>3. CASE selector = "I_SGV4"
  BY <1>1, <1>2, <1>3 DEF smp_send_req, send_req_lin_bsg, NotSent
<1>4. CASE selector = "I_MPT"
  BY <1>1, <1>2, <1>4 DEF smp_send_req, send_req_mpt, NotSent
<1>5. CASE selector = "I_SGV4_MPI"
  BY <1>1, <1>2, <1>5 DEF smp_send_req, send_req_mpi3mr_bsg, NotSent
<1> QED BY <1>3, <1>4, <1>5 DEF Selector

(* The slot number the program takes from an expander's own node is one    *)
(* this very response named, even if the buffer was not zeroed.            *)
THEOREM SlotNumberIsTheAnswers ==
    ASSUME NEW b \in Frame, NEW o \in Outcome, NEW r, NEW len,
           r = send_req_lin_bsg(b, o), r \in Reply,
           len = do_discover(r), len >= 0, SlotNumber(len, r.buf) # -1
    PROVE  SlotNumber(len, r.buf) = o.frame.dsn
<1>1. /\ len \in 4 .. 4 + 4 * 255 /\ (r.act >= 0 => len <= r.act) /\ r.res = 0
  <2>1. DISCOVER \in Byte /\ Checked(DISCOVER, r) = len
    BY DEF Byte, DISCOVER, do_discover
  <2>2. Checked(DISCOVER, r) >= 0 BY <2>1
  <2> QED BY <2>1, <2>2, LengthCovered
<1>2. ~o.fails BY <1>1 DEF send_req_lin_bsg, NotSent
<1>3. r.act = o.got /\ r.buf = Overlay(b, o.got, o.frame) /\ o.got \in Nat
  BY <1>2 DEF send_req_lin_bsg, Outcome
<1>4. len > 108 /\ SlotNumber(len, r.buf) = r.buf.dsn
  BY DEF SlotNumber, LastByte
<1>5. "dsn" \in Field /\ LastByte["dsn"] = 108 BY DEF Field, LastByte
<1>6. o.got > 108 BY <1>1, <1>3, <1>4
<1>7. r.buf["dsn"] = o.frame["dsn"] BY <1>3, <1>5, <1>6 DEF Overlay
<1> QED BY <1>4, <1>7

(* What the packet tells the driver of its buffers adds up to the transfer *)
(* lengths, and every request of the program fits the two pools: SMP       *)
(* requests of up to 44 bytes and responses of up to 124.                  *)
THEOREM PacketsFit ==
    ASSUME NEW fn \in PassThrough, NEW out \in 0 .. 44, NEW max \in 0 .. 124,
           fn = "SMP_PASSTHROUGH" \/ out = 0,
           NEW buf, buf = fill_request(fn, out, max)
    PROVE  /\ buf["DATA_OUT"] + buf["MPI_REQUEST"] = dout_xfer_len(fn, out)
           /\ buf["DATA_IN"] + buf["MPI_REPLY"] + buf["ERR_RESPONSE"]
                  = din_xfer_len(fn, max)
           /\ dout_xfer_len(fn, out) <= POOL /\ din_xfer_len(fn, max) <= POOL
<1>1. fn \notin DriverCommand BY DEF PassThrough, DriverCommand
<1>2. /\ buf["DATA_OUT"] = IF fn = "SMP_PASSTHROUGH" THEN out ELSE 0
      /\ buf["DATA_IN"] = max
      /\ buf["MPI_REPLY"] = Size(fn).reply
      /\ buf["ERR_RESPONSE"] = Size(fn).errors
      /\ buf["MPI_REQUEST"] = Size(fn).request
  BY <1>1 DEF fill_request, BufType
<1>3. /\ Size(fn).request \in 0 .. 64 /\ Size(fn).reply \in 0 .. 61
      /\ Size(fn).errors \in {0, 252}
  BY DEF Size, PassThrough
<1> QED BY <1>2, <1>3 DEF dout_xfer_len, din_xfer_len, POOL

=============================================================================
