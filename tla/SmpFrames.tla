------------------------------ MODULE SmpFrames ------------------------------
(***************************************************************************)
(* SMP requests and their responses, as smp_discover.cpp and mpi3mr_app.cpp *)
(* send and check them: what the three transports leave in the caller's    *)
(* buffer, and what the callers make of it.                                *)
(*                                                                         *)
(* Of a response only the fields the program reads are kept, each with the *)
(* offset of its last byte; addresses are numbers, 0 being none.           *)
(***************************************************************************)
EXTENDS Integers

Byte == 0 .. 255

LastByte == [type |-> 0, fn |-> 1, res |-> 2, words |-> 3,
             phy |-> 9,         \* number of phys, in REPORT GENERAL
             dev |-> 12, rate |-> 13, init |-> 14,
             addr |-> 23,       \* the expander's own SAS address
             hba |-> 31,        \* the attached SAS address
             name |-> 59,       \* the attached device name
             dsn |-> 108]       \* the device slot number

Field == DOMAIN LastByte
Header == {"type", "fn", "res", "words"}
Frame == {f \in [Field -> Nat] : \A x \in Header : f[x] \in Byte}
Zero == [x \in Field |-> 0]

RESP == 65
REPORT_GENERAL == 0
REPORT_MANUFACTURER == 1
DISCOVER == 16
NO_PHY == 16
PHY_VACANT == 22
Malformed == -4 - 97

(* The buffer b after the first n bytes of frame f were written into it.   *)
Overlay(b, n, f) == [x \in Field |-> IF LastByte[x] < n THEN f[x] ELSE b[x]]

-----------------------------------------------------------------------------
(* The transports.  An ioctl's outcome o says whether it failed, which     *)
(* status words it set, how much of which frame arrived, what length the   *)
(* reply names and whether the MPT firmware was content.                   *)
Selector == {"I_SGV4", "I_MPT", "I_SGV4_MPI"}

Outcome == [fails : BOOLEAN, driver : Nat, transport : Nat, device : Nat,
            got : Nat, named : Nat, content : BOOLEAN, frame : Frame]

Reply == [res : {0, -1}, err : Nat, act : Int, buf : Frame]

TransportError(o) ==
    IF o.driver # 0 THEN o.driver
    ELSE IF o.transport # 0 THEN o.transport ELSE o.device

NotSent(b) == [res |-> -1, err |-> 0, act |-> 0, buf |-> b]

(* Linux bsg: the kernel writes what arrived, the rest stays.              *)
send_req_lin_bsg(b, o) ==
    IF o.fails THEN NotSent(b)
    ELSE [res |-> 0, err |-> TransportError(o), act |-> o.got,
          buf |-> Overlay(b, o.got, o.frame)]

(* MPT: a zeroed buffer is filled and copied, whatever the status says;    *)
(* the length of the response is not known (-1).                           *)
send_req_mpt(b, o) ==
    IF o.fails THEN NotSent(b)
    ELSE [res |-> IF o.content THEN 0 ELSE -1, err |-> 0, act |-> -1,
          buf |-> Overlay(Zero, o.got, o.frame)]

(* mpi3mr: likewise, but the MPI reply behind the data names a length.     *)
send_req_mpi3mr_bsg(b, o) ==
    IF o.fails THEN NotSent(b)
    ELSE [res |-> 0, err |-> TransportError(o), act |-> o.named,
          buf |-> Overlay(Zero, o.got, o.frame)]

smp_send_req(opened, selector, b, o) ==
    IF ~opened THEN NotSent(b)
    ELSE CASE selector = "I_SGV4" -> send_req_lin_bsg(b, o)
           [] selector = "I_MPT" -> send_req_mpt(b, o)
           [] selector = "I_SGV4_MPI" -> send_req_mpi3mr_bsg(b, o)

(* The requests that go through mpi3mr: commands to the driver (adapter    *)
(* and target information), which carry no buffers, and pass-throughs.     *)
DriverCommand == {"ADPINFO", "ALLTGTDEVINFO"}
PassThrough == {"IOC_FACTS", "CONFIG", "SCSI_IO", "SMP_PASSTHROUGH"}
BufType == {"DATA_OUT", "DATA_IN", "MPI_REPLY", "ERR_RESPONSE", "MPI_REQUEST"}

Size(fn) ==
    [request |-> CASE fn = "IOC_FACTS" -> 16 [] fn = "SCSI_IO" -> 64
                   [] fn \in {"CONFIG", "SMP_PASSTHROUGH"} -> 32 [] OTHER -> 0,
     reply |-> CASE fn \in {"IOC_FACTS", "CONFIG"} -> 21 [] fn = "SCSI_IO" -> 61
                 [] fn = "SMP_PASSTHROUGH" -> 25 [] OTHER -> 0,
     errors |-> IF fn = "SCSI_IO" THEN 252 ELSE 0]

(* mpi3_request::fill_request: the buffer entries of the packet, by type,  *)
(* for `out' bytes of SMP request and room for `max' bytes of response.    *)
fill_request(fn, out, max) ==
    [t \in BufType |->
        IF fn \in DriverCommand THEN 0
        ELSE CASE t = "DATA_OUT" -> IF fn = "SMP_PASSTHROUGH" THEN out ELSE 0
               [] t = "DATA_IN" -> max
               [] t = "MPI_REPLY" -> Size(fn).reply
               [] t = "ERR_RESPONSE" -> Size(fn).errors
               [] t = "MPI_REQUEST" -> Size(fn).request]

(* The transfer lengths send_req_mpi3mr_bsg announces for the same request *)
(* and the pools it transfers from and to.                                 *)
dout_xfer_len(fn, out) == out + Size(fn).request
din_xfer_len(fn, max) == max + Size(fn).reply + Size(fn).errors
POOL == 1024

-----------------------------------------------------------------------------
(* The checks.                                                             *)

(* Only six functions have a default length above zero; the codes the      *)
(* table does not know, or knows no default for, count as zero.            *)
smp_get_func_def_resp_len(fn) ==
    CASE fn = 0 -> 6 [] fn = 1 -> 14 [] fn = 16 -> 12
      [] fn = 17 -> 6 [] fn = 18 -> 13 [] fn = 19 -> 9
      [] OTHER -> 0

Deduced(f) ==
    4 + 4 * (IF f.words = 0 /\ f.res = 0 THEN smp_get_func_def_resp_len(f.fn)
             ELSE f.words)

ResponseLength(r) ==
    IF r.act >= 0 /\ Deduced(r.buf) > r.act THEN r.act ELSE Deduced(r.buf)

(* What get_num_phys, do_discover and smp_report_manufacturer share: the   *)
(* length of the response to function fn, -1, or a negated error.          *)
Checked(fn, r) ==
    IF r.res # 0 \/ r.err # 0 THEN -1
    ELSE IF r.act \in 0 .. 3 THEN Malformed
    ELSE IF r.buf.type # RESP \/ r.buf.fn # fn THEN Malformed
    ELSE IF r.buf.res # 0 THEN -4 - r.buf.res
    ELSE ResponseLength(r)

do_discover(r) == Checked(DISCOVER, r)

get_num_phys(r) ==
    LET len == Checked(REPORT_GENERAL, r)
    IN  IF len < 0 THEN len ELSE IF len > LastByte.phy THEN r.buf.phy ELSE 0

smp_report_manufacturer(r) ==
    LET len == Checked(REPORT_MANUFACTURER, r) IN IF len < 0 THEN len ELSE 0

(* What do_multiple and do_multiple_slot make of do_discover's length.     *)
FunctionResult(len) ==
    IF len >= 0 THEN 0 ELSE IF len < -2 THEN -4 - len ELSE len

(* The slot number a response names, -1 for none.                          *)
SlotNumber(len, f) == IF len > LastByte.dsn /\ f.dsn # 255 THEN f.dsn ELSE -1

=============================================================================
