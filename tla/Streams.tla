------------------------------ MODULE Streams -------------------------------
(***************************************************************************)
(* The system's streams under the transport of a link: a POSIX serial port *)
(* (lib/platform/posix/serial.c), USB bulk transfers (lib/platform/libusb/ *)
(* bulk.c), and USB Mass Storage, where a stream is made out of vendor     *)
(* SCSI commands (lib/link/open/usb.c over lib/platform/libusb/ums.c): C0  *)
(* asks how many bytes the device holds, C1 takes them and C2 gives some.  *)
(*                                                                         *)
(* LinkTransport assumes one call of the stream to be one step; here the   *)
(* call on Mass Storage is the requests and the transfers it is made of.   *)
(***************************************************************************)
EXTENDS LinkTransport

CONSTANTS
  Kinds,           (* kinds of streams: "serial", "bulk", "ums"            *)
  UMSSTATUSDELAY,  (* pause between two C0 commands                        *)
  MaxGiven,        (* bytes one C2 command may carry (0xFFFF)              *)
  UnlimitedOnUms   (* whether an unlimited timeout is ever used on "ums"   *)

ASSUME KindsAssumption == Kinds \subseteq {"serial", "bulk", "ums"}
ASSUME DelayAssumption == UMSSTATUSDELAY \in Nat \ {0}
ASSUME MaxGivenAssumption == MaxGiven \in Nat \ {0}
ASSUME UnlimitedAssumption == UnlimitedOnUms \in BOOLEAN
ASSUME UmsEarliness == UMSSTATUSDELAY <= Earliness

VARIABLES
  kind,          (* the stream of this link                                *)
  phase,         (* the request in progress on "ums"                       *)
  avail,         (* bytes the device said it holds, up to the capacity     *)
  taken,         (* recv: bytes of the C1 command's data received so far   *)
  transfer,      (* those bytes                                            *)
  waited         (* cur - start: time since the call was made              *)

requestVars == <<phase, avail, taken, transfer, waited>>
streamVars == <<kind, requestVars>>

Smaller(m, n) == IF m <= n THEN m ELSE n

(* Bytes the device has sent that the system has not taken.                *)
Held == arrived - fetched

NoRequest ==
  phase = "none" /\ avail = 0 /\ taken = 0 /\ transfer = Empty /\ waited = 0

StreamsInit == Init /\ kind \in Kinds /\ NoRequest

RequestEnds ==
  /\ phase' = "none" /\ avail' = 0 /\ taken' = 0 /\ transfer' = Empty /\ waited' = 0
  /\ UNCHANGED kind

-----------------------------------------------------------------------------
(* cahute_receive_on_posix_serial_link: select, when there is a timeout,   *)
(* then one read.  A read without a byte is a port that was hung up, or    *)
(* one that XON/XOFF control has left with VMIN = 0.                       *)
SerialReceives ==
  /\ kind = "serial"
  /\ \/ Held > 0 /\ PollBytes(Smaller(Held, BufferSize))
     \/ Held = 0 /\ \E d \in 1 .. timeout + 1 : PollNothing(d)
     \/ PollTimesOut(timeout)
     \/ PollFails
  /\ UNCHANGED streamVars

(* A bulk transfer that times out with part of its data: the data are not  *)
(* returned, and they are lost.                                            *)
BulkDrops ==
  /\ kind = "bulk" /\ pc = "receiving" /\ timeout > 0
  /\ \E n \in 1 .. Smaller(Held, BufferSize) : fetched' = fetched + n
  /\ pc' = "idle" /\ result' = timeout_error
  /\ quiet' = quiet + timeout
  /\ UNCHANGED <<streamVars, arrived, buffer, start, size, unplugged, gone, wanted,
                 missing, out, base, first_timeout, next_timeout, timeout,
                 timeout_error, sendVars>>

(* cahute_receive_on_libusb_bulk_link: one bulk transfer, that a short     *)
(* packet of the device ends.                                              *)
BulkReceives ==
  /\ kind = "bulk"
  /\ \/ \E n \in 1 .. Smaller(Held, BufferSize) : PollBytes(n)
     \/ PollTimesOut(timeout)
     \/ PollFails
  /\ UNCHANGED streamVars

-----------------------------------------------------------------------------
(* cahute_receive_on_ums_link.                                             *)

OnUms(p) == kind = "ums" /\ pc = "receiving" /\ phase = p

(* Bound: how long a C0 command takes.                                     *)
RequestTimes == 0 .. 1

(* The device holds bytes: C1 asks for as many as the buffer can take.     *)
UmsAsksForData ==
  /\ OnUms("none") /\ Held > 0
  /\ phase' = "data" /\ avail' = Smaller(Held, BufferSize)
  /\ UNCHANGED <<vars, kind, taken, transfer, waited>>

(* The device holds none d milliseconds later: it is asked again after a   *)
(* pause, unless the timeout would then be over.                           *)
UmsWaits(d) ==
  /\ OnUms("none") /\ Held = 0
  /\ waited + d + UMSSTATUSDELAY < timeout
  /\ waited' = waited + d + UMSSTATUSDELAY
  /\ UNCHANGED <<vars, kind, phase, avail, taken, transfer>>

(* The timeout would be over after the pause: the call gives up before it. *)
(* One of 0, which means unlimited to the caller, is over at once.         *)
UmsTimesOut(d) ==
  /\ OnUms("none") /\ Held = 0
  /\ waited + d + UMSSTATUSDELAY >= timeout
  /\ quiet' = quiet + waited + d
  /\ Fail(timeout_error)
  /\ RequestEnds
  /\ UNCHANGED <<timeout, gone>>

(* A bulk transfer brings k bytes of the data of C1.                       *)
UmsTakes(k) ==
  /\ OnUms("data") /\ k <= avail - taken
  /\ transfer' = Filled(transfer, taken, [j \in 1 .. k |-> fetched + taken + j], k)
  /\ taken' = taken + k
  /\ phase' = IF taken + k = avail THEN "status" ELSE "data"
  /\ UNCHANGED <<vars, kind, avail, waited>>

(* The status of C1 is right: the call returns what the device gave.       *)
UmsReturns ==
  /\ OnUms("status")
  /\ Got(avail, [i \in 1 .. BufferSize |->
                   IF i <= avail THEN transfer[i] ELSE buffer[i]])
  /\ RequestEnds

(* A request fails, or its status does not make sense.  What the device    *)
(* has given is lost.                                                      *)
UmsFails ==
  /\ kind = "ums" /\ pc = "receiving"
  /\ pc' = "idle" /\ fetched' = fetched + taken
  /\ \/ unplugged /\ gone' = TRUE /\ result' = "GONE"
     \/ gone' = gone /\ result' = "UNKNOWN"
  /\ RequestEnds
  /\ UNCHANGED <<arrived, buffer, start, size, unplugged, wanted, missing, out, base,
                 first_timeout, next_timeout, timeout, timeout_error, quiet, sendVars>>

UmsReceives ==
  \/ UmsAsksForData
  \/ \E d \in RequestTimes : UmsWaits(d) \/ UmsTimesOut(d)
  \/ \E k \in 1 .. BufferSize : UmsTakes(k)
  \/ UmsReturns
  \/ UmsFails

-----------------------------------------------------------------------------
(* Transmissions.  On "ums" the device is asked C0 first, and what it      *)
(* answers is not looked at.                                               *)
StreamSends ==
  \/ /\ kind # "ums"
     /\ \E k \in 0 .. unsent : SendSome(k)
     /\ UNCHANGED streamVars
  \/ /\ kind = "ums" /\ pc = "sending" /\ phase = "none"
     /\ phase' = "give"
     /\ UNCHANGED <<vars, kind, avail, taken, transfer, waited>>
  \/ /\ phase = "give"
     /\ SendSome(Smaller(unsent, MaxGiven))
     /\ RequestEnds
  \/ SendFails /\ RequestEnds

(* The protocols' calls.                                                   *)
Calls ==
  /\ \/ \E n \in Sizes : StartSending(n)
     \/ \E n \in Sizes, ft, nt \in Timeouts :
          \/ ReceiveFromBuffer(n, ft, nt)
          \/ /\ kind = "ums" => UnlimitedOnUms \/ (ft > 0 /\ nt > 0)
             /\ StartPolling(n, ft, nt)
  /\ UNCHANGED streamVars

Device == (PeerSends \/ Unplug) /\ UNCHANGED streamVars

StreamReceives == SerialReceives \/ BulkReceives \/ UmsReceives

StreamsNext == Device \/ Calls \/ StreamReceives \/ BulkDrops \/ StreamSends

(* A call of the system that was made returns within its timeout.  The     *)
(* requests on "ums" have none: a device that is there answers them.       *)
StreamsSpec ==
  StreamsInit /\ [][StreamsNext]_<<vars, streamVars>>
              /\ WF_<<vars, streamVars>>(StreamReceives)

-----------------------------------------------------------------------------
(* A failure that loses what the stream had taken from the device.         *)
Drops == BulkDrops \/ (taken > 0 /\ UmsFails)

(* The streams do what LinkTransport expects of the system, except that a  *)
(* failure may lose bytes: the requests, transfers and pauses of a call on *)
(* Mass Storage (usb.c lines 71-134, ums.c lines 91-205) come down to one  *)
(* answer, with the bytes that follow those of the answer before.          *)
ImplementsLinkTransport == Init /\ [][Next \/ Drops]_vars

(* What the documentation says of timeouts: one that is reported was not   *)
(* unlimited (docs link.rst lines 597-603).  On Mass Storage an unlimited  *)
(* timeout is over at once.                                                *)
UnlimitedIsUnlimited ==
  /\ result = "TIMEOUT_START" => first_timeout > 0
  /\ result = "TIMEOUT" => next_timeout > 0

(* Mass Storage gives up before a pause that would end with the timeout.   *)
Early == IF kind = "ums" THEN UMSSTATUSDELAY ELSE 0

(* Each of these streams has waited for the whole timeout when it reports  *)
(* it, but for the last pause on Mass Storage (usb.c lines 94-101), and no *)
(* pause ends past the timeout.                                            *)
StreamTimeoutIsKept ==
  /\ TimeoutKept(Early)
  /\ waited > 0 => quiet + waited < Limit

(* The call in progress holds the next bytes of the stream, in order.      *)
RequestState ==
  /\ phase \in {"none", "data", "status", "give"}
  /\ waited \in Nat /\ avail \in 0 .. BufferSize /\ taken \in 0 .. avail
  /\ waited > 0 =>
       kind \in {"ums", "win16"} /\ pc = "receiving" /\ waited < timeout
  /\ avail <= Held
  /\ transfer = [i \in 1 .. taken |-> fetched + i]
  /\ phase \in {"none", "give"} => avail = 0
  /\ phase \in {"data", "status"} => kind = "ums" /\ pc = "receiving" /\ avail > 0
  /\ phase = "status" => taken = avail
  /\ phase = "data" => taken < avail
  /\ phase = "give" => kind = "ums" /\ pc = "sending"

(* Unlimited timeouts are not used on Mass Storage.                        *)
LimitedOnUms ==
  kind = "ums" /\ pc = "receiving" => first_timeout > 0 /\ next_timeout > 0

SInv == IInv /\ RequestState /\ LimitedOnUms

=============================================================================
