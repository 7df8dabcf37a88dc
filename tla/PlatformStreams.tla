-------------------------- MODULE PlatformStreams ---------------------------
(***************************************************************************)
(* The streams of Windows, next to those of Streams.  A serial port, a     *)
(* CESG driver and a WinUSB pipe (lib/platform/win32/serial/link.c, usb/   *)
(* cesg.c, usb/winusb_bulk.c) are read with overlapped operations: a read  *)
(* that is not over when the timeout is stays in progress, and the driver  *)
(* writes into the receive buffer of the link whenever bytes come, whether *)
(* or not anything waits for them.  Windows 3 (lib/platform/win16/serial/  *)
(* link.c) has no timeouts, and asks again after a pause.                  *)
(***************************************************************************)
EXTENDS Streams

CONSTANTS
  PlatformKinds,        (* "overlapped", "immediate", "win16"              *)
  READ_CHECK_DELAY_MS   (* pause between two looks at the port on "win16"  *)

ASSUME PlatformKindsAssumption ==
  PlatformKinds \subseteq {"overlapped", "immediate", "win16"}
ASSUME CheckDelayAssumption == READ_CHECK_DELAY_MS \in Nat \ {0}
ASSUME Win16Earliness == READ_CHECK_DELAY_MS <= Earliness

VARIABLES
  read_in_progress,  (* "no", "pending", or "over": its event is set       *)
  received           (* bytes the operation that is over has brought       *)

readVars == <<read_in_progress, received>>
platformVars == <<vars, streamVars, readVars>>

NoRead == read_in_progress = "no" /\ received = 0

PlatformInit ==
  /\ Init /\ kind \in Kinds \cup PlatformKinds
  /\ NoRequest /\ NoRead

(* On a serial port reads are set up to return at once, with what the port *)
(* holds, which may be nothing.                                            *)
IsOverlapped == kind \in {"overlapped", "immediate"}

Receiving == IsOverlapped /\ pc = "receiving"

-----------------------------------------------------------------------------
(* The driver: it writes n bytes where the read was told to.               *)
DriverReads(n) ==
  /\ read_in_progress = "pending"
  /\ n <= Held
  /\ n > 0 \/ (kind = "immediate" /\ Held = 0)
  /\ buffer' = [i \in 1 .. BufferSize |-> IF i <= n THEN fetched + i ELSE buffer[i]]
  /\ read_in_progress' = "over" /\ received' = n
  /\ UNCHANGED <<streamVars, arrived, fetched, start, size, unplugged, gone, pc,
                 receiveVars, sendVars>>

-----------------------------------------------------------------------------
(* receive_on_link, for overlapped operations.                             *)

(* Mutant of StartRead: a read starts, whichever is in progress, over what *)
(* that one has brought.                                                   *)
StartReadAgain ==
  /\ Receiving
  /\ fetched' = fetched + received
  /\ read_in_progress' = "pending" /\ received' = 0
  /\ UNCHANGED <<streamVars, arrived, buffer, start, size, unplugged, gone, pc,
                 receiveVars, sendVars>>

(* A read starts unless one is in progress from a call that timed out.     *)
StartRead ==
  /\ Receiving /\ read_in_progress = "no"
  /\ read_in_progress' = "pending" /\ received' = 0
  /\ UNCHANGED <<vars, streamVars>>

(* The read is over: what it has brought is returned.  If that is nothing, *)
(* the transport asks again, for as long as its timeout is unlimited.      *)
ReadIsOver ==
  /\ Receiving /\ read_in_progress = "over"
  /\ \/ received > 0 /\ Got(received, buffer)
     \/ received = 0 /\ \E d \in 1 .. timeout + 1 : PollNothing(d)
     \/ received = 0 /\ timeout = 0 /\ UNCHANGED vars
  /\ read_in_progress' = "no" /\ received' = 0
  /\ UNCHANGED streamVars

(* WAIT_TIMEOUT: the read stays in progress.                               *)
WaitTimesOut ==
  /\ Receiving /\ read_in_progress = "pending"
  /\ PollTimesOut(timeout)
  /\ UNCHANGED <<streamVars, readVars>>

(* The read cannot start, or cannot be waited for.                         *)
WaitFails ==
  /\ Receiving
  /\ Fail("UNKNOWN")
  /\ UNCHANGED <<streamVars, readVars, timeout, quiet, gone>>

(* The read is over without success.                                       *)
ReadFails ==
  /\ Receiving /\ read_in_progress = "pending"
  /\ PollFails
  /\ read_in_progress' = "no" /\ UNCHANGED received
  /\ UNCHANGED streamVars

OverlappedReceives ==
  StartRead \/ ReadIsOver \/ WaitTimesOut \/ WaitFails \/ ReadFails

-----------------------------------------------------------------------------
(* receive_on_link, on Windows 3.                                          *)

OnWin16 == kind = "win16" /\ pc = "receiving"

Rested == waited' = 0 /\ UNCHANGED <<kind, phase, avail, taken, transfer, readVars>>

Win16Reads ==
  /\ OnWin16 /\ Held > 0
  /\ PollBytes(Smaller(Held, BufferSize))
  /\ Rested

Win16Waits(d) ==
  /\ OnWin16 /\ Held = 0
  /\ waited + d + READ_CHECK_DELAY_MS < timeout
  /\ waited' = waited + d + READ_CHECK_DELAY_MS
  /\ UNCHANGED <<vars, kind, phase, avail, taken, transfer, readVars>>

(* The timeout would be over after the pause: the call gives up before it. *)
(* With an unlimited timeout the port is read at once, and then again.     *)
Win16TimesOut(d) ==
  /\ OnWin16
  /\ waited + d + READ_CHECK_DELAY_MS >= timeout
  /\ PollTimesOut(waited + d)
  /\ Rested

Win16Fails == OnWin16 /\ PollFails /\ Rested

Win16Receives ==
  \/ Win16Reads
  \/ \E d \in RequestTimes : Win16Waits(d) \/ Win16TimesOut(d)
  \/ Win16Fails

-----------------------------------------------------------------------------
PlatformReceives == OverlappedReceives \/ Win16Receives

PlatformNext ==
  \/ StreamsNext /\ UNCHANGED readVars
  \/ \E n \in 0 .. BufferSize : DriverReads(n)
  \/ PlatformReceives

(* A call of the system that was made returns within its timeout.          *)
PlatformSpec ==
  /\ PlatformInit /\ [][PlatformNext]_platformVars
  /\ WF_platformVars((StreamReceives /\ UNCHANGED readVars) \/ PlatformReceives)

-----------------------------------------------------------------------------
(* The driver writes into a receive buffer that holds nothing.             *)
WritesBehind ==
  /\ start = size
  /\ UNCHANGED <<arrived, fetched, start, size, unplugged, gone, pc, receiveVars, sendVars>>

(* The streams do what LinkTransport expects of the system, except that a  *)
(* failure may lose bytes, and that the driver may write into the receive  *)
(* buffer between two calls, which it must only do when nothing is left in *)
(* it (win32/serial/link.c lines 96-138).                                  *)
PlatformsImplement == Init /\ [][Next \/ Drops \/ WritesBehind]_vars

(* Windows 3 gives up before a pause that would end with the timeout.      *)
EarlyHere == IF kind = "win16" THEN READ_CHECK_DELAY_MS ELSE Early

(* On every platform a timeout is reported once it has gone by without a   *)
(* byte, but for the last pause on Mass Storage (usb.c lines 94-101) and   *)
(* on Windows 3 (win16/serial/link.c lines 96-98), however many turns,     *)
(* pauses and reads left in progress the wait is made of; and no turn or   *)
(* pause goes past the timeout.                                            *)
PlatformTimeoutIsKept ==
  /\ TimeoutKept(EarlyHere)
  /\ waited > 0 => quiet + waited < Limit

(* What an operation in progress holds are the next bytes of the stream,   *)
(* and the receive buffer holds no others.                                 *)
ReadState ==
  /\ read_in_progress \in {"no", "pending", "over"}
  /\ received \in 0 .. BufferSize /\ received <= Held
  /\ read_in_progress # "over" => received = 0
  /\ read_in_progress # "no" => IsOverlapped /\ start = size
  /\ \A i \in 1 .. received : buffer[i] = fetched + i

PInv == SInv /\ ReadState

=============================================================================
