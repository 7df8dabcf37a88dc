----------------------------- MODULE SevenFlash -----------------------------
(***************************************************************************)
(* Flashing a system with fxRemote's commands                              *)
(* (lib/link/seven/flash_system_using_fxremote_method.c): the sectors of   *)
(* the system are cleared, then each is uploaded by pieces to a buffer of  *)
(* the device and copied from there to the flash; the first sector of the  *)
(* system goes last.                                                       *)
(*                                                                         *)
(* Sectors are numbered from the bootloader's, 0.  The device is external: *)
(* it carries a command out before it acknowledges it, or refuses it.      *)
(***************************************************************************)
EXTENDS SevenExchange

CONSTANTS
  SystemEnd,     (* first sector after those of the system                 *)
  FlashEnd,      (* first sector after those of the flash                  *)
  Pieces         (* pieces a sector is uploaded in                         *)

VARIABLES
  step,          (* where the function is: see FlashSteps                  *)
  image,         (* number of sectors of the image, bootloader included    *)
  max_addr,      (* first sector that is not cleared                       *)
  addr, piece,   (* the sector and the piece the function is at            *)
  result,        (* what the function returned                             *)
  buffer,        (* device: the sector each piece of its buffer is from    *)
  flash          (* device: what the sectors of the flash hold             *)

flashVars == <<step, image, max_addr, addr, piece, result, buffer, flash>>
vars == <<exchangeVars, flashVars>>

FlashSteps == {"idle", "info", "info_data", "clear", "upload", "copy",
               "terminate", "ended"}

Sectors == 0 .. FlashEnd - 1

Init ==
  /\ ExchangeInit
  /\ step = "idle" /\ image = 0 /\ max_addr = 0 /\ addr = 0 /\ piece = 0
  /\ result = "none"
  /\ buffer = [p \in 1 .. Pieces |-> 0]
  /\ flash = [a \in Sectors |-> "old"]

-----------------------------------------------------------------------------
(* The function is called for an image of n sectors, and the storage       *)
(* memory is reset as well or not.                                         *)
Begin(n, reset_smem) ==
  /\ step = "idle"
  /\ step' = "info" /\ image' = n
  /\ max_addr' = IF reset_smem THEN FlashEnd ELSE SystemEnd
  /\ UNCHANGED <<exchangeVars, addr, piece, result, buffer, flash>>

(* The packet that goes out at each step.  A piece of a sector is known by *)
(* both numbers.                                                           *)
Command ==
  CASE step = "info"      -> Packet("info", 0)
    [] step = "clear"     -> Packet("clear", addr)
    [] step = "upload"    -> Packet("upload", addr * Pieces + piece - 1)
    [] step = "copy"      -> Packet("copy", addr)
    [] step = "terminate" -> Packet("finish", 0)

SendCommand ==
  /\ step \in {"info", "clear", "upload", "copy", "terminate"}
  /\ StartExchange(Command, {})
  /\ UNCHANGED flashVars

(* EXPECT_BASIC_ACK.                                                       *)
Accepted == outcome = "OK" /\ answer.kind = "ack"

GoTo(s, a, p) ==
  /\ step' = s /\ addr' = a /\ piece' = p
  /\ UNCHANGED <<image, max_addr, result, buffer, flash>>

End(r) ==
  /\ step' = "ended" /\ result' = r
  /\ UNCHANGED <<image, max_addr, addr, piece, buffer, flash>>

CommandFails ==
  /\ step \in {"info", "clear", "upload", "copy", "terminate"}
  /\ ~Accepted
  /\ ExchangeReturns
  /\ End(IF outcome = "OK" THEN "UNKNOWN" ELSE outcome)

(* The acknowledgement of the first command is followed by its data, which *)
(* nothing looks at.                                                       *)
InfoAccepted ==
  /\ step = "info" /\ phase = "done" /\ Accepted
  /\ phase' = "receive"
  /\ GoTo("info_data", addr, piece)
  /\ UNCHANGED <<wireVars, packet, flags, attempts, outcome, answer,
                 irrecoverable, gone>>

InfoReceived ==
  /\ step = "info_data"
  /\ ExchangeReturns
  /\ IF outcome = "OK" THEN GoTo("clear", 1, 0) ELSE End(outcome)

(* Mutant of AfterClear: the sectors are written in the order they have.   *)
InitialSectorFirst == IF image > 1 THEN <<"upload", 1>> ELSE <<"terminate", 0>>

(* All sectors but the first, then the first.                              *)
AfterClear ==
  CASE image > 2 -> <<"upload", 2>>
    [] image = 2 -> <<"upload", 1>>
    [] OTHER     -> <<"terminate", 0>>

AfterCopy ==
  CASE addr # 1 /\ addr + 1 < image -> <<"upload", addr + 1>>
    [] addr # 1 /\ addr + 1 = image -> <<"upload", 1>>
    [] OTHER                        -> <<"terminate", 0>>

SectorCleared ==
  /\ step = "clear" /\ Accepted
  /\ ExchangeReturns
  /\ IF addr + 1 < max_addr
     THEN GoTo("clear", addr + 1, 0)
     ELSE GoTo(AfterClear[1], AfterClear[2], 1)

PieceUploaded ==
  /\ step = "upload" /\ Accepted
  /\ ExchangeReturns
  /\ IF piece < Pieces THEN GoTo("upload", addr, piece + 1) ELSE GoTo("copy", addr, piece)

SectorCopied ==
  /\ step = "copy" /\ Accepted
  /\ ExchangeReturns
  /\ GoTo(AfterCopy[1], AfterCopy[2], 1)

Terminated ==
  /\ step = "terminate" /\ Accepted
  /\ ExchangeReturns
  /\ End("OK")

-----------------------------------------------------------------------------
(* The device.                                                             *)

(* A copy over a sector that was not cleared, or of pieces of others, makes *)
(* a mess of it.                                                           *)
Copied(a) ==
  IF flash[a] \in {"cleared", "whole"} /\ \A k \in 1 .. Pieces : buffer[k] = a
  THEN "whole" ELSE "mixed"

CarryOut(p) ==
  CASE p.kind = "clear" ->
         flash' = [flash EXCEPT ![p.id] = "cleared"] /\ UNCHANGED buffer
    [] p.kind = "upload" ->
         /\ buffer' = [buffer EXCEPT ![(p.id % Pieces) + 1] = p.id \div Pieces]
         /\ UNCHANGED flash
    [] p.kind = "copy" ->
         /\ flash' = [flash EXCEPT ![p.id] = Copied(p.id)]
         /\ UNCHANGED buffer
    [] OTHER -> UNCHANGED <<buffer, flash>>

DeviceStep ==
  /\ toDevice # <<>>
  /\ LET p == Head(toDevice) IN
       \/ /\ ~p.intact \/ p.kind = "check"
          /\ DeviceAnswers("resend") /\ UNCHANGED <<buffer, flash>>
       \/ /\ p.intact /\ p.kind # "check"
          /\ DeviceAnswers("error") /\ UNCHANGED <<buffer, flash>>
       \/ /\ p.intact /\ p.kind \notin {"check", "info"}
          /\ DeviceAnswers("ack") /\ CarryOut(p)
       \/ /\ p.intact /\ p.kind = "info"
          /\ toDevice' = Tail(toDevice)
          /\ toHost' = toHost \o <<Answer("ack", p), Answer("data", p)>>
          /\ UNCHANGED <<lost, damaged, late, hostVars, buffer, flash>>
  /\ UNCHANGED <<step, image, max_addr, addr, piece, result>>

-----------------------------------------------------------------------------
Exchange == (ExchangeStep \/ Unplugged \/ Wire) /\ UNCHANGED flashVars

Caller == SendCommand \/ CommandFails \/ InfoAccepted \/ InfoReceived
            \/ SectorCleared \/ PieceUploaded \/ SectorCopied \/ Terminated

Next == (\E n \in 1 .. FlashEnd, reset \in BOOLEAN : Begin(n, reset))
          \/ Caller \/ Exchange \/ DeviceStep

Fairness ==
  /\ WF_vars(Caller)
  /\ WF_vars(ExchangeStep /\ UNCHANGED flashVars)
  /\ WF_vars(DeviceStep)

Spec == Init /\ [][Next]_vars /\ Fairness

-----------------------------------------------------------------------------
TypeOK ==
  /\ step \in FlashSteps /\ image \in 0 .. FlashEnd
  /\ max_addr \in {0, SystemEnd, FlashEnd}
  /\ addr \in Sectors /\ piece \in 0 .. Pieces
  /\ buffer \in [1 .. Pieces -> Sectors]
  /\ flash \in [Sectors -> {"old", "cleared", "whole", "mixed"}]

(* An image that is not larger than the sectors that are cleared.          *)
InRange == image <= max_addr

Orderly == damaged = 0 \/ late = 0

(* The first sector of the system, without which the device stays in its   *)
(* bootloader, is only written once all the others are, whatever was lost  *)
(* or repeated; no sector ever holds parts of two; and a success means     *)
(* that the whole system is there.                                         *)
FlashedInOrder ==
  Orderly /\ InRange =>
    /\ \A a \in Sectors : flash[a] # "mixed"
    /\ flash[1] = "whole" => \A a \in 2 .. image - 1 : flash[a] = "whole"
    /\ result = "OK" => \A a \in 1 .. image - 1 : flash[a] = "whole"

=============================================================================
