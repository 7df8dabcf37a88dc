--------------------------- MODULE SevenTransfer ---------------------------
(***************************************************************************)
(* Data to the device: a file sent to its storage (send_file_to_storage.c  *)
(* over send_bytes_from_stream.c), with the confirmation of an overwrite,  *)
(* and a program that is uploaded and run (upload_and_run_program.c over   *)
(* send_bytes.c, which is the same over a memory area).  With packet       *)
(* shifting, a packet is sent before the answer to the one before is read. *)
(*                                                                         *)
(* With the flags DELETE and OPTIMIZE, a file is only sent once the calls  *)
(* that SevenListing and SevenCommand model have succeeded.                *)
(*                                                                         *)
(* The receiving device is external: it accepts the command, refuses it or *)
(* asks whether a file is to be overwritten; it takes the data packets in  *)
(* sequence, refuses one out of sequence or that it has no room for, and   *)
(* may acknowledge or refuse one it already has.                           *)
(***************************************************************************)
EXTENDS SevenExchange

CONSTANT Counts  (* numbers of packets of the files                        *)

VARIABLES
  call,          (* "send_file" or "upload"                                *)
  step,          (* where it is: see Steps                                 *)
  shifting,      (* whether the link and the flags allow packet shifting   *)
  should_upload, (* should_upload_data: the overwrite was not rejected     *)
  count,         (* packet_count                                           *)
  i,             (* the number of the next packet                          *)
  shifted,
  result,        (* what the function returned                             *)
  terminated,    (* CAHUTE_LINK_FLAG_TERMINATED                            *)
  device,        (* "passive", "asking", "accepting" or "refusing"         *)
  received       (* history: the data packets the device has taken         *)

callVars == <<call, shifting, should_upload>>
transferVars == <<callVars, step, count, i, shifted, result, terminated, device, received>>
vars == <<exchangeVars, transferVars>>

Steps == {"idle", "command", "confirm", "first", "loop", "normalize", "last", "ended"}

Init ==
  /\ ExchangeInit
  /\ call = "none" /\ shifting = FALSE /\ should_upload = TRUE
  /\ step = "idle" /\ count = 0 /\ i = 0 /\ shifted = FALSE
  /\ result = "none" /\ terminated = FALSE /\ device = "passive" /\ received = <<>>

loop_send_flags == IF shifted THEN {"no_checksum", "no_timeout"} ELSE {}

Expect(kind) == outcome = "OK" /\ answer.kind = kind

-----------------------------------------------------------------------------
(* The call, for n packets.                                                *)
Begin(function, n, allowed) ==
  /\ step = "idle"
  /\ ~irrecoverable /\ ~gone
  /\ call' = function /\ count' = n /\ shifting' = allowed
  /\ step' = "command"
  /\ UNCHANGED <<exchangeVars, should_upload, i, shifted, result, terminated,
                 device, received>>

SendFile(n, allowed) == Begin("send_file", n, allowed)

(* A program is never shifted.                                             *)
UploadProgram(n) == Begin("upload", n, FALSE)

GiveUp(error) ==
  /\ step' = "ended" /\ result' = error
  /\ UNCHANGED <<callVars, count, i, shifted, terminated, device, received>>

SendCommand ==
  /\ step = "command"
  /\ StartExchange(Packet("command", 0), {})
  /\ UNCHANGED transferVars

(* Where the function goes on once the command is acknowledged.  An empty  *)
(* file has no data to send; an empty program is sent as one packet, the   *)
(* last of none.                                                           *)
AfterCommand ==
  IF ~should_upload \/ (call = "send_file" /\ count = 0) THEN "ended"
  ELSE IF count >= 3 /\ shifting THEN "first" ELSE "loop"

BeginUpload ==
  /\ step' = AfterCommand /\ i' = 1
  /\ result' = IF AfterCommand = "ended" THEN "OK" ELSE result
  /\ UNCHANGED <<callVars, count, shifted, terminated, device, received>>

CommandReturns ==
  /\ step = "command"
  /\ ExchangeReturns
  /\ IF Expect("ack") THEN BeginUpload
     ELSE /\ ~(Expect("overwrite") /\ call = "send_file")
          /\ GiveUp(IF outcome = "OK" THEN "UNKNOWN" ELSE outcome)

(* The caller's function says whether to overwrite the file.               *)
OverwriteAsked ==
  /\ step = "command"
  /\ Expect("overwrite") /\ call = "send_file"
  /\ ExchangeReturns
  /\ step' = "confirm"
  /\ should_upload' \in BOOLEAN
  /\ UNCHANGED <<call, shifting, count, i, shifted, result, terminated, device, received>>

SendConfirmation ==
  /\ step = "confirm"
  /\ StartExchange(Packet(IF should_upload THEN "ack" ELSE "reject", 0), {})
  /\ UNCHANGED transferVars

ConfirmationReturns ==
  /\ step = "confirm"
  /\ ExchangeReturns
  /\ IF Expect("ack") THEN BeginUpload
     ELSE GiveUp(IF outcome = "OK" THEN "UNKNOWN" ELSE outcome)

-----------------------------------------------------------------------------
(* The data.                                                               *)

SendFirst ==
  /\ step = "first"
  /\ StartExchange(Packet("data", 1), {"no_receive"})
  /\ UNCHANGED transferVars

FirstSent ==
  /\ step = "first" /\ phase = "done"
  /\ ExchangeReturns
  /\ IF outcome = "OK"
     THEN /\ step' = "loop" /\ i' = 2 /\ shifted' = TRUE
          /\ UNCHANGED <<callVars, count, result, terminated, device, received>>
     ELSE GiveUp(outcome)

(* All packets but the last.                                               *)
SendPacket ==
  /\ step = "loop" /\ i < count
  /\ StartExchange(Packet("data", i), loop_send_flags)
  /\ UNCHANGED transferVars

PacketFails ==
  /\ step = "loop" /\ phase = "done" /\ outcome # "OK"
  /\ phase' = "idle"
  /\ irrecoverable' = (irrecoverable \/ shifted)
  /\ GiveUp(outcome)
  /\ UNCHANGED <<wireVars, packet, flags, attempts, outcome, answer, gone>>

PacketAnswered ==
  /\ step = "loop" /\ phase = "done" /\ outcome = "OK"
  /\ ExchangeReturns
  /\ IF Expect("ack")
     THEN i' = i + 1 /\ UNCHANGED <<callVars, step, count, shifted, result, terminated, device, received>>
     ELSE GiveUp("UNKNOWN")

(* The answer to the packet before the last, when shifting.                *)
EndLoop ==
  /\ step = "loop" /\ phase = "idle" /\ i >= count
  /\ IF shifted THEN step' = "normalize" /\ StartReceive
     ELSE step' = "last" /\ UNCHANGED exchangeVars
  /\ UNCHANGED <<callVars, count, i, shifted, result, terminated, device, received>>

Normalized ==
  /\ step = "normalize" /\ phase = "done"
  /\ ExchangeReturns
  /\ IF Expect("ack")
     THEN step' = "last" /\ UNCHANGED <<callVars, count, i, shifted, result, terminated, device, received>>
     ELSE GiveUp(IF outcome = "OK" THEN "UNKNOWN" ELSE outcome)

SendLast ==
  /\ step = "last"
  /\ StartExchange(Packet("data", count), {})
  /\ UNCHANGED transferVars

LastReturns ==
  /\ step = "last" /\ phase = "done"
  /\ step' = "ended"
  /\ result' = IF Expect("ack") \/ Expect("ack_term") THEN "OK"
               ELSE IF outcome = "OK" THEN "UNKNOWN" ELSE outcome
  /\ terminated' = (terminated \/ Expect("ack_term"))
  /\ ExchangeReturns
  /\ UNCHANGED <<callVars, count, i, shifted, device, received>>

(* cahute_read_from_file fails before a packet is sent.                    *)
ReadFails ==
  /\ \/ step = "first"
     \/ step = "loop" /\ i < count
     \/ step = "last"
  /\ phase = "idle"
  /\ irrecoverable' = (irrecoverable \/ (shifted /\ step = "loop"))
  /\ GiveUp("UNKNOWN")
  /\ UNCHANGED <<wireVars, phase, packet, flags, attempts, outcome, answer, gone>>

-----------------------------------------------------------------------------
(* The device.                                                             *)

(* A command it has accepted or refused already is the same one again.     *)
RepliesToCommand ==
  CASE device = "passive"   -> {"ack", "overwrite", "error"}
    [] device = "asking"    -> {"overwrite"}
    [] device = "accepting" -> {"ack"}
    [] device = "refusing"  -> {"error"}

RepliesToData(p) ==
  IF device # "accepting" \/ p.id > Len(received) + 1 THEN {"error"}
  ELSE IF p.id = Len(received) + 1 /\ p.id = count THEN {"ack", "ack_term", "error"}
  ELSE {"ack", "error"}

Replies(p) ==
  IF ~p.intact \/ p.kind = "check" THEN {"resend"}
  ELSE CASE p.kind = "command" -> RepliesToCommand
         [] p.kind = "data"    -> RepliesToData(p)
         [] p.kind = "ack"     -> IF device \in {"asking", "accepting"} THEN {"ack"} ELSE {"error"}
         [] p.kind = "reject"  -> IF device \in {"asking", "refusing"} THEN {"ack"} ELSE {"error"}

(* What it is about after it has answered packet p with a k.               *)
DeviceAfter(p, k) ==
  CASE p.kind = "command" /\ k = "ack"           -> "accepting"
    [] p.kind = "command" /\ k = "overwrite"     -> "asking"
    [] p.kind = "command" /\ k = "error"         -> "refusing"
    [] p.kind = "ack" /\ k = "ack"               -> "accepting"
    [] p.kind = "reject" /\ k = "ack"            -> "refusing"
    [] OTHER                                     -> device

DeviceStep ==
  /\ toDevice # <<>>
  /\ LET p == Head(toDevice) IN \E k \in Replies(p) :
       /\ DeviceAnswers(k)
       /\ device' = DeviceAfter(p, k)
       /\ received' = IF p.kind = "data" /\ k \in {"ack", "ack_term"} /\ p.id = Len(received) + 1
                      THEN Append(received, p.id) ELSE received
  /\ UNCHANGED <<callVars, step, count, i, shifted, result, terminated>>

-----------------------------------------------------------------------------
Exchange == (ExchangeStep \/ Unplugged \/ Wire) /\ UNCHANGED transferVars

Caller == SendCommand \/ CommandReturns \/ OverwriteAsked \/ SendConfirmation
            \/ ConfirmationReturns
            \/ SendFirst \/ FirstSent \/ SendPacket \/ PacketFails \/ PacketAnswered
            \/ EndLoop \/ Normalized \/ SendLast \/ LastReturns

Next == (\E n \in Counts, allowed \in BOOLEAN : SendFile(n, allowed))
          \/ (\E n \in Counts : UploadProgram(n))
          \/ Caller \/ ReadFails \/ Exchange \/ DeviceStep

(* The function runs once it is called, and the device answers what        *)
(* reaches it.                                                             *)
Fairness ==
  /\ WF_vars(Caller)
  /\ WF_vars(ExchangeStep /\ UNCHANGED transferVars)
  /\ WF_vars(DeviceStep)

Spec == Init /\ [][Next]_vars /\ Fairness

-----------------------------------------------------------------------------
TypeOK ==
  /\ ExchangeTypeOK
  /\ call \in {"none", "send_file", "upload"} /\ step \in Steps
  /\ shifting \in BOOLEAN /\ should_upload \in BOOLEAN
  /\ count \in Counts \cup {0} /\ i \in 0 .. count + 1
  /\ shifted \in BOOLEAN /\ result \in Outcomes /\ terminated \in BOOLEAN
  /\ device \in {"passive", "asking", "accepting", "refusing"}
  /\ received \in Seq(1 .. count)

(* A late answer to a damaged packet can be taken for the answer to the    *)
(* check that followed; from there on every answer is one packet late.     *)
Orderly == damaged = 0 \/ late = 0

(* A transfer that succeeds has put every packet in the device, in order,  *)
(* whatever the shifting, the retries and the timeout checks: the last     *)
(* answer stands for the whole file.  And a file whose overwrite was       *)
(* rejected (send_file_to_storage.c:148-158) is left as it is.             *)
FileArrives ==
  Orderly =>
    /\ result = "OK" /\ should_upload => received = [k \in 1 .. count |-> k]
    /\ ~should_upload => device \in {"asking", "refusing"} /\ received = <<>>

(* A call that succeeds, or that fails without shifting, leaves a quiet    *)
(* link, or one that is marked unusable.                                   *)
QuietWhenOver ==
  Orderly /\ step = "ended" /\ (result = "OK" \/ ~shifted)
    => irrecoverable \/ gone \/ (toDevice = <<>> /\ toHost = <<>>)

(* Without shifting, one packet lost or damaged never costs the link.      *)
OneFaultIsSurvived ==
  ~shifted /\ lost + damaged <= 1 /\ late = 0 => ~irrecoverable

=============================================================================
