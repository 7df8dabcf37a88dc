--------------------------- MODULE SevenExchange ---------------------------
(***************************************************************************)
(* One Protocol 7.00 exchange, as run by the active side: a packet is sent *)
(* and its answer received, with the invalid checksum flow and the timeout *)
(* flow (lib/link/seven/send_packet.c, receive_packet.c), over a wire that *)
(* may lose, damage or delay packets.                                      *)
(*                                                                         *)
(* The exchange has no Next of its own: the callers (SevenCommand,         *)
(* SevenTransfer, SevenRoleSwap) start exchanges and act on their outcome, and say what   *)
(* the device at the other end answers.                                    *)
(***************************************************************************)
EXTENDS Integers, Sequences

CONSTANTS
  Attempts,      (* initial_attempts of an exchange                        *)
  MaxLost,       (* bound on the packets the wire loses                    *)
  MaxDamaged,    (* bound on the packets the wire damages                  *)
  MaxLate        (* bound on the answers that come after their timeout     *)

ASSUME AttemptsAssumption == Attempts \in Nat \ {0}
ASSUME FaultsAssumption == MaxLost \in Nat /\ MaxDamaged \in Nat /\ MaxLate \in Nat

VARIABLES
  toDevice,      (* packets on their way to the device                     *)
  toHost,        (* packets on their way to the host                       *)
  lost, damaged, late,  (* faults so far                                   *)
  phase,         (* "idle", "answer", "check", "receive" or "done"         *)
  packet,        (* raw_packet                                             *)
  flags,         (* CAHUTE_SEVEN_SEND_FLAG_DISABLE_*                       *)
  attempts,
  outcome,       (* what the function returned                             *)
  answer,        (* last_packet_type and last_packet_subtype               *)
  irrecoverable, (* CAHUTE_LINK_FLAG_IRRECOVERABLE                         *)
  gone           (* CAHUTE_LINK_FLAG_GONE                                  *)

wireVars == <<toDevice, toHost, lost, damaged, late>>
hostVars == <<phase, packet, flags, attempts, outcome, answer, irrecoverable, gone>>
exchangeVars == <<wireVars, hostVars>>

(* A packet of the host is a kind and a number, and may arrive damaged; one *)
(* of the device is a kind, a number when it matters, and, as history, the *)
(* packet it answers.                                                      *)
Packet(kind, id) == [kind |-> kind, id |-> id, intact |-> TRUE]
Numbered(kind, id, p) == [kind |-> kind, id |-> id, to |-> p]
Answer(kind, p) == Numbered(kind, 0, p)

NoPacket == Packet("none", 0)
NoAnswer == Answer("none", NoPacket)

timeout_check_packet == Packet("check", 0)

Flags == {"no_checksum", "no_timeout", "no_receive"}
PacketKinds == {"none", "init", "command", "roleswap", "ack", "reject", "data",
                "check", "term", "info", "clear", "upload", "copy", "finish"}
AnswerKinds == {"none", "ack", "ack_extended", "ack_term", "resend", "error",
                "overwrite", "roleswap", "command", "unknown_command", "data",
                "damaged", "other"}

(* The errors a damaged answer is reported as: its checksum does not match *)
(* or is no number, its header or its size is malformed, or it misses      *)
(* bytes.                                                                  *)
DamageErrors == {"CORRUPT", "UNKNOWN", "SIZE", "TIMEOUT"}
Outcomes == {"none", "OK", "TIMEOUT_START", "GONE"} \cup DamageErrors

ExchangeInit ==
  /\ toDevice = <<>> /\ toHost = <<>>
  /\ lost = 0 /\ damaged = 0 /\ late = 0
  /\ phase = "idle" /\ packet = NoPacket /\ flags = {} /\ attempts = 0
  /\ outcome = "none" /\ answer = NoAnswer
  /\ irrecoverable = FALSE /\ gone = FALSE

-----------------------------------------------------------------------------
(* The wire.                                                               *)

LosePacket ==
  /\ lost < MaxLost
  /\ lost' = lost + 1
  /\ \/ toDevice # <<>> /\ toDevice' = Tail(toDevice) /\ UNCHANGED toHost
     \/ toHost # <<>> /\ toHost' = Tail(toHost) /\ UNCHANGED toDevice
  /\ UNCHANGED <<damaged, late, hostVars>>

(* The checksum covers all but the type byte: damage to that byte yields a *)
(* valid packet of some other type.                                        *)
DamagePacket ==
  /\ damaged < MaxDamaged
  /\ damaged' = damaged + 1
  /\ \/ /\ toDevice # <<>> /\ Head(toDevice).intact
        /\ toDevice' = [toDevice EXCEPT ![1].intact = FALSE]
        /\ UNCHANGED toHost
     \/ /\ toHost # <<>> /\ Head(toHost).kind \notin {"damaged", "other"}
        /\ \E kind \in {"damaged", "other"} : toHost' = [toHost EXCEPT ![1].kind = kind]
        /\ UNCHANGED toDevice
  /\ UNCHANGED <<lost, late, hostVars>>

Wire == LosePacket \/ DamagePacket

-----------------------------------------------------------------------------
(* cahute_seven_send_and_receive.                                          *)

(* Mutant of InitialAttempts: the loop runs once too often.                *)
OneAttemptMore(f) == IF "no_checksum" \in f THEN 1 ELSE Attempts + 1

InitialAttempts(f) == IF "no_checksum" \in f THEN 1 ELSE Attempts

Finish(o) == phase' = "done" /\ outcome' = o

(* The caller calls the function with packet p and flags f.  A packet that *)
(* cannot be sent, the device being gone, is as one sent in vain when an   *)
(* answer is waited for.                                                   *)
StartExchange(p, f) ==
  /\ phase = "idle"
  /\ packet' = p /\ flags' = f /\ attempts' = InitialAttempts(f)
  /\ toDevice' = Append(toDevice, p)
  /\ IF "no_receive" \in f
     THEN \/ Finish("OK") /\ UNCHANGED gone
          \/ Finish("GONE") /\ gone' = TRUE
     ELSE phase' = "answer" /\ UNCHANGED <<outcome, gone>>
  /\ UNCHANGED <<toHost, lost, damaged, late, answer, irrecoverable>>

(* The caller calls cahute_seven_receive on its own.                       *)
StartReceive ==
  /\ phase = "idle"
  /\ phase' = "receive"
  /\ UNCHANGED <<wireVars, packet, flags, attempts, outcome, answer,
                 irrecoverable, gone>>

(* The caller has taken the outcome into account.                          *)
ExchangeReturns ==
  /\ phase = "done"
  /\ phase' = "idle"
  /\ UNCHANGED <<wireVars, packet, flags, attempts, outcome, answer,
                 irrecoverable, gone>>

(* continue, with n the attempts left before the loop takes one: the same  *)
(* packet goes out again, unless that was the last attempt.                *)
TryAgain(n) ==
  IF n > 1
  THEN /\ phase' = "answer" /\ attempts' = n - 1
       /\ toDevice' = Append(toDevice, packet)
       /\ UNCHANGED outcome
  ELSE Finish("CORRUPT") /\ attempts' = 0 /\ UNCHANGED toDevice

(* cahute_seven_receive takes the first packet: what a damaged one held is *)
(* lost.                                                                   *)
Receive(kinds) ==
  /\ toHost # <<>>
  /\ Head(toHost).kind \in kinds
  /\ toHost' = Tail(toHost)
  /\ answer' = IF Head(toHost).kind = "damaged" THEN answer ELSE Head(toHost)
  /\ UNCHANGED <<lost, damaged, late, packet, flags, gone>>

(* Mutant of ReceiveDamaged: a damaged answer has the packet sent again.   *)
SendAgainIfDamaged ==
  /\ phase = "answer"
  /\ Receive({"damaged"})
  /\ TryAgain(attempts)
  /\ UNCHANGED irrecoverable

ReceiveDamaged ==
  /\ phase \in {"answer", "check", "receive"}
  /\ Receive({"damaged"})
  /\ \E o \in DamageErrors : Finish(o)
  /\ UNCHANGED <<toDevice, attempts, irrecoverable>>

ReceiveAnswer ==
  /\ phase \in {"answer", "receive"}
  /\ Receive(AnswerKinds \ {"damaged", "resend"})
  /\ Finish("OK")
  /\ UNCHANGED <<toDevice, attempts, irrecoverable>>

ReceiveResend ==
  /\ Receive({"resend"})
  /\ \/ phase = "answer" /\ TryAgain(attempts)
     \/ phase = "receive" /\ Finish("OK") /\ UNCHANGED <<toDevice, attempts>>
  /\ UNCHANGED irrecoverable

(* Mutant of ReceiveCheckAnswer: no answer lets the exchange go on.        *)
RefuseCheckAnswer ==
  /\ phase = "check"
  /\ Receive(AnswerKinds \ {"damaged"})
  /\ irrecoverable' = TRUE
  /\ Finish("TIMEOUT_START")
  /\ UNCHANGED <<toDevice, attempts>>

(* The answer to the timeout check: only a request to send the packet      *)
(* again lets the exchange go on, with its attempts restored.              *)
ReceiveCheckAnswer ==
  /\ phase = "check"
  /\ \/ /\ Receive({"resend"})
        /\ TryAgain(InitialAttempts(flags)) /\ UNCHANGED irrecoverable
     \/ /\ Receive(AnswerKinds \ {"damaged", "resend"})
        /\ irrecoverable' = TRUE
        /\ Finish("TIMEOUT_START") /\ UNCHANGED <<toDevice, attempts>>

(* No packet starts before the timeout.  Either nothing is on its way any  *)
(* more, or the device is late: what it has to answer comes afterwards.    *)
TimeRunsOut ==
  \/ toDevice = <<>> /\ toHost = <<>> /\ UNCHANGED late
  \/ /\ toDevice # <<>> /\ toHost = <<>>
     /\ late < MaxLate /\ late' = late + 1

(* Mutant of AnswerTimesOut: the answer is waited for without a timeout.   *)
AnswerWaits == FALSE

AnswerTimesOut ==
  /\ phase \in {"answer", "receive"}
  /\ TimeRunsOut
  /\ IF phase = "receive" \/ "no_timeout" \in flags
     THEN Finish("TIMEOUT_START") /\ UNCHANGED toDevice
     ELSE /\ phase' = "check" /\ toDevice' = Append(toDevice, timeout_check_packet)
          /\ UNCHANGED outcome
  /\ UNCHANGED <<toHost, lost, damaged, packet, flags, attempts, answer,
                 irrecoverable, gone>>

(* Mutant of CheckTimesOut: the check is waited for without a timeout.     *)
CheckWaits == FALSE

CheckTimesOut ==
  /\ phase = "check"
  /\ TimeRunsOut
  /\ irrecoverable' = TRUE
  /\ Finish("TIMEOUT_START")
  /\ UNCHANGED <<toDevice, toHost, lost, damaged, packet, flags, attempts,
                 answer, gone>>

(* The transport reports that the device is gone.                          *)
Unplugged ==
  /\ phase \in {"answer", "check", "receive"}
  /\ gone' = TRUE
  /\ Finish("GONE")
  /\ UNCHANGED <<wireVars, packet, flags, attempts, answer, irrecoverable>>

ExchangeStep ==
  ReceiveDamaged \/ ReceiveAnswer \/ ReceiveResend \/ ReceiveCheckAnswer
    \/ AnswerTimesOut \/ CheckTimesOut

-----------------------------------------------------------------------------
(* The device takes the first packet and answers it with packet a, or one  *)
(* of kind k.                                                              *)
DeviceSends(a) ==
  /\ toDevice' = Tail(toDevice)
  /\ toHost' = Append(toHost, a)
  /\ UNCHANGED <<lost, damaged, late, hostVars>>

DeviceAnswers(k) == DeviceSends(Answer(k, Head(toDevice)))

HostPackets == [kind : PacketKinds, id : Nat, intact : BOOLEAN]
DevicePackets == [kind : AnswerKinds, id : Nat, to : HostPackets]

ExchangeTypeOK ==
  /\ toDevice \in Seq(HostPackets) /\ toHost \in Seq(DevicePackets)
  /\ lost \in 0 .. MaxLost /\ damaged \in 0 .. MaxDamaged /\ late \in 0 .. MaxLate
  /\ phase \in {"idle", "answer", "check", "receive", "done"}
  /\ packet \in HostPackets /\ flags \subseteq Flags
  /\ attempts \in 0 .. Attempts /\ outcome \in Outcomes
  /\ answer \in DevicePackets
  /\ irrecoverable \in BOOLEAN /\ gone \in BOOLEAN

=============================================================================
