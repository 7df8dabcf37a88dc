---------------------------- MODULE SevenPassive ----------------------------
(***************************************************************************)
(* The passive side of a Protocol 7.00 link, run by the library            *)
(* (lib/link/seven/receive_data.c), and the negotiation of the parameters  *)
(* of a serial port, of which the library may be either end                *)
(* (lib/link/negotiate_serial_params.c).                                   *)
(*                                                                         *)
(* The active side is the library, or a calculator, which does as the      *)
(* library does (SevenExchange); its commands are external but for the     *)
(* negotiation.  What is sent to an end whose port has other parameters    *)
(* arrives as garbage, or not at all.                                      *)
(***************************************************************************)
EXTENDS SevenExchange

CONSTANTS
  MaxPackets,    (* bound on the data packets of a file                    *)
  MaxCalls       (* bound on the commands, and on the receptions           *)

VARIABLES
  call, i, count,   (* active side: the command, the data packet, how many *)
  calls,         (* commands so far                                        *)
  result,        (* what the last command returned                         *)
  step,          (* passive side: see Steps                                *)
  command, size, (* the command it carries out, and the packets announced  *)
  receptions,    (* calls of cahute_receive_data so far                    *)
  received,      (* data packets stored                                    *)
  given,         (* what cahute_receive_data returned                      *)
  terminated,    (* CAHUTE_LINK_FLAG_TERMINATED of the passive side        *)
  broken,        (* CAHUTE_LINK_FLAG_IRRECOVERABLE of the passive side     *)
  speed,         (* parameters of the port of each end                     *)
  waited         (* no cahute_sleep has failed                             *)

activeVars == <<call, i, count, calls, result>>
passiveVars == <<step, command, size, receptions, received, given, terminated, broken>>
portVars == <<speed, waited>>
vars == <<exchangeVars, activeVars, passiveVars, portVars>>

Ends == {"active", "passive"}
(* "refused" stands for settings that are not known, a file too big for the *)
(* buffer or with parameters too long, and all other commands.             *)
Commands == {"info", "settings", "verify", "file", "malformed", "refused"}
Calls == Commands \cup {"check", "term"}
Steps == {"idle", "listen", "decide", "set", "request", "answer", "check", "last_ack", "decode"}

(* A command is a packet with a number; the one for a file tells how many  *)
(* data packets are to follow, n.                                          *)
Number(c, n) ==
  CASE c = "info" -> 1 [] c = "settings" -> 2 [] c = "verify" -> 9
    [] c = "malformed" -> 3 [] c = "refused" -> 4 [] c = "file" -> 10 + n

(* Data packet n of the file of the k-th command.                          *)
Data(k, n) == Packet("data", 10 * k + n)
DataNumber(p) == p.id % 10

Init ==
  /\ ExchangeInit
  /\ call = "none" /\ i = 0 /\ count = 0 /\ calls = 0 /\ result = "none"
  /\ step = "idle" /\ command = "none" /\ size = 0 /\ receptions = 0 /\ received = <<>> /\ given = "none"
  /\ terminated = FALSE /\ broken = FALSE
  /\ speed = [e \in Ends |-> "old"] /\ waited = TRUE

SameParams == speed["active"] = speed["passive"]

-----------------------------------------------------------------------------
(* The active side.                                                        *)

Begin(c) ==
  /\ call = "none" /\ calls < MaxCalls /\ ~irrecoverable /\ ~gone
  /\ call' = c /\ calls' = calls + 1 /\ result' = "none" /\ i' = 0
  /\ count' \in IF c = "file" THEN 0 .. MaxPackets ELSE {0}
  /\ StartExchange(IF c \in Commands THEN Packet("command", Number(c, count')) ELSE Packet(c, 0), {})
  /\ UNCHANGED <<passiveVars, portVars>>

Return(r) == call' = "none" /\ result' = r /\ UNCHANGED <<i, count, calls>>

(* The command was carried out: its answer is the one that is expected.    *)
CarriedOut ==
  outcome = "OK" /\ answer.kind = IF call = "info" THEN "ack_extended" ELSE "ack"

CommandReturns ==
  /\ call # "none" /\ ExchangeReturns
  /\ IF ~CarriedOut THEN Return(IF outcome = "OK" THEN "UNKNOWN" ELSE outcome)
     ELSE IF call = "settings" THEN call' = "set" /\ UNCHANGED <<i, count, calls, result>>
     ELSE IF call = "file" /\ i < count
     THEN call' = "data" /\ i' = i + 1 /\ UNCHANGED <<count, calls, result>>
     ELSE IF call = "data" THEN call' = "file" /\ UNCHANGED <<i, count, calls, result>>
     ELSE Return("OK")
  /\ UNCHANGED <<passiveVars, portVars>>

SendData ==
  /\ call = "data" /\ StartExchange(Data(calls, i), {})
  /\ UNCHANGED <<activeVars, passiveVars, portVars>>

(* The last packet was acknowledged.                                       *)
FileSent ==
  /\ call = "file" /\ phase = "idle"
  /\ IF i < count THEN call' = "data" /\ i' = i + 1 /\ UNCHANGED <<count, calls, result>>
     ELSE Return("OK")
  /\ UNCHANGED <<exchangeVars, passiveVars, portVars>>

(* Mutant of SetFails: the failure is only reported.                       *)
SetFailsOnly(e) == UNCHANGED <<irrecoverable, broken, speed, waited>>

(* The port of end e does not take the parameters that both have agreed on. *)
SetFails(e) ==
  /\ irrecoverable' = (irrecoverable \/ e = "active") /\ broken' = (broken \/ e = "passive")
  /\ UNCHANGED portVars

(* It does; cahute_negotiate_serial_params sleeps afterwards.              *)
SetOwnParams ==
  /\ call = "set"
  /\ \/ SetFails("active") /\ Return("UNKNOWN")
     \/ /\ speed' = [speed EXCEPT !["active"] = "new"]
        /\ waited' \in {waited, FALSE} /\ Return(IF waited' = waited THEN "OK" ELSE "UNKNOWN")
        /\ UNCHANGED <<irrecoverable, broken>>
  /\ UNCHANGED <<wireVars, phase, packet, flags, attempts, outcome, answer, gone, step, command,
                 size, receptions, received, given, terminated>>

-----------------------------------------------------------------------------
(* The passive side: what it sends and takes.                              *)

(* The packet of kind k is sent, in answer to p.                           *)
Sent(k, p) == Append(toHost, Answer(IF SameParams THEN k ELSE "damaged", p))

SendAnswer(k) ==
  /\ toHost' = Sent(k, timeout_check_packet)
  /\ UNCHANGED <<toDevice, lost, damaged, late, hostVars>>

(* The first packet is taken, and the one of kind k sent.                  *)
TakeAndAnswer(k) ==
  /\ toHost' = Sent(k, Head(toDevice)) /\ toDevice' = Tail(toDevice)
  /\ UNCHANGED <<lost, damaged, late, hostVars>>

Take == toDevice' = Tail(toDevice) /\ UNCHANGED <<toHost, lost, damaged, late, hostVars>>

Legible == SameParams /\ Head(toDevice).intact

GoTo(s) == step' = s /\ UNCHANGED <<command, size, receptions, received, given, terminated, broken>>

(* cahute_receive_data returns r.                                          *)
Give(r) ==
  /\ step' = "idle" /\ given' = r
  /\ UNCHANGED <<command, size, receptions, received, terminated, broken>>

-----------------------------------------------------------------------------
(* cahute_receive_data: cahute_check_link, and the loop.                   *)

ReceiveData ==
  /\ step = "idle" /\ receptions < MaxCalls
  /\ ~terminated /\ ~broken
  /\ step' = "listen" /\ receptions' = receptions + 1 /\ given' = "none"
  /\ UNCHANGED <<exchangeVars, activeVars, command, size, received, terminated, broken, portVars>>

(* The program of the passive side has closed its link.                    *)
Closed ==
  /\ step = "idle" /\ (receptions = MaxCalls \/ terminated \/ broken)
  /\ toDevice # <<>> /\ toDevice' = <<>>
  /\ UNCHANGED <<toHost, lost, damaged, late, hostVars, activeVars, passiveVars, portVars>>

(* A packet that is not legible ends the call.                             *)
ReceiveIllegible ==
  /\ step \in {"listen", "answer", "check"} /\ toDevice # <<>> /\ ~Legible
  /\ Take
  /\ \/ \E r \in DamageErrors : Give(r)
     \/ ~SameParams /\ GoTo(step)
  /\ UNCHANGED <<activeVars, portVars>>

Listen ==
  /\ step = "listen" /\ toDevice # <<>> /\ Legible
  /\ LET p == Head(toDevice) IN
     CASE p.kind = "check" -> TakeAndAnswer("ack") /\ GoTo("listen")
       [] p.kind = "term" ->
            /\ TakeAndAnswer("ack") /\ terminated' = TRUE
            /\ step' = "idle" /\ given' = "TERMINATED"
            /\ UNCHANGED <<command, size, receptions, received, broken>>
       [] p.kind = "command" ->
            /\ Take /\ step' = "decide" /\ received' = <<>>
            /\ \E c \in Commands, n \in 0 .. MaxPackets :
                 p.id = Number(c, n) /\ command' = c /\ size' = n
            /\ UNCHANGED <<receptions, given, terminated, broken>>
       [] OTHER -> TakeAndAnswer("error") /\ GoTo("listen")
  /\ UNCHANGED <<activeVars, portVars>>

(* A command is carried out, refused, or not understood.                   *)
Decide ==
  /\ step = "decide"
  /\ CASE command = "malformed" -> Give("UNKNOWN") /\ UNCHANGED exchangeVars
       [] command = "info" -> SendAnswer("ack_extended") /\ GoTo("listen")
       [] command = "verify" -> SendAnswer("ack") /\ GoTo("listen")
       [] command = "settings" -> SendAnswer("ack") /\ GoTo("set")
       [] command = "file" -> GoTo("request") /\ UNCHANGED exchangeVars
       [] OTHER -> SendAnswer("error") /\ GoTo("listen")
  /\ UNCHANGED <<activeVars, portVars>>

(* The port takes the new parameters, once the library has slept.          *)
SetParams ==
  /\ step = "set"
  /\ \/ speed' = [speed EXCEPT !["passive"] = "new"] /\ GoTo("listen")
        /\ UNCHANGED <<irrecoverable, waited>>
     \/ SetFails("passive") /\ step' = "idle" /\ given' = "UNKNOWN"
        /\ UNCHANGED <<command, size, receptions, received, terminated>>
     \/ waited' = FALSE /\ Give("UNKNOWN") /\ UNCHANGED <<irrecoverable, speed>>
  /\ UNCHANGED <<wireVars, phase, packet, flags, attempts, outcome, answer, gone, activeVars>>

-----------------------------------------------------------------------------
(* A file: cahute_seven_receive_bytes, without shifting.                   *)

(* Mutant of Complete: the last packet is not waited for.                  *)
AllButOne == Len(received) >= size - 1

(* The sizes tell that all was received.                                   *)
Complete == Len(received) = size

Request ==
  /\ step = "request"
  /\ IF Complete THEN GoTo("last_ack") /\ UNCHANGED exchangeVars
     ELSE SendAnswer("ack") /\ GoTo("answer")
  /\ UNCHANGED <<activeVars, portVars>>

(* The packet that comes is the next one, or ends the call; the answer to  *)
(* a timeout check is never a request to send again.                       *)
ReceivePacket ==
  /\ step = "answer" /\ toDevice # <<>> /\ Legible
  /\ Take
  /\ IF Head(toDevice).kind = "data" /\ DataNumber(Head(toDevice)) = Len(received) + 1
     THEN received' = Append(received, Head(toDevice).id) /\ step' = "request"
          /\ UNCHANGED <<command, size, receptions, given, terminated, broken>>
     ELSE Give("UNKNOWN")
  /\ UNCHANGED <<activeVars, portVars>>

Breaks ==
  /\ broken' = TRUE /\ step' = "idle" /\ given' = "TIMEOUT_START"
  /\ UNCHANGED <<command, size, receptions, received, terminated>>

ReceiveAfterCheck ==
  /\ step = "check" /\ toDevice # <<>> /\ Legible
  /\ Take /\ Breaks
  /\ UNCHANGED <<activeVars, portVars>>

(* Nothing comes to the passive side before its timeout: the active side   *)
(* has nothing to answer, or is late.                                      *)
PassiveTimeRunsOut ==
  /\ toDevice = <<>>
  /\ \/ (toHost = <<>> \/ call = "none") /\ UNCHANGED late
     \/ toHost # <<>> /\ late < MaxLate /\ late' = late + 1

PacketTimesOut ==
  /\ step \in {"answer", "check"} /\ PassiveTimeRunsOut
  /\ IF step = "answer"
     THEN toHost' = Sent("other", timeout_check_packet) /\ GoTo("check")
     ELSE Breaks /\ UNCHANGED toHost
  /\ UNCHANGED <<toDevice, lost, damaged, hostVars, activeVars, portVars>>

(* The whole was received: it is acknowledged and decoded, and what cannot *)
(* be is passed over.                                                      *)
LastAck ==
  /\ step = "last_ack" /\ SendAnswer("ack") /\ GoTo("decode")
  /\ UNCHANGED <<activeVars, portVars>>

Decode ==
  /\ step = "decode"
  /\ Give("OK") \/ Give("CORRUPT") \/ GoTo("listen")
  /\ UNCHANGED <<exchangeVars, activeVars, portVars>>

(* The call's own timeout.                                                 *)
ListenTimesOut ==
  /\ step = "listen" /\ toDevice = <<>> /\ late < MaxLate /\ late' = late + 1
  /\ Give("TIMEOUT_START")
  /\ UNCHANGED <<toDevice, toHost, lost, damaged, hostVars, activeVars, portVars>>

-----------------------------------------------------------------------------
Active == CommandReturns \/ SendData \/ FileSent \/ SetOwnParams

Exchange == ExchangeStep /\ UNCHANGED <<activeVars, passiveVars, portVars>>

Passive == Listen \/ ReceiveIllegible \/ Decide \/ SetParams \/ Request \/ ReceivePacket
  \/ ReceiveAfterCheck \/ PacketTimesOut \/ LastAck \/ Decode

(* The program of the passive side goes on receiving, or closes its link.  *)
Program == ReceiveData \/ Closed

Next ==
  \/ \E c \in Calls : Begin(c)
  \/ Active \/ Exchange \/ Program \/ Passive \/ ListenTimesOut
  \/ (Unplugged \/ Wire) /\ UNCHANGED <<activeVars, passiveVars, portVars>>

(* A function that was called runs, at either end.                         *)
Spec ==
  /\ Init /\ [][Next]_vars
  /\ WF_vars(Active) /\ WF_vars(Exchange) /\ WF_vars(Passive) /\ WF_vars(Program)

-----------------------------------------------------------------------------
TypeOK ==
  /\ ExchangeTypeOK
  /\ call \in Calls \cup {"none", "set", "data"} /\ i \in 0 .. count /\ count \in 0 .. MaxPackets
  /\ calls \in 0 .. MaxCalls /\ receptions \in 0 .. MaxCalls
  /\ step \in Steps /\ command \in Commands \cup {"none"} /\ size \in 0 .. MaxPackets /\ received \in Seq(Nat)
  /\ terminated \in BOOLEAN /\ broken \in BOOLEAN
  /\ speed \in [Ends -> {"old", "new"}] /\ waited \in BOOLEAN

(* The packets of a whole file of n packets, of the k-th command.          *)
File(k, n) == [m \in 1 .. n |-> Data(k, m).id]

(* The data given to the program of the passive side are the packets of    *)
(* one file, all of them and in order; and a file that the active side     *)
(* returned from sending without an error has been received whole, unless  *)
(* the answers are off by one, after one that was late or damaged.         *)
FileIsWhole ==
  /\ given = "OK" => \E k \in 1 .. MaxCalls : received = File(k, size)
  /\ (call = "none" /\ result = "OK" /\ count > 0 /\ late + damaged = 0) => received = File(calls, count)

(* The two ends have the same parameters whenever either could use the     *)
(* link: whichever fails to set its own, or does not learn that the other  *)
(* has (its answer is lost or late), finds the link irrecoverable.  It is  *)
(* not so after a damaged answer, nor when sleeping fails.                 *)
ParamsAgree ==
  (/\ call = "none" /\ step \in {"idle", "listen"} /\ toDevice = <<>> /\ toHost = <<>>
   /\ ~irrecoverable /\ ~broken /\ ~gone /\ waited /\ damaged = 0)
  => SameParams

=============================================================================
