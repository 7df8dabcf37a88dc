---------------------------- MODULE LinkDetection ----------------------------
(***************************************************************************)
(* Finding the protocol of a link that is opened (lib/link/open/init.c):   *)
(* the active end tries the beginnings of the protocols one after another  *)
(* until something answers, and the passive end looks at the first bytes   *)
(* that come.                                                              *)
(*                                                                         *)
(* Either end, or both, is run by the library; an end that is not is a     *)
(* calculator, which is external.  The wires carry bytes: a reception of   *)
(* several bytes may have some of them, and those of two packets.          *)
(***************************************************************************)
EXTENDS Integers, Sequences, SequencesExt

CONSTANTS
  Attempts,      (* attempts of determine_protocol_as_sender (3)           *)
  InitAttempts,  (* INIT_ATTEMPTS of cahute_cas300_initiate_as_sender      *)
  BufferSize,    (* bytes of an unknown answer that are looked at (48)     *)
  MaxFaults,     (* bound on the bytes lost or damaged                     *)
  MaxLate,       (* bound on the answers that come too late                *)
  MaxNotices     (* bound on the bytes a calculator sends for nothing      *)

Ends == {"active", "passive"}
Other(e) == IF e = "active" THEN "passive" ELSE "active"

VARIABLES
  kind,          (* what each end is: the library or a calculator          *)
  asked,         (* the protocol each end of the library was asked for     *)
  wire,          (* bytes on their way to each end                         *)
  faults, late, notices,   (* so far                                       *)
  pc,            (* where each end is: see Places                          *)
  buf,           (* bytes received by the active end, a given branch's     *)
  attempts,      (* attempts left, of the detection or of the initiation   *)
  protocol,      (* the protocol each end found                            *)
  result,        (* what the detection of each end returned                *)
  discovered,    (* *cas300_discoveredp                                    *)
  next_id,       (* *cas300_next_idp: the identifier to start from         *)
  expected       (* the identifier a ClassPad in use expects               *)

setting == <<kind, asked, expected>>
counts == <<faults, late, notices>>
endVars == <<pc, protocol, result>>
activeVars == <<buf, attempts, discovered, next_id>>
vars == <<setting, wire, counts, endVars, activeVars>>

Actives == {"library", "seven", "cas", "classpad", "screen"}
Passives == {"library", "seven", "cas", "classpad_new", "classpad_used", "none"}
CasiolinkVariants == {"CAS40", "CAS50", "CAS100", "CAS300"}
Protocols == CasiolinkVariants \cup {"SEVEN", "SEVEN_OHP", "CAS"}
Probes == {"check", "start", "half", "rest"}
Places == Probes \cup {"off", "five", "init", "init_nul", "ack", "ack_end", "info", "nak",
                       "nak_end", "unknown", "first", "packet", "over"}

(* The numbers are bytes; "d" is a digit, "o" and "c" other bytes of a     *)
(* packet, "info", "info_41" and "end" the rest of one, "x" garbage.       *)
Check == <<"05", "d", "d", "d", "d", "d">>
Ack == <<"06", "d", "d", "d", "d", "d">>
Nak == <<"15", "d", "d", "d", "d", "c">>
HalfDiscover == <<"01", "d", "d", "d", "d", "d">>
RestOfDiscover == <<"d", "d", "d", "d", "d", "d", "c">>
Cas300Ack == <<"06", "d", "d">>
Bytes == {"00", "01", "05", "06", "09", "0B", "10", "13", "15", "16", "18", "d", "c", "x",
          "info", "end"}

Init ==
  /\ kind = [e \in Ends |-> "none"] /\ asked = [e \in Ends |-> "none"] /\ expected = 0
  /\ wire = [e \in Ends |-> <<>>] /\ faults = 0 /\ late = 0 /\ notices = 0
  /\ pc = [e \in Ends |-> "off"] /\ buf = <<>> /\ attempts = 0
  /\ protocol = [e \in Ends |-> "none"] /\ result = [e \in Ends |-> "none"]
  /\ discovered = FALSE /\ next_id = 0

-----------------------------------------------------------------------------
(* Opening: cahute_open_serial_link and cahute_open_usb_link.              *)

(* What may be asked for.  "USB" is PROTOCOL_USB_AUTO, which is always     *)
(* active; "AUTO" is PROTOCOL_SERIAL_AUTO, which never is; the others are  *)
(* PROTOCOL_SERIAL_AUTO_CAS40, and so on.                                  *)
Askable(e) == IF e = "active" THEN CasiolinkVariants \cup {"USB"} ELSE CasiolinkVariants \cup {"AUTO"}

(* The speed, parity and flow control of a serial port by default.         *)
SerialParams(p) ==
  [speed   |-> CASE p = "CAS40" -> 4800 [] p \in {"CAS100", "CAS300"} -> 38400 [] OTHER -> 9600,
   parity  |-> IF p = "CAS40" THEN "even" ELSE "off",
   xonxoff |-> p = "CAS300"]

(* The other end hears: calculators do, those that do not being none.      *)
Hears ==
  kind["active"] = "library" /\ kind["passive"] = "library"
    => SerialParams(asked["active"]) = SerialParams(asked["passive"])

Begin ==
  /\ pc = [e \in Ends |-> "off"] /\ kind["active"] = "none"
  /\ \E a \in Actives, p \in Passives :
       /\ a = "library" \/ p = "library"
       /\ kind' = [active |-> a, passive |-> p]
  /\ \E forActive \in Askable("active"), forPassive \in Askable("passive") :
       /\ kind'["active"] # "library" => forActive = "CAS50"
       /\ kind'["passive"] # "library" => forPassive = "AUTO"
       /\ kind' = [e \in Ends |-> "library"] => forActive # "USB"
       /\ asked' = [active |-> forActive, passive |-> forPassive]
  /\ expected' \in IF kind'["passive"] = "classpad_used" THEN {0, 1} ELSE {0}
  /\ pc' = [e \in Ends |-> IF kind'[e] # "library" THEN "over" ELSE "off"]
  /\ UNCHANGED <<wire, counts, protocol, result, activeVars>>

-----------------------------------------------------------------------------
(* The wire.                                                               *)

(* What the wire to end e holds once the bytes bs were sent to it: the     *)
(* port of an end that is not open keeps nothing (tcflush), and one whose  *)
(* settings differ takes garbage for bytes, or nothing.                    *)
Sent(e, bs) ==
  IF bs = <<>> \/ pc[e] = "off" \/ result[e] \notin {"none", "OK"} THEN {wire[e]}
  ELSE IF Hears THEN {wire[e] \o bs}
  ELSE {wire[e], Append(wire[e], "x")}

(* End e takes its first n bytes and sends the bytes bs.                   *)
TakeAndSend(e, n, bs) ==
  /\ n <= Len(wire[e])
  /\ \E w \in Sent(Other(e), bs) :
       wire' = [wire EXCEPT ![e] = SubSeq(@, n + 1, Len(@)), ![Other(e)] = w]

Take(e, n) == TakeAndSend(e, n, <<>>)

Lose ==
  /\ faults < MaxFaults /\ faults' = faults + 1
  /\ \E e \in Ends : wire[e] # <<>> /\ wire' = [wire EXCEPT ![e] = Tail(@)]
  /\ UNCHANGED <<setting, late, notices, endVars, activeVars>>

Damage ==
  /\ faults < MaxFaults /\ faults' = faults + 1
  /\ \E e \in Ends : wire[e] # <<>> /\ wire' = [wire EXCEPT ![e][1] = "x"]
  /\ UNCHANGED <<setting, late, notices, endVars, activeVars>>

(* The passive end has something to do: the library has the bytes it reads, *)
(* and a calculator all of a packet that began.                            *)
PassiveReacts ==
  /\ wire["passive"] # <<>>
  /\ IF kind["passive"] = "library"
     THEN pc["passive"] = "first" /\ (Head(wire["passive"]) = "05" => Len(wire["passive"]) >= Len(Check))
     ELSE ~(kind["passive"] = "classpad_used" /\ wire["passive"] = HalfDiscover
            /\ pc["active"] = "half")

(* Fewer than n bytes come to the active end before its timeout.           *)
TimeRunsOut(n) ==
  /\ Len(wire["active"]) < n
  /\ \/ ~PassiveReacts /\ UNCHANGED late
     \/ PassiveReacts /\ late < MaxLate /\ late' = late + 1

Over(e, r, p) ==
  /\ pc' = [pc EXCEPT ![e] = "over"]
  /\ result' = [result EXCEPT ![e] = r]
  /\ protocol' = [protocol EXCEPT ![e] = p]

Fails(e, r) == Over(e, r, "none")

(* Mutant of Found: the switch has no case for Protocol 7.00.              *)
FoundVariant(e, p) == IF p \in CasiolinkVariants THEN Over(e, "OK", p) ELSE Fails(e, "UNKNOWN")

(* The detection found p, unless no protocol corresponds to what was asked. *)
Found(e, p) == IF p = "none" THEN Fails(e, "UNKNOWN") ELSE Over(e, "OK", p)

GoTo(e, place) == pc' = [pc EXCEPT ![e] = place] /\ UNCHANGED <<protocol, result>>

(* A transport that fails ends the detection.                              *)
TransportFails(e) ==
  /\ faults < MaxFaults /\ faults' = faults + 1
  /\ kind[e] = "library" /\ pc[e] \notin {"off", "over"}
  /\ Fails(e, "GONE")
  /\ UNCHANGED <<setting, wire, late, notices, activeVars>>

-----------------------------------------------------------------------------
(* determine_protocol_as_sender.                                           *)

OpenActive ==
  /\ pc["active"] = "off" /\ kind["active"] = "library"
  /\ attempts' = Attempts
  /\ GoTo("active", "check") /\ TakeAndSend("active", 0, Check)
  /\ UNCHANGED <<setting, counts, buf, discovered, next_id>>

(* The probes, each sent once the one before was not answered.             *)
AfterProbe(place) ==
  CASE place = "check" -> [place |-> "start", sends |-> <<"16">>]
    [] place = "start" -> [place |-> "half", sends |-> HalfDiscover]
    [] place = "half"  -> [place |-> "rest", sends |-> RestOfDiscover]
    [] place = "rest"  -> [place |-> "check", sends |-> Check]

LastAttempt(place) == place = "rest" /\ attempts = 1

ProbeUnanswered ==
  /\ pc["active"] \in Probes /\ TimeRunsOut(1)
  /\ LET next == AfterProbe(pc["active"]) IN
     /\ attempts' = IF pc["active"] = "rest" THEN attempts - 1 ELSE attempts
     /\ IF LastAttempt(pc["active"])
        THEN Fails("active", "NOT_FOUND") /\ UNCHANGED wire
        ELSE GoTo("active", next.place) /\ TakeAndSend("active", 0, next.sends)
  /\ UNCHANGED <<setting, faults, notices, buf, discovered, next_id>>

(* The protocol found when CAS300 is spoken, and when a start is answered. *)
IfCas300(a) == IF a \in {"AUTO", "CAS300", "USB"} THEN "CAS300" ELSE "none"
IfEstablished(a) == IF a = "USB" THEN "CAS300" ELSE IF a \in CasiolinkVariants THEN a ELSE "none"

FirstByte(b) ==
  /\ pc["active"] \in Probes /\ wire["active"] # <<>> /\ Head(wire["active"]) = b
  /\ buf' = <<b>>

(* A ClassPad 300 answers the start: cahute_cas300_initiate_as_sender.     *)
AnsweredNul ==
  /\ FirstByte("00")
  /\ attempts' = InitAttempts
  /\ GoTo("active", "init") /\ TakeAndSend("active", 1, <<"16">>)
  /\ UNCHANGED <<setting, counts, discovered, next_id>>

(* A ClassPad 300 that is not initiated answers every byte so: all of the  *)
(* answers are read.                                                       *)
AnsweredFive ==
  /\ FirstByte("05")
  /\ GoTo("active", "five") /\ Take("active", 1)
  /\ UNCHANGED <<setting, counts, attempts, discovered, next_id>>

FivesAreOver == TimeRunsOut(1)

MoreFives ==
  /\ pc["active"] = "five"
  /\ \/ /\ wire["active"] # <<>> /\ Take("active", 1) /\ UNCHANGED <<late, attempts>>
        /\ IF Head(wire["active"]) = "05" THEN GoTo("active", "five")
           ELSE Fails("active", "UNKNOWN")
     \/ /\ FivesAreOver /\ attempts' = InitAttempts
        /\ GoTo("active", "init") /\ TakeAndSend("active", 0, <<"16">>)
  /\ UNCHANGED <<setting, faults, notices, buf, discovered, next_id>>

(* cahute_cas300_initiate_as_sender; see Cas300.  Its failure is           *)
(* TIMEOUT_START after 0x05, and TIMEOUT after 0x00.                       *)
NextInitiation ==
  /\ attempts' = attempts - 1
  /\ IF attempts > 1 THEN GoTo("active", "init")
     ELSE Fails("active", IF buf = <<"05">> THEN "TIMEOUT_START" ELSE "TIMEOUT")

InitiationUnanswered ==
  /\ pc["active"] \in {"init", "init_nul"} /\ TimeRunsOut(1)
  /\ NextInitiation
  /\ TakeAndSend("active", 0, IF attempts > 1 THEN <<"16">> ELSE <<>>)
  /\ UNCHANGED <<setting, faults, notices, buf, discovered, next_id>>

Initiation ==
  /\ pc["active"] \in {"init", "init_nul"} /\ wire["active"] # <<>>
  /\ LET b == Head(wire["active"])
         first == pc["active"] = "init" IN
     \/ /\ b = "00" /\ first
        /\ GoTo("active", "init_nul") /\ Take("active", 1) /\ UNCHANGED attempts
     \/ /\ IF first THEN b = "13" ELSE b = "00"
        /\ Found("active", IfCas300(asked["active"])) /\ Take("active", 1) /\ UNCHANGED attempts
     \/ /\ b # "00" /\ (first => b # "13")
        /\ NextInitiation
        /\ TakeAndSend("active", 1, IF attempts > 1 THEN <<"16">> ELSE <<>>)
  /\ UNCHANGED <<setting, counts, buf, discovered, next_id>>

(* An acknowledgement, of the check or of the discovery: three bytes more  *)
(* tell which, with no timeout.                                            *)
AnsweredAck ==
  /\ FirstByte("06")
  /\ GoTo("active", "ack") /\ Take("active", 1)
  /\ UNCHANGED <<setting, counts, attempts, discovered, next_id>>

AckReceived ==
  /\ pc["active"] = "ack" /\ Take("active", 3)
  /\ buf' = buf \o SubSeq(wire["active"], 1, 3)
  /\ GoTo("active", IF buf'[4] = "01" THEN "info" ELSE "ack_end")
  /\ UNCHANGED <<setting, counts, attempts, discovered, next_id>>

(* Mutant of IsAck: its end is not looked at.                              *)
IsAnyAck(bs) == Head(bs) = Head(Ack)

IsAck(bs) == bs = Ack

AckEnds ==
  /\ pc["active"] = "ack_end" /\ Take("active", 2)
  /\ buf' = buf \o SubSeq(wire["active"], 1, 2)
  /\ IF IsAck(buf') THEN Found("active", "SEVEN") ELSE GoTo("active", "unknown")
  /\ UNCHANGED <<setting, counts, attempts, discovered, next_id>>

(* The rest of cahute_cas300_receive_packet, and what it received.         *)
Information ==
  /\ pc["active"] = "info"
  /\ \/ /\ wire["active"] # <<>> /\ UNCHANGED late
        /\ IF Head(wire["active"]) = "info"
           THEN /\ TakeAndSend("active", 1, Cas300Ack)
                /\ Found("active", IfCas300(asked["active"]))
           ELSE Take("active", 1) /\ \E r \in {"CORRUPT", "UNKNOWN", "TIMEOUT"} : Fails("active", r)
     \/ TimeRunsOut(1) /\ Fails("active", "TIMEOUT") /\ UNCHANGED wire
  /\ discovered' = (result'["active"] = "OK")
  /\ UNCHANGED <<setting, faults, notices, buf, attempts, next_id>>

(* A calculator answers the start.                                         *)
AnsweredEstablished ==
  /\ FirstByte("13") /\ Take("active", 1)
  /\ Found("active", IfEstablished(asked["active"]))
  /\ UNCHANGED <<setting, counts, attempts, discovered, next_id>>

(* A refusal, of six bytes from a Protocol 7.00 device, and of three, the  *)
(* identifier it expects, from a ClassPad 300.                             *)
AnsweredNak ==
  /\ FirstByte("15")
  /\ GoTo("active", "nak") /\ Take("active", 1)
  /\ UNCHANGED <<setting, counts, attempts, discovered, next_id>>

NakReceived ==
  /\ pc["active"] = "nak" /\ Take("active", 2)
  /\ buf' = buf \o SubSeq(wire["active"], 1, 2)
  /\ GoTo("active", "nak_end")
  /\ UNCHANGED <<setting, counts, attempts, discovered, next_id>>

NakEnds ==
  /\ pc["active"] = "nak_end" /\ Take("active", 3)
  /\ buf' = buf \o SubSeq(wire["active"], 1, 3)
  /\ IF buf' = Nak THEN Found("active", "SEVEN") ELSE GoTo("active", "unknown")
  /\ UNCHANGED <<setting, counts, attempts, discovered, next_id>>

OutOfOrder ==
  /\ pc["active"] = "nak_end" /\ TimeRunsOut(3)
  /\ IF wire["active"] # <<>>
     THEN Fails("active", "TIMEOUT") /\ wire' = [wire EXCEPT !["active"] = <<>>] /\ UNCHANGED next_id
     ELSE /\ UNCHANGED wire
          /\ IF SubSeq(buf, 2, 3) = <<"d", "d">>
             THEN Found("active", IfCas300(asked["active"])) /\ next_id' = expected
             ELSE Fails("active", "UNKNOWN") /\ UNCHANGED next_id
  /\ UNCHANGED <<setting, faults, notices, buf, attempts, discovered>>

(* Anything else: what still comes is read, up to the size of the buffer.  *)
AnsweredUnknown ==
  /\ \E b \in Bytes \ {"00", "05", "06", "13", "15"} : FirstByte(b)
  /\ GoTo("active", "unknown") /\ Take("active", 1)
  /\ UNCHANGED <<setting, counts, attempts, discovered, next_id>>

Unknown ==
  /\ pc["active"] = "unknown"
  /\ \/ Len(buf) < BufferSize /\ wire["active"] # <<>> /\ Take("active", 1)
          /\ buf' = Append(buf, Head(wire["active"]))
          /\ GoTo("active", "unknown") /\ UNCHANGED late
     \/ (IF Len(buf) < BufferSize THEN TimeRunsOut(1) ELSE UNCHANGED late)
          /\ Fails("active", "UNKNOWN") /\ UNCHANGED <<wire, buf>>
  /\ UNCHANGED <<setting, faults, notices, attempts, discovered, next_id>>

-----------------------------------------------------------------------------
(* determine_protocol_as_receiver; it has no timeout.                      *)

OpenPassive ==
  /\ pc["passive"] = "off" /\ kind["passive"] = "library"
  /\ GoTo("passive", "first")
  /\ UNCHANGED <<setting, wire, counts, activeVars>>

First(b) == pc["passive"] = "first" /\ wire["passive"] # <<>> /\ Head(wire["passive"]) = b

(* The beginning of a check: the rest is read, with no timeout.            *)
CheckBegins ==
  /\ First("05") /\ Len(wire["passive"]) >= Len(Check)
  /\ LET checked == SubSeq(wire["passive"], 1, Len(Check)) = Check IN
     /\ TakeAndSend("passive", Len(Check), IF checked THEN Ack ELSE <<>>)
     /\ Found("passive", IF checked THEN "SEVEN" ELSE "none")
  /\ UNCHANGED <<setting, counts, activeVars>>

ScreenBegins ==
  /\ First("0B") /\ Take("passive", 1) /\ Found("passive", "SEVEN_OHP")
  /\ UNCHANGED <<setting, counts, activeVars>>

(* Another protocol, that the calculator tries first.                      *)
OtherBegins ==
  /\ First("10") /\ Take("passive", 1) /\ GoTo("passive", "first")
  /\ UNCHANGED <<setting, counts, activeVars>>

StartReceived ==
  /\ First("16") /\ TakeAndSend("passive", 1, <<"13">>)
  /\ Found("passive", IF asked["passive"] = "AUTO" THEN "CAS" ELSE IfEstablished(asked["passive"]))
  /\ UNCHANGED <<setting, counts, activeVars>>

UnknownReceived ==
  /\ \E b \in Bytes \ {"05", "0B", "10", "16"} : First(b)
  /\ Take("passive", 1) /\ Fails("passive", "UNKNOWN")
  /\ UNCHANGED <<setting, counts, activeVars>>

-----------------------------------------------------------------------------
(* A calculator at the passive end.                                        *)

Starts(e, bs) == IsPrefix(bs, wire[e])

(* What it may answer to the first bytes it has, and how many it takes.    *)
Answers ==
  CASE kind["passive"] = "seven" ->
         IF Starts("passive", Check) THEN {<<6, Ack>>}
         ELSE IF Starts("passive", HalfDiscover) THEN {<<6, Nak>>, <<6, <<>>>>} ELSE {<<1, <<>>>>}
    [] kind["passive"] = "cas" -> {<<1, IF Starts("passive", <<"16">>) THEN <<"13">> ELSE <<>>>>}
    [] kind["passive"] = "classpad_new" ->
         IF Starts("passive", <<"16">>) THEN {<<1, <<"13">>>>, <<1, <<"00", "00">>>>}
         ELSE {<<1, <<"05">>>>, <<1, <<>>>>}
    [] kind["passive"] = "classpad_used" ->
         IF Starts("passive", HalfDiscover \o RestOfDiscover)
         THEN {<<13, IF expected = 0 THEN Cas300Ack \o <<"01", "info">> ELSE <<"15", "d", "d">>>>,
               <<13, IF expected = 0 THEN Cas300Ack \o <<"18", "d", "end">> ELSE <<"15", "d", "d">>>>}
         ELSE {<<1, <<>>>>}
    [] OTHER -> {<<1, <<>>>>}

CalculatorAnswers ==
  /\ kind["passive"] # "library" /\ PassiveReacts
  /\ \E a \in Answers : TakeAndSend("passive", a[1], a[2])
  /\ UNCHANGED <<setting, counts, endVars, activeVars>>

(* A notice of a ClassPad that is woken up.                                *)
Notice ==
  /\ kind["passive"] = "classpad_new" /\ pc["active"] \in {"init", "init_nul"}
  /\ notices < MaxNotices /\ notices' = notices + 1
  /\ TakeAndSend("passive", 0, <<"09">>)
  /\ UNCHANGED <<setting, faults, late, endVars, activeVars>>

(* One at the active end.                                                  *)
CalculatorSends ==
  /\ kind["active"] \notin {"none", "library"} /\ pc["passive"] = "first"
  /\ wire = [e \in Ends |-> <<>>]
  /\ notices < MaxNotices + 1
  /\ \/ notices < MaxNotices /\ notices' = notices + 1
          /\ kind["active"] = "seven" /\ TakeAndSend("active", 0, <<"10">>)
     \/ /\ notices' = MaxNotices + 1
        /\ TakeAndSend("active", 0, CASE kind["active"] = "seven"  -> Check
                                      [] kind["active"] = "screen" -> <<"0B", "d">>
                                      [] OTHER                     -> <<"16">>)
  /\ UNCHANGED <<setting, faults, late, endVars, activeVars>>

-----------------------------------------------------------------------------
Active == ProbeUnanswered \/ AnsweredNul \/ AnsweredFive \/ MoreFives \/ InitiationUnanswered
  \/ Initiation \/ AnsweredAck \/ AckReceived \/ AckEnds \/ Information \/ AnsweredEstablished
  \/ AnsweredNak \/ NakReceived \/ NakEnds \/ OutOfOrder \/ AnsweredUnknown \/ Unknown

Passive == CheckBegins \/ ScreenBegins \/ OtherBegins \/ StartReceived \/ UnknownReceived

Device == CalculatorAnswers \/ CalculatorSends

Next == Begin \/ OpenActive \/ OpenPassive \/ Active \/ Passive \/ Device \/ Notice
          \/ Lose \/ Damage \/ \E e \in Ends : TransportFails(e)

(* A detection that was called runs, and a calculator goes on.             *)
Spec == Init /\ [][Next]_vars /\ WF_vars(Active) /\ WF_vars(Passive) /\ WF_vars(Device)

-----------------------------------------------------------------------------
TypeOK ==
  /\ wire \in [Ends -> Seq(Bytes)]
  /\ faults \in 0 .. MaxFaults /\ late \in 0 .. MaxLate /\ notices \in 0 .. MaxNotices + 1
  /\ pc \in [Ends -> Places] /\ buf \in Seq(Bytes)
  /\ attempts \in 0 .. Attempts \cup 0 .. InitAttempts
  /\ protocol \in [Ends -> Protocols \cup {"none"}] /\ discovered \in BOOLEAN
  /\ next_id \in 0 .. 1

(* What an end that is not the library speaks: a ClassPad 300 that starts  *)
(* does as other calculators do.                                           *)
Speaks(e) ==
  CASE kind[e] = "seven" -> {"SEVEN"}
    [] kind[e] = "screen" -> {"SEVEN_OHP"}
    [] kind[e] \in {"cas", "classpad", "classpad_new"} -> CasiolinkVariants \cup {"CAS"}
    [] kind[e] = "classpad_used" -> {"CAS300"}
    [] OTHER -> {}

(* The protocol that was found is the one the other end speaks, and both   *)
(* ends of the library find the same one, whatever is lost, damaged or     *)
(* late: no byte of an answer passes for that of another protocol.  The    *)
(* session starts from the identifier the ClassPad expects, but for the    *)
(* one the detection used.                                                 *)
ProtocolIsSpoken ==
  /\ \A e \in Ends :
       kind[e] = "library" /\ result[e] = "OK" /\ kind[Other(e)] # "library"
         => protocol[e] \in Speaks(Other(e))
  /\ (\A e \in Ends : kind[e] = "library" /\ result[e] = "OK")
       => (protocol["active"] = "SEVEN" <=> protocol["passive"] = "SEVEN")
  /\ kind["passive"] = "classpad_used" /\ result["active"] = "OK"
       => next_id = expected /\ (discovered <=> expected = 0)

(* The session finds nothing left over from the detection, unless an answer *)
(* was damaged or came too late.  After 0x00, which has another byte that   *)
(* is left to be read, it may.                                              *)
NothingLeftOver ==
  result["active"] = "OK" /\ faults + late + notices = 0 /\ buf # <<"00">>
    => wire["active"] = <<>>

(* What the detection was asked for is what the device at the other end    *)
(* can be found by.                                                        *)
Looked ==
  CASE kind["passive"] \in {"seven", "library"} -> TRUE
    [] kind["passive"] = "cas" -> asked["active"] \in CasiolinkVariants
    [] kind["passive"] = "classpad_new" -> asked["active"] \in {"CAS300", "USB"} /\ InitAttempts > MaxNotices
    [] OTHER -> FALSE

=============================================================================
