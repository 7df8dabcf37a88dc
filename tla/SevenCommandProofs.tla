------------------------- MODULE SevenCommandProofs -------------------------
(***************************************************************************)
(* Proofs about a session of commands, for any numbers of attempts, of     *)
(* commands and of faults of the wire: what the properties of SevenCommand *)
(* say, and that the session implements CommandService; and about a screen *)
(* that is watched (SevenOhp), for any numbers of losses, damages, pauses  *)
(* and restarts.                                                           *)
(***************************************************************************)
EXTENDS SevenSessions, SequenceTheorems, TLAPS

(* What is asked of the link: that a session in which answers may be late  *)
(* starts with a discovery, which is what keeps the late answers to the    *)
(* initial checks from being taken for those of a command.                 *)
Discovers == Discover \/ MaxLate = 0

Same(p, q) == p.kind = q.kind /\ p.id = q.id

Sent == 1 .. Len(toDevice)
Answered == 1 .. Len(toHost)

Quiet == toDevice = <<>> /\ toHost = <<>>

-----------------------------------------------------------------------------
(* Where the program and the exchange are.                                 *)
Stages ==
  /\ phase # "receive"
  /\ phase \in {"answer", "check"} => Usable
  /\ phase = "done" => outcome # "none" /\ (outcome = "OK" => Usable)
  /\ packet.intact
  /\ packet.kind = "command" => packet.id \in {0, calls}
  /\ session = "closed" => phase = "idle" /\ Usable /\ calls = 0 /\ packet = NoPacket
  /\ session = "initiating" =>
       /\ phase \in {"answer", "done"} /\ packet = initial_check_packet
       /\ flags = {"no_timeout"} /\ calls = 0
       /\ ~irrecoverable /\ (gone => outcome = "GONE" /\ phase = "done")
  /\ session = "discovering" =>
       /\ calls = 0
       /\ phase = "idle" => Usable /\ packet = initial_check_packet
       /\ phase # "idle" => packet = discovery_packet /\ flags = {}
  /\ session \in {"open", "ended"} => phase = "idle"
  /\ session = "command" =>
       phase # "idle" /\ packet = Packet("command", calls) /\ flags = {} /\ calls > 0
  /\ session = "terminating" =>
       phase # "idle" /\ packet = terminate_packet /\ flags = {}

(* What may be on the wire, as a packet or as what an answer answers: the  *)
(* packet of the last exchange, the check of the exchange in progress, and *)
(* initial checks until the session is open.                               *)
Expected(p) ==
  \/ Same(p, packet)
  \/ p.kind = "check" /\ p.id = 0 /\ (phase = "check" \/ ~Usable)
  \/ p.kind = "init" /\ p.id = 0 /\ session \in {"initiating", "discovering", "ended"}

Members ==
  /\ \A i \in Sent : Expected(toDevice[i])
  /\ \A i \in Answered : Expected(toHost[i].to)

(* The order in which they come: initial checks, one packet, its check.    *)
Before(p, q) == p.kind = "init" \/ (q.kind = "check" /\ p.kind # "check")

InOrder ==
  /\ \A i, j \in Sent : i < j => Before(toDevice[i], toDevice[j])
  /\ \A i, j \in Answered : i < j => Before(toHost[i].to, toHost[j].to)
  /\ \A i \in Answered, j \in Sent : Before(toHost[i].to, toDevice[j])

(* On a wire without late answers there is one packet, or its answer.      *)
Alone ==
  late = 0 =>
    /\ toDevice = <<>> \/ toHost = <<>>
    /\ Len(toDevice) <= 1 /\ Len(toHost) <= 1
    /\ phase \in {"idle", "done"} /\ ~gone => Quiet
    /\ phase = "check" =>
         /\ \A i \in Sent : toDevice[i].kind = "check"
         /\ \A i \in Answered : toHost[i].to.kind = "check"

(* What the answers are to their packets.                                  *)
Genuine(a) == a.kind \in Replies(a.to) \cup {"damaged", "other"}

Answers ==
  /\ \A i \in Answered : Genuine(toHost[i])
  /\ answer = NoAnswer \/ Genuine(answer)
  /\ damaged = 0 =>
       /\ \A i \in Sent : toDevice[i].intact
       /\ \A i \in Answered : toHost[i].to.intact /\ toHost[i].kind \in Replies(toHost[i].to)

(* What is left once the exchange is over.                                 *)
Over ==
  /\ phase = "done" /\ outcome = "OK" =>
       \/ Same(answer.to, packet)
       \/ session = "discovering" /\ answer.to.kind = "init" /\ answer.to.id = 0
  /\ phase = "done" /\ Usable /\ session \in {"command", "terminating"} => Quiet
  /\ phase = "done" /\ Usable /\ session = "discovering"
       /\ outcome = "OK" /\ answer.kind = "ack_extended" => Quiet
  /\ session \in {"closed", "open"} /\ Usable => Quiet

(* What is acknowledged is carried out, and nothing is before it is given. *)
Acknowledged(a) ==
  a.kind = "ack" /\ a.to.kind = "command" =>
    a.to.id \in 1 .. MaxCalls /\ executed[a.to.id] > 0

CarriedOut ==
  /\ \A i \in Answered : Acknowledged(toHost[i])
  /\ Acknowledged(answer)
  /\ \A c \in 1 .. MaxCalls : c > calls => executed[c] = 0

(* A command that is still to be carried out, or that may be sent again,   *)
(* was carried out once less.                                              *)
Unanswered(p) == \A i \in Answered : Same(toHost[i].to, p) => toHost[i].kind = "resend"

OncePerLoss ==
  /\ CarriedOutOncePerLoss
  /\ \A i \in Sent : toDevice[i].kind = "command" /\ toDevice[i].id > 0 =>
       executed[toDevice[i].id] <= lost
  /\ session = "command" /\ phase \in {"answer", "check"} /\ Unanswered(packet) =>
       executed[calls] <= lost

(* How many faults it takes.                                               *)
Faults ==
  /\ OneFaultIsSurvived
  /\ late = 0 /\ phase = "answer" /\ Quiet => lost + damaged >= 1
  /\ late = 0 /\ phase = "check" => lost + damaged >= 1
  /\ late = 0 /\ phase = "check" /\ Quiet => lost + damaged >= 2
  /\ late = 0 /\ phase = "check" =>
       \A i \in Answered : toHost[i].kind # "resend" => lost + damaged >= 2

IInv ==
  /\ TypeOK /\ Orderly /\ Stages /\ Members /\ InOrder /\ Alone /\ Answers /\ Over
  /\ CarriedOut /\ OncePerLoss /\ Faults

-----------------------------------------------------------------------------
LEMMA TailOf ==
  ASSUME NEW S, NEW s \in Seq(S), s # <<>>
  PROVE  /\ Tail(s) \in Seq(S) /\ Len(Tail(s)) = Len(s) - 1 /\ Len(s) \in Nat \ {0}
         /\ Head(s) = s[1] /\ s[1] \in S
         /\ \A i \in 1 .. Len(Tail(s)) : Tail(s)[i] = s[i + 1] /\ i + 1 \in 1 .. Len(s)
OBVIOUS

LEMMA AppendOf ==
  ASSUME NEW S, NEW s \in Seq(S), NEW x \in S
  PROVE  /\ Append(s, x) \in Seq(S) /\ Len(Append(s, x)) = Len(s) + 1 /\ Len(s) \in Nat
         /\ \A i \in 1 .. Len(s) : Append(s, x)[i] = s[i]
         /\ Append(s, x)[Len(s) + 1] = x
OBVIOUS

LEMMA Packets ==
  /\ initial_check_packet \in HostPackets /\ initial_check_packet.intact
  /\ initial_check_packet.kind = "init" /\ initial_check_packet.id = 0
  /\ discovery_packet \in HostPackets /\ discovery_packet.intact
  /\ discovery_packet.kind = "command" /\ discovery_packet.id = 0
  /\ terminate_packet \in HostPackets /\ terminate_packet.intact
  /\ terminate_packet.kind = "term" /\ terminate_packet.id = 0
  /\ timeout_check_packet \in HostPackets /\ timeout_check_packet.intact
  /\ timeout_check_packet.kind = "check" /\ timeout_check_packet.id = 0
  /\ NoPacket \in HostPackets /\ NoPacket.intact
  /\ NoPacket.kind = "none" /\ NoPacket.id = 0
  /\ \A n \in Nat : /\ Packet("command", n) \in HostPackets /\ Packet("command", n).intact
                   /\ Packet("command", n).kind = "command" /\ Packet("command", n).id = n
  /\ NoAnswer \in DevicePackets /\ NoAnswer.kind = "none"
BY DEF initial_check_packet, discovery_packet, terminate_packet, timeout_check_packet, NoPacket,
       NoAnswer, Answer, Numbered, Packet, HostPackets, DevicePackets, PacketKinds, AnswerKinds

LEMMA RepliesAre ==
  ASSUME NEW p \in HostPackets
  PROVE  /\ Replies(p) \subseteq {"resend", "ack", "ack_extended", "error"}
         /\ "ack_extended" \in Replies(p) => p = discovery_packet
         /\ "ack" \in Replies(p) /\ p.kind = "command" => p.id # 0
         /\ "resend" \in Replies(p) /\ p.intact => p.kind = "check"
         /\ p.kind = "check" => Replies(p) = {"resend"}
BY Packets DEF Replies, discovery_packet, Packet, HostPackets

-----------------------------------------------------------------------------
(* What a reception takes.                                                 *)
LEMMA Taken ==
  ASSUME IInv, NEW kinds \in SUBSET AnswerKinds, Receive(kinds)
  PROVE  /\ 1 \in Answered /\ toHost[1] \in DevicePackets /\ toHost[1].kind \in kinds
         /\ toHost' \in Seq(DevicePackets) /\ Len(toHost') = Len(toHost) - 1
         /\ \A i \in Answered' : toHost'[i] = toHost[i + 1] /\ i + 1 \in Answered
         /\ answer' = IF toHost[1].kind = "damaged" THEN answer ELSE toHost[1]
         /\ UNCHANGED <<lost, damaged, late, packet, flags, gone>>
<1>1. toHost \in Seq(DevicePackets) /\ toHost # <<>> /\ toHost' = Tail(toHost)
  BY DEF IInv, TypeOK, ExchangeTypeOK, Receive
<1>2. /\ Tail(toHost) \in Seq(DevicePackets) /\ Len(Tail(toHost)) = Len(toHost) - 1
      /\ Len(toHost) \in Nat \ {0} /\ Head(toHost) = toHost[1] /\ toHost[1] \in DevicePackets
      /\ \A i \in 1 .. Len(Tail(toHost)) : Tail(toHost)[i] = toHost[i + 1] /\ i + 1 \in 1 .. Len(toHost)
  BY <1>1, TailOf
<1> QED
  BY <1>1, <1>2 DEF Receive, Answered

(* The order of a wire that has lost its first packet of either direction. *)
LEMMA OrderAfterLoss ==
  ASSUME TypeOK, InOrder,
         \/ toHost # <<>> /\ toHost' = Tail(toHost) /\ toDevice' = toDevice
         \/ toDevice # <<>> /\ toDevice' = Tail(toDevice) /\ toHost' = toHost
  PROVE  InOrder'
<1>1. CASE toHost # <<>> /\ toHost' = Tail(toHost) /\ toDevice' = toDevice
  <2>1. \A i \in Answered' : toHost'[i] = toHost[i + 1] /\ i + 1 \in Answered
    BY <1>1, TailOf DEF TypeOK, ExchangeTypeOK, Answered
  <2>2. \A i, j \in Answered' : i < j => i + 1 < j + 1
    BY DEF Answered
  <2> QED
    BY <1>1, <2>1, <2>2 DEF InOrder, Sent
<1>2. CASE toDevice # <<>> /\ toDevice' = Tail(toDevice) /\ toHost' = toHost
  <2>1. \A i \in Sent' : toDevice'[i] = toDevice[i + 1] /\ i + 1 \in Sent
    BY <1>2, TailOf DEF TypeOK, ExchangeTypeOK, Sent
  <2>2. \A i, j \in Sent' : i < j => i + 1 < j + 1
    BY DEF Sent
  <2> QED
    BY <1>2, <2>1, <2>2 DEF InOrder, Answered
<1> QED
  BY <1>1, <1>2

(* Nothing follows the answer that ends an exchange, but the answer to its *)
(* check, and nothing follows that.                                        *)
LEMMA LastTaken ==
  ASSUME IInv, NEW kinds \in SUBSET AnswerKinds, Receive(kinds),
         phase \in {"answer", "check"},
         \/ toHost[1].to.kind = "check"
         \/ phase = "answer" /\ Same(toHost[1].to, packet) /\ session # "initiating"
         \/ late = 0
  PROVE  toDevice = <<>> /\ toHost' = <<>>
<1>1. /\ 1 \in Answered /\ toHost[1] \in DevicePackets /\ toHost[1].kind \in kinds
      /\ toHost' \in Seq(DevicePackets) /\ Len(toHost') = Len(toHost) - 1
  BY Taken
<1>2. toHost \in Seq(DevicePackets) /\ toDevice \in Seq(HostPackets)
  BY DEF IInv, TypeOK, ExchangeTypeOK
<1>3. CASE late = 0
  <2>1. toDevice = <<>> /\ Len(toHost) = 1
    BY <1>1, <1>2, <1>3 DEF IInv, Alone, Answered
  <2> QED
    BY <1>1, <2>1
<1>4. CASE late # 0
  <2>1. toHost[1].to.kind # "init"
    BY <1>4, Packets DEF IInv, Stages, Same, TypeOK, Sessions
  <2>2. ASSUME NEW i \in Answered, i > 1 PROVE FALSE
    <3>1. toHost[i].to.kind = "check" /\ toHost[1].to.kind # "check"
      BY <1>1, <2>1, <2>2 DEF IInv, InOrder, Before
    <3> QED
      BY <1>4, <3>1 DEF IInv, Members, Expected, Stages, Same
  <2>3. ASSUME NEW i \in Sent PROVE FALSE
    <3>1. toDevice[i].kind = "check" /\ toHost[1].to.kind # "check"
      BY <1>1, <2>1, <2>3 DEF IInv, InOrder, Before
    <3> QED
      BY <1>4, <3>1 DEF IInv, Members, Expected, Stages, Same
  <2>4. Len(toHost) = 1 /\ Len(toDevice) = 0
    BY <1>1, <1>2, <2>2, <2>3 DEF Answered, Sent
  <2> QED
    BY <1>1, <1>2, <2>4
<1> QED
  BY <1>3, <1>4

LEMMA ReceiveAnswerPreserves ==
  ASSUME IInv, ReceiveAnswer, UNCHANGED sessionVars, Orderly'
  PROVE  IInv'
<1>1. phase = "answer" /\ Receive(AnswerKinds \ {"damaged", "resend"}) /\ phase' = "done" /\ outcome' = "OK"
      /\ UNCHANGED <<toDevice, attempts, irrecoverable>>
  BY DEF ReceiveAnswer, Finish, IInv, Stages
<1>2. /\ 1 \in Answered /\ toHost[1] \in DevicePackets /\ toHost[1].kind \in AnswerKinds \ {"damaged", "resend"}
      /\ toHost' \in Seq(DevicePackets) /\ Len(toHost') = Len(toHost) - 1
      /\ \A i \in Answered' : toHost'[i] = toHost[i + 1] /\ i + 1 \in Answered
      /\ answer' = toHost[1]
      /\ UNCHANGED <<lost, damaged, late, packet, flags, gone>>
  BY <1>1, Taken
<1>3. UNCHANGED <<session, tries, calls, result, executed>>
  BY DEF sessionVars
<1>4. Usable /\ Usable' /\ Sent' = Sent /\ session \in {"initiating", "discovering", "command", "terminating"}
  BY <1>1, <1>2, <1>3 DEF IInv, Stages, Usable, Sent, TypeOK, Sessions
<1>5. TypeOK'
  BY <1>1, <1>2, <1>3 DEF IInv, TypeOK, ExchangeTypeOK, Outcomes
<1>6. Stages'
  BY <1>1, <1>2, <1>3, <1>4 DEF IInv, Stages
<1>7. Members'
  BY <1>1, <1>2, <1>3, <1>4 DEF IInv, Members, Expected
<1>8. InOrder'
  BY <1>1, OrderAfterLoss DEF IInv, Receive
<1>9. Alone'
  BY <1>1, <1>2, <1>3, <1>4 DEF IInv, Alone, Quiet, Answered, TypeOK, ExchangeTypeOK
<1>10. Answers'
  BY <1>1, <1>2, <1>3, <1>4 DEF IInv, Answers, Genuine, Replies
<1>11. Over'
  <2>1. Expected(toHost[1].to)
    BY <1>2 DEF IInv, Members
  <2>2. \/ Same(toHost[1].to, packet)
        \/ session \in {"initiating", "discovering"} /\ toHost[1].to.kind = "init" /\ toHost[1].to.id = 0
    BY <1>1, <1>4, <2>1 DEF Expected
  <2>3. \/ Same(toHost[1].to, packet)
        \/ session = "discovering" /\ toHost[1].to.kind = "init" /\ toHost[1].to.id = 0
    BY <2>2, Packets DEF IInv, Stages, Same
  <2>4. session \in {"command", "terminating"} => Quiet'
    BY <1>1, <2>2, LastTaken DEF Quiet
  <2>5. session = "discovering" /\ toHost[1].kind = "ack_extended" => Quiet'
    <3> SUFFICES ASSUME session = "discovering", toHost[1].kind = "ack_extended" PROVE Quiet'
      OBVIOUS
    <3>1. toHost[1].to \in HostPackets /\ Genuine(toHost[1])
      BY <1>2 DEF IInv, Answers, DevicePackets
    <3>2. toHost[1].to = discovery_packet /\ packet = discovery_packet
      BY <1>1, <3>1, RepliesAre DEF Genuine, IInv, Stages
    <3> QED
      BY <1>1, <3>2, LastTaken DEF Same, Quiet
  <2> QED
    BY <1>1, <1>2, <1>3, <1>4, <2>3, <2>4, <2>5 DEF Over, Same
<1>12. CarriedOut'
  BY <1>1, <1>2, <1>3, <1>4 DEF IInv, CarriedOut, Acknowledged
<1>13. OncePerLoss'
  BY <1>1, <1>2, <1>3, <1>4 DEF IInv, OncePerLoss, CarriedOutOncePerLoss
<1>14. Faults'
  BY <1>1, <1>2, <1>3, <1>4 DEF IInv, Faults, OneFaultIsSurvived
<1> QED
  BY <1>5, <1>6, <1>7, <1>8, <1>9, <1>10, <1>11, <1>12, <1>13, <1>14 DEF IInv

LEMMA ReceiveDamagedPreserves ==
  ASSUME IInv, ReceiveDamaged, UNCHANGED sessionVars, Orderly'
  PROVE  IInv'
<1>1. phase \in {"answer", "check"} /\ Receive({"damaged"}) /\ phase' = "done" /\ outcome' \in DamageErrors
      /\ UNCHANGED <<toDevice, attempts, irrecoverable>>
  BY DEF ReceiveDamaged, Finish, IInv, Stages
<1>2. /\ 1 \in Answered /\ toHost[1] \in DevicePackets /\ toHost[1].kind = "damaged"
      /\ answer' = answer
      /\ UNCHANGED <<lost, damaged, late, packet, flags, gone>>
  BY <1>1, Taken DEF AnswerKinds
<1>3. UNCHANGED <<session, tries, calls, result, executed>>
  BY DEF sessionVars
<1>4. Usable /\ Usable' /\ session \in {"initiating", "discovering", "command", "terminating"}
  BY <1>1, <1>2, <1>3 DEF IInv, Stages, Usable, TypeOK, Sessions
<1>5. late = 0
  <2>1. toHost[1].to \in HostPackets
    BY <1>2 DEF DevicePackets
  <2>2. "damaged" \notin Replies(toHost[1].to)
    BY <2>1, RepliesAre
  <2>3. damaged # 0
    BY <1>2, <2>2 DEF IInv, Answers
  <2> QED
    BY <2>3 DEF IInv, Orderly
<1>6. toDevice' = <<>> /\ toHost' = <<>>
  BY <1>1, <1>5, LastTaken DEF AnswerKinds
<1>7. Sent' = {} /\ Answered' = {}
  BY <1>6 DEF Sent, Answered
<1>8. TypeOK'
  BY <1>1, <1>2, <1>3, <1>6 DEF IInv, TypeOK, ExchangeTypeOK, Outcomes
<1>9. Stages'
  BY <1>1, <1>2, <1>3, <1>4 DEF IInv, Stages, DamageErrors
<1>10. Members' /\ InOrder'
  BY <1>7 DEF Members, InOrder
<1>11. Alone' /\ Over'
  BY <1>1, <1>6, <1>7 DEF Alone, Over, Quiet, DamageErrors
<1>12. Answers' /\ CarriedOut'
  BY <1>2, <1>3, <1>7 DEF IInv, Answers, CarriedOut, Genuine, Replies, Acknowledged
<1>13. OncePerLoss' /\ Faults'
  BY <1>1, <1>2, <1>3, <1>7 DEF IInv, OncePerLoss, CarriedOutOncePerLoss, Faults, OneFaultIsSurvived
<1> QED
  BY <1>8, <1>9, <1>10, <1>11, <1>12, <1>13 DEF IInv

(* The packet is sent again over a wire with nothing on it.                *)
LEMMA TryAgainPreserves ==
  ASSUME IInv, phase \in {"answer", "check"}, NEW n \in 0 .. Attempts, TryAgain(n),
         toDevice = <<>>, toHost' = <<>>, Genuine(answer'), answer' \in DevicePackets, Acknowledged(answer'),
         session = "command" => executed[calls] <= lost,
         UNCHANGED <<lost, damaged, late, packet, flags, gone, irrecoverable>>,
         UNCHANGED sessionVars
  PROVE  IInv'
<1>1. UNCHANGED <<session, tries, calls, result, executed>>
  BY DEF sessionVars
<1>2. Usable /\ Usable' /\ session \in {"initiating", "discovering", "command", "terminating"}
  BY <1>1 DEF IInv, Stages, Usable, TypeOK, Sessions
<1>3. Answered' = {} /\ Genuine(answer)' /\ Acknowledged(answer)'
  BY <1>1 DEF Answered, Genuine, Replies, Acknowledged
<1>4. packet \in HostPackets /\ packet.intact
  BY DEF IInv, TypeOK, ExchangeTypeOK, Stages
<1>5. CASE n > 1
  <2>1. phase' = "answer" /\ attempts' = n - 1 /\ toDevice' = Append(toDevice, packet) /\ UNCHANGED outcome
    BY <1>5 DEF TryAgain
  <2>2. toDevice' \in Seq(HostPackets) /\ Len(toDevice') = 1 /\ toDevice'[1] = packet /\ Sent' = {1}
    BY <1>4, <2>1, AppendOf DEF Sent
  <2>3. TypeOK'
    BY <1>1, <1>5, <2>1, <2>2, AttemptsAssumption DEF IInv, TypeOK, ExchangeTypeOK
  <2>4. Stages'
    BY <1>1, <1>2, <2>1 DEF IInv, Stages
  <2>5. Members' /\ InOrder'
    BY <1>3, <2>2 DEF Members, InOrder, Expected, Same
  <2>6. Alone' /\ Over'
    <3>1. Len(toHost') = 0
      OBVIOUS
    <3> QED
      BY <1>1, <1>2, <2>1, <2>2, <3>1 DEF Alone, Over
  <2>7. Answers' /\ CarriedOut'
    BY <1>1, <1>3, <1>4, <2>2 DEF IInv, Answers, CarriedOut
  <2>8. OncePerLoss'
    <3>1. packet.kind = "command" /\ packet.id > 0 => packet.id = calls /\ session = "command"
      BY <1>2, Packets DEF IInv, Stages
    <3> QED
      BY <1>1, <2>1, <2>2, <3>1 DEF IInv, OncePerLoss, CarriedOutOncePerLoss, Unanswered
  <2>9. Faults'
    BY <1>1, <2>1, <2>2 DEF IInv, Faults, OneFaultIsSurvived, Quiet
  <2> QED
    BY <2>3, <2>4, <2>5, <2>6, <2>7, <2>8, <2>9 DEF IInv, Orderly
<1>6. CASE ~(n > 1)
  <2>1. phase' = "done" /\ outcome' = "CORRUPT" /\ attempts' = 0 /\ toDevice' = <<>> /\ Sent' = {}
    BY <1>6 DEF TryAgain, Finish, Sent
  <2>3. TypeOK'
    BY <1>1, <2>1, AttemptsAssumption DEF IInv, TypeOK, ExchangeTypeOK, Outcomes, DamageErrors
  <2>4. Stages'
    BY <1>1, <1>2, <2>1 DEF IInv, Stages
  <2>5. Members' /\ InOrder' /\ Alone' /\ Over'
    BY <1>3, <2>1 DEF Members, InOrder, Alone, Over, Quiet
  <2>6. Answers' /\ CarriedOut'
    BY <1>1, <1>3, <2>1 DEF IInv, Answers, CarriedOut
  <2>7. OncePerLoss' /\ Faults'
    BY <1>1, <1>3, <2>1 DEF IInv, OncePerLoss, CarriedOutOncePerLoss, Faults, OneFaultIsSurvived
  <2> QED
    BY <2>3, <2>4, <2>5, <2>6, <2>7 DEF IInv, Orderly
<1> QED
  BY <1>5, <1>6

(* What a request to send again says, and that nothing else is on the wire. *)
LEMMA ResendTaken ==
  ASSUME IInv, Receive({"resend"}), phase \in {"answer", "check"}
  PROVE  /\ toDevice = <<>> /\ toHost' = <<>>
         /\ answer' \in DevicePackets /\ Genuine(answer') /\ Acknowledged(answer')
         /\ session = "command" => executed[calls] <= lost
         /\ UNCHANGED <<lost, damaged, late, packet, flags, gone>>
<1>1. /\ 1 \in Answered /\ toHost[1] \in DevicePackets /\ toHost[1].kind = "resend"
      /\ Len(toHost') = Len(toHost) - 1
      /\ answer' = toHost[1]
      /\ UNCHANGED <<lost, damaged, late, packet, flags, gone>>
  BY Taken DEF AnswerKinds
<1>2. late = 0 \/ toHost[1].to.kind = "check"
  <2>1. toHost[1].to \in HostPackets
    BY <1>1 DEF DevicePackets
  <2>2. damaged = 0 => toHost[1].to.kind = "check"
    BY <1>1, <2>1, RepliesAre DEF IInv, Answers
  <2> QED
    BY <2>2 DEF IInv, Orderly
<1>3. toDevice = <<>> /\ toHost' = <<>>
  BY <1>2, LastTaken DEF AnswerKinds
<1>4. Len(toHost) = 1
  BY <1>1, <1>3 DEF IInv, TypeOK, ExchangeTypeOK
<1>5. Unanswered(packet)
  BY <1>1, <1>4 DEF Unanswered, Answered
<1>6. Genuine(answer') /\ Acknowledged(answer')
  BY <1>1 DEF IInv, Answers, Genuine, Acknowledged
<1> QED
  BY <1>1, <1>3, <1>5, <1>6 DEF IInv, OncePerLoss

LEMMA ReceiveResendPreserves ==
  ASSUME IInv, ReceiveResend, UNCHANGED sessionVars, Orderly'
  PROVE  IInv'
<1>1. phase = "answer" /\ Receive({"resend"}) /\ TryAgain(attempts) /\ UNCHANGED irrecoverable
  BY DEF ReceiveResend, IInv, Stages
<1>2. attempts \in 0 .. Attempts
  BY DEF IInv, TypeOK, ExchangeTypeOK
<1> QED
  BY <1>1, <1>2, ResendTaken, TryAgainPreserves

LEMMA ReceiveCheckAnswerPreserves ==
  ASSUME IInv, ReceiveCheckAnswer, UNCHANGED sessionVars, Orderly'
  PROVE  IInv'
<1>1. CASE Receive({"resend"}) /\ TryAgain(InitialAttempts(flags)) /\ UNCHANGED irrecoverable
  <2>1. phase = "check" /\ InitialAttempts(flags) \in 0 .. Attempts
    BY AttemptsAssumption DEF ReceiveCheckAnswer, InitialAttempts
  <2> QED
    BY <1>1, <2>1, ResendTaken, TryAgainPreserves
<1>2. CASE /\ Receive(AnswerKinds \ {"damaged", "resend"})
           /\ irrecoverable' = TRUE
           /\ Finish("TIMEOUT_START") /\ UNCHANGED <<toDevice, attempts>>
  <2>1. /\ 1 \in Answered /\ toHost[1] \in DevicePackets /\ toHost[1].kind \in AnswerKinds \ {"damaged", "resend"}
        /\ toHost' \in Seq(DevicePackets) /\ Len(toHost') = Len(toHost) - 1
        /\ \A i \in Answered' : toHost'[i] = toHost[i + 1] /\ i + 1 \in Answered
        /\ answer' = toHost[1]
        /\ UNCHANGED <<lost, damaged, late, packet, flags, gone>>
    BY <1>2, Taken
  <2>2. UNCHANGED <<session, tries, calls, result, executed>>
    BY DEF sessionVars
  <2>3. /\ phase = "check" /\ phase' = "done" /\ outcome' = "TIMEOUT_START" /\ irrecoverable' = TRUE
        /\ UNCHANGED <<toDevice, attempts>>
    BY <1>2 DEF ReceiveCheckAnswer, Finish
  <2>4. Usable /\ ~Usable' /\ Sent' = Sent /\ session \in {"discovering", "command", "terminating"}
    BY <2>2, <2>3 DEF IInv, Stages, Usable, Sent, TypeOK, Sessions
  <2>5. TypeOK'
    BY <2>1, <2>2, <2>3 DEF IInv, TypeOK, ExchangeTypeOK, Outcomes
  <2>6. Stages'
    BY <2>1, <2>2, <2>3, <2>4 DEF IInv, Stages
  <2>7. Members'
    BY <2>1, <2>2, <2>3, <2>4 DEF IInv, Members, Expected
  <2>8. InOrder'
    BY <1>2, OrderAfterLoss DEF IInv, Receive
  <2>9. Alone'
    BY <2>1, <2>2, <2>3, <2>4 DEF IInv, Alone, Quiet, Answered, TypeOK, ExchangeTypeOK
  <2>10. Answers'
    BY <2>1, <2>2, <2>3, <2>4 DEF IInv, Answers, Genuine, Replies
  <2>11. Over'
    BY <2>2, <2>3, <2>4 DEF Over
  <2>12. CarriedOut'
    BY <2>1, <2>2, <2>3, <2>4 DEF IInv, CarriedOut, Acknowledged
  <2>13. OncePerLoss'
    BY <2>1, <2>2, <2>3, <2>4 DEF IInv, OncePerLoss, CarriedOutOncePerLoss
  <2>14. Faults'
    <3>1. late = 0 => lost + damaged >= 2
      BY <2>1, <2>3 DEF IInv, Faults
    <3>2. lost \in Nat /\ damaged \in Nat
      BY DEF IInv, TypeOK, ExchangeTypeOK
    <3> QED
      BY <2>1, <2>3, <3>1, <3>2 DEF Faults, OneFaultIsSurvived
  <2> QED
    BY <2>5, <2>6, <2>7, <2>8, <2>9, <2>10, <2>11, <2>12, <2>13, <2>14 DEF IInv
<1> QED
  BY <1>1, <1>2 DEF ReceiveCheckAnswer

LEMMA AnswerTimesOutPreserves ==
  ASSUME IInv, AnswerTimesOut, UNCHANGED sessionVars, Orderly'
  PROVE  IInv'
<1>1. /\ phase = "answer" /\ toHost = <<>> /\ toHost' = <<>>
      /\ late' \in 0 .. MaxLate /\ (late' = 0 => late = 0 /\ toDevice = <<>>)
      /\ UNCHANGED <<lost, damaged, packet, flags, attempts, answer, irrecoverable, gone>>
  BY FaultsAssumption DEF AnswerTimesOut, TimeRunsOut, IInv, Stages, TypeOK, ExchangeTypeOK
<1>2. UNCHANGED <<session, tries, calls, result, executed>>
  BY DEF sessionVars
<1>3. Usable /\ Usable' /\ session \in {"initiating", "discovering", "command", "terminating"}
  BY <1>1, <1>2 DEF IInv, Stages, Usable, TypeOK, Sessions
<1>4. Answered = {} /\ Answered' = {}
  BY <1>1 DEF Answered
<1>5. CASE "no_timeout" \in flags
  <2>1. phase' = "done" /\ outcome' = "TIMEOUT_START" /\ UNCHANGED toDevice /\ Sent' = Sent
    BY <1>1, <1>5 DEF AnswerTimesOut, Finish, Sent
  <2>2. session = "initiating"
    BY <1>1, <1>3, <1>5 DEF IInv, Stages
  <2>3. TypeOK'
    BY <1>1, <1>2, <2>1 DEF IInv, TypeOK, ExchangeTypeOK, Outcomes
  <2>4. Stages'
    BY <1>1, <1>2, <1>3, <2>1, <2>2 DEF IInv, Stages
  <2>5. Members' /\ InOrder'
    BY <1>1, <1>2, <1>3, <1>4, <2>1 DEF IInv, Members, InOrder, Expected
  <2>6. Alone' /\ Over'
    <3>1. Len(toHost') = 0
      BY <1>1
    <3>2. toDevice' = <<>> => Len(toDevice') = 0
      OBVIOUS
    <3> QED
      BY <1>1, <1>2, <1>4, <2>1, <2>2, <3>1, <3>2 DEF Alone, Over, Quiet
  <2>7. Answers' /\ CarriedOut'
    BY <1>1, <1>2, <1>4, <2>1 DEF IInv, Answers, CarriedOut, Genuine, Replies, Acknowledged
  <2>8. OncePerLoss' /\ Faults'
    BY <1>1, <1>2, <1>4, <2>1 DEF IInv, OncePerLoss, CarriedOutOncePerLoss, Faults, OneFaultIsSurvived
  <2> QED
    BY <2>3, <2>4, <2>5, <2>6, <2>7, <2>8 DEF IInv
<1>6. CASE "no_timeout" \notin flags
  <2>1. phase' = "check" /\ toDevice' = Append(toDevice, timeout_check_packet) /\ UNCHANGED outcome
    BY <1>1, <1>6 DEF AnswerTimesOut
  <2>2. session # "initiating" /\ packet.kind # "check"
    <3>1. calls \in Nat
      BY MaxCallsAssumption DEF IInv, TypeOK
    <3> QED
      BY <1>1, <1>3, <1>6, <3>1, Packets DEF IInv, Stages
  <2>3. /\ toDevice \in Seq(HostPackets) /\ toDevice' \in Seq(HostPackets)
        /\ Len(toDevice') = Len(toDevice) + 1 /\ Len(toDevice) \in Nat
        /\ \A i \in Sent : toDevice'[i] = toDevice[i]
        /\ toDevice'[Len(toDevice) + 1] = timeout_check_packet
    BY <2>1, AppendOf, Packets DEF IInv, TypeOK, ExchangeTypeOK, Sent
  <2>4. \A i \in Sent' : i \in Sent \/ i = Len(toDevice) + 1
    BY <2>3 DEF Sent
  <2>5. TypeOK'
    BY <1>1, <1>2, <2>1, <2>3 DEF IInv, TypeOK, ExchangeTypeOK
  <2>6. Stages'
    BY <1>1, <1>2, <1>3, <2>1, <2>2 DEF IInv, Stages
  <2>7. Members'
    <3>1. ASSUME NEW i \in Sent PROVE Expected(toDevice[i])'
      BY <1>1, <1>2, <2>1, <2>3 DEF IInv, Members, Expected, Usable, Same
    <3>2. Expected(timeout_check_packet)'
      BY <2>1, Packets DEF Expected, timeout_check_packet
    <3> QED
      BY <1>4, <2>3, <2>4, <3>1, <3>2 DEF Members, Expected, timeout_check_packet
  <2>8. InOrder'
    <3>1. \A i \in Sent : toDevice[i].kind # "check"
      BY <1>1, <1>3, <2>2 DEF IInv, Members, Expected, Same
    <3>2. ASSUME NEW i \in Sent', NEW j \in Sent', i < j PROVE Before(toDevice'[i], toDevice'[j])
      <4>1. i \in Sent
        BY <2>3, <3>2 DEF Sent
      <4>2. CASE j \in Sent
        BY <2>3, <3>2, <4>1, <4>2 DEF IInv, InOrder
      <4>3. CASE j = Len(toDevice) + 1
        BY <2>3, <3>1, <4>1, <4>3, Packets DEF Before
      <4> QED
        BY <2>4, <4>2, <4>3
    <3> QED
      BY <1>4, <3>2 DEF InOrder
  <2>9. Alone'
    <3>1. Len(toHost') = 0
      BY <1>1
    <3>2. toDevice = <<>> => Sent = {}
      BY DEF Sent
    <3> QED
      BY <1>1, <1>4, <2>1, <2>3, <2>4, <3>1, <3>2, Packets DEF Alone
  <2>10. Over'
    BY <1>2, <1>3, <2>1 DEF Over
  <2>11. Answers'
    BY <1>1, <1>4, <2>3, <2>4, Packets DEF IInv, Answers, Genuine, Replies
  <2>12. CarriedOut'
    BY <1>1, <1>2, <1>4 DEF IInv, CarriedOut, Acknowledged
  <2>13. OncePerLoss'
    <3>1. CarriedOutOncePerLoss'
      BY <1>1, <1>2 DEF IInv, OncePerLoss, CarriedOutOncePerLoss
    <3>2. \A i \in Sent' : toDevice'[i].kind = "command" /\ toDevice'[i].id > 0 => i \in Sent
      BY <2>3, <2>4, Packets
    <3>3. \A i \in Sent' : toDevice'[i].kind = "command" /\ toDevice'[i].id > 0 =>
            executed'[toDevice'[i].id] <= lost'
      BY <1>1, <1>2, <2>3, <3>2 DEF IInv, OncePerLoss
    <3>4. Unanswered(packet)
      BY <1>4 DEF Unanswered
    <3> QED
      BY <1>1, <1>2, <3>1, <3>3, <3>4 DEF IInv, OncePerLoss
  <2>14. Faults'
    <3>1. toDevice' # <<>>
      BY <2>3
    <3> QED
      BY <1>1, <1>4, <2>1, <3>1 DEF IInv, Faults, OneFaultIsSurvived, Quiet
  <2> QED
    BY <2>5, <2>6, <2>7, <2>8, <2>9, <2>10, <2>11, <2>12, <2>13, <2>14 DEF IInv
<1> QED
  BY <1>5, <1>6

LEMMA CheckTimesOutPreserves ==
  ASSUME IInv, CheckTimesOut, UNCHANGED sessionVars, Orderly'
  PROVE  IInv'
<1>1. /\ phase = "check" /\ phase' = "done" /\ outcome' = "TIMEOUT_START" /\ irrecoverable' = TRUE
      /\ toHost = <<>> /\ late' \in 0 .. MaxLate /\ (late' = 0 => late = 0 /\ toDevice = <<>>)
      /\ UNCHANGED <<toDevice, toHost, lost, damaged, packet, flags, attempts, answer, gone>>
  BY FaultsAssumption DEF CheckTimesOut, TimeRunsOut, Finish, IInv, TypeOK, ExchangeTypeOK
<1>2. UNCHANGED <<session, tries, calls, result, executed>>
  BY DEF sessionVars
<1>3. /\ Usable /\ ~Usable' /\ session \in {"discovering", "command", "terminating"}
      /\ Sent' = Sent /\ Answered = {} /\ Answered' = {}
  BY <1>1, <1>2 DEF IInv, Stages, Usable, TypeOK, Sessions, Sent, Answered
<1>4. TypeOK'
  BY <1>1, <1>2 DEF IInv, TypeOK, ExchangeTypeOK, Outcomes
<1>5. Stages'
  BY <1>1, <1>2, <1>3 DEF IInv, Stages
<1>6. Members' /\ InOrder'
  BY <1>1, <1>2, <1>3 DEF IInv, Members, InOrder, Expected
<1>7. Alone' /\ Over'
  BY <1>1, <1>2, <1>3 DEF IInv, Alone, Over, Quiet
<1>8. Answers' /\ CarriedOut'
  BY <1>1, <1>2, <1>3 DEF IInv, Answers, CarriedOut, Genuine, Replies, Acknowledged
<1>9. OncePerLoss'
  BY <1>1, <1>2, <1>3 DEF IInv, OncePerLoss, CarriedOutOncePerLoss
<1>10. Faults'
  <2>1. late' = 0 => lost + damaged >= 2
    BY <1>1 DEF IInv, Faults, Quiet
  <2>2. lost \in Nat /\ damaged \in Nat
    BY DEF IInv, TypeOK, ExchangeTypeOK
  <2> QED
    BY <1>1, <2>1, <2>2 DEF Faults, OneFaultIsSurvived
<1> QED
  BY <1>4, <1>5, <1>6, <1>7, <1>8, <1>9, <1>10 DEF IInv

LEMMA UnpluggedPreserves ==
  ASSUME IInv, Unplugged, UNCHANGED sessionVars, Orderly'
  PROVE  IInv'
<1>1. /\ phase \in {"answer", "check"} /\ phase' = "done" /\ outcome' = "GONE" /\ gone' = TRUE
      /\ UNCHANGED <<toDevice, toHost, lost, damaged, late, packet, flags, attempts, answer, irrecoverable>>
  BY DEF Unplugged, Finish, IInv, Stages, wireVars
<1>2. UNCHANGED <<session, tries, calls, result, executed>>
  BY DEF sessionVars
<1>3. /\ Usable /\ ~Usable' /\ session \in {"initiating", "discovering", "command", "terminating"}
      /\ Sent' = Sent /\ Answered' = Answered
  BY <1>1, <1>2 DEF IInv, Stages, Usable, TypeOK, Sessions, Sent, Answered
<1>4. TypeOK'
  BY <1>1, <1>2 DEF IInv, TypeOK, ExchangeTypeOK, Outcomes
<1>5. Stages'
  BY <1>1, <1>2, <1>3 DEF IInv, Stages
<1>6. Members' /\ InOrder'
  BY <1>1, <1>2, <1>3 DEF IInv, Members, InOrder, Expected
<1>7. Alone' /\ Over'
  BY <1>1, <1>2, <1>3 DEF IInv, Alone, Over, Quiet
<1>8. Answers' /\ CarriedOut'
  BY <1>1, <1>2, <1>3 DEF IInv, Answers, CarriedOut, Genuine, Replies, Acknowledged
<1>9. OncePerLoss' /\ Faults'
  BY <1>1, <1>2, <1>3 DEF IInv, OncePerLoss, CarriedOutOncePerLoss, Faults, OneFaultIsSurvived
<1> QED
  BY <1>4, <1>5, <1>6, <1>7, <1>8, <1>9 DEF IInv

-----------------------------------------------------------------------------
LEMMA LosePacketPreserves ==
  ASSUME IInv, LosePacket, UNCHANGED sessionVars, Orderly'
  PROVE  IInv'
<1>1. /\ lost < MaxLost /\ lost' = lost + 1
      /\ UNCHANGED <<damaged, late, phase, packet, flags, attempts, outcome, answer, irrecoverable, gone>>
  BY DEF LosePacket, hostVars
<1>2. UNCHANGED <<session, tries, calls, result, executed>> /\ Usable' = Usable
  BY <1>1 DEF sessionVars, Usable
<1>3. lost \in Nat /\ damaged \in Nat /\ MaxLost \in Nat
  BY FaultsAssumption DEF IInv, TypeOK, ExchangeTypeOK
<1>4. \/ toHost # <<>> /\ toHost' = Tail(toHost) /\ toDevice' = toDevice
      \/ toDevice # <<>> /\ toDevice' = Tail(toDevice) /\ toHost' = toHost
  BY DEF LosePacket
<1>5. InOrder'
  BY <1>4, OrderAfterLoss DEF IInv
<1>6. Stages'
  BY <1>1, <1>2 DEF IInv, Stages
<1>7. ~Quiet
  BY <1>4 DEF Quiet
<1>8. /\ toDevice' \in Seq(HostPackets) /\ toHost' \in Seq(DevicePackets)
      /\ \A i \in Sent' : \E j \in Sent : toDevice'[i] = toDevice[j]
      /\ \A i \in Answered' : \E j \in Answered : toHost'[i] = toHost[j]
      /\ Len(toDevice') <= Len(toDevice) /\ Len(toHost') <= Len(toHost)
      /\ (toDevice = <<>> => toDevice' = <<>>) /\ (toHost = <<>> => toHost' = <<>>)
  <2>1. toDevice \in Seq(HostPackets) /\ toHost \in Seq(DevicePackets)
    BY DEF IInv, TypeOK, ExchangeTypeOK
  <2>2. CASE toHost # <<>> /\ toHost' = Tail(toHost) /\ toDevice' = toDevice
    BY <2>1, <2>2, TailOf DEF Sent, Answered
  <2>3. CASE toDevice # <<>> /\ toDevice' = Tail(toDevice) /\ toHost' = toHost
    BY <2>1, <2>3, TailOf DEF Sent, Answered
  <2> QED
    BY <1>4, <2>2, <2>3
<1>9. TypeOK'
  BY <1>1, <1>2, <1>3, <1>8 DEF IInv, TypeOK, ExchangeTypeOK
<1>10. Members'
  <2>1. \A p : Expected(p)' <=> Expected(p)
    BY <1>1, <1>2 DEF Expected, Same
  <2> QED
    BY <1>1, <1>2, <1>8 DEF IInv, Members, Expected, Same
<1>11. Alone'
  <2>1. Len(toDevice) \in Nat /\ Len(toHost) \in Nat /\ Len(toDevice') \in Nat /\ Len(toHost') \in Nat
    BY <1>8 DEF IInv, TypeOK, ExchangeTypeOK
  <2> QED
    BY <1>1, <1>8, <2>1 DEF IInv, Alone, Quiet
<1>12. Answers'
  BY <1>1, <1>8 DEF IInv, Answers, Genuine, Replies
<1>13. Over'
  BY <1>1, <1>2, <1>8 DEF IInv, Over, Quiet
<1>14. CarriedOut'
  BY <1>1, <1>2, <1>8 DEF IInv, CarriedOut, Acknowledged
<1>15. OncePerLoss'
  <2>1. \A c \in 1 .. MaxCalls : executed[c] \in Nat /\ executed[c] <= lost'
    BY <1>1, <1>3 DEF IInv, OncePerLoss, CarriedOutOncePerLoss, TypeOK
  <2>2. CarriedOutOncePerLoss'
    BY <1>1, <1>2, <1>3, <2>1 DEF CarriedOutOncePerLoss
  <2>3. session = "command" => executed[calls] <= lost'
    <3>1. session = "command" => calls \in 1 .. MaxCalls
      BY MaxCallsAssumption DEF IInv, TypeOK, Stages
    <3> QED
      BY <2>1, <3>1
  <2>4. \A i \in Sent' : toDevice'[i].kind = "command" /\ toDevice'[i].id > 0 =>
          executed[toDevice'[i].id] <= lost
    BY <1>8 DEF IInv, OncePerLoss
  <2>5. \A i \in Sent' : toDevice'[i].kind = "command" /\ toDevice'[i].id > 0 =>
          toDevice'[i].id \in 1 .. MaxCalls
    <3> SUFFICES ASSUME NEW i \in Sent', toDevice'[i].kind = "command", toDevice'[i].id > 0
                 PROVE  toDevice'[i].id \in 1 .. MaxCalls
      OBVIOUS
    <3>1. Expected(toDevice'[i])
      BY <1>8 DEF IInv, Members
    <3>2. toDevice'[i].id = packet.id /\ packet.kind = "command"
      BY <3>1 DEF Expected, Same
    <3> QED
      BY <3>2, MaxCallsAssumption DEF IInv, Stages, TypeOK
  <2> QED
    BY <1>1, <1>2, <2>1, <2>2, <2>3, <2>5 DEF OncePerLoss
<1>16. Faults'
  BY <1>1, <1>2, <1>3, <1>7, <1>8 DEF IInv, Faults, OneFaultIsSurvived
<1> QED
  BY <1>5, <1>6, <1>9, <1>10, <1>11, <1>12, <1>13, <1>14, <1>15, <1>16 DEF IInv

LEMMA DamagePacketPreserves ==
  ASSUME IInv, DamagePacket, UNCHANGED sessionVars, Orderly'
  PROVE  IInv'
<1>1. /\ damaged < MaxDamaged /\ damaged' = damaged + 1
      /\ UNCHANGED <<lost, late, phase, packet, flags, attempts, outcome, answer, irrecoverable, gone>>
  BY DEF DamagePacket, hostVars
<1>2. UNCHANGED <<session, tries, calls, result, executed>> /\ Usable' = Usable
  BY <1>1 DEF sessionVars, Usable
<1>3. lost \in Nat /\ damaged \in Nat /\ damaged' # 0
  BY <1>1 DEF IInv, TypeOK, ExchangeTypeOK
<1>4. /\ toDevice' \in Seq(HostPackets) /\ toHost' \in Seq(DevicePackets)
      /\ Sent' = Sent /\ Answered' = Answered
      /\ Len(toDevice') = Len(toDevice) /\ Len(toHost') = Len(toHost)
      /\ \A i \in Sent : toDevice'[i].kind = toDevice[i].kind /\ toDevice'[i].id = toDevice[i].id
      /\ \A i \in Answered : /\ toHost'[i].to = toHost[i].to
                             /\ toHost'[i].kind \in {toHost[i].kind, "damaged", "other"}
      /\ ~Quiet /\ ~Quiet'
  <2>1. toDevice \in Seq(HostPackets) /\ toHost \in Seq(DevicePackets)
    BY DEF IInv, TypeOK, ExchangeTypeOK
  <2>2. CASE /\ toDevice # <<>> /\ Head(toDevice).intact
             /\ toDevice' = [toDevice EXCEPT ![1].intact = FALSE]
             /\ UNCHANGED toHost
    <3> DEFINE x == [toDevice[1] EXCEPT !.intact = FALSE]
    <3>1. toDevice[1] \in HostPackets /\ Len(toDevice) \in Nat \ {0}
      BY <2>1, <2>2
    <3>2. x \in HostPackets /\ x.kind = toDevice[1].kind /\ x.id = toDevice[1].id
      BY <3>1 DEF HostPackets
    <3>3. toDevice' = [toDevice EXCEPT ![1] = x]
      BY <2>2
    <3> HIDE DEF x
    <3>4. /\ toDevice' \in Seq(HostPackets) /\ Len(toDevice') = Len(toDevice) /\ toDevice' # <<>>
          /\ \A i \in Sent : toDevice'[i] = IF i = 1 THEN x ELSE toDevice[i]
      BY <2>1, <3>1, <3>2, <3>3 DEF Sent
    <3> QED
      BY <2>1, <2>2, <3>2, <3>4 DEF Sent, Answered, Quiet
  <2>3. CASE /\ toHost # <<>> /\ Head(toHost).kind \notin {"damaged", "other"}
             /\ \E kind \in {"damaged", "other"} : toHost' = [toHost EXCEPT ![1].kind = kind]
             /\ UNCHANGED toDevice
    <3>1. PICK kind \in {"damaged", "other"} : toHost' = [toHost EXCEPT ![1].kind = kind]
      BY <2>3
    <3> DEFINE x == [toHost[1] EXCEPT !.kind = kind]
    <3>2. toHost[1] \in DevicePackets /\ Len(toHost) \in Nat \ {0}
      BY <2>1, <2>3
    <3>3. x \in DevicePackets /\ x.kind = kind /\ x.to = toHost[1].to
      BY <3>2 DEF DevicePackets, AnswerKinds
    <3>4. toHost' = [toHost EXCEPT ![1] = x]
      BY <3>1
    <3> HIDE DEF x
    <3>5. /\ toHost' \in Seq(DevicePackets) /\ Len(toHost') = Len(toHost) /\ toHost' # <<>>
          /\ \A i \in Answered : toHost'[i] = IF i = 1 THEN x ELSE toHost[i]
      BY <2>1, <3>2, <3>3, <3>4 DEF Answered
    <3> QED
      BY <2>1, <2>3, <3>3, <3>5 DEF Sent, Answered, Quiet
  <2> QED
    BY <2>2, <2>3 DEF DamagePacket
<1>5. TypeOK'
  BY <1>1, <1>2, <1>4, FaultsAssumption DEF IInv, TypeOK, ExchangeTypeOK
<1>6. Stages'
  BY <1>1, <1>2 DEF IInv, Stages
<1>7. Members'
  BY <1>1, <1>2, <1>4 DEF IInv, Members, Expected, Same
<1>8. InOrder'
  BY <1>4 DEF IInv, InOrder, Before
<1>9. Alone'
  <2>1. toDevice = <<>> \/ toHost = <<>> => toDevice' = <<>> \/ toHost' = <<>>
    BY <1>4 DEF IInv, TypeOK, ExchangeTypeOK
  <2> QED
    BY <1>1, <1>4, <2>1 DEF IInv, Alone
<1>10. Answers'
  BY <1>1, <1>3, <1>4 DEF IInv, Answers, Genuine, Replies
<1>11. Over'
  BY <1>1, <1>2, <1>4 DEF IInv, Over
<1>12. CarriedOut'
  BY <1>1, <1>2, <1>4 DEF IInv, CarriedOut, Acknowledged
<1>13. OncePerLoss'
  <2>1. CarriedOutOncePerLoss'
    BY <1>1, <1>2 DEF IInv, OncePerLoss, CarriedOutOncePerLoss
  <2>2. Unanswered(packet)' => Unanswered(packet)
    BY <1>1, <1>4 DEF Unanswered, Same
  <2> QED
    BY <1>1, <1>2, <1>4, <2>1, <2>2 DEF IInv, OncePerLoss
<1>14. Faults'
  <2>1. /\ damaged + lost >= 1 => damaged' + lost' >= 2
        /\ damaged' + lost' >= 1
    BY <1>1, <1>3
  <2>2. OneFaultIsSurvived'
    BY <1>1, <1>3 DEF IInv, Faults, OneFaultIsSurvived
  <2> QED
    BY <1>1, <1>3, <1>4, <2>1, <2>2 DEF IInv, Faults
<1> QED
  BY <1>5, <1>6, <1>7, <1>8, <1>9, <1>10, <1>11, <1>12, <1>13, <1>14 DEF IInv

(* What the packets on the wire can have been sent for.                    *)
LEMMA CommandsAreTheLast ==
  ASSUME IInv, NEW p \in HostPackets, Expected(p), p.kind = "command", p.id # 0
  PROVE  p.id = calls /\ calls \in 1 .. MaxCalls /\ Same(p, packet)
<1>1. Same(p, packet)
  BY DEF Expected
<1>2. p.id = calls
  BY <1>1 DEF Same, IInv, Stages
<1> QED
  BY <1>1, <1>2, MaxCallsAssumption DEF IInv, TypeOK

LEMMA DeviceStepPreserves ==
  ASSUME IInv, DeviceStep
  PROVE  IInv'
<1>1. toDevice \in Seq(HostPackets) /\ toHost \in Seq(DevicePackets) /\ toDevice # <<>>
  BY DEF DeviceStep, IInv, TypeOK, ExchangeTypeOK
<1>2. /\ Tail(toDevice) \in Seq(HostPackets) /\ Len(Tail(toDevice)) = Len(toDevice) - 1
      /\ Len(toDevice) \in Nat \ {0} /\ Head(toDevice) = toDevice[1] /\ toDevice[1] \in HostPackets /\ 1 \in Sent
      /\ \A i \in 1 .. Len(Tail(toDevice)) : Tail(toDevice)[i] = toDevice[i + 1] /\ i + 1 \in Sent
  BY <1>1, TailOf DEF Sent
<1>p. PICK p \in HostPackets : p = toDevice[1]
  BY <1>2
<1>3. PICK k \in Replies(p) :
        /\ DeviceAnswers(k)
        /\ executed' = IF p.kind = "command" /\ k = "ack"
                       THEN [executed EXCEPT ![p.id] = @ + 1] ELSE executed
  BY <1>2, <1>p DEF DeviceStep
<1>a. PICK a : a = Answer(k, p)
  OBVIOUS
<1>4. a \in DevicePackets /\ a.kind = k /\ a.to = p /\ k \in {"resend", "ack", "ack_extended", "error"}
  BY <1>2, <1>3, <1>a, RepliesAre DEF Answer, Numbered, DevicePackets, AnswerKinds
<1>5. /\ toDevice' = Tail(toDevice) /\ toHost' = Append(toHost, a)
      /\ UNCHANGED <<lost, damaged, late, phase, packet, flags, attempts, outcome, answer, irrecoverable, gone>>
      /\ UNCHANGED <<session, tries, calls, result>> /\ Usable' = Usable
  BY <1>2, <1>3, <1>p, <1>a DEF DeviceAnswers, DeviceSends, hostVars, DeviceStep, Usable
<1>6. /\ toDevice' \in Seq(HostPackets) /\ Len(toDevice') = Len(toDevice) - 1
      /\ \A i \in Sent' : toDevice'[i] = toDevice[i + 1] /\ i + 1 \in Sent /\ 1 < i + 1
  BY <1>2, <1>5 DEF Sent
<1>7. /\ toHost' \in Seq(DevicePackets) /\ Len(toHost') = Len(toHost) + 1 /\ Len(toHost) \in Nat
      /\ \A i \in Answered : toHost'[i] = toHost[i] /\ i \in Answered'
      /\ Len(toHost) + 1 \in Answered' /\ toHost'[Len(toHost) + 1] = a
      /\ \A i \in Answered' : i \in Answered \/ i = Len(toHost) + 1
  BY <1>1, <1>4, <1>5, AppendOf DEF Answered
<1>8. Expected(p) /\ \A i \in Answered : Expected(toHost[i].to)
  BY <1>2, <1>p DEF IInv, Members
<1>9. p.kind = "command" /\ k = "ack" => p.id # 0 /\ p.id = calls /\ calls \in 1 .. MaxCalls /\ Same(p, packet)
  BY <1>2, <1>3, <1>8, RepliesAre, CommandsAreTheLast
<1>10. executed \in [1 .. MaxCalls -> Nat] /\ executed' \in [1 .. MaxCalls -> Nat]
  BY <1>3, <1>9 DEF IInv, TypeOK
<1>11. /\ \A c \in 1 .. MaxCalls : executed'[c] >= executed[c]
       /\ \A c \in 1 .. MaxCalls :
            \/ executed'[c] = executed[c]
            \/ p.kind = "command" /\ k = "ack" /\ c = p.id /\ executed'[c] = executed[c] + 1
       /\ p.kind = "command" /\ k = "ack" => executed'[p.id] > 0
  BY <1>3, <1>9, <1>10
<1>12. TypeOK' /\ Orderly'
  BY <1>5, <1>6, <1>7, <1>10 DEF IInv, TypeOK, ExchangeTypeOK, Orderly
<1>13. Stages'
  <2>1. phase = "idle" => session # "closed"
    BY <1>1, <1>5 DEF IInv, Over, Stages, Quiet, Usable
  <2> QED
    BY <1>5, <2>1 DEF IInv, Stages
<1>14. Members'
  <2>1. \A i \in Sent' : Expected(toDevice'[i])
    BY <1>6 DEF IInv, Members
  <2>2. \A i \in Answered' : Expected(toHost'[i].to)
    BY <1>4, <1>7, <1>8
  <2> QED
    BY <1>5, <2>1, <2>2 DEF Members, Expected, Same
<1>15. InOrder'
  <2>1. \A i, j \in Sent' : i < j => Before(toDevice'[i], toDevice'[j])
    <3>1. \A i, j \in Sent' : i < j => i + 1 < j + 1
      BY DEF Sent
    <3> QED
      BY <1>6, <3>1 DEF IInv, InOrder
  <2>2. ASSUME NEW i \in Answered', NEW j \in Answered', i < j PROVE Before(toHost'[i].to, toHost'[j].to)
    <3>1. i \in Answered
      BY <1>7, <2>2 DEF Answered
    <3> QED
      BY <1>2, <1>p, <1>4, <1>7, <2>2, <3>1 DEF IInv, InOrder
  <2>3. ASSUME NEW i \in Answered', NEW j \in Sent' PROVE Before(toHost'[i].to, toDevice'[j])
    BY <1>2, <1>p, <1>4, <1>6, <1>7 DEF IInv, InOrder
  <2> QED
    BY <2>1, <2>2, <2>3 DEF InOrder
<1>16. Alone'
  <2> SUFFICES ASSUME late' = 0 PROVE Alone'
    BY DEF Alone
  <2>1. toHost = <<>> /\ Len(toDevice) = 1 /\ ~(phase \in {"idle", "done"} /\ ~gone)
    BY <1>1, <1>2, <1>5 DEF IInv, Alone, Quiet
  <2>2. toDevice' = <<>> /\ Len(toHost') = 1 /\ Answered = {} /\ Sent' = {} /\ Len(toDevice') = 0
    BY <1>6, <1>7, <2>1 DEF Sent, Answered
  <2>3. phase = "check" => p.kind = "check"
    BY <1>2, <1>p, <1>5 DEF IInv, Alone
  <2> QED
    <3>1. phase = "check" => \A i \in Answered' : toHost'[i].to.kind = "check"
      BY <1>4, <1>7, <2>2, <2>3
    <3>2. phase' \in {"idle", "done"} /\ ~gone' => Quiet'
      BY <1>5, <2>1
    <3>3. \A i \in Sent' : toDevice'[i].kind = "check"
      BY <2>2
    <3>4. toDevice' = <<>> /\ Len(toDevice') <= 1 /\ Len(toHost') <= 1
      BY <2>2
    <3>5. phase' = phase
      BY <1>5
    <3> QED
      BY <3>1, <3>2, <3>3, <3>4, <3>5 DEF Alone
<1>17. Answers'
  <2>1. Genuine(a)
    BY <1>3, <1>4 DEF Genuine
  <2>2. damaged = 0 => p.intact
    BY <1>2, <1>p DEF IInv, Answers
  <2> QED
    <3>1. \A i \in Answered' : Genuine(toHost'[i])
      BY <1>7, <2>1 DEF IInv, Answers
    <3>2. damaged = 0 => \A i \in Sent' : toDevice'[i].intact
      BY <1>6 DEF IInv, Answers
    <3>3. damaged = 0 => \A i \in Answered' : toHost'[i].to.intact /\ toHost'[i].kind \in Replies(toHost'[i].to)
      BY <1>3, <1>4, <1>7, <2>2 DEF IInv, Answers
    <3>4. answer = NoAnswer \/ Genuine(answer)
      BY DEF IInv, Answers
    <3> QED
      BY <1>5, <3>1, <3>2, <3>3, <3>4 DEF Answers, Genuine, Replies
<1>18. Over'
  <2>1. ~Quiet
    BY <1>1 DEF Quiet
  <2> QED
    BY <1>5, <2>1 DEF IInv, Over
<1>19. CarriedOut'
  <2>1. \A i \in Answered : Acknowledged(toHost[i])'
    BY <1>7, <1>10, <1>11 DEF IInv, CarriedOut, Acknowledged
  <2>2. Acknowledged(a)'
    BY <1>4, <1>9, <1>11 DEF Acknowledged
  <2>3. Acknowledged(answer)'
    BY <1>5, <1>10, <1>11 DEF IInv, CarriedOut, Acknowledged
  <2>4. \A c \in 1 .. MaxCalls : c > calls => executed'[c] = 0
    BY <1>9, <1>11, MaxCallsAssumption DEF IInv, CarriedOut, TypeOK
  <2> QED
    BY <1>5, <1>7, <2>1, <2>2, <2>3, <2>4 DEF CarriedOut, Acknowledged
<1>20. OncePerLoss'
  <2>1. lost \in Nat
    BY DEF IInv, TypeOK, ExchangeTypeOK
  <2>2. p.kind = "command" /\ k = "ack" => executed[p.id] <= lost
    BY <1>2, <1>p, <1>9 DEF IInv, OncePerLoss
  <2>3. CarriedOutOncePerLoss'
    BY <1>5, <1>10, <1>11, <2>1, <2>2 DEF IInv, OncePerLoss, CarriedOutOncePerLoss
  <2>4. ASSUME NEW i \in Sent', toDevice'[i].kind = "command", toDevice'[i].id > 0
        PROVE  executed'[toDevice'[i].id] <= lost'
    <3>1. p.kind = "command" /\ k = "ack" => FALSE
      BY <1>2, <1>p, <1>6, <2>4 DEF IInv, InOrder, Before
    <3> QED
      BY <1>3, <1>5, <1>6, <2>4, <3>1 DEF IInv, OncePerLoss
  <2>5. session = "command" /\ phase \in {"answer", "check"} /\ Unanswered(packet)' => executed'[calls] <= lost
    <3> SUFFICES ASSUME session = "command", phase \in {"answer", "check"}, Unanswered(packet)'
                 PROVE  executed'[calls] <= lost
      OBVIOUS
    <3>1. Unanswered(packet)
      BY <1>5, <1>7 DEF Unanswered, Same
    <3>2. p.kind = "command" /\ k = "ack" => FALSE
      BY <1>4, <1>5, <1>7, <1>9 DEF Unanswered, Same
    <3> QED
      BY <1>3, <3>1, <3>2 DEF IInv, OncePerLoss
  <2> QED
    BY <1>5, <2>3, <2>4, <2>5 DEF OncePerLoss
<1>21. Faults'
  <2>1. ~Quiet /\ ~Quiet'
    BY <1>1, <1>7 DEF Quiet
  <2>2. late = 0 /\ phase = "check" => k = "resend"
    <3>1. late = 0 /\ phase = "check" => p.kind = "check"
      BY <1>2, <1>p DEF IInv, Alone
    <3> QED
      BY <1>2, <1>3, <3>1, RepliesAre
  <2> QED
    BY <1>4, <1>5, <1>7, <2>1, <2>2 DEF IInv, Faults, OneFaultIsSurvived
<1> QED
  BY <1>12, <1>13, <1>14, <1>15, <1>16, <1>17, <1>18, <1>19, <1>20, <1>21 DEF IInv

-----------------------------------------------------------------------------
(* A packet that starts an exchange on a wire with nothing on it.          *)
LEMMA StartPreserves ==
  ASSUME IInv, Quiet, Usable, NEW p \in HostPackets, p.intact, NEW f \in SUBSET Flags, "no_receive" \notin f,
         StartExchange(p, f), session' \in {"initiating", "command", "terminating"},
         executed' = executed, calls' \in {calls, calls + 1}, TypeOK', Stages',
         p.kind = "command" => p.id = calls' /\ p.id \in 1 .. MaxCalls /\ executed[p.id] = 0,
         session' = "command" => p.kind = "command"
  PROVE  IInv'
<1>1. /\ phase = "idle" /\ phase' = "answer" /\ packet' = p /\ toDevice' = Append(toDevice, p)
      /\ UNCHANGED <<toHost, lost, damaged, late, answer, outcome, irrecoverable, gone>>
  BY DEF StartExchange
<1>2. toDevice = <<>> /\ toHost = <<>> /\ toHost' = <<>> /\ Answered = {} /\ Answered' = {} /\ Len(toHost') = 0
  BY <1>1 DEF Quiet, Answered
<1>3. Len(toDevice') = 1 /\ toDevice'[1] = p /\ Sent' = {1} /\ toDevice' # <<>>
  BY <1>1, <1>2, AppendOf DEF Sent
<1>4. lost \in Nat /\ calls \in Nat
  BY DEF IInv, TypeOK, ExchangeTypeOK
<1>5. Members' /\ InOrder'
  BY <1>1, <1>2, <1>3 DEF Members, InOrder, Expected, Same
<1>6. Alone' /\ Over'
  BY <1>1, <1>2, <1>3 DEF Alone, Over
<1>7. Answers'
  BY <1>1, <1>2, <1>3 DEF IInv, Answers, Genuine, Replies
<1>8. CarriedOut'
  BY <1>1, <1>2, <1>4 DEF IInv, CarriedOut, Acknowledged
<1>9. OncePerLoss'
  BY <1>1, <1>2, <1>3, <1>4 DEF IInv, OncePerLoss, CarriedOutOncePerLoss
<1>10. Faults' /\ Orderly'
  BY <1>1, <1>2, <1>3 DEF IInv, Faults, OneFaultIsSurvived, Quiet, Orderly
<1> QED
  BY <1>5, <1>6, <1>7, <1>8, <1>9, <1>10 DEF IInv

LEMMA OpenLinkPreserves ==
  ASSUME IInv, OpenLink
  PROVE  IInv'
<1>1. /\ session = "closed" /\ session' = "initiating" /\ tries' = InitAttempts
      /\ StartExchange(initial_check_packet, {"no_timeout"})
      /\ UNCHANGED <<calls, result, executed>>
  BY DEF OpenLink
<1>2. /\ phase' = "answer" /\ packet' = initial_check_packet /\ flags' = {"no_timeout"}
      /\ attempts' = Attempts /\ toDevice' = Append(toDevice, initial_check_packet)
      /\ UNCHANGED <<toHost, lost, damaged, late, answer, outcome, irrecoverable, gone>>
  BY <1>1 DEF StartExchange, InitialAttempts
<1>3. Quiet /\ Usable /\ calls = 0
  BY <1>1 DEF IInv, Over, Stages
<1>4. TypeOK'
  <2>1. toDevice' \in Seq(HostPackets)
    BY <1>2, AppendOf, Packets DEF IInv, TypeOK, ExchangeTypeOK
  <2> QED
    BY <1>1, <1>2, <2>1, Packets, AttemptsAssumption, InitAttemptsAssumption
       DEF IInv, TypeOK, ExchangeTypeOK, Flags, Sessions
<1>5. Stages'
  BY <1>1, <1>2, <1>3, Packets DEF Stages, Usable
<1> QED
  BY <1>1, <1>3, <1>4, <1>5, StartPreserves, Packets DEF Flags

LEMMA GiveCommandPreserves ==
  ASSUME IInv, GiveCommand
  PROVE  IInv'
<1>1. /\ session = "open" /\ calls < MaxCalls /\ Usable /\ session' = "command" /\ calls' = calls + 1
      /\ StartExchange(Packet("command", calls + 1), {})
      /\ UNCHANGED <<tries, result, executed>>
  BY DEF GiveCommand
<1>2. /\ phase' = "answer" /\ packet' = Packet("command", calls + 1) /\ flags' = {}
      /\ attempts' = Attempts /\ toDevice' = Append(toDevice, Packet("command", calls + 1))
      /\ UNCHANGED <<toHost, lost, damaged, late, answer, outcome, irrecoverable, gone>>
  BY <1>1 DEF StartExchange, InitialAttempts
<1>3. Quiet /\ calls \in Nat /\ calls + 1 \in 1 .. MaxCalls /\ executed[calls + 1] = 0
  BY <1>1, MaxCallsAssumption DEF IInv, Over, TypeOK, CarriedOut
<1>4. TypeOK'
  <2>1. toDevice' \in Seq(HostPackets)
    BY <1>2, <1>3, AppendOf, Packets DEF IInv, TypeOK, ExchangeTypeOK
  <2> QED
    BY <1>1, <1>2, <1>3, <2>1, Packets, AttemptsAssumption
       DEF IInv, TypeOK, ExchangeTypeOK, Flags, Sessions
<1>5. Stages'
  BY <1>1, <1>2, <1>3, Packets DEF Stages, Usable
<1> QED
  BY <1>1, <1>3, <1>4, <1>5, StartPreserves, Packets DEF Flags

(* An exchange is over, or none was started, and the program goes on.      *)
LEMMA ReturnPreserves ==
  ASSUME IInv, phase \in {"idle", "done"}, phase' = "idle",
         UNCHANGED <<wireVars, packet, answer, irrecoverable, gone>>, UNCHANGED <<calls, executed>>,
         TypeOK', Stages', session' \in {"discovering", "open", "ended"},
         session' = "open" /\ Usable => Quiet,
         session' = "open" => Quiet \/ session \notin {"initiating", "discovering", "ended"}
  PROVE  IInv'
<1>1. UNCHANGED <<toDevice, toHost, lost, damaged, late>> /\ Usable' = Usable
  BY DEF wireVars, Usable
<1>2. Sent' = Sent /\ Answered' = Answered /\ Quiet' = Quiet
  BY <1>1 DEF Sent, Answered, Quiet
<1>3. Members' /\ InOrder'
  <2>1. CASE Quiet
    <3>1. Sent' = {} /\ Answered' = {}
      BY <1>2, <2>1 DEF Sent, Answered, Quiet
    <3> QED
      BY <3>1 DEF Members, InOrder
  <2>2. CASE session \in {"initiating", "discovering", "ended"} => session' \in {"initiating", "discovering", "ended"}
    BY <1>1, <1>2, <2>2 DEF IInv, Members, InOrder, Expected
  <2> QED
    BY <2>1, <2>2
<1>4. Alone' /\ Over'
  BY <1>1, <1>2 DEF IInv, Alone, Over
<1>5. Answers' /\ CarriedOut'
  BY <1>1, <1>2 DEF IInv, Answers, CarriedOut, Genuine, Replies, Acknowledged
<1>6. OncePerLoss' /\ Faults' /\ Orderly'
  BY <1>1, <1>2 DEF IInv, OncePerLoss, CarriedOutOncePerLoss, Faults, OneFaultIsSurvived, Orderly
<1> QED
  BY <1>3, <1>4, <1>5, <1>6 DEF IInv

LEMMA CloseLinkPreserves ==
  ASSUME IInv, CloseLink
  PROVE  IInv'
<1>1. session = "open" /\ UNCHANGED <<tries, calls, result, executed>>
  BY DEF CloseLink
<1>2. CASE Terminate /\ Usable
  <2>1. session' = "terminating" /\ StartExchange(terminate_packet, {})
    BY <1>2 DEF CloseLink
  <2>2. /\ phase' = "answer" /\ packet' = terminate_packet /\ flags' = {}
        /\ attempts' = Attempts /\ toDevice' = Append(toDevice, terminate_packet)
        /\ UNCHANGED <<toHost, lost, damaged, late, answer, outcome, irrecoverable, gone>>
    BY <2>1 DEF StartExchange, InitialAttempts
  <2>3. Quiet
    BY <1>1, <1>2 DEF IInv, Over
  <2>4. TypeOK'
    <3>1. toDevice' \in Seq(HostPackets)
      BY <2>2, AppendOf, Packets DEF IInv, TypeOK, ExchangeTypeOK
    <3> QED
      BY <1>1, <2>1, <2>2, <3>1, Packets, AttemptsAssumption
         DEF IInv, TypeOK, ExchangeTypeOK, Flags, Sessions
  <2>5. Stages'
    BY <1>1, <1>2, <2>1, <2>2, Packets DEF Stages, Usable
  <2> QED
    BY <1>1, <1>2, <2>1, <2>3, <2>4, <2>5, StartPreserves, Packets DEF Flags
<1>3. CASE ~(Terminate /\ Usable)
  <2>1. session' = "ended" /\ UNCHANGED exchangeVars
    BY <1>3 DEF CloseLink
  <2>2. UNCHANGED <<wireVars, phase, packet, flags, attempts, outcome, answer, irrecoverable, gone>> /\ phase = "idle"
    BY <1>1, <2>1 DEF exchangeVars, hostVars, IInv, Stages
  <2>3. TypeOK'
    BY <1>1, <2>1, <2>2 DEF IInv, TypeOK, ExchangeTypeOK, wireVars, Sessions
  <2>4. Stages'
    BY <1>1, <2>1, <2>2 DEF IInv, Stages, Usable
  <2> QED
    BY <1>1, <2>1, <2>2, <2>3, <2>4, ReturnPreserves
<1> QED
  BY <1>2, <1>3

LEMMA InitiatedPreserves ==
  ASSUME Discovers, IInv, Initiated
  PROVE  IInv'
<1>1. /\ session = "initiating" /\ phase = "done" /\ phase' = "idle"
      /\ session' = IF ~Expect("ack") THEN "ended" ELSE IF Discover THEN "discovering" ELSE "open"
      /\ UNCHANGED <<wireVars, packet, flags, attempts, outcome, answer, irrecoverable, gone>>
      /\ UNCHANGED <<tries, calls, result, executed>>
  BY DEF Initiated, ExchangeReturns
<1>2. session' # "ended" => outcome = "OK" /\ Usable
  BY <1>1 DEF Expect, IInv, Stages
<1>3. session' = "open" => Quiet
  BY <1>1, <1>2 DEF Discovers, IInv, TypeOK, ExchangeTypeOK, Alone, Usable
<1>4. session' \in {"discovering", "open", "ended"}
  BY <1>1
<1>5. TypeOK'
  BY <1>1, <1>4 DEF IInv, TypeOK, ExchangeTypeOK, wireVars, Sessions
<1>6. Stages'
  BY <1>1, <1>2, <1>4, Packets DEF IInv, Stages, Usable
<1> QED
  BY <1>1, <1>3, <1>4, <1>5, <1>6, ReturnPreserves

LEMMA DiscoveredPreserves ==
  ASSUME IInv, Discovered
  PROVE  IInv'
<1>1. /\ session = "discovering" /\ phase = "done" /\ phase' = "idle"
      /\ session' = IF Expect("ack_extended") THEN "open" ELSE "ended"
      /\ UNCHANGED <<wireVars, packet, flags, attempts, outcome, answer, irrecoverable, gone>>
      /\ UNCHANGED <<tries, calls, result, executed>>
  BY DEF Discovered, ExchangeReturns
<1>2. session' = "open" => Quiet
  BY <1>1 DEF Expect, IInv, Stages, Over
<1>3. session' \in {"open", "ended"}
  BY <1>1
<1>4. TypeOK'
  BY <1>1, <1>3 DEF IInv, TypeOK, ExchangeTypeOK, wireVars, Sessions
<1>5. Stages'
  BY <1>1, <1>3 DEF IInv, Stages, Usable
<1> QED
  BY <1>1, <1>2, <1>3, <1>4, <1>5, ReturnPreserves

LEMMA CommandReturnsPreserves ==
  ASSUME IInv, CommandReturns
  PROVE  IInv'
<1>1. /\ session = "command" /\ phase = "done" /\ phase' = "idle" /\ session' = "open"
      /\ result' = IF outcome = "OK" /\ ~Expect("ack") THEN "UNKNOWN" ELSE outcome
      /\ UNCHANGED <<wireVars, packet, flags, attempts, outcome, answer, irrecoverable, gone>>
      /\ UNCHANGED <<tries, calls, executed>>
  BY DEF CommandReturns, ExchangeReturns
<1>2. Usable => Quiet
  BY <1>1 DEF IInv, Over
<1>3. TypeOK'
  BY <1>1 DEF IInv, TypeOK, ExchangeTypeOK, wireVars, Sessions, Outcomes, DamageErrors
<1>4. Stages'
  BY <1>1 DEF IInv, Stages, Usable
<1> QED
  BY <1>1, <1>2, <1>3, <1>4, ReturnPreserves

LEMMA TerminatedPreserves ==
  ASSUME IInv, Terminated
  PROVE  IInv'
<1>1. /\ session = "terminating" /\ phase = "done" /\ phase' = "idle" /\ session' = "ended"
      /\ UNCHANGED <<wireVars, packet, flags, attempts, outcome, answer, irrecoverable, gone>>
      /\ UNCHANGED <<tries, calls, result, executed>>
  BY DEF Terminated, ExchangeReturns
<1>2. TypeOK'
  BY <1>1 DEF IInv, TypeOK, ExchangeTypeOK, wireVars, Sessions
<1>3. Stages'
  BY <1>1 DEF IInv, Stages, Usable
<1> QED
  BY <1>1, <1>2, <1>3, ReturnPreserves

(* A packet sent after initial checks, which may still be on the wire when *)
(* answers may be late.                                                    *)
LEMMA SendAfterChecks ==
  ASSUME IInv, Usable, calls = 0, NEW p \in HostPackets, p.intact, p.id = 0, p.kind # "check",
         packet = initial_check_packet, phase \in {"idle", "done"},
         toDevice' = Append(toDevice, p), phase' = "answer", packet' = p,
         session' \in {"initiating", "discovering"}, TypeOK', Stages',
         UNCHANGED <<toHost, lost, damaged, late, answer, irrecoverable, gone, calls, executed>>
  PROVE  IInv'
<1>1. /\ toDevice \in Seq(HostPackets) /\ Len(toDevice') = Len(toDevice) + 1 /\ Len(toDevice) \in Nat
      /\ \A i \in Sent : toDevice'[i] = toDevice[i]
      /\ toDevice'[Len(toDevice) + 1] = p
      /\ \A i \in Sent' : i \in Sent \/ i = Len(toDevice) + 1
      /\ Answered' = Answered
  BY AppendOf DEF IInv, TypeOK, ExchangeTypeOK, Sent, Answered
<1>2. /\ \A i \in Sent : toDevice[i].kind = "init" /\ toDevice[i].id = 0
      /\ \A i \in Answered : toHost[i].to.kind = "init" /\ toHost[i].to.id = 0
  BY Packets DEF IInv, Members, Expected, Same
<1>3. Members'
  BY <1>1, <1>2 DEF Members, Expected, Same
<1>4. InOrder'
  <2>1. \A i, j \in Sent' : i < j => i \in Sent
    BY <1>1 DEF Sent
  <2> QED
    BY <1>1, <1>2, <2>1 DEF InOrder, Before
<1>5. Alone'
  <2> SUFFICES ASSUME late = 0 PROVE Alone'
    BY DEF Alone
  <2>1. toDevice = <<>> /\ toHost = <<>>
    BY DEF IInv, Alone, Usable, Quiet
  <2> QED
    BY <1>1, <2>1 DEF Alone
<1>6. Over'
  BY DEF Over
<1>7. Answers'
  BY <1>1 DEF IInv, Answers, Genuine, Replies
<1>8. CarriedOut'
  BY <1>1 DEF IInv, CarriedOut, Acknowledged
<1>9. OncePerLoss'
  <2>1. ASSUME NEW i \in Sent' PROVE ~(toDevice'[i].kind = "command" /\ toDevice'[i].id > 0)
    <3>1. CASE i \in Sent
      BY <1>1, <1>2, <3>1
    <3>2. CASE i = Len(toDevice) + 1
      BY <1>1, <3>2
    <3> QED
      BY <1>1, <3>1, <3>2
  <2>2. CarriedOutOncePerLoss'
    BY DEF IInv, OncePerLoss, CarriedOutOncePerLoss
  <2>3. \A i \in Sent' : toDevice'[i].kind = "command" /\ toDevice'[i].id > 0 =>
          executed'[toDevice'[i].id] <= lost'
    BY <2>1
  <2>4. session' # "command"
    OBVIOUS
  <2> QED
    BY <2>2, <2>3, <2>4 DEF OncePerLoss
<1>10. Faults' /\ Orderly'
  <2>1. toDevice' # <<>>
    BY <1>1
  <2> QED
    BY <2>1 DEF IInv, Faults, OneFaultIsSurvived, Quiet, Orderly
<1> QED
  BY <1>3, <1>4, <1>5, <1>6, <1>7, <1>8, <1>9, <1>10 DEF IInv

LEMMA DiscoverDevicePreserves ==
  ASSUME IInv, DiscoverDevice
  PROVE  IInv'
<1>1. /\ session = "discovering" /\ StartExchange(discovery_packet, {})
      /\ UNCHANGED <<session, tries, calls, result, executed>>
  BY DEF DiscoverDevice, sessionVars
<1>2. /\ phase = "idle" /\ phase' = "answer" /\ packet' = discovery_packet /\ flags' = {}
      /\ attempts' = Attempts /\ toDevice' = Append(toDevice, discovery_packet)
      /\ UNCHANGED <<toHost, lost, damaged, late, answer, outcome, irrecoverable, gone>>
  BY <1>1 DEF StartExchange, InitialAttempts
<1>3. Usable /\ calls = 0 /\ packet = initial_check_packet
  BY <1>1, <1>2 DEF IInv, Stages
<1>4. TypeOK'
  <2>1. toDevice' \in Seq(HostPackets)
    BY <1>2, AppendOf, Packets DEF IInv, TypeOK, ExchangeTypeOK
  <2> QED
    BY <1>1, <1>2, <2>1, Packets, AttemptsAssumption DEF IInv, TypeOK, ExchangeTypeOK, Flags
<1>5. Stages'
  BY <1>1, <1>2, <1>3, Packets DEF Stages, Usable
<1> QED
  BY <1>1, <1>2, <1>3, <1>4, <1>5, SendAfterChecks, Packets

LEMMA InitiateAgainPreserves ==
  ASSUME IInv, InitiateAgain
  PROVE  IInv'
<1>1. /\ session = "initiating" /\ phase = "done" /\ outcome = "TIMEOUT_START" /\ tries > 1
      /\ tries' = tries - 1 /\ phase' = "answer" /\ attempts' = InitialAttempts(flags)
      /\ toDevice' = Append(toDevice, initial_check_packet)
      /\ UNCHANGED <<toHost, lost, damaged, late, packet, flags, outcome, answer, irrecoverable, gone>>
      /\ UNCHANGED <<session, calls, result, executed>>
  BY DEF InitiateAgain
<1>2. Usable /\ calls = 0 /\ packet = initial_check_packet /\ flags = {"no_timeout"}
  BY <1>1 DEF IInv, Stages, Usable
<1>3. attempts' = Attempts
  BY <1>1, <1>2 DEF InitialAttempts
<1>4. TypeOK'
  <2>1. toDevice' \in Seq(HostPackets)
    BY <1>1, AppendOf, Packets DEF IInv, TypeOK, ExchangeTypeOK
  <2>2. tries' \in 0 .. InitAttempts
    BY <1>1, InitAttemptsAssumption DEF IInv, TypeOK
  <2> QED
    BY <1>1, <1>3, <2>1, <2>2, AttemptsAssumption DEF IInv, TypeOK, ExchangeTypeOK
<1>5. Stages'
  BY <1>1, <1>2 DEF IInv, Stages, Usable
<1> QED
  BY <1>1, <1>2, <1>4, <1>5, SendAfterChecks, Packets

-----------------------------------------------------------------------------
LEMMA InitEstablishes == Init => IInv
<1> SUFFICES ASSUME Init PROVE IInv
  OBVIOUS
<1>1. /\ toDevice = <<>> /\ toHost = <<>> /\ lost = 0 /\ damaged = 0 /\ late = 0
      /\ phase = "idle" /\ packet = NoPacket /\ flags = {} /\ attempts = 0
      /\ outcome = "none" /\ answer = NoAnswer /\ irrecoverable = FALSE /\ gone = FALSE
      /\ session = "closed" /\ tries = 0 /\ calls = 0 /\ result = "none"
      /\ executed = [c \in 1 .. MaxCalls |-> 0]
  BY DEF Init, ExchangeInit
<1>2. Sent = {} /\ Answered = {} /\ Len(toHost) = 0 /\ Len(toDevice) = 0 /\ Quiet
  BY <1>1 DEF Sent, Answered, Quiet
<1>3. TypeOK
  <2>1. ExchangeTypeOK
    <3>1. toDevice \in Seq(HostPackets) /\ toHost \in Seq(DevicePackets)
      BY <1>1
    <3>2. lost \in 0 .. MaxLost /\ damaged \in 0 .. MaxDamaged /\ late \in 0 .. MaxLate /\ attempts \in 0 .. Attempts
      BY <1>1, AttemptsAssumption, FaultsAssumption
    <3> QED
      BY <1>1, <3>1, <3>2, Packets DEF ExchangeTypeOK, Outcomes
  <2>2. session \in Sessions /\ tries \in 0 .. InitAttempts /\ calls \in 0 .. MaxCalls /\ result \in Outcomes
    BY <1>1, InitAttemptsAssumption, MaxCallsAssumption DEF Sessions, Outcomes
  <2>3. executed \in [1 .. MaxCalls -> Nat]
    BY <1>1
  <2> QED
    BY <2>1, <2>2, <2>3 DEF TypeOK
<1>4. Stages /\ Orderly
  BY <1>1, Packets DEF Stages, Usable, Orderly
<1>5. Members /\ InOrder /\ Alone /\ Answers /\ Over
  BY <1>1, <1>2 DEF Members, InOrder, Alone, Answers, Over
<1>6. CarriedOut /\ OncePerLoss /\ Faults
  BY <1>1, <1>2, Packets
     DEF CarriedOut, Acknowledged, OncePerLoss, CarriedOutOncePerLoss, Faults, OneFaultIsSurvived
<1> QED
  BY <1>3, <1>4, <1>5, <1>6 DEF IInv

LEMMA StutterPreserves ==
  ASSUME IInv, UNCHANGED vars
  PROVE  IInv'
<1>1. /\ UNCHANGED <<toDevice, toHost, lost, damaged, late, phase, packet, flags, attempts, outcome,
                     answer, irrecoverable, gone, session, tries, calls, result, executed>>
      /\ Sent' = Sent /\ Answered' = Answered
  BY DEF vars, exchangeVars, wireVars, hostVars, sessionVars, Sent, Answered
<1>2. TypeOK' /\ Orderly' /\ Stages'
  BY <1>1 DEF IInv, TypeOK, ExchangeTypeOK, Orderly, Stages, Usable
<1>3. Members' /\ InOrder' /\ Alone' /\ Over'
  BY <1>1 DEF IInv, Members, InOrder, Alone, Over, Expected, Quiet, Usable
<1>4. Answers' /\ CarriedOut'
  BY <1>1 DEF IInv, Answers, CarriedOut, Genuine, Replies, Acknowledged
<1>5. OncePerLoss' /\ Faults'
  BY <1>1 DEF IInv, OncePerLoss, CarriedOutOncePerLoss, Faults, OneFaultIsSurvived, Unanswered, Quiet
<1> QED
  BY <1>2, <1>3, <1>4, <1>5 DEF IInv

LEMMA StepPreserves ==
  ASSUME Discovers
  PROVE  IInv /\ [Next]_vars => IInv'
<1> SUFFICES ASSUME IInv, [Next]_vars PROVE IInv'
  OBVIOUS
<1>1. CASE OpenLink
  BY <1>1, OpenLinkPreserves
<1>2. CASE DeleteFile \/ CopyFile \/ ResetStorage \/ OptimizeStorage
  BY <1>2, GiveCommandPreserves DEF DeleteFile, CopyFile, ResetStorage, OptimizeStorage
<1>3. CASE CloseLink
  BY <1>3, CloseLinkPreserves
<1>4. CASE Caller
  BY <1>4, InitiateAgainPreserves, InitiatedPreserves, DiscoverDevicePreserves, DiscoveredPreserves,
     CommandReturnsPreserves, TerminatedPreserves DEF Caller
<1>5. CASE Exchange
  <2>1. CASE ExchangeStep /\ Orderly' /\ UNCHANGED sessionVars
    BY <2>1, ReceiveDamagedPreserves, ReceiveAnswerPreserves, ReceiveResendPreserves, ReceiveCheckAnswerPreserves,
       AnswerTimesOutPreserves, CheckTimesOutPreserves DEF ExchangeStep
  <2>2. CASE (Unplugged \/ Wire) /\ Orderly' /\ UNCHANGED sessionVars
    BY <2>2, UnpluggedPreserves, LosePacketPreserves, DamagePacketPreserves DEF Wire
  <2> QED
    BY <1>5, <2>1, <2>2 DEF Exchange, Step
<1>6. CASE DeviceStep
  BY <1>6, DeviceStepPreserves
<1>7. CASE UNCHANGED vars
  BY <1>7, StutterPreserves
<1> QED
  BY <1>1, <1>2, <1>3, <1>4, <1>5, <1>6, <1>7 DEF Next

-----------------------------------------------------------------------------
(* What the invariant says of the properties of the session.               *)
LEMMA InvariantsHold ==
  IInv => TypeOK /\ AnswersMatch /\ QuietAtRest /\ OneFaultIsSurvived /\ CarriedOutOncePerLoss
<1> SUFFICES ASSUME IInv
    PROVE  TypeOK /\ AnswersMatch /\ QuietAtRest /\ OneFaultIsSurvived /\ CarriedOutOncePerLoss
  OBVIOUS
<1>1. AnswersMatch
  BY DEF IInv, Over, AnswersMatch, Same
<1>2. QuietAtRest
  BY DEF IInv, Over, QuietAtRest, Usable, Quiet
<1> QED
  BY <1>1, <1>2 DEF IInv, OncePerLoss, Faults

(* The invariant holds for any numbers of attempts, commands and faults.   *)
THEOREM Invariance ==
  ASSUME Discovers
  PROVE  Spec => []IInv
BY InitEstablishes, StepPreserves, PTL DEF Spec

(* The answer a command or the termination goes by was given to that very  *)
(* packet (send_packet.c, and the check that catches what came late).      *)
THEOREM AnswersBelong ==
  ASSUME Discovers
  PROVE  Spec => []AnswersMatch
BY Invariance, InvariantsHold, PTL

(* A usable link at rest has no packet nor answer on its way, so that the  *)
(* next call starts in step with the device (send_packet.c:88-147).        *)
THEOREM RestIsQuiet ==
  ASSUME Discovers
  PROVE  Spec => []QuietAtRest
BY Invariance, InvariantsHold, PTL

(* One packet lost or damaged never makes the link irrecoverable (the      *)
(* attempts and the timeout check of send_packet.c:88-147).                *)
THEOREM FaultsAreAbsorbed ==
  ASSUME Discovers
  PROVE  Spec => []OneFaultIsSurvived
BY Invariance, InvariantsHold, PTL

(* A command is carried out again only for a packet that was lost: neither *)
(* damage nor a late answer makes the host repeat it (send_packet.c:88-147). *)
THEOREM CommandsAreNotRepeated ==
  ASSUME Discovers
  PROVE  Spec => []CarriedOutOncePerLoss
BY Invariance, InvariantsHold, PTL

(* Once a link is irrecoverable or gone, nothing more is sent on it, by    *)
(* later commands (check.c:39-42) or by closing it (close.c:42-47).        *)
THEOREM BrokenLinksAreSilent ==
  ASSUME Discovers
  PROVE  Spec => NothingSentOnceBroken
<1>1. IInv /\ [Next]_vars => [irrecoverable \/ gone => Len(toDevice') <= Len(toDevice)]_vars
  <2> SUFFICES ASSUME IInv, [Next]_vars, irrecoverable \/ gone PROVE Len(toDevice') <= Len(toDevice)
    OBVIOUS
  <2>1. ~Usable /\ toDevice \in Seq(HostPackets) /\ Len(toDevice) \in Nat
    BY DEF Usable, IInv, TypeOK, ExchangeTypeOK
  <2>2. phase \notin {"answer", "check", "receive"}
    BY <2>1 DEF IInv, Stages
  <2>3. CASE OpenLink
    BY <2>1, <2>3 DEF OpenLink, IInv, Stages
  <2>4. CASE DeleteFile \/ CopyFile \/ ResetStorage \/ OptimizeStorage
    BY <2>1, <2>4 DEF DeleteFile, CopyFile, ResetStorage, OptimizeStorage, GiveCommand
  <2>5. CASE CloseLink
    BY <2>1, <2>5 DEF CloseLink, exchangeVars, wireVars
  <2>6. CASE Caller
    <3>1. ~InitiateAgain /\ ~DiscoverDevice
      BY <2>1 DEF InitiateAgain, DiscoverDevice, StartExchange, IInv, Stages, Usable
    <3>2. UNCHANGED toDevice
      BY <2>6, <3>1
         DEF Caller, Initiated, Discovered, CommandReturns, Terminated, ExchangeReturns, wireVars
    <3> QED
      BY <2>1, <3>2
  <2>7. CASE Exchange
    <3>1. ~ExchangeStep /\ ~Unplugged
      BY <2>2
         DEF ExchangeStep, ReceiveDamaged, ReceiveAnswer, ReceiveResend, ReceiveCheckAnswer,
             AnswerTimesOut, CheckTimesOut, Unplugged
    <3>2. CASE LosePacket
      BY <2>1, <3>2, TailOf DEF LosePacket
    <3>3. CASE DamagePacket
      BY <2>1, <3>3 DEF DamagePacket
    <3> QED
      BY <2>7, <3>1, <3>2, <3>3 DEF Exchange, Step, Wire
  <2>8. CASE DeviceStep
    <3>1. toDevice # <<>> /\ toDevice' = Tail(toDevice)
      BY <2>8 DEF DeviceStep, DeviceAnswers, DeviceSends
    <3> QED
      BY <2>1, <3>1, TailOf
  <2>9. CASE UNCHANGED vars
    BY <2>1, <2>9 DEF vars, exchangeVars, wireVars
  <2> QED
    BY <2>3, <2>4, <2>5, <2>6, <2>7, <2>8, <2>9 DEF Next
<1> QED
  BY <1>1, Invariance, PTL DEF Spec, NothingSentOnceBroken

-----------------------------------------------------------------------------
LEMMA ServiceStarts == Init => Service!Init
<1> SUFFICES ASSUME Init PROVE Service!Init
  OBVIOUS
<1>1. calls = 0 /\ session # "command" /\ {c \in 1 .. MaxCalls : executed[c] > 0} = {} /\ result = "none"
  BY MaxCallsAssumption DEF Init
<1> QED
  BY <1>1 DEF Service!Init

(* Every step of the session is one of the service, or changes nothing of  *)
(* what the service promises.                                              *)
LEMMA ServiceStep ==
  ASSUME IInv, [Next]_vars
  PROVE  [Service!Next]_(Service!vars)
<1> DEFINE done == {c \in 1 .. MaxCalls : executed[c] > 0}
<1>1. CASE \/ OpenLink \/ CloseLink \/ InitiateAgain \/ Initiated \/ DiscoverDevice
           \/ Discovered \/ Terminated \/ Exchange \/ UNCHANGED vars
  <2>1. UNCHANGED <<calls, result, executed>> /\ (session = "command") = (session' = "command")
    BY <1>1 DEF OpenLink, CloseLink, InitiateAgain, Initiated, DiscoverDevice, Discovered, Terminated, Exchange, Step,
       sessionVars, vars
  <2> QED
    BY <2>1 DEF Service!vars
<1>2. CASE DeleteFile \/ CopyFile \/ ResetStorage \/ OptimizeStorage
  <2>1. GiveCommand
    BY <1>2 DEF DeleteFile, CopyFile, ResetStorage, OptimizeStorage
  <2>2. Service!Give
    BY <2>1 DEF GiveCommand, Service!Give
  <2> QED
    BY <2>2 DEF Service!Next
<1>3. CASE CommandReturns
  <2>1. /\ session = "command" /\ phase = "done" /\ session' = "open"
        /\ result' = IF outcome = "OK" /\ ~Expect("ack") THEN "UNKNOWN" ELSE outcome
        /\ UNCHANGED <<calls, executed>>
    BY <1>3 DEF CommandReturns
  <2>2. CASE outcome = "OK" /\ answer.kind = "ack"
    <3>1. packet = Packet("command", calls) /\ calls \in Nat /\ Same(answer.to, packet)
      BY <2>1, <2>2 DEF IInv, Stages, Over, TypeOK
    <3>2. answer.to.kind = "command" /\ answer.to.id = calls
      BY <3>1, Packets DEF Same
    <3>3. calls \in 1 .. MaxCalls /\ executed[calls] > 0
      BY <2>2, <3>2 DEF IInv, CarriedOut, Acknowledged
    <3>4. result' = "OK"
      BY <2>1, <2>2 DEF Expect
    <3>5. Service!Succeed
      BY <2>1, <3>3, <3>4 DEF Service!Succeed
    <3> QED
      BY <3>5 DEF Service!Next
  <2>3. CASE ~(outcome = "OK" /\ answer.kind = "ack")
    <3>1. result' \in {"UNKNOWN", "CORRUPT", "SIZE", "TIMEOUT", "TIMEOUT_START", "GONE"}
      BY <2>1, <2>3 DEF Expect, IInv, Stages, TypeOK, ExchangeTypeOK, Outcomes, DamageErrors
    <3>2. Service!Fail
      BY <2>1, <3>1 DEF Service!Fail
    <3> QED
      BY <3>2 DEF Service!Next
  <2> QED
    BY <2>2, <2>3
<1>4. CASE DeviceStep
  <2>1. toDevice # <<>> /\ toDevice \in Seq(HostPackets) /\ UNCHANGED <<session, calls, result>>
    BY <1>4 DEF DeviceStep, IInv, TypeOK, ExchangeTypeOK
  <2>2. PICK p \in HostPackets : p = toDevice[1] /\ p = Head(toDevice) /\ Expected(p)
    <3>1. toDevice[1] \in HostPackets /\ toDevice[1] = Head(toDevice) /\ 1 \in Sent
      BY <2>1, TailOf DEF Sent
    <3> QED
      BY <3>1 DEF IInv, Members
  <2>3. PICK k \in Replies(p) :
          executed' = IF p.kind = "command" /\ k = "ack" THEN [executed EXCEPT ![p.id] = @ + 1] ELSE executed
    BY <1>4, <2>2 DEF DeviceStep
  <2>4. CASE p.kind = "command" /\ k = "ack"
    <3>1. p.id = calls /\ calls \in 1 .. MaxCalls
      BY <2>2, <2>3, <2>4, RepliesAre, CommandsAreTheLast
    <3>2. executed \in [1 .. MaxCalls -> Nat]
      BY DEF IInv, TypeOK
    <3>3. done' = done \cup {calls}
      BY <2>3, <2>4, <3>1, <3>2
    <3>4. Service!CarryOut
      BY <2>1, <3>1, <3>3 DEF Service!CarryOut
    <3> QED
      BY <3>4 DEF Service!Next
  <2>5. CASE ~(p.kind = "command" /\ k = "ack")
    <3>1. executed' = executed
      BY <2>3, <2>5
    <3> QED
      BY <2>1, <3>1 DEF Service!vars
  <2> QED
    BY <2>4, <2>5
<1> QED
  BY <1>1, <1>2, <1>3, <1>4 DEF Next, Caller

(* A session of commands keeps the promise of CommandService: success      *)
(* means that the device has carried the command out, and a command that   *)
(* has returned is not carried out after the next one was given.           *)
THEOREM SessionsServe ==
  ASSUME Discovers
  PROVE  Spec => ServiceSpec
BY Invariance, ServiceStarts, ServiceStep, PTL DEF Spec, ServiceSpec, Service!Spec
-----------------------------------------------------------------------------
(* Screens (SevenOhp).                                                     *)

(* The units on the wire: a mark, which is never that of a checksum, or    *)
(* the checksum of a check, or of a frame that was sent.                   *)
PartName(n) == <<"p1", "p2", "p3", "p4", "p5", "p6">>[n]

Summed(kind, n) ==
  CASE kind = "TYP01" -> <<"TYP", "01", "0B", PartName(n)>>
    [] kind = "TYPZ"  -> <<"TYP", "Z", "0", "2", "2", "rgb", "0B", PartName(n)>>
    [] kind = "TYPB"  -> <<"TYP", "B", "0", "1", "1", "1", PartName(n)>>

SumOf(names) == [is |-> "sum", of |-> names]

Names ==
  {"16", "CAL", "00", "0B", "TYP", "01", "Z", "0", "1", "2", "rgb", "x",
   "p1", "p2", "p3", "p4", "p5", "p6"} \cup IF mode = "parts" THEN {"B"} ELSE {}

Received ==
  {Screens!Unit(s) : s \in Names} \cup {SumOf(<<"CAL", "00">>)}
    \cup {SumOf(Summed(kind, n)) : kind \in Screens!Kinds(mode), n \in 1 .. sent}

LEMMA MarksAre == ASSUME NEW s \in Names PROVE Screens!Unit(s) \in Received
BY DEF Received

LEMMA ReceivedIs ==
  ASSUME NEW u \in Received
  PROVE  \/ u.is # "sum" /\ u = Screens!Unit(u.is) /\ (u.is = "B" => mode = "parts")
         \/ u = SumOf(<<"CAL", "00">>)
         \/ \E kind \in Screens!Kinds(mode), n \in 1 .. sent : u = SumOf(Summed(kind, n))
<1>1. ASSUME NEW s \in Names, u = Screens!Unit(s)
      PROVE  u.is # "sum" /\ u = Screens!Unit(u.is) /\ (u.is = "B" => mode = "parts")
  <2>1. u.is = s
    BY <1>1 DEF Screens!Unit
  <2>2. s # "sum" /\ (s = "B" => mode = "parts")
    BY DEF Names
  <2> QED
    BY <1>1, <2>1, <2>2
<1> QED
  BY <1>1 DEF Received

LEMMA PartNamesAre == ASSUME NEW n \in 1 .. 6 PROVE PartName(n) \in Names
<1>1. PartName(n) \in {"p1", "p2", "p3", "p4", "p5", "p6"}
  BY DEF PartName
<1> QED
  BY <1>1 DEF Names

LEMMA ContentsAre ==
  ASSUME NEW n \in 1 .. 6
  PROVE  Screens!Content(n) = Screens!Unit(PartName(n)) /\ Screens!Content(n) \in Received
<1>1. Screens!Content(n) = Screens!Unit(PartName(n))
  BY DEF Screens!Content, PartName
<1> QED
  BY <1>1, PartNamesAre, MarksAre

(* What begins, and ends, sequences.                                       *)
LEMMA ConcatOf ==
  ASSUME NEW S, NEW s \in Seq(S), NEW t \in Seq(S)
  PROVE  /\ s \o t \in Seq(S) /\ Len(s \o t) = Len(s) + Len(t)
         /\ \A k \in 1 .. Len(s) : (s \o t)[k] = s[k]
         /\ \A k \in 1 .. Len(t) : (s \o t)[Len(s) + k] = t[k]
OBVIOUS

LEMMA RestOf ==
  ASSUME NEW S, NEW s \in Seq(S), NEW m \in 0 .. Len(s)
  PROVE  /\ SubSeq(s, m + 1, Len(s)) \in Seq(S)
         /\ Len(SubSeq(s, m + 1, Len(s))) = Len(s) - m
         /\ \A k \in 1 .. Len(s) - m : SubSeq(s, m + 1, Len(s))[k] = s[m + k]
OBVIOUS

LEMMA BeginningOf ==
  ASSUME NEW S, NEW s \in Seq(S), NEW m \in 0 .. Len(s)
  PROVE  /\ SubSeq(s, 1, m) \in Seq(S) /\ Len(SubSeq(s, 1, m)) = m
         /\ \A k \in 1 .. m : SubSeq(s, 1, m)[k] = s[k]
OBVIOUS

LEMMA SummedOf ==
  ASSUME NEW S, NEW us \in Seq(S), Len(us) >= 1
  PROVE  /\ Screens!WithSum(us) = Append(us, Screens!Sum(Tail(us)))
         /\ Len(Screens!WithSum(us)) = Len(us) + 1
         /\ \A k \in 1 .. Len(us) : Screens!WithSum(us)[k] = us[k]
         /\ Screens!WithSum(us)[Len(us) + 1]
              = SumOf([k \in 1 .. Len(us) - 1 |-> us[k + 1].is])
<1>1. Tail(us) \in Seq(S) /\ Len(Tail(us)) = Len(us) - 1
         /\ \A k \in 1 .. Len(us) - 1 : Tail(us)[k] = us[k + 1]
  OBVIOUS
<1>2. Screens!WithSum(us) = Append(us, Screens!Sum(Tail(us)))
  BY DEF Screens!WithSum
<1>3. Screens!Sum(Tail(us)) = SumOf([k \in 1 .. Len(us) - 1 |-> us[k + 1].is])
  BY <1>1 DEF Screens!Sum, SumOf
<1> DEFINE v == Screens!Sum(Tail(us))
<1> HIDE DEF v
<1>4. /\ Len(Append(us, v)) = Len(us) + 1
      /\ \A k \in 1 .. Len(us) : Append(us, v)[k] = us[k]
      /\ Append(us, v)[Len(us) + 1] = v
  OBVIOUS
<1> QED
  BY <1>2, <1>3, <1>4 DEF v

(* Packets of the calculator, in what is on the wire after the first k     *)
(* units.                                                                  *)
CheckAt(w, k) ==
  Len(w) = k + 4 /\ w[k + 1] = Screens!Unit("16") /\ w[k + 2] = Screens!Unit("CAL")
    /\ w[k + 3] = Screens!Unit("00")

MonoAt(w, k, n) ==
  Len(w) = k + 6 /\ w[k + 1] = Screens!Unit("0B") /\ w[k + 2] = Screens!Unit("TYP")
    /\ w[k + 3] = Screens!Unit("01") /\ w[k + 4] = Screens!Unit("0B") /\ w[k + 5] = Screens!Content(n)

ColorAt(w, k, n) ==
  Len(w) = k + 10 /\ w[k + 1] = Screens!Unit("0B") /\ w[k + 2] = Screens!Unit("TYP")
    /\ w[k + 3] = Screens!Unit("Z") /\ w[k + 4] = Screens!Unit("0") /\ w[k + 5] = Screens!Unit("2")
    /\ w[k + 6] = Screens!Unit("2") /\ w[k + 7] = Screens!Unit("rgb") /\ w[k + 8] = Screens!Unit("0B")
    /\ w[k + 9] = Screens!Content(n)

PartAt(w, k, n) ==
  Len(w) = k + 9 /\ w[k + 1] = Screens!Unit("0B") /\ w[k + 2] = Screens!Unit("TYP")
    /\ w[k + 3] = Screens!Unit("B") /\ w[k + 4] = Screens!Unit("0") /\ w[k + 5] = Screens!Unit("1")
    /\ w[k + 6] = Screens!Unit("1") /\ w[k + 7] = Screens!Unit("1") /\ w[k + 8] = Screens!Content(n)

LEMMA CheckIs ==
  /\ Screens!CheckPacket \in Seq(Received) /\ CheckAt(Screens!CheckPacket, 0)
<1> DEFINE us == <<Screens!Unit("16"), Screens!Unit("CAL"), Screens!Unit("00")>>
<1>1. Screens!Units(<<"16", "CAL", "00">>) = us
  BY DEF Screens!Units
<1>2. us \in Seq(Received)
  <2>1. {"16", "CAL", "00"} \subseteq Names
    BY DEF Names
  <2>2. Screens!Unit("16") \in Received /\ Screens!Unit("CAL") \in Received /\ Screens!Unit("00") \in Received
    BY <2>1, MarksAre
  <2> QED
    BY <2>2
<1>3. Len(us) = 3 /\ us[1] = Screens!Unit("16") /\ us[2] = Screens!Unit("CAL") /\ us[3] = Screens!Unit("00")
  OBVIOUS
<1>4. Screens!CheckPacket = Screens!WithSum(us)
  BY <1>1 DEF Screens!CheckPacket
<1> HIDE DEF us
<1>5. [k \in 1 .. Len(us) - 1 |-> us[k + 1].is] = <<"CAL", "00">>
  <2> DEFINE f == [k \in 1 .. Len(us) - 1 |-> us[k + 1].is]
  <2>1. f = [k \in 1 .. 2 |-> us[k + 1].is]
    BY <1>3
  <2>2. us[2].is = "CAL" /\ us[3].is = "00"
    BY <1>3 DEF Screens!Unit
  <2>3. \A k \in 1 .. 2 : us[k + 1].is = <<"CAL", "00">>[k]
    BY <2>2
  <2>4. <<"CAL", "00">> = [k \in 1 .. 2 |-> <<"CAL", "00">>[k]]
    OBVIOUS
  <2> HIDE DEF f
  <2> QED
    BY <2>1, <2>3, <2>4 DEF f
<1>6. SumOf(<<"CAL", "00">>) \in Received
  BY DEF Received
<1>7. /\ Screens!WithSum(us) = Append(us, Screens!Sum(Tail(us)))
      /\ Len(Screens!WithSum(us)) = 4
      /\ \A k \in 1 .. 3 : Screens!WithSum(us)[k] = us[k]
      /\ Screens!WithSum(us)[4] = SumOf(<<"CAL", "00">>)
  <2>1. Len(us) >= 1
    BY <1>3
  <2>2. /\ Screens!WithSum(us) = Append(us, Screens!Sum(Tail(us)))
        /\ Len(Screens!WithSum(us)) = Len(us) + 1
        /\ \A k \in 1 .. Len(us) : Screens!WithSum(us)[k] = us[k]
        /\ Screens!WithSum(us)[Len(us) + 1] = SumOf([k \in 1 .. Len(us) - 1 |-> us[k + 1].is])
    BY <1>2, <2>1, SummedOf
  <2>3. Screens!WithSum(us)[Len(us) + 1] = SumOf(<<"CAL", "00">>)
    BY <2>2, <1>5
  <2> QED
    BY <2>2, <2>3, <1>3
<1>8. Screens!Sum(Tail(us)) \in Received
  BY <1>2, <1>3, <1>6, <1>7
<1>9. Screens!WithSum(us) \in Seq(Received)
  BY <1>2, <1>7, <1>8
<1> QED
  BY <1>3, <1>4, <1>7, <1>9 DEF CheckAt

LEMMA MonoFrameIs ==
  ASSUME NEW T, NEW n \in 1 .. 6, {Screens!Unit(s) : s \in Names} \subseteq T,
         SumOf(Summed("TYP01", n)) \in T
  PROVE  LET w == Screens!Frame("TYP01", <<Screens!Unit("0B"), Screens!Content(n)>>)
         IN  w \in Seq(T) /\ MonoAt(w, 0, n)
<1> DEFINE h == <<Screens!Unit("0B"), Screens!Unit("TYP"), Screens!Unit("01")>>
           s == <<Screens!Unit("0B"), Screens!Content(n)>>
           t == s
<1>1. Screens!Units(<<"0B", "TYP", "01">>) = h
  BY DEF Screens!Units
<1>2. Screens!Frame("TYP01", s) = Screens!WithSum(h \o t)
  BY <1>1 DEF Screens!Frame
<1>3. {"01", "0B", "TYP"} \subseteq Names /\ PartName(n) \in Names
  BY PartNamesAre DEF Names
<1>4. \A x \in {"01", "0B", "TYP"} : Screens!Unit(x) \in T
  BY <1>3
<1>5. Screens!Content(n) = Screens!Unit(PartName(n)) /\ Screens!Content(n) \in T
  BY <1>3, ContentsAre
<1>6. /\ h \in Seq(T) /\ Len(h) = 3
      /\ h[1] = Screens!Unit("0B")
      /\ h[2] = Screens!Unit("TYP")
      /\ h[3] = Screens!Unit("01")
  BY <1>4
<1>7. /\ t \in Seq(T) /\ Len(t) = 2 /\ t[1] = Screens!Unit("0B") /\ t[2] = Screens!Content(n)
  BY <1>4, <1>5
<1> DEFINE us == h \o t
<1> HIDE DEF h, t
<1>8. /\ us \in Seq(T) /\ Len(us) = 5
      /\ \A k \in 1 .. 3 : us[k] = h[k]
      /\ \A k \in 1 .. 2 : us[3 + k] = t[k]
  <2>1. /\ us \in Seq(T) /\ Len(us) = Len(h) + Len(t)
        /\ \A k \in 1 .. Len(h) : us[k] = h[k]
        /\ \A k \in 1 .. Len(t) : us[Len(h) + k] = t[k]
    <3>1. h \in Seq(T) /\ t \in Seq(T)
      BY <1>6, <1>7
    <3> QED
      BY <3>1
  <2> QED
    BY <2>1, <1>6, <1>7
<1> HIDE DEF us
<1>9. /\ us[1] = Screens!Unit("0B")
      /\ us[2] = Screens!Unit("TYP")
      /\ us[3] = Screens!Unit("01")
      /\ us[4] = Screens!Unit("0B")
      /\ us[5] = Screens!Content(n)
  BY <1>6, <1>7, <1>8
<1>10. [k \in 1 .. Len(us) - 1 |-> us[k + 1].is] = Summed("TYP01", n)
  <2> DEFINE f == [k \in 1 .. Len(us) - 1 |-> us[k + 1].is]
             g == <<"TYP", "01", "0B", PartName(n)>>
  <2>1. f = [k \in 1 .. 4 |-> us[k + 1].is]
    BY <1>8
  <2>2. us[2].is = "TYP" /\ us[3].is = "01" /\ us[4].is = "0B" /\ us[5].is = PartName(n)
    BY <1>5, <1>9 DEF Screens!Unit
  <2>3. \A k \in 1 .. 4 : us[k + 1].is = g[k]
    BY <2>2
  <2>4. g = [k \in 1 .. 4 |-> g[k]]
    OBVIOUS
  <2>5. Summed("TYP01", n) = g
    BY DEF Summed
  <2> HIDE DEF f, g
  <2>6. f = g
    BY <2>1, <2>3, <2>4
  <2> QED
    BY <2>5, <2>6 DEF f
<1>11. /\ Screens!WithSum(us) = Append(us, Screens!Sum(Tail(us)))
       /\ Len(Screens!WithSum(us)) = Len(us) + 1
       /\ \A k \in 1 .. Len(us) : Screens!WithSum(us)[k] = us[k]
       /\ Screens!WithSum(us)[Len(us) + 1] = SumOf([k \in 1 .. Len(us) - 1 |-> us[k + 1].is])
  <2>1. Len(us) >= 1
    BY <1>8
  <2> QED
    BY <1>8, <2>1, SummedOf
<1>12. Screens!WithSum(us)[6] \in T
  BY <1>8, <1>10, <1>11
<1>13. Screens!WithSum(us) \in Seq(T)
  BY <1>8, <1>11, <1>12
<1>14. MonoAt(Screens!WithSum(us), 0, n)
  BY <1>8, <1>9, <1>11 DEF MonoAt
<1> QED
  BY <1>2, <1>13, <1>14 DEF us

LEMMA ColorFrameIs ==
  ASSUME NEW T, NEW n \in 1 .. 6, {Screens!Unit(s) : s \in Names} \subseteq T,
         SumOf(Summed("TYPZ", n)) \in T
  PROVE  LET w == Screens!Frame("TYPZ", <<Screens!Unit("0B"), Screens!Content(n)>>)
         IN  w \in Seq(T) /\ ColorAt(w, 0, n)
<1> DEFINE h == <<Screens!Unit("0B"), Screens!Unit("TYP"), Screens!Unit("Z"), Screens!Unit("0"), Screens!Unit("2"), Screens!Unit("2"), Screens!Unit("rgb")>>
           s == <<Screens!Unit("0B"), Screens!Content(n)>>
           t == s
<1>1. Screens!Units(<<"0B", "TYP", "Z", "0", "2", "2", "rgb">>) = h
  BY DEF Screens!Units
<1>2. Screens!Frame("TYPZ", s) = Screens!WithSum(h \o t)
  BY <1>1 DEF Screens!Frame
<1>3. {"0", "0B", "2", "TYP", "Z", "rgb"} \subseteq Names /\ PartName(n) \in Names
  BY PartNamesAre DEF Names
<1>4. \A x \in {"0", "0B", "2", "TYP", "Z", "rgb"} : Screens!Unit(x) \in T
  BY <1>3
<1>5. Screens!Content(n) = Screens!Unit(PartName(n)) /\ Screens!Content(n) \in T
  BY <1>3, ContentsAre
<1>6. /\ h \in Seq(T) /\ Len(h) = 7
      /\ h[1] = Screens!Unit("0B")
      /\ h[2] = Screens!Unit("TYP")
      /\ h[3] = Screens!Unit("Z")
      /\ h[4] = Screens!Unit("0")
      /\ h[5] = Screens!Unit("2")
      /\ h[6] = Screens!Unit("2")
      /\ h[7] = Screens!Unit("rgb")
  BY <1>4
<1>7. /\ t \in Seq(T) /\ Len(t) = 2 /\ t[1] = Screens!Unit("0B") /\ t[2] = Screens!Content(n)
  BY <1>4, <1>5
<1> DEFINE us == h \o t
<1> HIDE DEF h, t
<1>8. /\ us \in Seq(T) /\ Len(us) = 9
      /\ \A k \in 1 .. 7 : us[k] = h[k]
      /\ \A k \in 1 .. 2 : us[7 + k] = t[k]
  <2>1. /\ us \in Seq(T) /\ Len(us) = Len(h) + Len(t)
        /\ \A k \in 1 .. Len(h) : us[k] = h[k]
        /\ \A k \in 1 .. Len(t) : us[Len(h) + k] = t[k]
    <3>1. h \in Seq(T) /\ t \in Seq(T)
      BY <1>6, <1>7
    <3> QED
      BY <3>1
  <2> QED
    BY <2>1, <1>6, <1>7
<1> HIDE DEF us
<1>9. /\ us[1] = Screens!Unit("0B")
      /\ us[2] = Screens!Unit("TYP")
      /\ us[3] = Screens!Unit("Z")
      /\ us[4] = Screens!Unit("0")
      /\ us[5] = Screens!Unit("2")
      /\ us[6] = Screens!Unit("2")
      /\ us[7] = Screens!Unit("rgb")
      /\ us[8] = Screens!Unit("0B")
      /\ us[9] = Screens!Content(n)
  BY <1>6, <1>7, <1>8
<1>10. [k \in 1 .. Len(us) - 1 |-> us[k + 1].is] = Summed("TYPZ", n)
  <2> DEFINE f == [k \in 1 .. Len(us) - 1 |-> us[k + 1].is]
             g == <<"TYP", "Z", "0", "2", "2", "rgb", "0B", PartName(n)>>
  <2>1. f = [k \in 1 .. 8 |-> us[k + 1].is]
    BY <1>8
  <2>2. us[2].is = "TYP" /\ us[3].is = "Z" /\ us[4].is = "0" /\ us[5].is = "2" /\ us[6].is = "2" /\ us[7].is = "rgb" /\ us[8].is = "0B" /\ us[9].is = PartName(n)
    BY <1>5, <1>9 DEF Screens!Unit
  <2>3. \A k \in 1 .. 8 : us[k + 1].is = g[k]
    BY <2>2
  <2>4. g = [k \in 1 .. 8 |-> g[k]]
    OBVIOUS
  <2>5. Summed("TYPZ", n) = g
    BY DEF Summed
  <2> HIDE DEF f, g
  <2>6. f = g
    BY <2>1, <2>3, <2>4
  <2> QED
    BY <2>5, <2>6 DEF f
<1>11. /\ Screens!WithSum(us) = Append(us, Screens!Sum(Tail(us)))
       /\ Len(Screens!WithSum(us)) = Len(us) + 1
       /\ \A k \in 1 .. Len(us) : Screens!WithSum(us)[k] = us[k]
       /\ Screens!WithSum(us)[Len(us) + 1] = SumOf([k \in 1 .. Len(us) - 1 |-> us[k + 1].is])
  <2>1. Len(us) >= 1
    BY <1>8
  <2> QED
    BY <1>8, <2>1, SummedOf
<1>12. Screens!WithSum(us)[10] \in T
  BY <1>8, <1>10, <1>11
<1>13. Screens!WithSum(us) \in Seq(T)
  BY <1>8, <1>11, <1>12
<1>14. ColorAt(Screens!WithSum(us), 0, n)
  BY <1>8, <1>9, <1>11 DEF ColorAt
<1> QED
  BY <1>2, <1>13, <1>14 DEF us

LEMMA PartFrameIs ==
  ASSUME NEW T, NEW n \in 1 .. 6, {Screens!Unit(s) : s \in Names} \subseteq T,
         SumOf(Summed("TYPB", n)) \in T, mode = "parts"
  PROVE  LET w == Screens!Frame("TYPB", <<Screens!Unit("0B"), Screens!Content(n)>>)
         IN  w \in Seq(T) /\ PartAt(w, 0, n)
<1> DEFINE h == <<Screens!Unit("0B"), Screens!Unit("TYP"), Screens!Unit("B"), Screens!Unit("0"), Screens!Unit("1"), Screens!Unit("1"), Screens!Unit("1")>>
           s == <<Screens!Unit("0B"), Screens!Content(n)>>
           t == <<Screens!Content(n)>>
<1>1. Screens!Units(<<"0B", "TYP", "B", "0", "1", "1", "1">>) = h
  BY DEF Screens!Units
<1>2. Screens!Frame("TYPB", s) = Screens!WithSum(h \o t)
  BY <1>1 DEF Screens!Frame
<1>3. {"0", "0B", "1", "B", "TYP"} \subseteq Names /\ PartName(n) \in Names
  BY PartNamesAre DEF Names
<1>4. \A x \in {"0", "0B", "1", "B", "TYP"} : Screens!Unit(x) \in T
  BY <1>3
<1>5. Screens!Content(n) = Screens!Unit(PartName(n)) /\ Screens!Content(n) \in T
  BY <1>3, ContentsAre
<1>6. /\ h \in Seq(T) /\ Len(h) = 7
      /\ h[1] = Screens!Unit("0B")
      /\ h[2] = Screens!Unit("TYP")
      /\ h[3] = Screens!Unit("B")
      /\ h[4] = Screens!Unit("0")
      /\ h[5] = Screens!Unit("1")
      /\ h[6] = Screens!Unit("1")
      /\ h[7] = Screens!Unit("1")
  BY <1>4
<1>7. /\ t \in Seq(T) /\ Len(t) = 1 /\ t[1] = Screens!Content(n)
  BY <1>5
<1> DEFINE us == h \o t
<1> HIDE DEF h, t
<1>8. /\ us \in Seq(T) /\ Len(us) = 8
      /\ \A k \in 1 .. 7 : us[k] = h[k]
      /\ \A k \in 1 .. 1 : us[7 + k] = t[k]
  <2>1. /\ us \in Seq(T) /\ Len(us) = Len(h) + Len(t)
        /\ \A k \in 1 .. Len(h) : us[k] = h[k]
        /\ \A k \in 1 .. Len(t) : us[Len(h) + k] = t[k]
    <3>1. h \in Seq(T) /\ t \in Seq(T)
      BY <1>6, <1>7
    <3> QED
      BY <3>1
  <2> QED
    BY <2>1, <1>6, <1>7
<1> HIDE DEF us
<1>9. /\ us[1] = Screens!Unit("0B")
      /\ us[2] = Screens!Unit("TYP")
      /\ us[3] = Screens!Unit("B")
      /\ us[4] = Screens!Unit("0")
      /\ us[5] = Screens!Unit("1")
      /\ us[6] = Screens!Unit("1")
      /\ us[7] = Screens!Unit("1")
      /\ us[8] = Screens!Content(n)
  BY <1>6, <1>7, <1>8
<1>10. [k \in 1 .. Len(us) - 1 |-> us[k + 1].is] = Summed("TYPB", n)
  <2> DEFINE f == [k \in 1 .. Len(us) - 1 |-> us[k + 1].is]
             g == <<"TYP", "B", "0", "1", "1", "1", PartName(n)>>
  <2>1. f = [k \in 1 .. 7 |-> us[k + 1].is]
    BY <1>8
  <2>2. us[2].is = "TYP" /\ us[3].is = "B" /\ us[4].is = "0" /\ us[5].is = "1" /\ us[6].is = "1" /\ us[7].is = "1" /\ us[8].is = PartName(n)
    BY <1>5, <1>9 DEF Screens!Unit
  <2>3. \A k \in 1 .. 7 : us[k + 1].is = g[k]
    BY <2>2
  <2>4. g = [k \in 1 .. 7 |-> g[k]]
    OBVIOUS
  <2>5. Summed("TYPB", n) = g
    BY DEF Summed
  <2> HIDE DEF f, g
  <2>6. f = g
    BY <2>1, <2>3, <2>4
  <2> QED
    BY <2>5, <2>6 DEF f
<1>11. /\ Screens!WithSum(us) = Append(us, Screens!Sum(Tail(us)))
       /\ Len(Screens!WithSum(us)) = Len(us) + 1
       /\ \A k \in 1 .. Len(us) : Screens!WithSum(us)[k] = us[k]
       /\ Screens!WithSum(us)[Len(us) + 1] = SumOf([k \in 1 .. Len(us) - 1 |-> us[k + 1].is])
  <2>1. Len(us) >= 1
    BY <1>8
  <2> QED
    BY <1>8, <2>1, SummedOf
<1>12. Screens!WithSum(us)[9] \in T
  BY <1>8, <1>10, <1>11
<1>13. Screens!WithSum(us) \in Seq(T)
  BY <1>8, <1>11, <1>12
<1>14. PartAt(Screens!WithSum(us), 0, n)
  BY <1>8, <1>9, <1>11 DEF PartAt
<1> QED
  BY <1>2, <1>13, <1>14 DEF us

(* The headers a packet may have.                                          *)
CheckHeader(b) ==
  /\ Len(b) = 3 /\ b[1] = Screens!Unit("16") /\ b[2] = Screens!Unit("CAL") /\ b[3] = Screens!Unit("00")
MonoHeader(b) ==
  /\ Len(b) = 3 /\ b[1] = Screens!Unit("0B") /\ b[2] = Screens!Unit("TYP") /\ b[3] = Screens!Unit("01")
LongBegins(b) ==
  /\ b[1] = Screens!Unit("0B") /\ b[2] = Screens!Unit("TYP")
  /\ b[3] = Screens!Unit("Z") \/ b[3] = Screens!Unit("B")
LongHeader(b) ==
  /\ Len(b) = 7 /\ LongBegins(b) /\ Screens!FrameLength(b) \in 1 .. 2

Begun(b) == CheckHeader(b) \/ MonoHeader(b) \/ (Len(b) = 3 /\ LongBegins(b))

LEMMA UnitsDiffer ==
  ASSUME NEW x, NEW y, Screens!Unit(x) = Screens!Unit(y)
  PROVE  x = y
<1>1. Screens!Unit(x).is = x /\ Screens!Unit(y).is = y
  BY DEF Screens!Unit
<1> QED
  BY <1>1

LEMMA AlignedIs ==
  ASSUME NEW us \in Seq(Received), Len(us) = 3
  PROVE  /\ Screens!Aligned(us) \in Seq(Received) /\ Len(Screens!Aligned(us)) <= 3
         /\ Len(Screens!Aligned(us)) = 3 => Begun(Screens!Aligned(us))
         /\ Begun(us) => Screens!Aligned(us) = us
<1> DEFINE Begins(n) == \E a \in Screens!alignment_sequences :
                          Screens!IsPrefix(SubSeq(us, n + 1, Len(us)), a)
           First(n) == Begins(n) /\ \A m \in 0 .. n - 1 : ~Begins(m)
           chosen == CHOOSE n \in 0 .. Len(us) : First(n)
           Tuples == {<<Screens!Unit("0B"), Screens!Unit("TYP"), Screens!Unit("01")>>,
                      <<Screens!Unit("0B"), Screens!Unit("TYP"), Screens!Unit("Z")>>,
                      <<Screens!Unit("0B"), Screens!Unit("TYP"), Screens!Unit("B")>>,
                      <<Screens!Unit("16"), Screens!Unit("CAL"), Screens!Unit("00")>>}
<1>1. Screens!alignment_sequences = Tuples
  <2>1. /\ Screens!Units(<<"0B", "TYP", "01">>) = <<Screens!Unit("0B"), Screens!Unit("TYP"), Screens!Unit("01")>>
        /\ Screens!Units(<<"0B", "TYP", "Z">>) = <<Screens!Unit("0B"), Screens!Unit("TYP"), Screens!Unit("Z")>>
        /\ Screens!Units(<<"0B", "TYP", "B">>) = <<Screens!Unit("0B"), Screens!Unit("TYP"), Screens!Unit("B")>>
        /\ Screens!Units(<<"16", "CAL", "00">>) = <<Screens!Unit("16"), Screens!Unit("CAL"), Screens!Unit("00")>>
    BY DEF Screens!Units
  <2> QED
    BY <2>1 DEF Screens!alignment_sequences
<1>2. \A a \in Screens!alignment_sequences : Len(a) = 3 /\ Begun(a)
  BY <1>1 DEF Begun, CheckHeader, MonoHeader, LongBegins
<1>3. /\ SubSeq(us, 0 + 1, Len(us)) = us /\ SubSeq(us, 1, 3) = us
      /\ SubSeq(us, 3 + 1, Len(us)) = <<>>
  OBVIOUS
<1>4. Begins(0) => Begun(us)
  <2> SUFFICES ASSUME Begins(0) PROVE Begun(us)
    OBVIOUS
  <2>1. PICK a \in Screens!alignment_sequences : Screens!IsPrefix(us, a)
    BY <1>3
  <2>2. SubSeq(us, 1, 3) = SubSeq(a, 1, 3)
    BY <2>1 DEF Screens!IsPrefix
  <2>3. \A j \in 1 .. 3 : us[j] = a[j]
    BY <1>2, <1>3, <2>2
  <2> QED
    BY <1>2, <2>3 DEF Begun, CheckHeader, MonoHeader, LongBegins
<1>5. Begun(us) => Begins(0)
  <2> SUFFICES ASSUME Begun(us) PROVE Begins(0)
    OBVIOUS
  <2>1. us \in Screens!alignment_sequences
    <3>1. us = <<us[1], us[2], us[3]>>
      OBVIOUS
    <3> QED
      BY <1>1, <3>1 DEF Begun, CheckHeader, MonoHeader, LongBegins
  <2>2. Screens!IsPrefix(us, us)
    BY DEF Screens!IsPrefix
  <2> QED
    BY <1>3, <2>1, <2>2
<1>6. Begins(3)
  <2>2. PICK a \in Screens!alignment_sequences : Len(a) = 3
    BY <1>1, <1>2
  <2>3. SubSeq(<<>>, 1, 0) = SubSeq(a, 1, 0)
    BY SubSeqEmpty
  <2>4. Screens!IsPrefix(<<>>, a)
    BY <2>2, <2>3 DEF Screens!IsPrefix
  <2> QED
    BY <1>3, <2>2, <2>4
<1>7. Screens!Aligned(us) = SubSeq(us, chosen + 1, Len(us))
  BY DEF Screens!Aligned
<1> HIDE DEF Begins
<1>8. \E n \in 0 .. 3 : First(n)
  <2>1. CASE Begins(0)
    BY <2>1
  <2>2. CASE ~Begins(0) /\ Begins(1)
    BY <2>2
  <2>3. CASE ~Begins(0) /\ ~Begins(1) /\ Begins(2)
    <3>1. \A m \in 0 .. 2 - 1 : m = 0 \/ m = 1
      OBVIOUS
    <3>2. First(2)
      BY <2>3, <3>1
    <3> QED
      BY <3>2
  <2>4. CASE ~Begins(0) /\ ~Begins(1) /\ ~Begins(2)
    <3>1. \A m \in 0 .. 3 - 1 : m = 0 \/ m = 1 \/ m = 2
      OBVIOUS
    <3>2. First(3)
      BY <2>4, <3>1, <1>6
    <3> QED
      BY <3>2
  <2> QED
    BY <2>1, <2>2, <2>3, <2>4
<1>9. chosen \in 0 .. 3 /\ First(chosen)
  <2> HIDE DEF First
  <2> QED
    BY <1>8
<1>10. Begins(0) => chosen = 0
  <2>1. 0 \in 0 .. chosen - 1 \/ chosen = 0
    BY <1>9
  <2> QED
    BY <1>9, <2>1
<1> HIDE DEF chosen
<1>11. /\ Screens!Aligned(us) \in Seq(Received) /\ Len(Screens!Aligned(us)) = 3 - chosen
  <2>1. chosen \in 0 .. Len(us)
    BY <1>9
  <2> QED
    BY <1>7, <2>1, RestOf
<1>12. Len(Screens!Aligned(us)) = 3 => Begun(Screens!Aligned(us))
  <2> SUFFICES ASSUME Len(Screens!Aligned(us)) = 3 PROVE Begun(Screens!Aligned(us))
    OBVIOUS
  <2>1. chosen = 0
    <3>1. chosen \in 0 .. 3
      BY <1>9
    <3>2. 3 = 3 - chosen
      BY <1>11
    <3> QED
      BY <3>1, <3>2
  <2>2. Begins(0) /\ Screens!Aligned(us) = us
    BY <1>3, <1>7, <1>9, <2>1
  <2> QED
    BY <1>4, <2>2
<1> QED
  BY <1>3, <1>5, <1>7, <1>9, <1>10, <1>11, <1>12

(* The sum of what was received is that of a frame that was sent: it is    *)
(* that frame.                                                             *)
LEMMA SumMeans ==
  ASSUME NEW b \in Seq(Received), MonoHeader(b) \/ LongHeader(b), NEW p \in Seq(Received), NEW u \in Received,
         u = Screens!Sum(Tail(b) \o p), mode \in {"mono", "color"}, sent \in 0 .. 6
  PROVE  \E n \in 1 .. sent : p = <<Screens!Unit("0B"), Screens!Content(n)>>
<1> DEFINE v == Tail(b) \o p
<1>1. Len(b) \in {3, 7} /\ b[2] = Screens!Unit("TYP") /\ (MonoHeader(b) => b[3] = Screens!Unit("01"))
        /\ (LongHeader(b) => b[3] = Screens!Unit("Z") \/ b[3] = Screens!Unit("B"))
  BY DEF MonoHeader, LongHeader, LongBegins
<1>2. Tail(b) \in Seq(Received) /\ Len(Tail(b)) = Len(b) - 1
        /\ \A k \in 1 .. Len(b) - 1 : Tail(b)[k] = b[k + 1]
  BY <1>1
<1>3. /\ v \in Seq(Received) /\ Len(v) = Len(b) - 1 + Len(p)
      /\ \A k \in 1 .. Len(b) - 1 : v[k] = b[k + 1]
      /\ \A k \in 1 .. Len(p) : v[Len(b) - 1 + k] = p[k]
  <2> DEFINE t == Tail(b)
  <2>1. t \in Seq(Received) /\ Len(t) = Len(b) - 1
    BY <1>2
  <2> HIDE DEF t
  <2>2. /\ t \o p \in Seq(Received) /\ Len(t \o p) = Len(t) + Len(p)
        /\ \A k \in 1 .. Len(t) : (t \o p)[k] = t[k]
        /\ \A k \in 1 .. Len(p) : (t \o p)[Len(t) + k] = p[k]
    BY <2>1
  <2> QED
    BY <1>2, <2>1, <2>2 DEF t
<1> HIDE DEF v
<1> DEFINE f == [k \in 1 .. Len(v) |-> v[k].is]
<1>4. u.is = "sum" /\ u.of = f
  BY DEF Screens!Sum, v
<1>5. b[3] # Screens!Unit("B")
  <2> SUFFICES ASSUME b[3] = Screens!Unit("B") PROVE FALSE
    OBVIOUS
  <2>1. b[3] \in Received
    BY <1>1
  <2>2. b[3].is = "B"
    BY DEF Screens!Unit
  <2> QED
    BY <2>1, <2>2, ReceivedIs DEF SumOf
<1>6. f[1] = "TYP" /\ Len(v) >= 2
  <2>1. Len(v) >= 2 /\ v[1] = b[2]
    BY <1>1, <1>3
  <2>2. f[1] = v[1].is
    BY <2>1
  <2> QED
    BY <1>1, <2>1, <2>2 DEF Screens!Unit
<1>7. PICK kind \in Screens!Kinds(mode), n \in 1 .. sent : u = SumOf(Summed(kind, n))
  <2>1. u # SumOf(<<"CAL", "00">>)
    <3> SUFFICES ASSUME u = SumOf(<<"CAL", "00">>) PROVE FALSE
      OBVIOUS
    <3>1. f = <<"CAL", "00">>
      BY <1>4 DEF SumOf
    <3>2. f[1] = "CAL"
      BY <3>1
    <3> QED
      BY <1>6, <3>2
  <2> QED
    BY <1>4, <2>1, ReceivedIs
<1>8. f = Summed(kind, n)
  BY <1>4, <1>7 DEF SumOf
<1>9. kind \in {"TYP01", "TYPZ"}
  BY DEF Screens!Kinds
<1>10. Len(v) = Len(Summed(kind, n))
  BY <1>3, <1>8
<1>11. Len(p) = 2 /\ p[1].is = "0B" /\ p[2].is = PartName(n)
  <2>1. CASE MonoHeader(b)
    <3>1. f[2] = "01" /\ Len(b) = 3
      BY <2>1, <1>3, <1>6 DEF MonoHeader, Screens!Unit
    <3>2. Summed(kind, n)[2] = "01"
      BY <1>8, <3>1
    <3>3. kind = "TYP01"
      BY <1>9, <3>2 DEF Summed
    <3>4. Len(Summed(kind, n)) = 4 /\ Summed(kind, n)[3] = "0B" /\ Summed(kind, n)[4] = PartName(n)
      BY <3>3 DEF Summed
    <3>5. Len(v) = 4 /\ f[3] = "0B" /\ f[4] = PartName(n)
      BY <1>8, <1>10, <3>4
    <3>6. Len(b) - 1 = 2 /\ Len(p) = 2
      <4> DEFINE z == Len(p)
      <4>1. Len(b) - 1 = 2 /\ z \in Nat
        BY <3>1, <3>5
      <4>2. 4 = 2 + z
        BY <1>3, <3>5, <4>1
      <4> HIDE DEF z
      <4>3. z = 2
        BY <4>1, <4>2
      <4> QED
        BY <4>1, <4>3 DEF z
    <3>7. v[2 + 1] = p[1] /\ v[2 + 2] = p[2]
      <4>1. 1 \in 1 .. Len(p) /\ 2 \in 1 .. Len(p)
        BY <3>6
      <4>2. v[Len(b) - 1 + 1] = p[1] /\ v[Len(b) - 1 + 2] = p[2]
        BY <1>3, <4>1
      <4> QED
        BY <3>6, <4>2
    <3>8. f[3] = v[3].is /\ f[4] = v[4].is
      BY <3>5
    <3> QED
      BY <3>5, <3>6, <3>7, <3>8
  <2>2. CASE LongHeader(b)
    <3>1. f[2] = "Z" /\ Len(b) = 7
      BY <2>2, <1>1, <1>3, <1>5, <1>6 DEF LongHeader, Screens!Unit
    <3>2. Summed(kind, n)[2] = "Z"
      BY <1>8, <3>1
    <3>3. kind = "TYPZ"
      BY <1>9, <3>2 DEF Summed
    <3>4. Len(Summed(kind, n)) = 8 /\ Summed(kind, n)[7] = "0B" /\ Summed(kind, n)[8] = PartName(n)
      BY <3>3 DEF Summed
    <3>5. Len(v) = 8 /\ f[7] = "0B" /\ f[8] = PartName(n)
      BY <1>8, <1>10, <3>4
    <3>6. Len(b) - 1 = 6 /\ Len(p) = 2
      <4> DEFINE z == Len(p)
      <4>1. Len(b) - 1 = 6 /\ z \in Nat
        BY <3>1, <3>5
      <4>2. 8 = 6 + z
        BY <1>3, <3>5, <4>1
      <4> HIDE DEF z
      <4>3. z = 2
        BY <4>1, <4>2
      <4> QED
        BY <4>1, <4>3 DEF z
    <3>7. v[6 + 1] = p[1] /\ v[6 + 2] = p[2]
      <4>1. 1 \in 1 .. Len(p) /\ 2 \in 1 .. Len(p)
        BY <3>6
      <4>2. v[Len(b) - 1 + 1] = p[1] /\ v[Len(b) - 1 + 2] = p[2]
        BY <1>3, <4>1
      <4> QED
        BY <3>6, <4>2
    <3>8. f[7] = v[7].is /\ f[8] = v[8].is
      BY <3>5
    <3> QED
      BY <3>5, <3>6, <3>7, <3>8
  <2> QED
    BY <2>1, <2>2
<1>12. n \in 1 .. 6 /\ PartName(n) # "sum"
  <2>1. n \in 1 .. 6
    OBVIOUS
  <2>2. PartName(n) \in Names /\ "sum" \notin Names
    BY <2>1, PartNamesAre DEF Names
  <2> QED
    BY <2>1, <2>2
<1>13. p[1] = Screens!Unit("0B") /\ p[2] = Screens!Content(n)
  <2>1. p[1] \in Received /\ p[2] \in Received
    <3>1. 1 \in 1 .. Len(p) /\ 2 \in 1 .. Len(p)
      BY <1>11
    <3> QED
      BY <3>1, ElementOfSeq
  <2>2. p[1] = Screens!Unit(p[1].is) /\ p[2] = Screens!Unit(p[2].is)
    <3>1. p[1].is # "sum" /\ p[2].is # "sum"
      BY <1>11, <1>12
    <3> QED
      BY <2>1, <3>1, ReceivedIs DEF SumOf
  <2> QED
    BY <1>11, <1>12, <2>2, ContentsAre
<1>14. p = <<p[1], p[2]>>
  BY <1>11
<1> QED
  BY <1>13, <1>14

(* What the library has, where it is in a packet.                          *)
ScreenTypes ==
  /\ Screens!TypeOK
  /\ wire \in Seq(Received) /\ buf \in Seq(Received) /\ data \in Seq(Received) /\ picture \in Seq(Received)
  /\ picture_size = Len(picture)

ScreenPlace ==
  /\ pc = "align" => Len(buf) < 3
  /\ pc = "subheader" => Len(buf) = 3 /\ LongBegins(buf)
  /\ pc = "skip" => verdict # "OK"
  /\ pc = "data" => MonoHeader(buf) \/ LongHeader(buf)
  /\ pc = "sum" => CheckHeader(buf) \/ MonoHeader(buf) \/ LongHeader(buf)

(* As long as nothing is lost, the library is where the packets of the     *)
(* calculator are, which lets parts of frames be followed: a part only     *)
(* comes once there is a picture to apply it to (Ready).  At most one      *)
(* packet comes before the end of another.                                 *)
Ready == picture_format = "rgb" /\ Len(picture) = 2 /\ picture[1] = Screens!Unit("0B")

Following(k) ==
  \/ (Len(wire) = k \/ CheckAt(wire, k)) /\ (sent > 0 => Ready)
  \/ \E n \in 1 .. sent : ColorAt(wire, k, n) \/ (PartAt(wire, k, n) /\ Ready)

ColorSubheader(n) ==
  /\ buf[3] = Screens!Unit("Z") /\ Len(wire) = 7
  /\ wire[1] = Screens!Unit("0") /\ wire[2] = Screens!Unit("2") /\ wire[3] = Screens!Unit("2")
  /\ wire[4] = Screens!Unit("rgb") /\ wire[5] = Screens!Unit("0B") /\ wire[6] = Screens!Content(n)

PartSubheader(n) ==
  /\ buf[3] = Screens!Unit("B") /\ Len(wire) = 6 /\ Ready
  /\ wire[1] = Screens!Unit("0") /\ wire[2] = Screens!Unit("1") /\ wire[3] = Screens!Unit("1")
  /\ wire[4] = Screens!Unit("1") /\ wire[5] = Screens!Content(n)

ColorData(n) ==
  /\ buf[3] = Screens!Unit("Z") /\ Screens!FrameLength(buf) = 2 /\ buf[7] = Screens!Unit("rgb")
  /\ Len(wire) = 3 /\ wire[1] = Screens!Unit("0B") /\ wire[2] = Screens!Content(n)

PartData(n) ==
  /\ buf[3] = Screens!Unit("B") /\ Screens!FrameLength(buf) = 1 /\ Screens!Value(buf[6]) = 1
  /\ Ready /\ wire[1] = Screens!Content(n) /\ Following(2)

FrameSum(n) == Ready /\ picture[2] = Screens!Content(n)

InSync ==
  /\ pc = "idle" => Following(0)
  /\ pc = "align" => buf = <<>> /\ Following(0)
  /\ pc = "subheader" => \E n \in 1 .. sent : ColorSubheader(n) \/ PartSubheader(n)
  /\ pc = "data" => \E n \in 1 .. sent : ColorData(n) \/ PartData(n)
  /\ pc = "sum" => Following(1) /\ (CheckHeader(buf) \/ \E n \in 1 .. sent : FrameSum(n))
  /\ pc # "skip"

Undisturbed == mode = "parts" /\ faults = 0 /\ pauses = 0

ScreenInv == ScreenTypes /\ ScreenPlace /\ (Undisturbed => InSync) /\ Screens!FramesAreWhole

LEMMA ReceivedStays == ASSUME mode' = mode, sent' = sent PROVE Received' = Received
BY DEF Received, Names, Screens!Kinds

LEMMA ReceivedGrows ==
  ASSUME mode' = mode, sent \in Nat, sent' \in Nat, sent <= sent'
  PROVE  Received \subseteq Received' /\ Names' = Names
<1>1. Names' = Names
  BY DEF Names
<1>2. Screens!Kinds(mode)' = Screens!Kinds(mode)
  BY DEF Screens!Kinds
<1>3. 1 .. sent \subseteq 1 .. sent'
  OBVIOUS
<1> QED
  BY <1>1, <1>2, <1>3 DEF Received

LEMMA ScreenBounds ==
  ASSUME Screens!TypeOK
  PROVE  /\ MaxFrames \in Nat /\ MaxFaults \in Nat /\ MaxPauses \in Nat /\ MaxStarts \in Nat /\ MaxFrames <= 6
         /\ sent \in Nat /\ sent <= 6 /\ faults \in Nat /\ pauses \in Nat /\ reported \in Nat /\ starts \in Nat
BY FramesAssumption DEF Screens!TypeOK

(* The first units of the wire are taken.                                  *)
LEMMA TakenAre ==
  ASSUME NEW k \in Nat, wire \in Seq(Received), Screens!Take(k)
  PROVE  /\ Len(wire) >= k
         /\ wire' \in Seq(Received) /\ Len(wire') = Len(wire) - k
         /\ \A j \in 1 .. Len(wire) - k : wire'[j] = wire[k + j]
         /\ SubSeq(wire, 1, k) \in Seq(Received) /\ Len(SubSeq(wire, 1, k)) = k
         /\ \A j \in 1 .. k : SubSeq(wire, 1, k)[j] = wire[j]
<1>1. k \in 0 .. Len(wire) /\ wire' = SubSeq(wire, k + 1, Len(wire))
  BY DEF Screens!Take
<1> QED
  BY <1>1, RestOf, BeginningOf

LEMMA NoughtIs ==
  ASSUME NEW a \in Nat, NEW b \in Nat, NEW c \in Nat, NEW d \in Nat, a <= c, b <= d, c + d = 0
  PROVE  a = 0 /\ b = 0 /\ c = 0 /\ d = 0 /\ a + b = 0
OBVIOUS

(* A step that leaves the picture alone, and gives no frame.               *)
LEMMA StillWhole ==
  ASSUME ScreenTypes, ScreenTypes', Screens!FramesAreWhole, UNCHANGED <<picture, reported, mode>>,
         faults <= faults', pauses <= pauses', given' = "OK" /\ pc' = "idle" => given = "OK" /\ pc = "idle"
  PROVE  Screens!FramesAreWhole'
<1>1. faults \in Nat /\ pauses \in Nat /\ faults' \in Nat /\ pauses' \in Nat
  BY FramesAssumption DEF ScreenTypes, Screens!TypeOK
<1>2. faults' + pauses' = 0 => faults + pauses = 0
  BY <1>1, NoughtIs
<1> QED
  BY <1>2 DEF Screens!FramesAreWhole, Screens!Unit, Screens!Content

(* Steps that only disturb the wire, or leave it alone.                    *)
LEMMA CallPreserves == ASSUME ScreenInv, Screens!Call PROVE ScreenInv'
<1> USE DEF Screens!Call, Screens!deviceVars, Screens!wireVars, Screens!pictureVars
<1>1. Received' = Received
  BY ReceivedStays
<1>2. ScreenTypes'
  <2>1. <<>> \in Seq(Received) /\ Len(<<>>) = 0
    OBVIOUS
  <2> QED
    BY <1>1, <2>1 DEF ScreenInv, ScreenTypes, Screens!TypeOK, Screens!Places, Screens!HeaderSize, Screens!SubheaderSize
<1>3. ScreenPlace'
  BY DEF ScreenPlace
<1>4. Undisturbed' => InSync'
  BY DEF ScreenInv, Undisturbed, InSync, Following, Ready, CheckAt, ColorAt, PartAt
<1>5. Screens!FramesAreWhole'
  <2>1. faults <= faults' /\ pauses <= pauses'
    BY ScreenBounds DEF ScreenInv, ScreenTypes
  <2> QED
    BY <1>2, <2>1, StillWhole DEF ScreenInv
<1> QED
  BY <1>2, <1>3, <1>4, <1>5 DEF ScreenInv

LEMMA TakeAnswerPreserves ==
  ASSUME ScreenInv, Screens!TakeAnswer \/ Screens!StartAgain \/ UNCHANGED screenVars
  PROVE  ScreenInv'
<1>1. UNCHANGED <<mode, sent, wire, faults, pauses, pc, buf, data, picture, picture_size,
                  picture_format, skip, verdict, given, reported>>
      /\ asking' \in BOOLEAN /\ answered' \in BOOLEAN /\ starts' \in 0 .. MaxStarts
  <2>1. /\ asking \in BOOLEAN /\ answered \in BOOLEAN /\ starts \in 0 .. MaxStarts /\ MaxStarts \in Nat
    BY ScreenBounds DEF ScreenInv, ScreenTypes, Screens!TypeOK
  <2>2. CASE Screens!TakeAnswer
    BY <2>1, <2>2 DEF Screens!TakeAnswer, Screens!pictureVars
  <2>3. CASE Screens!StartAgain
    <3>1. starts' \in 0 .. MaxStarts
      BY <2>1, <2>3 DEF Screens!StartAgain
    <3> QED
      BY <2>1, <2>3, <3>1 DEF Screens!StartAgain, Screens!wireVars, Screens!pictureVars
  <2>4. CASE UNCHANGED screenVars
    BY <2>1, <2>4 DEF screenVars
  <2> QED
    BY <2>2, <2>3, <2>4
<1>2. Received' = Received
  BY <1>1, ReceivedStays
<1>3. ScreenTypes'
  BY <1>1, <1>2 DEF ScreenInv, ScreenTypes, Screens!TypeOK
<1>4. ScreenPlace'
  BY <1>1 DEF ScreenInv, ScreenPlace, CheckHeader, MonoHeader, LongHeader, LongBegins
<1>5. Undisturbed' => InSync'
  BY <1>1 DEF ScreenInv, Undisturbed, InSync, Following, Ready, CheckAt, ColorAt, PartAt, ColorSubheader, PartSubheader,
     ColorData, PartData, FrameSum, CheckHeader, Screens!FrameLength
<1>6. Screens!FramesAreWhole'
  BY <1>1 DEF ScreenInv, Screens!FramesAreWhole
<1> QED
  BY <1>3, <1>4, <1>5, <1>6 DEF ScreenInv

(* The wire after a loss, or the failure of the transport.                 *)
LEMMA DisturbedPreserves ==
  ASSUME ScreenInv, wire' \in Seq(Received), faults' \in 1 .. MaxFaults, faults <= faults',
         UNCHANGED <<mode, asking, starts, sent, answered, pauses, buf, data, picture, picture_size,
                     picture_format, skip, verdict, reported>>,
         pc' = pc \/ pc' = "idle", given' = "OK" /\ pc' = "idle" => given = "OK" /\ pc = "idle"
  PROVE  ScreenInv'
<1>1. Received' = Received
  BY ReceivedStays
<1>2. ScreenTypes'
  BY <1>1, ScreenBounds DEF ScreenInv, ScreenTypes, Screens!TypeOK, Screens!Places
<1>3. ScreenPlace'
  BY DEF ScreenInv, ScreenPlace, CheckHeader, MonoHeader, LongHeader, LongBegins
<1>4. ~Undisturbed'
  BY ScreenBounds DEF Undisturbed
<1>5. Screens!FramesAreWhole'
  <2>1. pauses <= pauses'
    BY ScreenBounds DEF ScreenInv, ScreenTypes
  <2> QED
    BY <1>2, <2>1, StillWhole DEF ScreenInv
<1> QED
  BY <1>2, <1>3, <1>4, <1>5 DEF ScreenInv

LEMMA FaultsPreserve ==
  ASSUME ScreenInv, Screens!Lose \/ Screens!Damage \/ Screens!TransportFails
  PROVE  ScreenInv'
<1>1. faults \in Nat /\ faults' = faults + 1 /\ faults < MaxFaults /\ MaxFaults \in Nat
  BY ScreenBounds DEF ScreenInv, ScreenTypes, Screens!Lose, Screens!Damage, Screens!TransportFails
<1>2. faults' \in 1 .. MaxFaults /\ faults <= faults'
  BY <1>1
<1>3. wire \in Seq(Received)
  BY DEF ScreenInv, ScreenTypes
<1>4. wire' \in Seq(Received)
  <2>1. CASE Screens!Lose
    BY <2>1, <1>3 DEF Screens!Lose
  <2>2. CASE Screens!Damage
    <3>1. Screens!Unit("x") \in Received
      BY MarksAre DEF Names
    <3>2. wire # <<>> /\ wire' = [wire EXCEPT ![1] = Screens!Unit("x")]
      BY <2>2 DEF Screens!Damage
    <3> QED
      BY <1>3, <3>1, <3>2
  <2>3. CASE Screens!TransportFails
    BY <2>3, <1>3 DEF Screens!TransportFails
  <2> QED
    BY <2>1, <2>2, <2>3
<1>5. /\ UNCHANGED <<mode, asking, starts, sent, answered, pauses, buf, data, picture, picture_size,
                     picture_format, skip, verdict, reported>>
      /\ pc' = pc \/ pc' = "idle"
      /\ given' = "OK" /\ pc' = "idle" => given = "OK" /\ pc = "idle"
  BY DEF Screens!Lose, Screens!Damage, Screens!TransportFails, Screens!Return, Screens!deviceVars, Screens!pictureVars
<1> QED
  BY <1>2, <1>4, <1>5, DisturbedPreserves

(* A packet goes behind what is on the wire.                               *)
LEMMA PacketFollows ==
  ASSUME NEW T, wire \in Seq(T), NEW w \in Seq(T), wire' = wire \o w
  PROVE  /\ wire' \in Seq(T) /\ Len(wire') = Len(wire) + Len(w)
         /\ \A j \in 1 .. Len(wire) : wire'[j] = wire[j]
         /\ CheckAt(w, 0) => CheckAt(wire', Len(wire))
         /\ \A n \in Nat : ColorAt(w, 0, n) => ColorAt(wire', Len(wire), n)
         /\ \A n \in Nat : PartAt(w, 0, n) => PartAt(wire', Len(wire), n)
<1> DEFINE v == wire \o w
           z == Len(wire)
<1>1. /\ v \in Seq(T) /\ Len(v) = z + Len(w)
      /\ \A k \in 1 .. z : v[k] = wire[k]
      /\ \A k \in 1 .. Len(w) : v[z + k] = w[k]
  BY ConcatOf
<1>2. z \in Nat /\ wire' = v
  OBVIOUS
<1> HIDE DEF v, z
<1>3. CheckAt(w, 0) => CheckAt(v, z)
  BY <1>1, <1>2 DEF CheckAt
<1>4. \A n \in Nat : ColorAt(w, 0, n) => ColorAt(v, z, n)
  BY <1>1, <1>2 DEF ColorAt
<1>5. \A n \in Nat : PartAt(w, 0, n) => PartAt(v, z, n)
  BY <1>1, <1>2 DEF PartAt
<1> QED
  BY <1>1, <1>2, <1>3, <1>4, <1>5 DEF z

(* The library is never behind a packet that is not over.                  *)
LEMMA RoomIs ==
  ASSUME ScreenInv, Undisturbed, Screens!Room
  PROVE  /\ pc \in {"idle", "align"} => Len(wire) = 0
         /\ pc = "sum" => Len(wire) = 1
         /\ pc = "data" => Len(wire) = 2 /\ Ready /\ \E n \in 1 .. sent : PartData(n)
         /\ pc \notin {"subheader", "skip"}
         /\ sent > 0 => Ready
<1>1. InSync /\ Len(wire) < 3 /\ Len(wire) \in Nat
  BY DEF ScreenInv, ScreenTypes, Screens!Room, Screens!HeaderSize
<1>2. \A k \in 0 .. 2 : Following(k) => Len(wire) = k /\ (sent > 0 => Ready)
  BY <1>1 DEF Following, CheckAt, ColorAt, PartAt
<1>3. pc # "subheader"
  BY <1>1 DEF InSync, ColorSubheader, PartSubheader
<1>4. pc = "data" => Len(wire) = 2 /\ Ready /\ \E n \in 1 .. sent : PartData(n)
  BY <1>1, <1>2 DEF InSync, ColorData, PartData
<1> QED
  BY <1>1, <1>2, <1>3, <1>4 DEF InSync, ScreenInv, ScreenTypes, Screens!TypeOK, Screens!Places

LEMMA SentIsSeen ==
  ASSUME ScreenInv, Screens!Room, NEW w \in Seq(Received'), wire' = wire \o w,
         UNCHANGED <<mode, asking, starts, answered, faults, pauses, pc, buf, data, picture, picture_size,
                     picture_format, skip, verdict, given, reported>>,
         sent' \in 0 .. MaxFrames, sent <= sent',
         \/ sent' = sent /\ CheckAt(w, 0)
         \/ /\ sent' > 0
            /\ mode = "parts" => \/ ColorAt(w, 0, sent')
                                 \/ PartAt(w, 0, sent') /\ sent > 0
  PROVE  ScreenInv'
<1>1. Received \subseteq Received'
  BY ScreenBounds, ReceivedGrows DEF ScreenInv, ScreenTypes
<1>2. /\ wire \in Seq(Received') /\ buf \in Seq(Received') /\ data \in Seq(Received') /\ picture \in Seq(Received')
  BY <1>1, SeqMonotonic DEF ScreenInv, ScreenTypes
<1>3. /\ wire' \in Seq(Received') /\ Len(wire') = Len(wire) + Len(w)
      /\ \A j \in 1 .. Len(wire) : wire'[j] = wire[j]
      /\ CheckAt(w, 0) => CheckAt(wire', Len(wire))
      /\ \A n \in Nat : ColorAt(w, 0, n) => ColorAt(wire', Len(wire), n)
      /\ \A n \in Nat : PartAt(w, 0, n) => PartAt(wire', Len(wire), n)
  BY <1>2, PacketFollows
<1>4. ScreenTypes'
  BY <1>2, <1>3 DEF ScreenInv, ScreenTypes, Screens!TypeOK
<1>5. ScreenPlace'
  BY DEF ScreenInv, ScreenPlace, CheckHeader, MonoHeader, LongHeader, LongBegins
<1>6. Screens!FramesAreWhole'
  <2>1. faults <= faults' /\ pauses <= pauses'
    BY ScreenBounds DEF ScreenInv, ScreenTypes
  <2> QED
    BY <1>4, <2>1, StillWhole DEF ScreenInv
<1>7. Undisturbed' => InSync'
  <2> SUFFICES ASSUME Undisturbed PROVE InSync'
    BY DEF Undisturbed
  <2>1. InSync /\ Ready' = Ready /\ sent \in Nat /\ sent' \in Nat
    BY ScreenBounds DEF ScreenInv, ScreenTypes, Ready
  <2>2. /\ pc \in {"idle", "align"} => Len(wire) = 0
        /\ pc = "sum" => Len(wire) = 1
        /\ pc = "data" => Len(wire) = 2 /\ Ready /\ \E n \in 1 .. sent : PartData(n)
        /\ pc \notin {"subheader", "skip"}
        /\ sent > 0 => Ready
    BY RoomIs
  <2>3. \/ sent' = sent /\ CheckAt(wire', Len(wire))
        \/ sent' > 0 /\ ColorAt(wire', Len(wire), sent')
        \/ sent' > 0 /\ PartAt(wire', Len(wire), sent') /\ Ready
    BY <1>3, <2>1, <2>2 DEF Undisturbed
  <2>4. ASSUME NEW k \in Nat, k = Len(wire) PROVE Following(k)'
    <3>1. CASE sent' = sent /\ CheckAt(wire', k)
      BY <2>1, <2>2, <3>1 DEF Following
    <3>2. CASE (ColorAt(wire', k, sent') \/ (PartAt(wire', k, sent') /\ Ready)) /\ sent' > 0
      <4>1. sent' \in 1 .. sent'
        BY <2>1, <3>2
      <4> QED
        BY <2>1, <3>2, <4>1 DEF Following
    <3> QED
      BY <2>1, <2>3, <2>4, <3>1, <3>2
  <2>5. pc' \in {"idle", "align"} => Following(0)'
    BY <2>2, <2>4
  <2>6. pc' = "align" => buf' = <<>>
    BY <2>1 DEF InSync
  <2>7. pc' = "data" => \E n \in 1 .. sent' : PartData(n)'
    <3> SUFFICES ASSUME pc = "data" PROVE \E n \in 1 .. sent' : PartData(n)'
      OBVIOUS
    <3>1. PICK n \in 1 .. sent : PartData(n)
      BY <2>2
    <3>2. n \in 1 .. sent' /\ Len(wire) = 2
      BY <2>1, <2>2
    <3>4. wire'[1] = wire[1] /\ Following(2)'
      BY <1>3, <2>4, <3>2
    <3>3. PartData(n)'
      BY <2>1, <3>1, <3>4 DEF PartData, Screens!FrameLength
    <3> QED
      BY <3>2, <3>3
  <2>8. pc' = "sum" => Following(1)' /\ (CheckHeader(buf)' \/ \E n \in 1 .. sent' : FrameSum(n)')
    <3> SUFFICES ASSUME pc = "sum" PROVE Following(1)' /\ (CheckHeader(buf)' \/ \E n \in 1 .. sent' : FrameSum(n)')
      OBVIOUS
    <3>1. Following(1)'
      BY <2>2, <2>4
    <3>2. CheckHeader(buf) => CheckHeader(buf)'
      BY DEF CheckHeader
    <3>3. \A n \in 1 .. sent : n \in 1 .. sent' /\ (FrameSum(n) => FrameSum(n)')
      BY <2>1 DEF FrameSum
    <3>4. CheckHeader(buf) \/ \E n \in 1 .. sent : FrameSum(n)
      BY <2>1 DEF InSync
    <3> QED
      BY <3>1, <3>2, <3>3, <3>4
  <2> QED
    BY <2>2, <2>5, <2>6, <2>7, <2>8 DEF InSync
<1> QED
  BY <1>4, <1>5, <1>6, <1>7 DEF ScreenInv

LEMMA AskPreserves == ASSUME ScreenInv, Screens!Ask PROVE ScreenInv'
<1>1. Received' = Received /\ sent \in 0 .. MaxFrames /\ sent <= sent'
  BY ReceivedStays, ScreenBounds DEF ScreenInv, ScreenTypes, Screens!TypeOK, Screens!Ask, Screens!deviceVars
<1>2. Screens!CheckPacket \in Seq(Received') /\ CheckAt(Screens!CheckPacket, 0)
  BY <1>1, CheckIs
<1> DEFINE w == Screens!CheckPacket
<1>3. /\ UNCHANGED <<mode, asking, starts, sent, answered, faults, pauses, pc, buf, data, picture, picture_size,
                      picture_format, skip, verdict, given, reported>>
      /\ Screens!Room /\ wire' = wire \o w
  BY DEF Screens!Ask, Screens!deviceVars, Screens!pictureVars
<1> HIDE DEF w
<1>4. w \in Seq(Received') /\ CheckAt(w, 0)
  BY <1>2 DEF w
<1> QED
  BY <1>1, <1>3, <1>4, SentIsSeen

LEMMA SendFramePreserves == ASSUME ScreenInv, Screens!SendFrame PROVE ScreenInv'
<1>1. /\ UNCHANGED <<mode, asking, starts, answered, faults, pauses, pc, buf, data, picture, picture_size,
                      picture_format, skip, verdict, given, reported>>
      /\ Screens!Room /\ sent' = sent + 1 /\ sent < MaxFrames
      /\ screen' = <<Screens!Unit("0B"), Screens!Content(sent + 1)>>
  BY DEF Screens!SendFrame, Screens!pictureVars
<1>2. PICK kind \in Screens!Kinds(mode) :
        (kind = "TYPB" => sent > 0) /\ wire' = wire \o Screens!Frame(kind, screen')
  BY DEF Screens!SendFrame
<1> DEFINE n == sent'
           w == Screens!Frame(kind, <<Screens!Unit("0B"), Screens!Content(n)>>)
<1>3. wire' = wire \o w
  BY <1>1, <1>2
<1>4. MaxFrames \in Nat /\ MaxFrames <= 6 /\ sent \in Nat /\ n = sent + 1
  BY <1>1, ScreenBounds DEF ScreenInv, ScreenTypes
<1>5. n \in 1 .. 6 /\ n \in 0 .. MaxFrames /\ sent <= n /\ n > 0
  BY <1>1, <1>4
<1>6. Received \subseteq Received' /\ Names' = Names
  BY <1>1, <1>4, <1>5, ReceivedGrows
<1>7. {Screens!Unit(s) : s \in Names} \subseteq Received' /\ SumOf(Summed(kind, n)) \in Received'
  <2>1. mode' = mode /\ n \in 1 .. sent'
    BY <1>1, <1>5
  <2>3. kind \in Screens!Kinds(mode')
    BY <2>1
  <2>2. \A s \in Names : Screens!Unit(s) \in Received
    BY MarksAre
  <2> QED
    BY <1>6, <2>1, <2>2, <2>3 DEF Received
<1>8. mode \in {"mono", "color", "parts"}
  BY ModesAssumption DEF ScreenInv, ScreenTypes, Screens!TypeOK
<1> HIDE DEF n
<1>9. /\ w \in Seq(Received')
      /\ mode = "parts" => ColorAt(w, 0, n) \/ (PartAt(w, 0, n) /\ sent > 0)
  <2>1. CASE kind = "TYP01"
    <3>1. mode = "mono"
      BY <1>8, <2>1 DEF Screens!Kinds
    <3> QED
      BY <1>5, <1>7, <2>1, <3>1, MonoFrameIs
  <2>2. CASE kind = "TYPZ"
    BY <1>5, <1>7, <2>2, ColorFrameIs
  <2>3. CASE kind = "TYPB"
    <3>1. mode = "parts"
      BY <1>8, <2>3 DEF Screens!Kinds
    <3> QED
      BY <1>2, <1>5, <1>7, <2>3, <3>1, PartFrameIs
  <2> QED
    BY <1>8, <2>1, <2>2, <2>3 DEF Screens!Kinds
<1> HIDE DEF w
<1>10. sent' = n
  BY DEF n
<1> QED
  BY <1>1, <1>3, <1>5, <1>9, <1>10, SentIsSeen

(* The library, which takes what is on the wire.                           *)
LEMMA UnequalUnits ==
  /\ Screens!Unit("16") # Screens!Unit("0B") /\ Screens!Unit("01") # Screens!Unit("Z")
  /\ Screens!Unit("01") # Screens!Unit("B") /\ Screens!Unit("Z") # Screens!Unit("B")
BY UnitsDiffer

LEMMA AlignedInSync ==
  ASSUME ScreenInv, InSync, pc = "align", Len(wire) >= 3,
         NEW us \in Seq(Received), Len(us) = 3, \A j \in 1 .. 3 : us[j] = wire[j],
         NEW w \in Seq(Received), Len(w) = Len(wire) - 3, \A j \in 1 .. Len(wire) - 3 : w[j] = wire[3 + j]
  PROVE  /\ Begun(us)
         /\ \/ us[1] = Screens!Unit("16") /\ Len(w) = 1 /\ (sent > 0 => Ready)
            \/ /\ us[1] = Screens!Unit("0B")
               /\ \E n \in 1 .. sent :
                    \/ /\ us[3] = Screens!Unit("Z") /\ Len(w) = 7
                       /\ w[1] = Screens!Unit("0") /\ w[2] = Screens!Unit("2") /\ w[3] = Screens!Unit("2")
                       /\ w[4] = Screens!Unit("rgb") /\ w[5] = Screens!Unit("0B") /\ w[6] = Screens!Content(n)
                    \/ /\ us[3] = Screens!Unit("B") /\ Len(w) = 6 /\ Ready
                       /\ w[1] = Screens!Unit("0") /\ w[2] = Screens!Unit("1") /\ w[3] = Screens!Unit("1")
                       /\ w[4] = Screens!Unit("1") /\ w[5] = Screens!Content(n)
<1>1. Following(0)
  BY DEF InSync
<1>2. CASE CheckAt(wire, 0) /\ (sent > 0 => Ready)
  BY <1>2 DEF CheckAt, Begun, CheckHeader
<1>3. CASE \E n \in 1 .. sent : ColorAt(wire, 0, n)
  <2>1. PICK n \in 1 .. sent : ColorAt(wire, 0, n)
    BY <1>3
  <2>2. /\ us[1] = Screens!Unit("0B") /\ us[2] = Screens!Unit("TYP") /\ us[3] = Screens!Unit("Z") /\ Len(w) = 7
    BY <2>1 DEF ColorAt
  <2>3. /\ w[1] = Screens!Unit("0") /\ w[2] = Screens!Unit("2") /\ w[3] = Screens!Unit("2")
        /\ w[4] = Screens!Unit("rgb") /\ w[5] = Screens!Unit("0B") /\ w[6] = Screens!Content(n)
    BY <2>1 DEF ColorAt
  <2> QED
    BY <2>2, <2>3 DEF Begun, LongBegins
<1>4. CASE \E n \in 1 .. sent : PartAt(wire, 0, n) /\ Ready
  <2>1. PICK n \in 1 .. sent : PartAt(wire, 0, n) /\ Ready
    BY <1>4
  <2>2. /\ us[1] = Screens!Unit("0B") /\ us[2] = Screens!Unit("TYP") /\ us[3] = Screens!Unit("B") /\ Len(w) = 6
    BY <2>1 DEF PartAt
  <2>3. /\ w[1] = Screens!Unit("0") /\ w[2] = Screens!Unit("1") /\ w[3] = Screens!Unit("1")
        /\ w[4] = Screens!Unit("1") /\ w[5] = Screens!Content(n)
    BY <2>1 DEF PartAt
  <2> QED
    BY <2>1, <2>2, <2>3 DEF Begun, LongBegins
<1>5. Len(wire) # 0
  OBVIOUS
<1>6. \/ CheckAt(wire, 0) /\ (sent > 0 => Ready)
      \/ \E n \in 1 .. sent : ColorAt(wire, 0, n)
      \/ \E n \in 1 .. sent : PartAt(wire, 0, n) /\ Ready
  BY <1>1, <1>5 DEF Following
<1> QED
  BY <1>2, <1>3, <1>4, <1>6

LEMMA AlignPreserves == ASSUME ScreenInv, Screens!Align PROVE ScreenInv'
<1> DEFINE k == 3 - Len(buf)
           us == buf \o SubSeq(wire, 1, k)
<1>1. /\ pc = "align" /\ Len(buf) < 3 /\ buf \in Seq(Received) /\ wire \in Seq(Received) /\ Screens!Take(k)
      /\ buf' = Screens!Aligned(us)
      /\ pc' = IF Len(buf') < 3 THEN "align"
               ELSE IF buf'[1] = Screens!Unit("16") THEN "sum"
               ELSE IF buf'[3] = Screens!Unit("01") THEN "data" ELSE "subheader"
      /\ UNCHANGED <<mode, asking, starts, sent, answered, faults, pauses, data, picture, picture_size,
                     picture_format, skip, verdict, given, reported>>
  BY DEF Screens!Align, Screens!GoTo, Screens!HeaderSize, ScreenInv, ScreenTypes, Screens!deviceVars, Screens!pictureVars
<1>2. k \in Nat
  BY <1>1
<1>3. /\ Len(wire) >= k /\ wire' \in Seq(Received) /\ Len(wire') = Len(wire) - k
      /\ \A j \in 1 .. Len(wire) - k : wire'[j] = wire[k + j]
      /\ SubSeq(wire, 1, k) \in Seq(Received) /\ Len(SubSeq(wire, 1, k)) = k
      /\ \A j \in 1 .. k : SubSeq(wire, 1, k)[j] = wire[j]
  BY <1>1, <1>2, TakenAre
<1>4. us \in Seq(Received) /\ Len(us) = 3
  BY <1>1, <1>3, ConcatOf
<1>5. buf = <<>> => k = 3 /\ us = SubSeq(wire, 1, 3)
  BY <1>1, <1>3
<1> HIDE DEF us, k
<1>6. /\ buf' \in Seq(Received) /\ Len(buf') <= 3
      /\ Len(buf') = 3 => Begun(buf')
      /\ Begun(us) => buf' = us
  BY <1>1, <1>4, AlignedIs
<1>7. Received' = Received
  BY <1>1, ReceivedStays
<1>8. ScreenTypes'
  BY <1>1, <1>3, <1>6, <1>7
     DEF ScreenInv, ScreenTypes, Screens!TypeOK, Screens!Places, Screens!HeaderSize, Screens!SubheaderSize
<1>9. ScreenPlace'
  <2>1. Len(buf') < 3 \/ Len(buf') = 3
    <3> DEFINE z == Len(buf')
    <3>1. z \in Nat /\ z <= 3
      BY <1>6
    <3> HIDE DEF z
    <3>2. z < 3 \/ z = 3
      BY <3>1
    <3> QED
      BY <3>2 DEF z
  <2> QED
    BY <1>1, <1>6, <2>1, UnequalUnits DEF ScreenPlace, Begun, CheckHeader, MonoHeader, LongBegins
<1>10. Screens!FramesAreWhole'
  <2>1. faults <= faults' /\ pauses <= pauses'
    BY <1>1, ScreenBounds DEF ScreenInv, ScreenTypes
  <2>2. pc' # "idle"
    BY <1>1
  <2> QED
    BY <1>1, <1>8, <2>1, <2>2, StillWhole DEF ScreenInv
<1>11. Undisturbed' => InSync'
  <2> SUFFICES ASSUME Undisturbed' PROVE InSync'
    OBVIOUS
  <2>1. InSync /\ buf = <<>> /\ k = 3
    BY <1>1, <1>5 DEF ScreenInv, Undisturbed, InSync
  <2>2. Ready' = Ready
    BY <1>1 DEF Ready
  <2>3. Len(wire) >= 3 /\ Len(wire') = Len(wire) - 3 /\ \A j \in 1 .. Len(wire) - 3 : wire'[j] = wire[3 + j]
    BY <1>3, <2>1
  <2>4. \A j \in 1 .. 3 : us[j] = wire[j]
    BY <1>3, <1>5, <2>1
  <2> DEFINE w == wire'
  <2>5. w \in Seq(Received) /\ Len(w) = Len(wire) - 3 /\ \A j \in 1 .. Len(wire) - 3 : w[j] = wire[3 + j]
    BY <1>3, <2>3
  <2> HIDE DEF w
  <2>6. /\ Begun(us)
        /\ \/ us[1] = Screens!Unit("16") /\ Len(w) = 1 /\ (sent > 0 => Ready)
           \/ /\ us[1] = Screens!Unit("0B")
              /\ \E n \in 1 .. sent :
                   \/ /\ us[3] = Screens!Unit("Z") /\ Len(w) = 7
                      /\ w[1] = Screens!Unit("0") /\ w[2] = Screens!Unit("2") /\ w[3] = Screens!Unit("2")
                      /\ w[4] = Screens!Unit("rgb") /\ w[5] = Screens!Unit("0B") /\ w[6] = Screens!Content(n)
                   \/ /\ us[3] = Screens!Unit("B") /\ Len(w) = 6 /\ Ready
                      /\ w[1] = Screens!Unit("0") /\ w[2] = Screens!Unit("1") /\ w[3] = Screens!Unit("1")
                      /\ w[4] = Screens!Unit("1") /\ w[5] = Screens!Content(n)
    BY <1>1, <1>4, <2>1, <2>3, <2>4, <2>5, AlignedInSync
  <2>7. buf' = us /\ w = wire'
    BY <1>6, <2>6 DEF w
  <2>8. CASE us[1] = Screens!Unit("16") /\ Len(w) = 1 /\ (sent > 0 => Ready)
    <3>1. pc' = "sum" /\ CheckHeader(buf)'
      <4>1. CheckHeader(us)
        BY <2>6, <2>8, UnequalUnits DEF Begun, MonoHeader, LongBegins
      <4>2. ~(Len(buf') < 3) /\ buf'[1] = Screens!Unit("16")
        BY <1>4, <2>7, <2>8
      <4>3. pc' = "sum"
        BY <1>1, <4>2
      <4> QED
        BY <2>7, <4>1, <4>3 DEF CheckHeader
    <3>2. Following(1)'
      BY <1>1, <2>2, <2>7, <2>8 DEF Following
    <3> QED
      BY <3>1, <3>2 DEF InSync
  <2>9. CASE us[1] = Screens!Unit("0B")
    <3>1. us[1] # Screens!Unit("16")
      BY <2>9, UnequalUnits
    <3>2. PICK n \in 1 .. sent :
                   \/ /\ us[3] = Screens!Unit("Z") /\ Len(w) = 7
                      /\ w[1] = Screens!Unit("0") /\ w[2] = Screens!Unit("2") /\ w[3] = Screens!Unit("2")
                      /\ w[4] = Screens!Unit("rgb") /\ w[5] = Screens!Unit("0B") /\ w[6] = Screens!Content(n)
                   \/ /\ us[3] = Screens!Unit("B") /\ Len(w) = 6 /\ Ready
                      /\ w[1] = Screens!Unit("0") /\ w[2] = Screens!Unit("1") /\ w[3] = Screens!Unit("1")
                      /\ w[4] = Screens!Unit("1") /\ w[5] = Screens!Content(n)
      BY <2>6, <3>1
    <3>3. pc' = "subheader"
      <4>1. ~(Len(buf') < 3) /\ buf'[1] # Screens!Unit("16")
        <5>1. buf'[1] = us[1] /\ Len(buf') = 3
          BY <1>4, <2>7
        <5> QED
          BY <3>1, <5>1
      <4>2. buf'[3] # Screens!Unit("01")
        BY <2>7, <3>2, UnequalUnits
      <4> QED
        BY <1>1, <4>1, <4>2
    <3>4. ColorSubheader(n)' \/ PartSubheader(n)'
      BY <2>2, <2>7, <3>2 DEF ColorSubheader, PartSubheader, Screens!Content, Screens!Unit
    <3>5. n \in 1 .. sent'
      BY <1>1
    <3> QED
      BY <3>3, <3>4, <3>5 DEF InSync
  <2> QED
    BY <2>6, <2>8, <2>9
<1> QED
  BY <1>8, <1>9, <1>10, <1>11 DEF ScreenInv

LEMMA HexIs ==
  ASSUME NEW u, Screens!IsHex(u)
  PROVE  Screens!Value(u) \in 0 .. 3 /\ u.is = <<"0", "1", "2", "3">>[Screens!Value(u) + 1]
<1>1. PICK n \in 1 .. 4 : u.is = <<"0", "1", "2", "3">>[n]
  BY DEF Screens!IsHex, Screens!Digits
<1>2. n - 1 \in 0 .. 3 /\ u.is = <<"0", "1", "2", "3">>[(n - 1) + 1]
  BY <1>1
<1> DEFINE Is(m) == u.is = <<"0", "1", "2", "3">>[m + 1]
<1>3. \E m \in 0 .. 3 : Is(m)
  BY <1>2
<1>4. Screens!Value(u) = CHOOSE m \in 0 .. 3 : Is(m)
  BY DEF Screens!Value, Screens!Digits
<1> HIDE DEF Is
<1>5. Screens!Value(u) \in 0 .. 3 /\ Is(Screens!Value(u))
  BY <1>3, <1>4
<1> QED
  BY <1>5 DEF Is

LEMMA DigitsAre ==
  /\ Screens!IsHex(Screens!Unit("0")) /\ Screens!Value(Screens!Unit("0")) = 0
  /\ Screens!IsHex(Screens!Unit("1")) /\ Screens!Value(Screens!Unit("1")) = 1
  /\ Screens!IsHex(Screens!Unit("2")) /\ Screens!Value(Screens!Unit("2")) = 2
<1>1. \A s \in {"0", "1", "2"} : Screens!Unit(s).is = s
  BY DEF Screens!Unit
<1>2. \A s \in {"0", "1", "2"} : Screens!IsHex(Screens!Unit(s))
  <2>1. Len(Screens!Digits) = 4 /\ Screens!Digits[1] = "0" /\ Screens!Digits[2] = "1" /\ Screens!Digits[3] = "2"
    BY DEF Screens!Digits
  <2> QED
    BY <1>1, <2>1 DEF Screens!IsHex
<1>3. ASSUME NEW s \in {"0", "1", "2"}
      PROVE  Screens!Value(Screens!Unit(s)) \in 0 .. 3
               /\ s = <<"0", "1", "2", "3">>[Screens!Value(Screens!Unit(s)) + 1]
  BY <1>1, <1>2, HexIs
<1>4. \A m \in 0 .. 3 : /\ <<"0", "1", "2", "3">>[m + 1] = "0" => m = 0
                        /\ <<"0", "1", "2", "3">>[m + 1] = "1" => m = 1
                        /\ <<"0", "1", "2", "3">>[m + 1] = "2" => m = 2
  OBVIOUS
<1> QED
  BY <1>2, <1>3, <1>4

LEMMA LengthIs ==
  ASSUME NEW b, Screens!IsHex(b[4]), Screens!IsHex(b[5])
  PROVE  Screens!FrameLength(b) \in Nat
<1>1. Screens!Value(b[4]) \in Nat /\ Screens!Value(b[5]) \in Nat
  BY HexIs
<1> QED
  BY <1>1 DEF Screens!FrameLength, Screens!PictureSize

(* The subheader of a frame that was sent is as it should be.              *)
LEMMA GoodVerdict ==
  ASSUME NEW b,
         \/ /\ b[3] = Screens!Unit("Z") /\ b[4] = Screens!Unit("0") /\ b[5] = Screens!Unit("2")
            /\ b[6] = Screens!Unit("2") /\ b[7] = Screens!Unit("rgb")
         \/ /\ b[3] = Screens!Unit("B") /\ b[4] = Screens!Unit("0") /\ b[5] = Screens!Unit("1")
            /\ b[6] = Screens!Unit("1") /\ b[7] = Screens!Unit("1") /\ Ready
  PROVE  /\ Screens!IsHex(b[4]) /\ Screens!IsHex(b[5]) /\ Screens!Verdict(b) = "OK"
         /\ b[3] = Screens!Unit("Z") => Screens!FrameLength(b) = 2
         /\ b[3] = Screens!Unit("B") => Screens!FrameLength(b) = 1 /\ Screens!Value(b[6]) = 1
<1>1. b[3] = Screens!Unit("Z") \/ b[3] = Screens!Unit("B")
  OBVIOUS
<1>2. CASE b[3] = Screens!Unit("Z")
  <2>1. /\ b[4] = Screens!Unit("0") /\ b[5] = Screens!Unit("2") /\ b[6] = Screens!Unit("2")
        /\ b[7] = Screens!Unit("rgb") /\ b[3] # Screens!Unit("01") /\ b[3] # Screens!Unit("B")
    BY <1>2, UnequalUnits
  <2>2. Screens!FrameLength(b) = 2
    BY <2>1, DigitsAre DEF Screens!FrameLength
  <2>3. Screens!Format(b) = "rgb"
    BY <1>2, <2>1 DEF Screens!Format
  <2>4. Screens!Dimensions(b) = {b[6]} /\ Screens!ExpectedSize(b) = 2
    BY <2>1, DigitsAre DEF Screens!Dimensions, Screens!ExpectedSize
  <2>5. Screens!Verdict(b) = "OK"
    BY <2>1, <2>2, <2>3, <2>4, DigitsAre DEF Screens!Verdict, Screens!PictureSize
  <2> QED
    BY <2>1, <2>2, <2>5, DigitsAre
<1>3. CASE b[3] = Screens!Unit("B")
  <2>1. /\ b[4] = Screens!Unit("0") /\ b[5] = Screens!Unit("1") /\ b[6] = Screens!Unit("1")
        /\ b[7] = Screens!Unit("1") /\ b[3] # Screens!Unit("01") /\ b[3] # Screens!Unit("Z") /\ Ready
    BY <1>3, UnequalUnits
  <2>2. Screens!FrameLength(b) = 1
    BY <2>1, DigitsAre DEF Screens!FrameLength
  <2>3. Screens!Format(b) = "rgb"
    BY <1>3, <2>1 DEF Screens!Format, Ready
  <2>4. Screens!Dimensions(b) = {b[6], b[7]} /\ Screens!ExpectedSize(b) = 1
    BY <1>3, <2>1, DigitsAre DEF Screens!Dimensions, Screens!ExpectedSize
  <2>5. Screens!Verdict(b) = "OK"
    BY <2>1, <2>2, <2>3, <2>4, DigitsAre DEF Screens!Verdict, Screens!PictureSize
  <2> QED
    BY <2>1, <2>2, <2>5, DigitsAre
<1> QED
  BY <1>1, <1>2, <1>3

LEMMA SubheaderPreserves == ASSUME ScreenInv, Screens!Subheader PROVE ScreenInv'
<1> DEFINE b == buf \o SubSeq(wire, 1, 4)
<1>1. /\ pc = "subheader" /\ buf \in Seq(Received) /\ wire \in Seq(Received) /\ Screens!Take(4)
      /\ Len(buf) = 3 /\ LongBegins(buf)
      /\ UNCHANGED <<mode, asking, starts, sent, answered, faults, pauses, data, picture, picture_size,
                     picture_format, given, reported>>
      /\ IF ~Screens!IsHex(b[4]) \/ ~Screens!IsHex(b[5])
         THEN pc' = "align" /\ buf' = <<>> /\ UNCHANGED <<skip, verdict>>
         ELSE /\ buf' = b /\ pc' = IF Screens!Verdict(b) = "OK" THEN "data" ELSE "skip"
              /\ skip' = Screens!FrameLength(b) + 1 /\ verdict' = Screens!Verdict(b)
  BY DEF Screens!Subheader, Screens!GoTo, Screens!PassOver, Screens!SubheaderSize, ScreenInv, ScreenTypes,
     ScreenPlace, Screens!deviceVars, Screens!pictureVars
<1>2. /\ Len(wire) >= 4 /\ wire' \in Seq(Received) /\ Len(wire') = Len(wire) - 4
      /\ \A j \in 1 .. Len(wire) - 4 : wire'[j] = wire[4 + j]
      /\ SubSeq(wire, 1, 4) \in Seq(Received) /\ Len(SubSeq(wire, 1, 4)) = 4
      /\ \A j \in 1 .. 4 : SubSeq(wire, 1, 4)[j] = wire[j]
  BY <1>1, TakenAre
<1>3. /\ b \in Seq(Received) /\ Len(b) = 7 /\ b[1] = buf[1] /\ b[2] = buf[2] /\ b[3] = buf[3]
      /\ b[4] = wire[1] /\ b[5] = wire[2] /\ b[6] = wire[3] /\ b[7] = wire[4]
  <2> DEFINE t == SubSeq(wire, 1, 4)
  <2>1. t \in Seq(Received) /\ Len(t) = 4 /\ \A j \in 1 .. 4 : t[j] = wire[j]
    BY <1>2
  <2> HIDE DEF t
  <2>4. buf \in Seq(Received) /\ Len(buf) = 3
    BY <1>1
  <2>2. /\ buf \o t \in Seq(Received) /\ Len(buf \o t) = Len(buf) + Len(t)
        /\ \A j \in 1 .. Len(buf) : (buf \o t)[j] = buf[j]
        /\ \A j \in 1 .. Len(t) : (buf \o t)[Len(buf) + j] = t[j]
    <3>1. buf \in Seq(Received) /\ t \in Seq(Received)
      BY <2>1, <2>4
    <3> HIDE <2>1, <2>4
    <3> QED
      BY <3>1, ConcatOf
  <2>3. /\ buf \o t \in Seq(Received) /\ Len(buf \o t) = 7
        /\ \A j \in 1 .. 3 : (buf \o t)[j] = buf[j]
        /\ \A j \in 1 .. 4 : (buf \o t)[3 + j] = wire[j]
    <3> DEFINE z == buf \o t
    <3>1. /\ z \in Seq(Received) /\ Len(z) = Len(buf) + Len(t)
          /\ \A j \in 1 .. Len(buf) : z[j] = buf[j]
          /\ \A j \in 1 .. Len(t) : z[Len(buf) + j] = t[j]
      BY <2>2
    <3> HIDE DEF z
    <3>2. Len(z) = 7 /\ \A j \in 1 .. 3 : z[j] = buf[j]
      BY <2>1, <2>4, <3>1
    <3>3. \A j \in 1 .. 4 : z[3 + j] = wire[j]
      BY <2>1, <2>4, <3>1
    <3> QED
      BY <3>1, <3>2, <3>3 DEF z
  <2>5. \A j \in 1 .. 4 : (buf \o t)[3 + j] = wire[j]
    BY <2>3
  <2> QED
    BY <2>3 DEF t
<1> HIDE DEF b
<1>4. Received' = Received
  BY <1>1, ReceivedStays
<1>5. <<>> \in Seq(Received) /\ Len(<<>>) = 0
  OBVIOUS
<1>6. LongBegins(b)
  BY <1>1, <1>3 DEF LongBegins
<1>7. ScreenTypes'
  <2>1. pc' \in Screens!Places
    BY <1>1 DEF Screens!Places
  <2>2. buf' \in Seq(Received) /\ Len(buf') <= 7
    <3>1. buf' = <<>> \/ buf' = b
      BY <1>1
    <3>2. CASE buf' = <<>>
      BY <1>5, <3>2
    <3>3. CASE buf' = b
      <4>1. buf' \in Seq(Received)
        BY <1>3, <3>3, Zenon
      <4>2. Len(buf') = 7
        BY <1>3, <3>3, Zenon
      <4> QED
        BY <4>1, <4>2
    <3> QED
      BY <3>1, <3>2, <3>3
  <2>3. skip' \in Nat
    BY <1>1, LengthIs DEF ScreenInv, ScreenTypes, Screens!TypeOK
  <2> QED
    BY <1>1, <1>2, <1>4, <2>1, <2>2, <2>3
       DEF ScreenInv, ScreenTypes, Screens!TypeOK, Screens!HeaderSize, Screens!SubheaderSize
<1>8. Screens!IsHex(b[4]) /\ Screens!IsHex(b[5]) /\ Screens!Verdict(b) = "OK" => LongHeader(b)
  <2> SUFFICES ASSUME Screens!IsHex(b[4]), Screens!IsHex(b[5]), Screens!Verdict(b) = "OK" PROVE LongHeader(b)
    OBVIOUS
  <2>1. Screens!FrameLength(b) \in Nat
    BY LengthIs
  <2>2. Screens!FrameLength(b) # 0 /\ ~(Screens!FrameLength(b) > 2)
    BY DEF Screens!Verdict, Screens!PictureSize
  <2> QED
    BY <1>3, <1>6, <2>1, <2>2 DEF LongHeader
<1>9. ScreenPlace'
  <2>1. CASE ~Screens!IsHex(b[4]) \/ ~Screens!IsHex(b[5])
    BY <1>1, <1>5, <2>1 DEF ScreenPlace
  <2>2. CASE Screens!IsHex(b[4]) /\ Screens!IsHex(b[5])
    <3>1. buf' = b /\ pc' \in {"data", "skip"} /\ (pc' = "data" => LongHeader(b)) /\ (pc' = "skip" => verdict' # "OK")
      BY <1>1, <1>8, <2>2
    <3>2. LongHeader(b) => LongHeader(buf)'
      BY <3>1 DEF LongHeader, LongBegins, Screens!FrameLength
    <3> QED
      BY <3>1, <3>2 DEF ScreenPlace
  <2> QED
    BY <2>1, <2>2
<1>10. Screens!FramesAreWhole'
  <2>1. faults <= faults' /\ pauses <= pauses'
    BY <1>1, ScreenBounds DEF ScreenInv, ScreenTypes
  <2>2. pc' # "idle"
    BY <1>1
  <2> QED
    BY <1>1, <1>7, <2>1, <2>2, StillWhole DEF ScreenInv
<1>11. Undisturbed' => InSync'
  <2> SUFFICES ASSUME Undisturbed' PROVE InSync'
    OBVIOUS
  <2>1. InSync /\ Ready' = Ready
    BY <1>1 DEF ScreenInv, Undisturbed, Ready
  <2>2. PICK n \in 1 .. sent : ColorSubheader(n) \/ PartSubheader(n)
    BY <1>1, <2>1 DEF InSync
  <2>3. CASE ColorSubheader(n)
    <3>1. /\ b[3] = Screens!Unit("Z") /\ b[4] = Screens!Unit("0") /\ b[5] = Screens!Unit("2")
          /\ b[6] = Screens!Unit("2") /\ b[7] = Screens!Unit("rgb")
      BY <1>3, <2>3 DEF ColorSubheader
    <3>2. /\ Screens!IsHex(b[4]) /\ Screens!IsHex(b[5]) /\ Screens!Verdict(b) = "OK" /\ Screens!FrameLength(b) = 2
      BY <3>1, GoodVerdict
    <3>3. buf' = b /\ pc' = "data"
      BY <1>1, <3>2
    <3>4. Len(wire') = 3 /\ wire'[1] = wire[5] /\ wire'[2] = wire[6]
      BY <1>2, <2>3 DEF ColorSubheader
    <3>5. wire'[1] = Screens!Unit("0B") /\ wire'[2] = Screens!Content(n)
      BY <2>3, <3>4 DEF ColorSubheader
    <3>6. Screens!FrameLength(buf') = 2
      BY <3>2, <3>3
    <3>7. ColorData(n)'
      BY <3>1, <3>3, <3>4, <3>5, <3>6 DEF ColorData, Screens!Content, Screens!Unit
    <3>8. n \in 1 .. sent'
      BY <1>1
    <3> QED
      BY <3>3, <3>7, <3>8 DEF InSync
  <2>4. CASE PartSubheader(n)
    <3>1. /\ b[3] = Screens!Unit("B") /\ b[4] = Screens!Unit("0") /\ b[5] = Screens!Unit("1")
          /\ b[6] = Screens!Unit("1") /\ b[7] = Screens!Unit("1") /\ Ready
      BY <1>3, <2>4 DEF PartSubheader
    <3>2. /\ Screens!IsHex(b[4]) /\ Screens!IsHex(b[5]) /\ Screens!Verdict(b) = "OK" /\ Screens!FrameLength(b) = 1
          /\ Screens!Value(b[6]) = 1
      BY <3>1, GoodVerdict
    <3>3. buf' = b /\ pc' = "data"
      BY <1>1, <3>2
    <3>4. Len(wire') = 2 /\ wire'[1] = wire[5]
      BY <1>2, <2>4 DEF PartSubheader
    <3>5. wire'[1] = Screens!Content(n)
      BY <2>4, <3>4 DEF PartSubheader
    <3>6. Screens!FrameLength(buf') = 1 /\ Screens!Value(buf'[6]) = 1
      BY <3>2, <3>3
    <3>7. Following(2)'
      BY <2>1, <3>1, <3>4 DEF Following
    <3>8. PartData(n)'
      BY <2>1, <3>1, <3>3, <3>4, <3>5, <3>6, <3>7 DEF PartData
    <3>9. n \in 1 .. sent'
      BY <1>1
    <3> QED
      BY <3>3, <3>8, <3>9 DEF InSync
  <2> QED
    BY <2>2, <2>3, <2>4
<1> QED
  BY <1>7, <1>9, <1>10, <1>11 DEF ScreenInv

LEMMA SkipPreserves == ASSUME ScreenInv, Screens!Skip PROVE ScreenInv'
<1>1. /\ pc = "skip" /\ wire \in Seq(Received) /\ Screens!Take(1) /\ skip > 0 /\ skip' = skip - 1 /\ skip \in Nat
      /\ verdict # "OK"
      /\ UNCHANGED <<mode, asking, starts, sent, answered, faults, pauses, data, picture, picture_size,
                     picture_format, verdict, reported>>
  <2>1. pc = "skip" /\ Screens!Take(1) /\ skip > 0 /\ skip' = skip - 1
    BY DEF Screens!Skip
  <2>2. wire \in Seq(Received) /\ skip \in Nat
    BY DEF ScreenInv, ScreenTypes, Screens!TypeOK
  <2>3. verdict # "OK"
    BY <2>1 DEF ScreenInv, ScreenPlace
  <2>4. UNCHANGED <<mode, asking, starts, sent, answered, faults, pauses, data, picture, picture_size,
                    picture_format, verdict>>
    BY DEF Screens!Skip, Screens!deviceVars, Screens!pictureVars
  <2>5. UNCHANGED reported
    BY DEF Screens!Skip, Screens!PassOver, Screens!Return
  <2> QED
    BY <2>1, <2>2, <2>3, <2>4, <2>5
<1>2. \/ UNCHANGED <<pc, buf, given>>
      \/ pc' = "align" /\ buf' = <<>> /\ given' = given
      \/ pc' = "idle" /\ given' = verdict /\ buf' = buf
  <2>1. CASE skip > 1
    BY <2>1 DEF Screens!Skip
  <2>2. CASE ~(skip > 1) /\ verdict = "CORRUPT"
    BY <2>2 DEF Screens!Skip, Screens!PassOver
  <2>3. CASE ~(skip > 1) /\ verdict # "CORRUPT"
    BY <2>3 DEF Screens!Skip, Screens!Return
  <2> QED
    BY <2>1, <2>2, <2>3
<1>3. wire' \in Seq(Received)
  BY <1>1, TakenAre
<1>4. Received' = Received
  BY <1>1, ReceivedStays
<1>5. <<>> \in Seq(Received) /\ Len(<<>>) = 0
  OBVIOUS
<1>6. ScreenTypes'
  <2>1. skip' \in Nat
    BY <1>1
  <2>2. buf \in Seq(Received) /\ Len(buf) <= 7 /\ pc \in Screens!Places
    BY DEF ScreenInv, ScreenTypes, Screens!TypeOK, Screens!HeaderSize, Screens!SubheaderSize
  <2>3. (buf' = buf \/ buf' = <<>>) /\ pc' \in {pc, "align", "idle"}
    BY <1>2
  <2>4. buf' \in Seq(Received) /\ Len(buf') <= 7
    <3>1. Len(<<>>) <= 7
      BY <1>5
    <3> QED
      BY <1>5, <2>2, <2>3, <3>1, Zenon
  <2>5. pc' \in Screens!Places
    BY <2>2, <2>3 DEF Screens!Places
  <2> QED
    BY <1>1, <1>3, <1>4, <2>1, <2>4, <2>5
       DEF ScreenInv, ScreenTypes, Screens!TypeOK, Screens!HeaderSize, Screens!SubheaderSize
<1>7. ScreenPlace'
  BY <1>1, <1>2, <1>5 DEF ScreenPlace
<1>8. Screens!FramesAreWhole'
  <2>1. faults <= faults' /\ pauses <= pauses'
    BY <1>1, ScreenBounds DEF ScreenInv, ScreenTypes
  <2>2. ~(given' = "OK" /\ pc' = "idle")
    BY <1>1, <1>2
  <2> QED
    BY <1>1, <1>6, <2>1, <2>2, StillWhole DEF ScreenInv
<1>9. ~Undisturbed'
  BY <1>1 DEF ScreenInv, Undisturbed, InSync
<1> QED
  BY <1>6, <1>7, <1>8, <1>9 DEF ScreenInv

LEMMA FollowingMoves ==
  ASSUME NEW k \in Nat, Following(k + 1), Len(wire) \in Nat, Len(wire') = Len(wire) - 1,
         \A j \in 1 .. Len(wire) - 1 : wire'[j] = wire[1 + j], sent' = sent, Ready => Ready'
  PROVE  Following(k)'
<1>1. CASE (Len(wire) = k + 1 \/ CheckAt(wire, k + 1)) /\ (sent > 0 => Ready)
  <2>1. CheckAt(wire, k + 1) => CheckAt(wire', k)
    BY DEF CheckAt
  <2>2. Len(wire) = k + 1 => Len(wire') = k
    OBVIOUS
  <2> QED
    BY <1>1, <2>1, <2>2 DEF Following
<1>2. CASE \E n \in 1 .. sent : ColorAt(wire, k + 1, n) \/ (PartAt(wire, k + 1, n) /\ Ready)
  <2>1. PICK n \in 1 .. sent : ColorAt(wire, k + 1, n) \/ (PartAt(wire, k + 1, n) /\ Ready)
    BY <1>2
  <2>2. ColorAt(wire, k + 1, n) => ColorAt(wire', k, n)
    BY DEF ColorAt
  <2>3. PartAt(wire, k + 1, n) => PartAt(wire', k, n)
    <3> SUFFICES ASSUME PartAt(wire, k + 1, n) PROVE PartAt(wire', k, n)
      OBVIOUS
    <3>1. Len(wire) = k + 10 /\ Len(wire') = k + 9
      BY DEF PartAt
    <3>2. \A j \in 1 .. 9 : wire'[k + j] = wire[k + 1 + j]
      BY <3>1
    <3> QED
      BY <3>1, <3>2 DEF PartAt
  <2> QED
    BY <2>1, <2>2, <2>3 DEF Following
<1> QED
  BY <1>1, <1>2 DEF Following

LEMMA BlitIs ==
  ASSUME NEW p \in Seq(Received), NEW us \in Seq(Received), NEW at
  PROVE  /\ Screens!Blit(p, us, at) \in Seq(Received) /\ Len(Screens!Blit(p, us, at)) = Len(p)
         /\ Len(p) = 2 /\ Len(us) = 1 /\ at = 1
              => Screens!Blit(p, us, at)[1] = p[1] /\ Screens!Blit(p, us, at)[2] = us[1]
<1> DEFINE b == Screens!Blit(p, us, at)
<1>1. b = [n \in 1 .. Len(p) |-> IF n - at \in 1 .. Len(us) THEN us[n - at] ELSE p[n]]
  BY DEF Screens!Blit
<1>2. \A n \in 1 .. Len(p) : b[n] \in Received
  BY <1>1
<1>3. \A n \in 1 .. Len(p) : b[n] = IF n - at \in 1 .. Len(us) THEN us[n - at] ELSE p[n]
  BY <1>1
<1>4. b \in Seq(Received) /\ Len(b) = Len(p)
  BY <1>1, <1>2
<1> HIDE DEF b
<1>5. Len(p) = 2 /\ Len(us) = 1 /\ at = 1 => b[1] = p[1] /\ b[2] = us[1]
  BY <1>3
<1> QED
  BY <1>4, <1>5 DEF b

LEMMA DataPreserves == ASSUME ScreenInv, Screens!Data PROVE ScreenInv'
<1> DEFINE L == Screens!FrameLength(buf)
           us == SubSeq(wire, 1, L)
<1>1. /\ pc = "data" /\ buf \in Seq(Received) /\ wire \in Seq(Received) /\ picture \in Seq(Received) /\ Screens!Take(L)
      /\ MonoHeader(buf) \/ LongHeader(buf)
  BY DEF Screens!Data, ScreenInv, ScreenTypes, ScreenPlace
<1>2. L \in 1 .. 2
  <2>1. MonoHeader(buf) => L = 2
    BY DEF Screens!FrameLength, MonoHeader, Screens!PictureSize
  <2> QED
    BY <1>1, <2>1 DEF LongHeader
<1>3. /\ Len(wire) >= L /\ wire' \in Seq(Received) /\ Len(wire') = Len(wire) - L
      /\ \A j \in 1 .. Len(wire) - L : wire'[j] = wire[L + j]
      /\ us \in Seq(Received) /\ Len(us) = L
      /\ \A j \in 1 .. L : us[j] = wire[j]
  <2> HIDE DEF L
  <2>1. L \in Nat
    BY <1>2
  <2> QED
    BY <1>1, <2>1, TakenAre
<1>4. UNCHANGED <<mode, asking, starts, sent, answered, faults, pauses, buf, skip, verdict, reported>>
  BY DEF Screens!Data, Screens!GoTo, Screens!Return, Screens!deviceVars
<1>5. \/ /\ buf[3] = Screens!Unit("B") /\ data' = us /\ picture_format = "rgb"
         /\ picture' = Screens!Blit(picture, us, Screens!Value(buf[6])) /\ pc' = "sum"
         /\ UNCHANGED <<picture_size, picture_format, given>>
      \/ /\ buf[3] = Screens!Unit("B") /\ data' = us /\ picture_format # "rgb" /\ pc' = "idle" /\ given' = "IMPL"
         /\ UNCHANGED <<picture, picture_size, picture_format>>
      \/ /\ buf[3] # Screens!Unit("B") /\ picture' = us /\ picture_size' = Len(us)
         /\ picture_format' = Screens!Format(buf) /\ pc' = "sum" /\ UNCHANGED <<data, given>>
  BY DEF Screens!Data, Screens!IsPart, Screens!GoTo, Screens!Return
<1> HIDE DEF L, us
<1>6. Received' = Received
  BY <1>4, ReceivedStays
<1>7. buf[3] # Screens!Unit("B") => Screens!Format(buf) \in {"none", "mono", "rgb"}
  BY <1>1 DEF Screens!Format, MonoHeader, LongHeader, LongBegins
<1> DEFINE p == Screens!Blit(picture, us, Screens!Value(buf[6]))
<1>8. p \in Seq(Received) /\ Len(p) = Len(picture)
  BY <1>1, <1>3, BlitIs
<1>9. Len(picture) = 2 /\ L = 1 /\ Screens!Value(buf[6]) = 1 => p[1] = picture[1] /\ p[2] = us[1]
  BY <1>1, <1>3, BlitIs
<1> HIDE DEF p
<1>10. ScreenTypes'
  <2>1. /\ data \in Seq(Received) /\ picture \in Seq(Received) /\ Len(picture) <= 2 /\ picture_size \in 0 .. 2
        /\ picture_size = Len(picture) /\ picture_format \in {"none", "mono", "rgb"}
    BY DEF ScreenInv, ScreenTypes, Screens!TypeOK, Screens!PictureSize
  <2>2. Len(us) <= 2 /\ Len(us) \in 0 .. 2 /\ us \in Seq(Received)
    BY <1>2, <1>3
  <2>3. data' \in Seq(Received)
    BY <1>5, <2>1, <2>2
  <2>4. \/ picture' = p /\ picture_size' = picture_size
        \/ picture' = picture /\ picture_size' = picture_size
        \/ picture' = us /\ picture_size' = Len(us)
    BY <1>5 DEF p
  <2>5. picture' \in Seq(Received) /\ Len(picture') <= 2 /\ picture_size' \in 0 .. 2 /\ picture_size' = Len(picture')
    <3>1. CASE picture' = p /\ picture_size' = picture_size
      BY <1>8, <2>1, <3>1
    <3>2. CASE picture' = picture /\ picture_size' = picture_size
      BY <2>1, <3>2
    <3>3. CASE picture' = us /\ picture_size' = Len(us)
      BY <2>2, <3>3
    <3> QED
      BY <2>4, <3>1, <3>2, <3>3
  <2>6. picture_format' \in {"none", "mono", "rgb"}
    BY <1>5, <1>7, <2>1
  <2>7. pc' \in Screens!Places
    BY <1>5 DEF Screens!Places
  <2> QED
    BY <1>3, <1>4, <1>6, <2>3, <2>5, <2>6, <2>7 DEF ScreenInv, ScreenTypes, Screens!TypeOK, Screens!PictureSize
<1>11. ScreenPlace'
  <2>1. (MonoHeader(buf) => MonoHeader(buf)') /\ (LongHeader(buf) => LongHeader(buf)')
    BY <1>4 DEF MonoHeader, LongHeader, LongBegins, Screens!FrameLength
  <2>2. pc' \in {"sum", "idle"}
    BY <1>5
  <2> QED
    BY <1>1, <2>1, <2>2 DEF ScreenPlace
<1>12. Screens!FramesAreWhole'
  BY <1>5 DEF Screens!FramesAreWhole
<1>13. Undisturbed' => InSync'
  <2> SUFFICES ASSUME Undisturbed' PROVE InSync'
    OBVIOUS
  <2>1. InSync
    BY <1>4 DEF ScreenInv, Undisturbed
  <2>2. PICK n \in 1 .. sent : ColorData(n) \/ PartData(n)
    BY <1>1, <2>1 DEF InSync
  <2>3. n \in 1 .. sent'
    BY <1>4
  <2>4. CASE ColorData(n)
    <3>1. L = 2 /\ buf[3] # Screens!Unit("B") /\ Screens!Format(buf) = "rgb" /\ Len(wire) = 3
      BY <2>4, UnequalUnits DEF ColorData, L, Screens!Format
    <3>2. pc' = "sum" /\ picture' = us /\ picture_format' = "rgb"
      BY <1>5, <3>1
    <3>3. Len(us) = 2 /\ us[1] = Screens!Unit("0B") /\ us[2] = Screens!Content(n) /\ Len(wire') = 1
      BY <1>3, <2>4, <3>1 DEF ColorData
    <3>4. Ready'
      BY <3>2, <3>3 DEF Ready
    <3>5. FrameSum(n)'
      BY <3>2, <3>3, <3>4 DEF FrameSum
    <3>6. Following(1)'
      BY <3>3, <3>4 DEF Following
    <3> QED
      BY <2>3, <3>2, <3>5, <3>6 DEF InSync
  <2>5. CASE PartData(n)
    <3>1. /\ L = 1 /\ buf[3] = Screens!Unit("B") /\ Screens!Value(buf[6]) = 1 /\ Ready /\ Following(2)
          /\ wire[1] = Screens!Content(n)
      BY <2>5 DEF PartData, L
    <3>2. pc' = "sum" /\ picture' = p /\ picture_format' = picture_format
      BY <1>5, <3>1 DEF Ready, p
    <3>3. us[1] = Screens!Content(n)
      BY <1>3, <3>1
    <3>4. Len(p) = 2 /\ p[1] = Screens!Unit("0B") /\ p[2] = Screens!Content(n) /\ picture_format = "rgb"
      BY <1>8, <1>9, <3>1, <3>3 DEF Ready
    <3>5. Ready'
      BY <3>2, <3>4 DEF Ready
    <3>6. FrameSum(n)'
      BY <3>2, <3>4, <3>5 DEF FrameSum
    <3>7. Following(1)'
      <4>1. Len(wire) \in Nat /\ Len(wire') = Len(wire) - 1 /\ \A j \in 1 .. Len(wire) - 1 : wire'[j] = wire[1 + j]
        BY <1>1, <1>3, <3>1
      <4>2. Following(1 + 1)
        BY <3>1
      <4> QED
        BY <1>4, <3>5, <4>1, <4>2, FollowingMoves
    <3> QED
      BY <2>3, <3>2, <3>6, <3>7 DEF InSync
  <2> QED
    BY <2>2, <2>4, <2>5
<1> QED
  BY <1>10, <1>11, <1>12, <1>13 DEF ScreenInv

(* The checksum held: the frame the program is given is the one with the   *)
(* content of the picture.                                                 *)
LEMMA ReportedIs ==
  ASSUME picture \in Seq(Received), Len(picture) = 2, picture[1] = Screens!Unit("0B"),
         NEW n \in 1 .. sent, picture[2] = Screens!Content(n), sent \in Nat, UNCHANGED <<picture, sent>>,
         reported' = IF \E m \in 1 .. sent : Screens!Content(m) = Screens!Last(picture)
                     THEN CHOOSE m \in 1 .. sent : Screens!Content(m) = Screens!Last(picture) ELSE reported
  PROVE  reported' > 0 /\ picture' = <<Screens!Unit("0B"), Screens!Content(reported')>>
<1> DEFINE Is(m) == Screens!Content(m) = Screens!Last(picture)
<1>1. Screens!Last(picture) = picture[2]
  BY DEF Screens!Last
<1>2. Is(n)
  BY <1>1
<1>3. reported' = CHOOSE m \in 1 .. sent : Is(m)
  BY <1>2
<1>4. Screens!Last(picture) = Screens!Content(n)
  BY <1>1
<1> HIDE DEF Is
<1>5. reported' \in 1 .. sent /\ Is(reported')
  BY <1>2, <1>3
<1>6. picture[2] = Screens!Content(reported')
  BY <1>1, <1>5 DEF Is
<1>7. picture = <<picture[1], picture[2]>>
  OBVIOUS
<1> QED
  BY <1>5, <1>6, <1>7

LEMMA ChecksumPreserves == ASSUME ScreenInv, Screens!Checksum PROVE ScreenInv'
<1> DEFINE Found == \E m \in 1 .. sent : Screens!Content(m) = Screens!Last(picture)
           found == CHOOSE m \in 1 .. sent : Screens!Content(m) = Screens!Last(picture)
<1>1. /\ pc = "sum" /\ buf \in Seq(Received) /\ wire \in Seq(Received) /\ picture \in Seq(Received)
      /\ Screens!Take(1) /\ picture_size = Len(picture)
      /\ CheckHeader(buf) \/ MonoHeader(buf) \/ LongHeader(buf)
  BY DEF Screens!Checksum, ScreenInv, ScreenTypes, ScreenPlace
<1>2. /\ Len(wire) >= 1 /\ wire' \in Seq(Received) /\ Len(wire') = Len(wire) - 1
      /\ \A j \in 1 .. Len(wire) - 1 : wire'[j] = wire[1 + j]
  BY <1>1, TakenAre
<1>3. UNCHANGED <<mode, asking, starts, sent, faults, pauses, data, picture, picture_size, picture_format,
                  skip, verdict>>
  BY DEF Screens!Checksum, Screens!deviceVars, Screens!pictureVars
<1>4. \/ /\ pc' = "align" /\ buf' = <<>> /\ answered' \in {answered, TRUE} /\ UNCHANGED <<given, reported>>
      \/ /\ pc' = "idle" /\ given' = "OK" /\ UNCHANGED <<answered, buf>> /\ Screens!SumHolds(Head(wire))
         /\ buf[1] # Screens!Unit("16")
         /\ reported' = IF Found THEN found ELSE reported
  <2>1. CASE Screens!SumHolds(Head(wire)) /\ buf[1] = Screens!Unit("16")
    BY <2>1 DEF Screens!Checksum, Screens!Complete, Screens!PassOver
  <2>2. CASE Screens!SumHolds(Head(wire)) /\ buf[1] # Screens!Unit("16")
    BY <2>2 DEF Screens!Checksum, Screens!Complete
  <2>3. CASE ~Screens!SumHolds(Head(wire))
    BY <2>3 DEF Screens!Checksum, Screens!PassOver
  <2> QED
    BY <2>1, <2>2, <2>3
<1>5. sent \in Nat /\ sent <= 6 /\ sent \in 0 .. MaxFrames /\ MaxFrames \in Nat /\ reported \in 0 .. MaxFrames
  BY ScreenBounds DEF ScreenInv, ScreenTypes, Screens!TypeOK
<1>6. Received' = Received
  BY <1>3, ReceivedStays
<1>7. <<>> \in Seq(Received) /\ Len(<<>>) <= 7
  OBVIOUS
<1>8. reported' \in 0 .. MaxFrames
  <2>1. CASE pc' = "idle" /\ Found /\ reported' = found
    <3> DEFINE Is(m) == Screens!Content(m) = Screens!Last(picture)
    <3>1. (\E m \in 1 .. sent : Is(m)) /\ reported' = CHOOSE m \in 1 .. sent : Is(m)
      BY <2>1
    <3> HIDE DEF Is
    <3>2. reported' \in 1 .. sent
      BY <3>1
    <3> QED
      BY <1>5, <3>2
  <2>2. CASE reported' = reported
    BY <1>5, <2>2
  <2> QED
    BY <1>4, <2>1, <2>2
<1>9. ScreenTypes'
  <2>1. buf \in Seq(Received) /\ Len(buf) <= 7 /\ answered \in BOOLEAN
    BY DEF ScreenInv, ScreenTypes, Screens!TypeOK, Screens!HeaderSize, Screens!SubheaderSize
  <2>2. buf' \in {buf, <<>>} /\ answered' \in {answered, TRUE} /\ pc' \in {"align", "idle"}
    BY <1>4
  <2>3. buf' \in Seq(Received) /\ Len(buf') <= 7
    BY <1>7, <2>1, <2>2, Zenon
  <2>4. answered' \in BOOLEAN /\ pc' \in Screens!Places
    BY <2>1, <2>2 DEF Screens!Places
  <2> QED
    BY <1>2, <1>3, <1>6, <1>8, <2>3, <2>4
       DEF ScreenInv, ScreenTypes, Screens!TypeOK, Screens!HeaderSize, Screens!SubheaderSize
<1>10. ScreenPlace'
  <2>1. pc' = "idle" \/ (pc' = "align" /\ buf' = <<>>)
    BY <1>4
  <2> QED
    BY <2>1 DEF ScreenPlace
<1>11. Screens!FramesAreWhole'
  <2> SUFFICES ASSUME given' = "OK", pc' = "idle", mode' = "parts" => faults' + pauses' = 0
               PROVE  reported' > 0 /\ picture' = <<Screens!Unit("0B"), Screens!Content(reported')>>
    BY DEF Screens!FramesAreWhole, Screens!Unit, Screens!Content
  <2>1. Screens!SumHolds(Head(wire)) /\ buf[1] # Screens!Unit("16") /\ reported' = IF Found THEN found ELSE reported
    BY <1>4
  <2>2. MonoHeader(buf) \/ LongHeader(buf)
    BY <1>1, <2>1 DEF CheckHeader
  <2>3. PICK n \in 1 .. sent : Len(picture) = 2 /\ picture[1] = Screens!Unit("0B") /\ picture[2] = Screens!Content(n)
    <3>1. CASE mode = "parts"
      <4>1. faults \in Nat /\ pauses \in Nat /\ faults + pauses = 0
        BY <1>3, <3>1, ScreenBounds DEF ScreenInv, ScreenTypes
      <4>2. InSync
        BY <3>1, <4>1, NoughtIs DEF ScreenInv, Undisturbed
      <4>3. ~CheckHeader(buf)
        BY <2>1 DEF CheckHeader
      <4> QED
        BY <1>1, <4>2, <4>3 DEF InSync, FrameSum, Ready
    <3>2. CASE mode # "parts"
      <4>1. mode \in {"mono", "color"}
        BY <3>2, ModesAssumption DEF ScreenInv, ScreenTypes, Screens!TypeOK
      <4>2. buf[3] # Screens!Unit("B")
        <5> SUFFICES ASSUME buf[3] = Screens!Unit("B") PROVE FALSE
          OBVIOUS
        <5>1. buf[3] \in Received
          <6>1. 3 \in 1 .. Len(buf)
            BY <2>2 DEF MonoHeader, LongHeader
          <6> QED
            BY <1>1, <6>1, ElementOfSeq
        <5>2. buf[3].is = "B"
          BY DEF Screens!Unit
        <5> QED
          BY <3>2, <5>1, <5>2, ReceivedIs DEF SumOf
      <4>3. SubSeq(picture, 1, picture_size) = picture
        BY <1>1
      <4>4. Head(wire) = Screens!Sum(Tail(buf) \o picture)
        BY <2>1, <4>2, <4>3 DEF Screens!SumHolds, Screens!IsPart
      <4>5. Head(wire) \in Received
        BY <1>1, <1>2
      <4>6. \E n \in 1 .. sent : picture = <<Screens!Unit("0B"), Screens!Content(n)>>
        <5>1. sent \in 0 .. 6
          BY <1>5
        <5> QED
          BY <1>1, <2>2, <4>1, <4>4, <4>5, <5>1, SumMeans
      <4>7. PICK n \in 1 .. sent : picture = <<Screens!Unit("0B"), Screens!Content(n)>>
        BY <4>6
      <4> QED
        BY <4>7
    <3> QED
      BY <3>1, <3>2
  <2> QED
    BY <1>1, <1>3, <1>5, <2>1, <2>3, ReportedIs
<1>12. Undisturbed' => InSync'
  <2> SUFFICES ASSUME Undisturbed' PROVE InSync'
    OBVIOUS
  <2>1. InSync
    BY <1>3 DEF ScreenInv, Undisturbed
  <2>2. Following(0 + 1)
    BY <1>1, <2>1 DEF InSync
  <2>3. Ready => Ready'
    BY <1>3 DEF Ready
  <2>4. Len(wire) \in Nat
    BY <1>1
  <2>5. Following(0)'
    BY <1>2, <1>3, <2>2, <2>3, <2>4, FollowingMoves
  <2> QED
    BY <1>4, <2>5 DEF InSync
<1> QED
  BY <1>9, <1>10, <1>11, <1>12 DEF ScreenInv

LEMMA TimesOutPreserves == ASSUME ScreenInv, Screens!TimesOut PROVE ScreenInv'
<1>1. PICK n \in 0 .. Len(wire) :
        /\ n < Screens!Wanted
        /\ IF n = Len(wire) /\ ~asking /\ sent = MaxFrames THEN UNCHANGED pauses
           ELSE pauses < MaxPauses /\ pauses' = pauses + 1
        /\ wire' = SubSeq(wire, n + 1, Len(wire))
        /\ Screens!Return(IF pc = "align" /\ n = 0 THEN "TIMEOUT_START" ELSE "TIMEOUT")
  BY DEF Screens!TimesOut
<1>2. /\ pc # "idle" /\ pc' = "idle" /\ given' # "OK"
      /\ UNCHANGED <<mode, asking, starts, sent, answered, faults, buf, data, picture, picture_size,
                     picture_format, skip, verdict, reported>>
  BY <1>1 DEF Screens!TimesOut, Screens!Return, Screens!deviceVars, Screens!pictureVars
<1>3. wire \in Seq(Received) /\ wire' \in Seq(Received) /\ Len(wire') = Len(wire) - n
  <2>1. wire \in Seq(Received)
    BY DEF ScreenInv, ScreenTypes
  <2> QED
    BY <1>1, <2>1, RestOf
<1>4. Received' = Received
  BY <1>2, ReceivedStays
<1>5. pauses' \in 0 .. MaxPauses /\ (pauses' = 0 => pauses = 0 /\ n = Len(wire))
  <2>1. pauses \in 0 .. MaxPauses /\ MaxPauses \in Nat
    BY ScreenBounds DEF ScreenInv, ScreenTypes, Screens!TypeOK
  <2>2. CASE n = Len(wire) /\ ~asking /\ sent = MaxFrames
    BY <1>1, <2>1, <2>2
  <2>3. CASE ~(n = Len(wire) /\ ~asking /\ sent = MaxFrames)
    BY <1>1, <2>1, <2>3
  <2> QED
    BY <2>2, <2>3
<1>6. ScreenTypes'
  BY <1>2, <1>3, <1>4, <1>5 DEF ScreenInv, ScreenTypes, Screens!TypeOK, Screens!Places
<1>7. ScreenPlace'
  BY <1>2 DEF ScreenPlace
<1>8. Screens!FramesAreWhole'
  BY <1>2 DEF Screens!FramesAreWhole
<1>9. Undisturbed' => InSync'
  <2> SUFFICES ASSUME Undisturbed' PROVE InSync'
    OBVIOUS
  <2>1. InSync /\ Len(wire) < Screens!Wanted /\ n = Len(wire) /\ Len(wire) \in Nat
    BY <1>1, <1>2, <1>3, <1>5 DEF ScreenInv, Undisturbed
  <2>2. Len(wire') = 0 /\ Ready' = Ready
    BY <1>2, <1>3, <2>1 DEF Ready
  <2>3. \A k \in 0 .. 2 : Following(k) => Len(wire) >= k
    BY <2>1 DEF Following, CheckAt, ColorAt, PartAt
  <2>4. pc = "align"
    <3>1. pc # "subheader"
      BY <2>1 DEF InSync, ColorSubheader, PartSubheader, Screens!Wanted, Screens!SubheaderSize
    <3>2. pc # "data"
      <4> SUFFICES ASSUME pc = "data" PROVE FALSE
        OBVIOUS
      <4>1. Screens!Wanted = Screens!FrameLength(buf)
        BY DEF Screens!Wanted
      <4>2. PICK m \in 1 .. sent : ColorData(m) \/ PartData(m)
        BY <2>1 DEF InSync
      <4>3. CASE ColorData(m)
        BY <2>1, <4>1, <4>3 DEF ColorData
      <4>4. CASE PartData(m)
        BY <2>1, <2>3, <4>1, <4>4 DEF PartData
      <4> QED
        BY <4>2, <4>3, <4>4
    <3>3. pc # "sum"
      BY <2>1, <2>3 DEF InSync, Screens!Wanted
    <3> QED
      BY <1>2, <2>1, <3>1, <3>2, <3>3 DEF InSync, ScreenInv, ScreenTypes, Screens!TypeOK, Screens!Places
  <2>5. sent > 0 => Ready
    <3>1. buf = <<>> /\ Following(0)
      BY <2>1, <2>4 DEF InSync
    <3>2. Screens!Wanted = 3
      BY <2>4, <3>1 DEF Screens!Wanted, Screens!HeaderSize
    <3> QED
      BY <2>1, <3>1, <3>2 DEF Following, CheckAt, ColorAt, PartAt
  <2>6. Following(0)'
    BY <1>2, <2>2, <2>5 DEF Following
  <2> QED
    BY <1>2, <2>6 DEF InSync
<1> QED
  BY <1>6, <1>7, <1>8, <1>9 DEF ScreenInv

LEMMA ScreensStart == ASSUME Screens!Init PROVE ScreenInv
<1> USE DEF Screens!Init
<1>1. <<>> \in Seq(Received) /\ Len(<<>>) = 0
  OBVIOUS
<1>2. ScreenTypes
  <2>1. 0 \in 0 .. MaxStarts /\ 0 \in 0 .. MaxFrames /\ 0 \in 0 .. MaxFaults /\ 0 \in 0 .. MaxPauses
    BY FramesAssumption
  <2>2. Screens!TypeOK
    <3>1. /\ starts \in 0 .. MaxStarts /\ sent \in 0 .. MaxFrames /\ faults \in 0 .. MaxFaults
          /\ pauses \in 0 .. MaxPauses /\ reported \in 0 .. MaxFrames
      BY <2>1
    <3>2. mode \in Modes /\ asking \in BOOLEAN /\ answered \in BOOLEAN /\ pc \in Screens!Places
      BY DEF Screens!Places
    <3>3. Len(buf) <= 3 + 4 /\ Len(picture) <= 2 /\ picture_size \in 0 .. 2 /\ skip \in Nat
      BY <1>1
    <3>4. picture_format \in {"none", "mono", "rgb"}
      OBVIOUS
    <3> QED
      BY <3>1, <3>2, <3>3, <3>4
         DEF Screens!TypeOK, Screens!HeaderSize, Screens!SubheaderSize, Screens!PictureSize
  <2> QED
    BY <1>1, <2>2 DEF ScreenTypes
<1>3. ScreenPlace
  BY DEF ScreenPlace
<1>4. InSync
  BY <1>1 DEF InSync, Following
<1>5. Screens!FramesAreWhole
  BY DEF Screens!FramesAreWhole
<1> QED
  BY <1>2, <1>3, <1>4, <1>5 DEF ScreenInv

LEMMA ScreensGoOn == ASSUME ScreenInv, Screens!Next \/ UNCHANGED screenVars PROVE ScreenInv'
<1>1. CASE Screens!Align
  BY <1>1, AlignPreserves
<1>2. CASE Screens!Subheader
  BY <1>2, SubheaderPreserves
<1>3. CASE Screens!Skip
  BY <1>3, SkipPreserves
<1>4. CASE Screens!Data
  BY <1>4, DataPreserves
<1>5. CASE Screens!Checksum
  BY <1>5, ChecksumPreserves
<1>6. CASE Screens!TimesOut
  BY <1>6, TimesOutPreserves
<1>7. CASE Screens!Call
  BY <1>7, CallPreserves
<1>8. CASE Screens!Ask
  BY <1>8, AskPreserves
<1>9. CASE Screens!SendFrame
  BY <1>9, SendFramePreserves
<1>10. CASE Screens!TakeAnswer \/ Screens!StartAgain \/ UNCHANGED screenVars
  BY <1>10, TakeAnswerPreserves
<1>11. CASE Screens!Lose \/ Screens!Damage \/ Screens!TransportFails
  BY <1>11, FaultsPreserve
<1> QED
  BY <1>1, <1>2, <1>3, <1>4, <1>5, <1>6, <1>7, <1>8, <1>9, <1>10, <1>11
     DEF Screens!Next, Screens!Library, Screens!Calculator

(* What the invariants say of the sessions of both uses.                   *)
LEMMA SessionsSteps ==
  SessionsNext \/ UNCHANGED allVars => [Next]_vars /\ (Screens!Next \/ UNCHANGED screenVars)
BY DEF SessionsNext, CommandsOnly, ScreensOnly, allVars

LEMMA ScreensHold == SessionsSpec => []ScreenInv
<1>1. SessionsInit => ScreenInv
  BY ScreensStart DEF SessionsInit
<1>2. ScreenInv /\ [SessionsNext]_allVars => ScreenInv'
  BY SessionsSteps, ScreensGoOn
<1> QED
  BY <1>1, <1>2, PTL DEF SessionsSpec

LEMMA CommandsHold ==
  ASSUME Discovers
  PROVE  SessionsSpec => []IInv
<1>1. SessionsInit => IInv
  BY InitEstablishes DEF SessionsInit
<1>2. IInv /\ [SessionsNext]_allVars => IInv'
  BY SessionsSteps, StepPreserves
<1> QED
  BY <1>1, <1>2, PTL DEF SessionsSpec

(* A frame that is given to the program is one the calculator showed, for  *)
(* any number of losses, damages, pauses and restarts of the calculator:   *)
(* the alignment and the checksum of receive_packet.c:79-124 never make    *)
(* one picture of two.                                                     *)
THEOREM FramesStayWhole == SessionsSpec => []FramesAreWhole
<1>1. ScreenInv => FramesAreWhole
  BY DEF ScreenInv, FramesAreWhole
<1> QED
  BY <1>1, ScreensHold, PTL

(* The sessions of both uses keep their types, with a buffer that is never *)
(* past the longest header, and a picture that is never larger than the    *)
(* one it is for (receive_packet.c).                                       *)
THEOREM SessionsKeepTypes ==
  ASSUME Discovers
  PROVE  SessionsSpec => []SessionsTypeOK
<1>1. IInv /\ ScreenInv => SessionsTypeOK
  BY InvariantsHold DEF ScreenInv, ScreenTypes, SessionsTypeOK
<1> QED
  BY <1>1, ScreensHold, CommandsHold, PTL

=============================================================================
