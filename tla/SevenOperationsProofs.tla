------------------------ MODULE SevenOperationsProofs ------------------------
(***************************************************************************)
(* Proofs about the operations of a Protocol 7.00 link that take more than *)
(* a command.                                                              *)
(*                                                                         *)
(* The first part is about the exchange they all run (SevenExchange): what *)
(* may be on the wire while a packet waits for its answer (Lockstep), or   *)
(* while packets are shifted (InFlight).  The others are about what each   *)
(* function and its device make of it.  The last is about the passive side *)
(* (SevenPassive), where the library is the device.                        *)
(***************************************************************************)
EXTENDS SevenOperations, TLAPS

Same(p, q) == p.kind = q.kind /\ p.id = q.id

Sent == 1 .. Len(toDevice)
Answered == 1 .. Len(toHost)

Quiet == toDevice = <<>> /\ toHost = <<>>
InFlight == Len(toDevice) + Len(toHost)

Usable == ~irrecoverable /\ ~gone

(* A late answer to a damaged packet can be taken for the answer to the    *)
(* check that followed; from there on every answer is one packet late.     *)
Orderly == damaged = 0 \/ late = 0

-----------------------------------------------------------------------------
(* An exchange in lockstep: on the wire are the packet of the exchange and *)
(* its check, or what they are answered.                                   *)
Expected(p) == p.kind = "check" \/ Same(p, packet)

Members ==
  /\ packet.intact /\ packet.kind # "check"
  /\ \A j \in Sent : Expected(toDevice[j])
  /\ \A j \in Answered : Expected(toHost[j].to)

(* The packet comes before its check, and only the system information has  *)
(* two answers.                                                            *)
Before(p, q) == q.kind = "check" /\ p.kind # "check"

TwoAnswers(j, k) ==
  j = 1 /\ k = 2 /\ toHost[j].to.kind = "info" /\ toHost[k].to.kind = "info"

InOrder ==
  /\ \A j, k \in Sent : j < k => Before(toDevice[j], toDevice[k])
  /\ \A j, k \in Answered : j < k => Before(toHost[j].to, toHost[k].to) \/ TwoAnswers(j, k)
  /\ \A j \in Answered, k \in Sent : Before(toHost[j].to, toDevice[k])

(* No check goes out before its time, nor is one left.                     *)
NoCheck ==
  phase \in {"answer", "receive"} =>
    /\ \A j \in Sent : toDevice[j].kind # "check"
    /\ \A j \in Answered : toHost[j].to.kind # "check"

(* When no answer is late, one packet is on its way, or its answer.        *)
Alone ==
  late = 0 =>
    /\ toDevice = <<>> \/ toHost = <<>>
    /\ Len(toDevice) <= 1
    /\ Len(toHost) <= 2
    /\ Len(toHost) = 2 => toHost[1].to.kind = "info" /\ toHost[1].kind # "resend"
    /\ phase = "check" =>
         /\ \A j \in Sent : toDevice[j].kind = "check"
         /\ \A j \in Answered : toHost[j].to.kind = "check"

(* What the device answers, unless the wire damages it.                    *)
Proper(a) == a.kind \notin {"none", "damaged", "other"} /\ (a.kind = "resend" <=> a.to.kind = "check")

Genuine ==
  damaged = 0 =>
    /\ \A j \in Sent : toDevice[j].intact
    /\ \A j \in Answered : Proper(toHost[j])

(* What the exchange that is over leaves, and what its answer is to.       *)
Over ==
  phase = "done" =>
    /\ outcome = "OK" => Same(answer.to, packet)
    /\ Usable /\ packet.kind # "info" /\ (outcome = "OK" \/ flags = {}) => Quiet

(* How many faults it takes.                                               *)
Faults ==
  late = 0 =>
    /\ phase = "answer" /\ Quiet => lost + damaged >= 1
    /\ phase = "check" => lost + damaged >= 1
    /\ phase = "check" /\ Quiet => lost + damaged >= 2
    /\ phase = "check" =>
         \A j \in Answered : toHost[j].kind # "resend" => lost + damaged >= 2

(* One packet lost or damaged does not cost the link.                      *)
Survives == lost + damaged <= 1 /\ late = 0 => ~irrecoverable

Lockstep == Members /\ InOrder /\ NoCheck /\ Alone /\ Genuine /\ Over /\ Faults

-----------------------------------------------------------------------------
LEMMA TailOf ==
  ASSUME NEW S, NEW s \in Seq(S), s # <<>>
  PROVE  /\ Tail(s) \in Seq(S) /\ Len(Tail(s)) = Len(s) - 1 /\ Len(s) \in Nat \ {0}
         /\ Head(s) = s[1] /\ s[1] \in S
         /\ \A k \in 1 .. Len(Tail(s)) : Tail(s)[k] = s[k + 1] /\ k + 1 \in 1 .. Len(s)
OBVIOUS

LEMMA AppendOf ==
  ASSUME NEW S, NEW s \in Seq(S), NEW x \in S
  PROVE  /\ Append(s, x) \in Seq(S) /\ Len(Append(s, x)) = Len(s) + 1 /\ Len(s) \in Nat
         /\ \A k \in 1 .. Len(s) : Append(s, x)[k] = s[k]
         /\ Append(s, x)[Len(s) + 1] = x
OBVIOUS

LEMMA EmptyOf ==
  ASSUME NEW S, NEW s \in Seq(S)
  PROVE  (s = <<>> <=> Len(s) = 0) /\ Len(s) \in Nat
OBVIOUS

LEMMA PacketsAre ==
  /\ \A k \in PacketKinds, n \in Nat :
       /\ Packet(k, n) \in HostPackets /\ Packet(k, n).intact
       /\ Packet(k, n).kind = k /\ Packet(k, n).id = n
  /\ \A k \in AnswerKinds, n \in Nat, p \in HostPackets :
       /\ Numbered(k, n, p) \in DevicePackets
       /\ Numbered(k, n, p).kind = k /\ Numbered(k, n, p).id = n /\ Numbered(k, n, p).to = p
  /\ \A k \in AnswerKinds, p \in HostPackets :
       /\ Answer(k, p) \in DevicePackets
       /\ Answer(k, p).kind = k /\ Answer(k, p).id = 0 /\ Answer(k, p).to = p
  /\ timeout_check_packet \in HostPackets /\ timeout_check_packet.intact
  /\ timeout_check_packet.kind = "check" /\ timeout_check_packet.id = 0
  /\ NoPacket \in HostPackets /\ NoPacket.intact /\ NoPacket.kind = "none"
  /\ NoAnswer \in DevicePackets /\ NoAnswer.kind = "none"
BY DEF timeout_check_packet, NoPacket, NoAnswer, Answer, Numbered, Packet, HostPackets,
       DevicePackets, PacketKinds, AnswerKinds

-----------------------------------------------------------------------------
(* The types of the exchange.                                              *)

LEMMA InitialIsTyped == ASSUME ExchangeInit PROVE ExchangeTypeOK
<1>1. toDevice \in Seq(HostPackets) /\ toHost \in Seq(DevicePackets)
  BY DEF ExchangeInit
<1>2. lost \in 0 .. MaxLost /\ damaged \in 0 .. MaxDamaged /\ late \in 0 .. MaxLate
      /\ attempts \in 0 .. Attempts
  BY AttemptsAssumption, FaultsAssumption DEF ExchangeInit
<1> QED
  BY <1>1, <1>2, PacketsAre DEF ExchangeInit, ExchangeTypeOK, Outcomes

LEMMA LossIsTyped == ASSUME ExchangeTypeOK, LosePacket PROVE ExchangeTypeOK'
<1>1. toDevice' \in Seq(HostPackets) /\ toHost' \in Seq(DevicePackets)
  <2>1. toDevice # <<>> => Tail(toDevice) \in Seq(HostPackets)
    BY TailOf DEF ExchangeTypeOK
  <2>2. toHost # <<>> => Tail(toHost) \in Seq(DevicePackets)
    BY TailOf DEF ExchangeTypeOK
  <2> QED
    BY <2>1, <2>2 DEF ExchangeTypeOK, LosePacket
<1>2. lost' \in 0 .. MaxLost
  BY FaultsAssumption DEF ExchangeTypeOK, LosePacket
<1> QED
  BY <1>1, <1>2 DEF ExchangeTypeOK, LosePacket, hostVars

(* What damage does to the first packet.                                   *)
LEMMA DamageIs ==
  ASSUME ExchangeTypeOK, DamagePacket
  PROVE  /\ toDevice' \in Seq(HostPackets) /\ toHost' \in Seq(DevicePackets)
         /\ Len(toDevice') = Len(toDevice) /\ Len(toHost') = Len(toHost)
         /\ \A k \in Sent : Same(toDevice'[k], toDevice[k])
         /\ \A k \in Answered : /\ toHost'[k].to = toHost[k].to /\ toHost'[k].id = toHost[k].id
                                /\ toHost'[k].kind \in {toHost[k].kind, "damaged", "other"}
         /\ damaged' = damaged + 1 /\ damaged' \in 1 .. MaxDamaged /\ damaged \in Nat
         /\ UNCHANGED <<lost, late, hostVars>>
         /\ toDevice' # toDevice => toHost' = toHost
         /\ ~Quiet
<1>0. damaged' = damaged + 1 /\ damaged' \in 1 .. MaxDamaged /\ damaged \in Nat
      /\ UNCHANGED <<lost, late, hostVars>>
  BY FaultsAssumption DEF ExchangeTypeOK, DamagePacket
<1>1. CASE /\ toDevice # <<>> /\ Head(toDevice).intact
           /\ toDevice' = [toDevice EXCEPT ![1].intact = FALSE]
           /\ UNCHANGED toHost
  <2>1. toDevice[1] \in HostPackets /\ 1 \in 1 .. Len(toDevice)
    BY <1>1 DEF ExchangeTypeOK
  <2> DEFINE d == [toDevice[1] EXCEPT !.intact = FALSE]
  <2>2. d \in HostPackets /\ Same(d, toDevice[1])
    BY <2>1 DEF HostPackets, Same
  <2>3. toDevice' = [toDevice EXCEPT ![1] = d]
    BY <1>1, Zenon
  <2> HIDE DEF d
  <2>4. /\ toDevice' \in Seq(HostPackets) /\ Len(toDevice') = Len(toDevice)
        /\ \A k \in Sent : toDevice'[k] = IF k = 1 THEN d ELSE toDevice[k]
    BY <2>1, <2>2, <2>3 DEF ExchangeTypeOK, Sent
  <2>5. \A k \in Sent : Same(toDevice'[k], toDevice[k])
    BY <2>2, <2>4 DEF Same
  <2> QED
    BY <1>0, <1>1, <2>4, <2>5 DEF ExchangeTypeOK, Quiet
<1>2. ASSUME toHost # <<>>, NEW k \in {"damaged", "other"},
             toHost' = [toHost EXCEPT ![1].kind = k], UNCHANGED toDevice
      PROVE  /\ toHost' \in Seq(DevicePackets) /\ Len(toHost') = Len(toHost)
             /\ \A j \in Answered : /\ toHost'[j].to = toHost[j].to /\ toHost'[j].id = toHost[j].id
                                    /\ toHost'[j].kind \in {toHost[j].kind, "damaged", "other"}
  <2>1. toHost[1] \in DevicePackets /\ 1 \in 1 .. Len(toHost)
    BY <1>2 DEF ExchangeTypeOK
  <2> DEFINE d == [toHost[1] EXCEPT !.kind = k]
  <2>2. d \in DevicePackets /\ d.kind = k /\ d.to = toHost[1].to /\ d.id = toHost[1].id
    BY <2>1 DEF DevicePackets, AnswerKinds
  <2>3. toHost' = [toHost EXCEPT ![1] = d]
    BY <1>2, Zenon
  <2> HIDE DEF d
  <2>4. /\ toHost' \in Seq(DevicePackets) /\ Len(toHost') = Len(toHost)
        /\ \A j \in Answered : toHost'[j] = IF j = 1 THEN d ELSE toHost[j]
    BY <2>1, <2>2, <2>3 DEF ExchangeTypeOK, Answered
  <2> QED
    BY <2>2, <2>4
<1> QED
  BY <1>0, <1>1, <1>2 DEF ExchangeTypeOK, DamagePacket, Same, Sent, Quiet

LEMMA DamageIsTyped == ASSUME ExchangeTypeOK, DamagePacket PROVE ExchangeTypeOK'
BY DamageIs, FaultsAssumption DEF ExchangeTypeOK, hostVars

LEMMA AttemptsAre ==
  ASSUME NEW f PROVE InitialAttempts(f) \in 1 .. Attempts /\ ("no_checksum" \in f => InitialAttempts(f) = 1)
BY AttemptsAssumption DEF InitialAttempts

LEMMA StartIsTyped ==
  ASSUME ExchangeTypeOK, NEW p \in HostPackets, NEW f \in SUBSET Flags, StartExchange(p, f)
  PROVE  ExchangeTypeOK'
<1>1. toDevice' \in Seq(HostPackets) /\ toHost' \in Seq(DevicePackets)
  BY AppendOf DEF ExchangeTypeOK, StartExchange
<1>2. attempts' \in 0 .. Attempts
  BY AttemptsAre, AttemptsAssumption DEF StartExchange
<1> QED
  BY <1>1, <1>2 DEF ExchangeTypeOK, StartExchange, Finish, Outcomes

LEMMA ReturnIsTyped == ASSUME ExchangeTypeOK, ExchangeReturns \/ StartReceive PROVE ExchangeTypeOK'
BY DEF ExchangeTypeOK, ExchangeReturns, StartReceive, wireVars

LEMMA ReceptionIsTyped ==
  ASSUME ExchangeTypeOK, NEW kinds, Receive(kinds)
  PROVE  toHost' \in Seq(DevicePackets) /\ answer' \in DevicePackets
         /\ UNCHANGED <<lost, damaged, late, packet, flags, gone>>
BY TailOf DEF ExchangeTypeOK, Receive

LEMMA RetryIsTyped ==
  ASSUME ExchangeTypeOK, NEW n \in 0 .. Attempts, TryAgain(n), UNCHANGED packet
  PROVE  /\ toDevice' \in Seq(HostPackets) /\ attempts' \in 0 .. Attempts
         /\ phase' \in {"answer", "done"} /\ outcome' \in Outcomes
<1>1. toDevice' \in Seq(HostPackets)
  BY AppendOf DEF ExchangeTypeOK, TryAgain
<1> QED
  BY <1>1, AttemptsAssumption DEF ExchangeTypeOK, TryAgain, Finish, Outcomes, DamageErrors

LEMMA StepIsTyped == ASSUME ExchangeTypeOK, ExchangeStep PROVE ExchangeTypeOK'
<1>1. CASE ReceiveDamaged
  BY <1>1, ReceptionIsTyped DEF ReceiveDamaged, Finish, Outcomes, ExchangeTypeOK
<1>2. CASE ReceiveAnswer
  BY <1>2, ReceptionIsTyped DEF ReceiveAnswer, Finish, Outcomes, ExchangeTypeOK
<1>3. CASE ReceiveResend
  <2>1. CASE phase = "answer" /\ TryAgain(attempts)
    <3>1. /\ toHost' \in Seq(DevicePackets) /\ answer' \in DevicePackets
          /\ UNCHANGED <<lost, damaged, late, packet, flags, gone, irrecoverable>>
      BY <1>3, ReceptionIsTyped DEF ReceiveResend
    <3>2. /\ toDevice' \in Seq(HostPackets) /\ attempts' \in 0 .. Attempts
          /\ phase' \in {"answer", "done"} /\ outcome' \in Outcomes
      BY <2>1, <3>1, RetryIsTyped DEF ExchangeTypeOK
    <3> QED
      BY <3>1, <3>2 DEF ExchangeTypeOK
  <2>2. CASE phase = "receive" /\ Finish("OK") /\ UNCHANGED <<toDevice, attempts>>
    BY <1>3, <2>2, ReceptionIsTyped DEF ReceiveResend, Finish, Outcomes, ExchangeTypeOK
  <2> QED
    BY <1>3, <2>1, <2>2 DEF ReceiveResend
<1>4. CASE ReceiveCheckAnswer
  <2>1. CASE Receive({"resend"}) /\ TryAgain(InitialAttempts(flags)) /\ UNCHANGED irrecoverable
    <3>1. /\ toHost' \in Seq(DevicePackets) /\ answer' \in DevicePackets
          /\ UNCHANGED <<lost, damaged, late, packet, flags, gone, irrecoverable>>
      BY <2>1, ReceptionIsTyped
    <3>2. InitialAttempts(flags) \in 0 .. Attempts
      BY AttemptsAre, AttemptsAssumption
    <3>3. /\ toDevice' \in Seq(HostPackets) /\ attempts' \in 0 .. Attempts
          /\ phase' \in {"answer", "done"} /\ outcome' \in Outcomes
      BY <2>1, <3>1, <3>2, RetryIsTyped
    <3> QED
      BY <3>1, <3>3 DEF ExchangeTypeOK
  <2>2. CASE /\ Receive(AnswerKinds \ {"damaged", "resend"})
             /\ irrecoverable' = TRUE
             /\ Finish("TIMEOUT_START") /\ UNCHANGED <<toDevice, attempts>>
    BY <2>2, ReceptionIsTyped DEF Finish, Outcomes, ExchangeTypeOK
  <2> QED
    BY <1>4, <2>1, <2>2 DEF ReceiveCheckAnswer
<1>5. CASE AnswerTimesOut \/ CheckTimesOut
  <2>1. late' \in 0 .. MaxLate
    BY <1>5, FaultsAssumption DEF AnswerTimesOut, CheckTimesOut, TimeRunsOut, ExchangeTypeOK
  <2>2. toDevice' \in Seq(HostPackets)
    BY <1>5, AppendOf, PacketsAre DEF AnswerTimesOut, CheckTimesOut, ExchangeTypeOK
  <2> QED
    BY <1>5, <2>1, <2>2 DEF AnswerTimesOut, CheckTimesOut, Finish, Outcomes, ExchangeTypeOK
<1> QED
  BY <1>1, <1>2, <1>3, <1>4, <1>5 DEF ExchangeStep

LEMMA UnpluggingIsTyped == ASSUME ExchangeTypeOK, Unplugged PROVE ExchangeTypeOK'
BY DEF ExchangeTypeOK, Unplugged, Finish, Outcomes, wireVars

LEMMA SendingIsTyped ==
  ASSUME ExchangeTypeOK, toDevice # <<>>, NEW a \in DevicePackets, DeviceSends(a)
  PROVE  ExchangeTypeOK'
<1>1. toDevice' \in Seq(HostPackets) /\ toHost' \in Seq(DevicePackets)
  BY TailOf, AppendOf DEF ExchangeTypeOK, DeviceSends
<1> QED
  BY <1>1 DEF ExchangeTypeOK, DeviceSends, hostVars

-----------------------------------------------------------------------------
(* The steps of an exchange in lockstep.                                   *)

InLockstep == ExchangeTypeOK /\ Lockstep /\ Orderly

(* Nothing breaks the order when the first packet or answer is taken.      *)
LEMMA OrderAfterTaking ==
  ASSUME ExchangeTypeOK, Members, InOrder, UNCHANGED packet,
         \/ toHost # <<>> /\ toHost' = Tail(toHost) /\ toDevice' = toDevice
         \/ toDevice # <<>> /\ toDevice' = Tail(toDevice) /\ toHost' = toHost
  PROVE  Members' /\ InOrder'
<1>1. CASE toHost # <<>> /\ toHost' = Tail(toHost) /\ toDevice' = toDevice
  <2>1. /\ \A j \in Answered' : toHost'[j] = toHost[j + 1] /\ j + 1 \in Answered /\ j + 1 # 1
        /\ Sent' = Sent
    BY <1>1, TailOf DEF ExchangeTypeOK, Answered, Sent
  <2>2. \A j, k \in Answered' : j < k => j + 1 < k + 1 /\ ~TwoAnswers(j + 1, k + 1)
    BY <2>1 DEF Answered, TwoAnswers
  <2>3. Members'
    BY <1>1, <2>1 DEF Members, Expected
  <2> QED
    BY <1>1, <2>1, <2>2, <2>3 DEF InOrder
<1>2. CASE toDevice # <<>> /\ toDevice' = Tail(toDevice) /\ toHost' = toHost
  <2>1. /\ \A j \in Sent' : toDevice'[j] = toDevice[j + 1] /\ j + 1 \in Sent
        /\ Answered' = Answered
    BY <1>2, TailOf DEF ExchangeTypeOK, Sent, Answered
  <2>2. \A j, k \in Sent' : j < k => j + 1 < k + 1
    BY DEF Sent
  <2>3. \A j, k : TwoAnswers(j, k)' <=> TwoAnswers(j, k)
    BY <1>2 DEF TwoAnswers
  <2>4. Members'
    BY <1>2, <2>1 DEF Members, Expected
  <2> QED
    BY <1>2, <2>1, <2>2, <2>3, <2>4 DEF InOrder
<1> QED
  BY <1>1, <1>2

(* What a reception takes.                                                 *)
LEMMA Taken ==
  ASSUME ExchangeTypeOK, NEW kinds, Receive(kinds)
  PROVE  /\ 1 \in Answered /\ toHost[1] \in DevicePackets /\ toHost[1].kind \in kinds
         /\ toHost # <<>> /\ toHost' = Tail(toHost)
         /\ toHost' \in Seq(DevicePackets) /\ Len(toHost') = Len(toHost) - 1
         /\ \A j \in Answered' : toHost'[j] = toHost[j + 1] /\ j + 1 \in Answered
         /\ answer' = IF toHost[1].kind = "damaged" THEN answer ELSE toHost[1]
         /\ UNCHANGED <<lost, damaged, late, packet, flags, gone>>
<1>1. toHost \in Seq(DevicePackets) /\ toHost # <<>> /\ toHost' = Tail(toHost)
  BY DEF ExchangeTypeOK, Receive
<1>2. /\ Tail(toHost) \in Seq(DevicePackets) /\ Len(Tail(toHost)) = Len(toHost) - 1
      /\ Len(toHost) \in Nat \ {0} /\ Head(toHost) = toHost[1] /\ toHost[1] \in DevicePackets
      /\ \A j \in 1 .. Len(Tail(toHost)) : Tail(toHost)[j] = toHost[j + 1] /\ j + 1 \in 1 .. Len(toHost)
  BY <1>1, TailOf
<1> QED
  BY <1>1, <1>2 DEF Receive, Answered

(* Nothing follows the answer that ends an exchange, but for the second    *)
(* answer of the system information; nothing follows a request to send the *)
(* packet again.                                                           *)
LEMMA LastTaken ==
  ASSUME InLockstep, NEW kinds, Receive(kinds), phase \in {"answer", "check"},
         phase = "check" => toHost[1].kind = "resend",
         packet.kind # "info" \/ toHost[1].kind = "resend"
  PROVE  toDevice = <<>> /\ toHost' = <<>>
<1>1. /\ 1 \in Answered /\ toHost[1] \in DevicePackets
      /\ toHost' \in Seq(DevicePackets) /\ Len(toHost') = Len(toHost) - 1
  BY Taken DEF InLockstep
<1>2. toHost \in Seq(DevicePackets) /\ toDevice \in Seq(HostPackets) /\ Lockstep
  BY DEF InLockstep, ExchangeTypeOK
<1>3. CASE late = 0
  <2>1. toDevice = <<>> /\ Len(toHost) \in 1 .. 2
    BY <1>1, <1>2, <1>3 DEF Lockstep, Alone, Answered
  <2>2. Len(toHost) = 2 => toHost[1].to.kind = "info" /\ toHost[1].kind # "resend"
    BY <1>2, <1>3 DEF Lockstep, Alone
  <2>3. Len(toHost) = 2 => packet.kind = "info"
    BY <1>1, <1>2, <2>2 DEF Lockstep, Members, Expected, Same
  <2>4. Len(toHost) = 1
    BY <2>1, <2>2, <2>3
  <2> QED
    BY <1>1, <2>1, <2>4
<1>4. CASE late # 0
  <2>1. Proper(toHost[1])
    BY <1>1, <1>2, <1>4 DEF InLockstep, Orderly, Lockstep, Genuine
  <2>2. toHost[1].to.kind = "check" \/ (phase = "answer" /\ packet.kind # "info")
    BY <2>1 DEF Proper
  <2>3. ASSUME NEW j \in Answered, j > 1 PROVE FALSE
    <3>1. Before(toHost[1].to, toHost[j].to) \/ TwoAnswers(1, j)
      BY <1>1, <1>2, <2>3 DEF Lockstep, InOrder
    <3> QED
      BY <1>1, <1>2, <2>2, <3>1 DEF Lockstep, Members, Expected, Same, NoCheck, Before, TwoAnswers
  <2>4. ASSUME NEW j \in Sent PROVE FALSE
    BY <1>1, <1>2, <2>2, <2>4 DEF Lockstep, InOrder, NoCheck, Before
  <2>5. Len(toHost) = 1 /\ Len(toDevice) = 0
    BY <1>1, <1>2, <2>3, <2>4 DEF Answered, Sent
  <2> QED
    BY <1>1, <1>2, <2>5
<1> QED
  BY <1>3, <1>4

(* The packet goes out, on a wire that holds nothing else.                 *)
LEMMA PacketIsAlone ==
  ASSUME ExchangeTypeOK, toDevice = <<>>, NEW p \in HostPackets, p.intact, p.kind # "check",
         toDevice' = Append(toDevice, p), toHost' = <<>>, packet' = p, phase' = "answer"
  PROVE  Lockstep'
<1>1. toDevice' = <<p>> /\ Len(toDevice') = 1 /\ Sent' = {1} /\ toDevice'[1] = p /\ Answered' = {}
  BY DEF Sent, Answered
<1>2. Members'
  BY <1>1 DEF Members, Expected, Same
<1>3. InOrder' /\ NoCheck' /\ Alone' /\ Genuine'
  BY <1>1 DEF InOrder, NoCheck, Alone, Genuine
<1>4. Over' /\ Faults'
  BY <1>1 DEF Over, Faults, Quiet
<1> QED
  BY <1>2, <1>3, <1>4 DEF Lockstep

LEMMA StartLocks ==
  ASSUME ExchangeTypeOK, Quiet, NEW p \in HostPackets, p.intact, p.kind # "check",
         NEW f, "no_receive" \notin f, StartExchange(p, f)
  PROVE  Lockstep'
BY PacketIsAlone DEF StartExchange, Quiet

LEMMA RetryLocks ==
  ASSUME ExchangeTypeOK, Members, toDevice = <<>>, toHost' = <<>>, NEW n, TryAgain(n), UNCHANGED packet
  PROVE  Lockstep'
<1>1. CASE phase' = "answer" /\ toDevice' = Append(toDevice, packet)
  BY <1>1, PacketIsAlone DEF Members, ExchangeTypeOK
<1>2. CASE phase' = "done" /\ outcome' = "CORRUPT" /\ UNCHANGED toDevice
  <2>1. toDevice' = <<>> /\ Sent' = {} /\ Answered' = {}
    BY <1>2 DEF Sent, Answered
  <2> QED
    BY <1>2, <2>1 DEF Lockstep, Members, InOrder, NoCheck, Alone, Genuine, Over, Faults, Quiet
<1> QED
  BY <1>1, <1>2 DEF TryAgain, Finish

(* An exchange that is over: what is left of the wire keeps its order.     *)
LEMMA EndLocks ==
  ASSUME InLockstep, NEW kinds, Receive(kinds), phase \in {"answer", "check", "receive"}, phase' = "done",
         UNCHANGED toDevice,
         outcome' = "OK" => phase # "check" /\ toHost[1].kind # "damaged",
         outcome' = "OK" \/ flags = {} => \/ toDevice = <<>> /\ toHost' = <<>>
                                         \/ packet.kind = "info" \/ ~Usable'
  PROVE  Lockstep'
<1>1. /\ 1 \in Answered /\ toHost[1] \in DevicePackets /\ toHost[1].kind \in kinds
      /\ toHost # <<>> /\ toHost' = Tail(toHost)
      /\ toHost' \in Seq(DevicePackets) /\ Len(toHost') = Len(toHost) - 1
      /\ \A j \in Answered' : toHost'[j] = toHost[j + 1] /\ j + 1 \in Answered
      /\ answer' = IF toHost[1].kind = "damaged" THEN answer ELSE toHost[1]
      /\ UNCHANGED <<lost, damaged, late, packet, flags, gone>>
  BY Taken DEF InLockstep
<1>2. Lockstep /\ toHost \in Seq(DevicePackets) /\ Sent' = Sent
  BY DEF InLockstep, ExchangeTypeOK, Sent
<1>3. Members' /\ InOrder'
  BY <1>1, OrderAfterTaking DEF InLockstep, Lockstep
<1>4. NoCheck' /\ Faults'
  BY DEF NoCheck, Faults
<1>5. Alone'
  <2>1. late = 0 => Len(toHost') <= 1 /\ toDevice = <<>>
    BY <1>1, <1>2 DEF Lockstep, Alone
  <2>2. late = 0 => toDevice' = <<>> /\ Len(toDevice') = 0
    BY <2>1
  <2>3. Len(toHost') \in Nat
    BY <1>1, EmptyOf
  <2>4. late = 0 => Len(toHost') <= 2 /\ Len(toHost') # 2
    BY <2>1, <2>3
  <2> QED
    BY <1>1, <2>1, <2>2, <2>4 DEF Alone
<1>6. Genuine'
  BY <1>1, <1>2 DEF Lockstep, Genuine
<1>7. Over'
  <2>1. outcome' = "OK" => Same(answer'.to, packet')
    <3> SUFFICES ASSUME outcome' = "OK" PROVE Same(answer'.to, packet')
      OBVIOUS
    <3>1. answer' = toHost[1] /\ phase # "check"
      BY <1>1
    <3>2. phase \in {"answer", "receive"} => toHost[1].to.kind # "check"
      BY <1>1, <1>2 DEF Lockstep, NoCheck
    <3> QED
      BY <1>1, <1>2, <3>1, <3>2 DEF Lockstep, Members, Expected
  <2>2. packet.kind # "info" /\ Usable' /\ (outcome' = "OK" \/ flags' = {}) => Quiet'
    BY <1>1 DEF Quiet
  <2> QED
    BY <1>1, <2>1, <2>2 DEF Over
<1> QED
  BY <1>3, <1>4, <1>5, <1>6, <1>7 DEF Lockstep

LEMMA ReceiveDamagedLocks ==
  ASSUME InLockstep, ReceiveDamaged
  PROVE  Lockstep'
<1>1. /\ phase \in {"answer", "check", "receive"} /\ Receive({"damaged"})
      /\ phase' = "done" /\ outcome' \in DamageErrors
      /\ UNCHANGED <<toDevice, irrecoverable>>
  BY DEF ReceiveDamaged, Finish
<1>2. /\ 1 \in Answered /\ toHost[1] \in DevicePackets /\ toHost[1].kind = "damaged"
      /\ toHost' \in Seq(DevicePackets) /\ Len(toHost') = Len(toHost) - 1
  BY <1>1, Taken DEF InLockstep
<1>3. damaged # 0
  BY <1>2 DEF InLockstep, Lockstep, Genuine, Proper
<1>4. late = 0
  BY <1>3 DEF InLockstep, Orderly
<1>5. (toDevice = <<>> /\ toHost' = <<>>) \/ packet.kind = "info"
  <2>1. toDevice = <<>> /\ Len(toHost) \in 1 .. 2 /\ (Len(toHost) = 2 => toHost[1].to.kind = "info")
    BY <1>2, <1>4 DEF InLockstep, ExchangeTypeOK, Lockstep, Alone, Answered
  <2>2. toHost[1].to.kind = "info" => packet.kind = "info"
    BY <1>2 DEF InLockstep, Lockstep, Members, Expected, Same
  <2> QED
    BY <1>2, <2>1, <2>2
<1>6. outcome' # "OK"
  BY <1>1 DEF DamageErrors
<1> QED
  BY <1>1, <1>5, <1>6, EndLocks

LEMMA ReceiveAnswerLocks ==
  ASSUME InLockstep, ReceiveAnswer, phase = "receive" => packet.kind = "info"
  PROVE  Lockstep'
<1>1. /\ phase \in {"answer", "receive"} /\ Receive(AnswerKinds \ {"damaged", "resend"})
      /\ phase' = "done" /\ outcome' = "OK"
      /\ UNCHANGED toDevice
  BY DEF ReceiveAnswer, Finish
<1>2. toHost[1].kind # "damaged"
  BY <1>1, Taken DEF InLockstep
<1>3. packet.kind # "info" => toDevice = <<>> /\ toHost' = <<>>
  BY <1>1, LastTaken
<1> QED
  BY <1>1, <1>2, <1>3, EndLocks

LEMMA ReceiveResendLocks ==
  ASSUME InLockstep, ReceiveResend, phase = "receive" => packet.kind = "info"
  PROVE  Lockstep'
<1>1. Receive({"resend"})
  BY DEF ReceiveResend
<1>2. toHost[1].kind = "resend" /\ UNCHANGED packet
  BY <1>1, Taken DEF InLockstep
<1>3. CASE phase = "answer" /\ TryAgain(attempts)
  <2>1. toDevice = <<>> /\ toHost' = <<>>
    BY <1>1, <1>2, <1>3, LastTaken
  <2> QED
    BY <1>2, <1>3, <2>1, RetryLocks DEF InLockstep, Lockstep
<1>4. CASE phase = "receive" /\ Finish("OK") /\ UNCHANGED <<toDevice, attempts>>
  BY <1>1, <1>2, <1>4, EndLocks DEF Finish
<1> QED
  BY <1>3, <1>4 DEF ReceiveResend

LEMMA ReceiveCheckAnswerLocks ==
  ASSUME InLockstep, ReceiveCheckAnswer
  PROVE  Lockstep'
<1>1. CASE Receive({"resend"}) /\ TryAgain(InitialAttempts(flags))
  <2>1. toHost[1].kind = "resend" /\ UNCHANGED packet
    BY <1>1, Taken DEF InLockstep
  <2>2. toDevice = <<>> /\ toHost' = <<>>
    BY <1>1, <2>1, LastTaken DEF ReceiveCheckAnswer
  <2> QED
    BY <1>1, <2>1, <2>2, RetryLocks DEF InLockstep, Lockstep
<1>2. CASE /\ Receive(AnswerKinds \ {"damaged", "resend"})
           /\ irrecoverable' = TRUE
           /\ Finish("TIMEOUT_START") /\ UNCHANGED <<toDevice, attempts>>
  BY <1>2, EndLocks DEF ReceiveCheckAnswer, Finish, Usable
<1> QED
  BY <1>1, <1>2 DEF ReceiveCheckAnswer

(* The timeouts.                                                           *)
LEMMA GivingUpLocks ==
  ASSUME InLockstep, phase' = "done", outcome' # "OK",
         UNCHANGED <<toDevice, toHost, lost, damaged, packet, flags>>,
         late' = late \/ late' # 0,
         flags = {} => Quiet \/ packet.kind = "info" \/ ~Usable'
  PROVE  Lockstep'
<1>1. Members' /\ InOrder'
  BY DEF InLockstep, Lockstep, Members, Expected, InOrder, TwoAnswers, Sent, Answered
<1>2. NoCheck' /\ Faults' /\ Alone'
  BY DEF NoCheck, Faults, InLockstep, Lockstep, Alone, Sent, Answered
<1>3. Genuine' /\ Over'
  BY DEF InLockstep, Lockstep, Genuine, Over, Sent, Answered, Quiet
<1> QED
  BY <1>1, <1>2, <1>3 DEF Lockstep

(* The timeout of an answer sends the check, after the packet if that is   *)
(* still on its way.                                                       *)
LEMMA CheckingLocks ==
  ASSUME InLockstep, phase = "answer", toHost = <<>>, phase' = "check",
         toDevice' = Append(toDevice, timeout_check_packet),
         UNCHANGED <<toHost, lost, damaged, packet>>,
         \/ toDevice = <<>> /\ late' = late
         \/ late' # 0
  PROVE  Lockstep'
<1> DEFINE c == timeout_check_packet
<1>1. c \in HostPackets /\ c.intact /\ c.kind = "check"
  BY PacketsAre
<1> HIDE DEF c
<1>2. /\ Len(toDevice') = Len(toDevice) + 1 /\ Len(toDevice) \in Nat
      /\ \A j \in Sent : toDevice'[j] = toDevice[j]
      /\ toDevice'[Len(toDevice) + 1] = c
  BY <1>1, AppendOf DEF c, InLockstep, ExchangeTypeOK, Sent
<1>3. Answered = {} /\ Answered' = {} /\ Len(toHost') = 0
  BY DEF Answered
<1>4. Sent' = Sent \cup {Len(toDevice) + 1} /\ \A j \in Sent : j < Len(toDevice) + 1
      /\ Len(toDevice) + 1 \notin Sent
  BY <1>2 DEF Sent
<1>5. \A j \in Sent : toDevice[j].kind # "check"
  BY DEF InLockstep, Lockstep, NoCheck
<1>6. Members'
  BY <1>1, <1>2, <1>3, <1>4 DEF InLockstep, Lockstep, Members, Expected
<1>7. InOrder'
  BY <1>1, <1>2, <1>3, <1>4, <1>5 DEF InLockstep, Lockstep, InOrder, Before, Sent
<1>8. late' = 0 => toDevice = <<>> /\ Sent = {} /\ Len(toDevice) = 0 /\ late = 0
  BY DEF Sent, InLockstep, ExchangeTypeOK
<1>9. Alone'
  <2>1. late' = 0 => Len(toDevice') = 1 /\ Sent' = {1}
    BY <1>2, <1>4, <1>8
  <2> QED
    BY <1>1, <1>2, <1>3, <1>4, <1>8, <2>1 DEF Alone
<1>10. NoCheck' /\ Over'
  BY DEF NoCheck, Over
<1>11. Genuine'
  BY <1>1, <1>2, <1>3, <1>4 DEF InLockstep, Lockstep, Genuine
<1>12. Faults'
  <2>1. late' = 0 => lost + damaged >= 1
    BY <1>8 DEF InLockstep, Lockstep, Faults, Quiet
  <2>2. toDevice' # <<>>
    BY <1>2
  <2> QED
    BY <1>3, <2>1, <2>2 DEF Faults, Quiet
<1> QED
  BY <1>6, <1>7, <1>9, <1>10, <1>11, <1>12 DEF Lockstep

LEMMA LatenessIs ==
  ASSUME ExchangeTypeOK, TimeRunsOut
  PROVE  /\ toHost = <<>>
         /\ (toDevice = <<>> /\ late' = late) \/ (late' = late + 1 /\ late' # 0)
BY FaultsAssumption DEF ExchangeTypeOK, TimeRunsOut

LEMMA AnswerTimesOutLocks ==
  ASSUME InLockstep, AnswerTimesOut, phase = "receive" => packet.kind = "info"
  PROVE  Lockstep'
<1>1. /\ toHost = <<>>
      /\ (toDevice = <<>> /\ late' = late) \/ (late' = late + 1 /\ late' # 0)
  BY LatenessIs DEF AnswerTimesOut, InLockstep
<1>2. CASE phase = "receive" \/ "no_timeout" \in flags
  <2>1. /\ phase' = "done" /\ outcome' # "OK"
        /\ UNCHANGED <<toDevice, toHost, lost, damaged, packet, flags>>
    BY <1>2 DEF AnswerTimesOut, Finish
  <2>2. flags = {} => packet.kind = "info"
    BY <1>2
  <2> QED
    BY <1>1, <2>1, <2>2, GivingUpLocks
<1>3. CASE ~(phase = "receive" \/ "no_timeout" \in flags)
  BY <1>1, <1>3, CheckingLocks DEF AnswerTimesOut
<1> QED
  BY <1>2, <1>3

LEMMA CheckTimesOutLocks ==
  ASSUME InLockstep, CheckTimesOut
  PROVE  Lockstep'
<1>1. late' = late \/ late' # 0
  BY LatenessIs DEF CheckTimesOut, InLockstep
<1> QED
  BY <1>1, GivingUpLocks DEF CheckTimesOut, Finish, Usable

LEMMA UnpluggedLocks ==
  ASSUME InLockstep, Unplugged
  PROVE  Lockstep'
BY GivingUpLocks DEF Unplugged, Finish, Usable, wireVars

LEMMA StepLocks ==
  ASSUME InLockstep, ExchangeStep \/ Unplugged, phase = "receive" => packet.kind = "info"
  PROVE  Lockstep'
BY ReceiveDamagedLocks, ReceiveAnswerLocks, ReceiveResendLocks, ReceiveCheckAnswerLocks,
   AnswerTimesOutLocks, CheckTimesOutLocks, UnpluggedLocks DEF ExchangeStep

(* The function takes the outcome into account.                            *)
LEMMA ReturnLocks ==
  ASSUME InLockstep, phase' \in {"idle", "receive"}, phase' = "receive" => phase = "done" /\ NoCheck',
         UNCHANGED <<wireVars, packet>>
  PROVE  Lockstep'
<1>1. Members' /\ InOrder'
  BY DEF InLockstep, Lockstep, Members, Expected, InOrder, TwoAnswers, Sent, Answered, wireVars
<1>2. NoCheck' /\ Faults' /\ Alone'
  BY DEF NoCheck, Faults, InLockstep, Lockstep, Alone, Sent, Answered, wireVars
<1>3. Genuine' /\ Over'
  BY DEF InLockstep, Lockstep, Genuine, Over, Sent, Answered, Quiet, wireVars
<1> QED
  BY <1>1, <1>2, <1>3 DEF Lockstep

(* The device answers the first packet.                                    *)
LEMMA SendingLocks ==
  ASSUME InLockstep, toDevice # <<>>, NEW a \in DevicePackets, a.to = Head(toDevice), DeviceSends(a),
         damaged = 0 => Proper(a), phase = "check" => a.kind = "resend" \/ a.to.kind # "check"
  PROVE  Lockstep'
<1>1. /\ toDevice' = Tail(toDevice) /\ toHost' = Append(toHost, a)
      /\ UNCHANGED <<lost, damaged, late, phase, packet, flags, outcome, answer, irrecoverable, gone>>
  BY DEF DeviceSends, hostVars
<1>2. toDevice \in Seq(HostPackets) /\ toHost \in Seq(DevicePackets) /\ Lockstep
  BY DEF InLockstep, ExchangeTypeOK
<1>3. /\ toDevice' \in Seq(HostPackets) /\ Len(toDevice') = Len(toDevice) - 1
      /\ Head(toDevice) = toDevice[1] /\ 1 \in Sent
      /\ \A j \in Sent' : toDevice'[j] = toDevice[j + 1] /\ j + 1 \in Sent /\ 1 < j + 1
  BY <1>1, <1>2, TailOf DEF Sent
<1>4. /\ toHost' \in Seq(DevicePackets) /\ Len(toHost') = Len(toHost) + 1 /\ Len(toHost) \in Nat
      /\ \A j \in Answered : toHost'[j] = toHost[j]
      /\ toHost'[Len(toHost) + 1] = a
  BY <1>1, <1>2, AppendOf DEF Answered
<1>5. /\ Answered' = Answered \cup {Len(toHost) + 1} /\ Len(toHost) + 1 \notin Answered
      /\ \A j \in Answered : j < Len(toHost) + 1
  BY <1>4 DEF Answered
<1>6. Members'
  <2>1. \A p : Expected(p)' <=> Expected(p)
    BY <1>1 DEF Expected, Same
  <2>2. \A j \in Sent' : Expected(toDevice'[j])
    BY <1>2, <1>3 DEF Lockstep, Members
  <2>3. Expected(a.to)
    BY <1>2, <1>3 DEF Lockstep, Members
  <2>4. \A j \in Answered' : Expected(toHost'[j].to)
    BY <1>2, <1>4, <1>5, <2>3 DEF Lockstep, Members
  <2> QED
    BY <1>1, <1>2, <2>1, <2>2, <2>4 DEF Lockstep, Members
<1>7. \A j \in Answered : Before(toHost[j].to, a.to)
  BY <1>2, <1>3 DEF Lockstep, InOrder
<1>8. InOrder'
  <2>1. \A j, k \in Sent' : j < k => Before(toDevice'[j], toDevice'[k])
    <3>1. \A j, k \in Sent' : j < k => j + 1 < k + 1
      BY DEF Sent
    <3> QED
      BY <1>2, <1>3, <3>1 DEF Lockstep, InOrder
  <2>2. \A j, k \in Answered' : j < k => Before(toHost'[j].to, toHost'[k].to) \/ TwoAnswers(j, k)'
    <3> SUFFICES ASSUME NEW j \in Answered', NEW k \in Answered', j < k
                 PROVE  Before(toHost'[j].to, toHost'[k].to) \/ TwoAnswers(j, k)'
      OBVIOUS
    <3>1. j \in Answered
      BY <1>4, <1>5 DEF Answered
    <3>2. CASE k \in Answered
      BY <1>2, <1>4, <3>1, <3>2 DEF Lockstep, InOrder, TwoAnswers
    <3>3. CASE k = Len(toHost) + 1
      BY <1>4, <1>7, <3>1, <3>3
    <3> QED
      BY <1>5, <3>2, <3>3
  <2>3. \A j \in Answered', k \in Sent' : Before(toHost'[j].to, toDevice'[k])
    <3>1. \A k \in Sent' : Before(a.to, toDevice'[k])
      BY <1>2, <1>3 DEF Lockstep, InOrder
    <3>2. \A j \in Answered, k \in Sent' : Before(toHost'[j].to, toDevice'[k])
      BY <1>2, <1>3, <1>4 DEF Lockstep, InOrder
    <3> QED
      BY <1>4, <1>5, <3>1, <3>2
  <2> QED
    BY <2>1, <2>2, <2>3 DEF InOrder
<1>9. NoCheck'
  BY <1>1, <1>2, <1>3, <1>4, <1>5 DEF Lockstep, NoCheck
<1>10. late = 0 => toHost = <<>> /\ Len(toHost) = 0 /\ Len(toDevice) = 1 /\ Answered = {} /\ Sent' = {}
  <2>1. Len(toDevice) \in Nat \ {0}
    BY <1>2, TailOf
  <2> QED
    BY <1>2, <1>3, <2>1 DEF Lockstep, Alone, Answered, Sent
<1>11. Alone'
  <2> SUFFICES ASSUME late' = 0 PROVE Alone'
    BY DEF Alone
  <2>1. late = 0 /\ Len(toHost') = 1 /\ Len(toDevice') = 0 /\ toDevice' = <<>> /\ Answered' = {1} /\ toHost'[1] = a
    BY <1>1, <1>3, <1>4, <1>5, <1>10, EmptyOf
  <2>2. phase = "check" => a.to.kind = "check"
    BY <1>2, <1>3, <2>1 DEF Lockstep, Alone
  <2>3. Sent' = {} /\ phase' = phase
    BY <1>1, <1>10, <2>1
  <2> QED
    BY ONLY <2>1, <2>2, <2>3 DEF Alone
<1>12. Genuine'
  BY <1>1, <1>2, <1>3, <1>4, <1>5 DEF Lockstep, Genuine
<1>13. Over'
  BY <1>1, <1>2 DEF Lockstep, Over, Quiet, Usable
<1>14. Faults'
  <2> SUFFICES ASSUME late' = 0 PROVE Faults'
    BY DEF Faults
  <2>1. toHost' # <<>> /\ Answered' = {1} /\ toHost'[1] = a /\ late = 0
    BY <1>1, <1>4, <1>5, <1>10
  <2>2. phase = "check" => a.to.kind = "check"
    BY <1>2, <1>3, <2>1 DEF Lockstep, Alone
  <2> QED
    BY <1>1, <1>2, <2>1, <2>2 DEF Lockstep, Faults, Quiet
<1> QED
  BY <1>6, <1>8, <1>9, <1>11, <1>12, <1>13, <1>14 DEF Lockstep

(* The wire loses the first packet, or damages it.                         *)
LEMMA LossLocks ==
  ASSUME InLockstep, LosePacket
  PROVE  Lockstep'
<1>1. /\ lost' = lost + 1 /\ lost \in Nat /\ damaged \in Nat
      /\ UNCHANGED <<damaged, late, phase, packet, flags, outcome, answer, irrecoverable, gone>>
  BY FaultsAssumption DEF LosePacket, hostVars, InLockstep, ExchangeTypeOK
<1>2. toDevice \in Seq(HostPackets) /\ toHost \in Seq(DevicePackets) /\ Lockstep
  BY DEF InLockstep, ExchangeTypeOK
<1>3. \/ toHost # <<>> /\ toHost' = Tail(toHost) /\ toDevice' = toDevice
      \/ toDevice # <<>> /\ toDevice' = Tail(toDevice) /\ toHost' = toHost
  BY DEF LosePacket
<1>4. Members' /\ InOrder'
  BY <1>1, <1>3, OrderAfterTaking DEF InLockstep, Lockstep
<1>a. (toDevice = <<>> => toDevice' = <<>>) /\ (toHost = <<>> => toHost' = <<>>)
  BY <1>3
<1>5. /\ \A j \in Sent' : \E k \in Sent : toDevice'[j] = toDevice[k]
      /\ \A j \in Answered' : \E k \in Answered : toHost'[j] = toHost[k]
      /\ Len(toDevice') <= Len(toDevice) /\ Len(toHost') <= Len(toHost)
      /\ toHost' = toHost \/ Len(toHost') = Len(toHost) - 1
      /\ Len(toDevice) \in Nat /\ Len(toHost) \in Nat /\ Len(toDevice') \in Nat /\ Len(toHost') \in Nat
  <2>1. CASE toHost # <<>> /\ toHost' = Tail(toHost) /\ toDevice' = toDevice
    <3>1. /\ Len(toHost') = Len(toHost) - 1 /\ Len(toHost) \in Nat \ {0}
          /\ \A j \in Answered' : toHost'[j] = toHost[j + 1] /\ j + 1 \in Answered
      BY <1>2, <2>1, TailOf DEF Answered
    <3>2. Len(toDevice) \in Nat /\ Sent' = Sent
      BY <1>2, <2>1 DEF Sent
    <3>3. \A j \in Answered' : \E k \in Answered : toHost'[j] = toHost[k]
      BY <3>1
    <3>4. \A j \in Sent' : \E k \in Sent : toDevice'[j] = toDevice[k]
      BY <2>1, <3>2
    <3>5. Len(toHost') \in Nat /\ Len(toHost') <= Len(toHost)
      BY <3>1
    <3> QED
      <4>1. Len(toDevice') <= Len(toDevice) /\ Len(toDevice') \in Nat
        BY <2>1, <3>2
      <4>2. toHost' = toHost \/ Len(toHost') = Len(toHost) - 1
        BY <3>1
      <4>3. Len(toHost) \in Nat
        BY <3>1
      <4> QED
        BY ONLY <4>1, <4>2, <4>3, <3>2, <3>3, <3>4, <3>5
  <2>2. CASE toDevice # <<>> /\ toDevice' = Tail(toDevice) /\ toHost' = toHost
    <3>1. /\ Len(toDevice') = Len(toDevice) - 1 /\ Len(toDevice) \in Nat \ {0}
          /\ \A j \in Sent' : toDevice'[j] = toDevice[j + 1] /\ j + 1 \in Sent
      BY <1>2, <2>2, TailOf DEF Sent
    <3>2. Len(toHost) \in Nat /\ Answered' = Answered
      BY <1>2, <2>2 DEF Answered
    <3>3. \A j \in Sent' : \E k \in Sent : toDevice'[j] = toDevice[k]
      BY <3>1
    <3>4. \A j \in Answered' : \E k \in Answered : toHost'[j] = toHost[k]
      BY <2>2, <3>2
    <3>5. Len(toDevice') \in Nat /\ Len(toDevice') <= Len(toDevice)
      BY <3>1
    <3> QED
      <4>1. Len(toHost') <= Len(toHost) /\ Len(toHost') \in Nat
        BY <2>2, <3>2
      <4>2. toHost' = toHost \/ Len(toHost') = Len(toHost) - 1
        BY <2>2
      <4>3. Len(toDevice) \in Nat
        BY <3>1
      <4> QED
        BY ONLY <4>1, <4>2, <4>3, <3>2, <3>3, <3>4, <3>5
  <2> QED
    BY <1>3, <2>1, <2>2
<1>6. NoCheck' /\ Genuine'
  BY <1>1, <1>2, <1>a, <1>5 DEF Lockstep, NoCheck, Genuine
<1>7. Alone'
  <2> SUFFICES ASSUME late' = 0 PROVE Alone'
    BY DEF Alone
  <2>1. late = 0
    BY <1>1
  <2>2. Len(toHost) <= 2 /\ Len(toDevice) <= 1 /\ (toDevice = <<>> \/ toHost = <<>>)
    BY <1>2, <2>1 DEF Lockstep, Alone
  <2>3. Len(toHost') <= 2 /\ Len(toDevice') <= 1 /\ (toDevice' = <<>> \/ toHost' = <<>>)
    BY <1>a, <1>5, <2>2
  <2>4. Len(toHost') = 2 => toHost' = toHost
    BY <1>a, <1>5, <2>2
  <2> QED
    BY <1>1, <1>2, <1>a, <1>5, <2>1, <2>3, <2>4 DEF Lockstep, Alone
<1>8. Over'
  BY <1>1, <1>2, <1>a, <1>5 DEF Lockstep, Over, Quiet, Usable
<1>9. Faults'
  <2>1. lost' + damaged' >= 1
    BY <1>1
  <2>2. lost + damaged >= 1 => lost' + damaged' >= 2
    BY <1>1
  <2>3. lost + damaged >= 2 => lost' + damaged' >= 2
    BY <1>1
  <2> QED
    BY <1>1, <1>2, <1>a, <1>5, <2>1, <2>2, <2>3 DEF Lockstep, Faults, Quiet
<1> QED
  BY <1>4, <1>6, <1>7, <1>8, <1>9 DEF Lockstep

LEMMA DamageLocks ==
  ASSUME InLockstep, DamagePacket
  PROVE  Lockstep'
<1>1. /\ Len(toDevice') = Len(toDevice) /\ Len(toHost') = Len(toHost)
      /\ \A k \in Sent : Same(toDevice'[k], toDevice[k])
      /\ \A k \in Answered : /\ toHost'[k].to = toHost[k].to
                             /\ toHost'[k].kind \in {toHost[k].kind, "damaged", "other"}
      /\ damaged' = damaged + 1 /\ damaged \in Nat
      /\ UNCHANGED <<lost, late, phase, packet, flags, outcome, answer, irrecoverable, gone>>
      /\ ~Quiet
  BY DamageIs DEF InLockstep, hostVars
<1>2. Sent' = Sent /\ Answered' = Answered
  BY <1>1 DEF Sent, Answered
<1>3. Lockstep /\ lost \in Nat
  BY FaultsAssumption DEF InLockstep, ExchangeTypeOK
<1>4. /\ toDevice' = <<>> <=> toDevice = <<>>
      /\ toHost' = <<>> <=> toHost = <<>>
  <2>1. toDevice \in Seq(HostPackets) /\ toHost \in Seq(DevicePackets)
        /\ toDevice' \in Seq(HostPackets) /\ toHost' \in Seq(DevicePackets)
    BY DamageIs DEF InLockstep, ExchangeTypeOK
  <2> QED
    BY <1>1, <2>1, EmptyOf
<1>5. Members'
  BY <1>1, <1>2, <1>3 DEF Lockstep, Members, Expected, Same
<1>6. InOrder'
  BY <1>1, <1>2, <1>3 DEF Lockstep, InOrder, Before, TwoAnswers, Same
<1>7. NoCheck'
  BY <1>1, <1>2, <1>3 DEF Lockstep, NoCheck, Same
<1>8. Alone'
  <2> SUFFICES ASSUME late' = 0 PROVE Alone'
    BY DEF Alone
  <2>1. Len(toHost) = 2 => 1 \in Answered
    BY DEF Answered
  <2> QED
    BY <1>1, <1>2, <1>3, <1>4, <2>1 DEF Lockstep, Alone, Same
<1>9. Genuine' /\ Over'
  BY <1>1, <1>2, <1>3, <1>4 DEF Lockstep, Genuine, Over, Quiet, Usable, Same
<1>10. Faults'
  <2>1. lost' + damaged' >= 1
    BY <1>1, <1>3
  <2>2. lost + damaged >= 1 => lost' + damaged' >= 2
    BY <1>1, <1>3
  <2> QED
    BY <1>1, <1>2, <1>3, <1>4, <2>1, <2>2 DEF Lockstep, Faults, Quiet
<1> QED
  BY <1>5, <1>6, <1>7, <1>8, <1>9, <1>10 DEF Lockstep

LEMMA WireLocks == ASSUME InLockstep, Wire PROVE Lockstep'
BY LossLocks, DamageLocks DEF Wire

(* It takes two faults, or a late answer, to lose the link.                *)
LEMMA TwoFaultsBreak ==
  ASSUME InLockstep, ExchangeStep, late' = 0, irrecoverable' # irrecoverable
  PROVE  lost + damaged >= 2 /\ lost' = lost /\ damaged' = damaged
<1>1. CASE ReceiveCheckAnswer
  <2>1. /\ Receive(AnswerKinds \ {"damaged", "resend"}) /\ phase = "check"
    BY <1>1 DEF ReceiveCheckAnswer
  <2>2. 1 \in Answered /\ toHost[1].kind # "resend" /\ UNCHANGED <<late, lost, damaged>>
    BY <2>1, Taken DEF InLockstep
  <2> QED
    BY <2>1, <2>2 DEF InLockstep, Lockstep, Faults
<1>2. CASE CheckTimesOut
  <2>1. toHost = <<>> /\ toDevice = <<>> /\ late = 0
    BY <1>2, LatenessIs DEF CheckTimesOut, InLockstep
  <2> QED
    BY <1>2, <2>1 DEF CheckTimesOut, InLockstep, Lockstep, Faults, Quiet
<1>3. CASE ReceiveDamaged \/ ReceiveAnswer \/ ReceiveResend \/ AnswerTimesOut
  BY <1>3 DEF ReceiveDamaged, ReceiveAnswer, ReceiveResend, AnswerTimesOut
<1> QED
  BY <1>1, <1>2, <1>3 DEF ExchangeStep

(* The faults are counted, and what was orderly before a step may only     *)
(* become disorderly.                                                      *)
LEMMA FaultsAreCounted ==
  ASSUME ExchangeTypeOK, Wire \/ ExchangeStep \/ Unplugged
  PROVE  /\ lost <= lost' /\ damaged <= damaged' /\ late <= late'
         /\ lost \in Nat /\ damaged \in Nat /\ late \in Nat
         /\ Orderly' => Orderly
         /\ irrecoverable => irrecoverable'
<1>1. lost \in Nat /\ damaged \in Nat /\ late \in Nat
  BY FaultsAssumption DEF ExchangeTypeOK
<1>2. CASE Wire
  BY <1>1, <1>2 DEF Wire, LosePacket, DamagePacket, hostVars, Orderly, ExchangeTypeOK
<1>3. CASE ReceiveDamaged \/ ReceiveAnswer \/ ReceiveResend \/ ReceiveCheckAnswer
  BY <1>1, <1>3 DEF ReceiveDamaged, ReceiveAnswer, ReceiveResend, ReceiveCheckAnswer, Receive, Orderly, ExchangeTypeOK
<1>4. CASE AnswerTimesOut \/ CheckTimesOut
  BY <1>1, <1>4 DEF AnswerTimesOut, CheckTimesOut, TimeRunsOut, Orderly, ExchangeTypeOK
<1>5. CASE Unplugged
  BY <1>1, <1>5 DEF Unplugged, wireVars, Orderly, ExchangeTypeOK
<1> QED
  BY <1>2, <1>3, <1>4, <1>5 DEF ExchangeStep

-----------------------------------------------------------------------------
(* Data to the device (SevenTransfer).                                     *)

(* Packets are being shifted: one is on its way, or its answer, when the   *)
(* next one is sent.                                                       *)
Shifting ==
  \/ step = "first" /\ phase = "done"
  \/ shifted /\ step \in {"loop", "normalize"}

Window ==
  Orderly /\ Shifting =>
    /\ ~irrecoverable
    /\ phase = "idle" => InFlight <= 1
    /\ phase = "answer" =>
         InFlight <= 2 /\ flags = {"no_checksum", "no_timeout"} /\ attempts = 1
    /\ phase = "receive" => InFlight <= 1
    /\ phase = "done" /\ outcome = "OK" =>
         InFlight <= IF step = "normalize" THEN 0 ELSE 1
    /\ phase # "check"

(* Where the function and the exchange are.                                *)
TransferStages ==
  /\ step \in {"idle", "ended"} => phase = "idle"
  /\ step = "idle" => Quiet /\ packet = NoPacket /\ received = <<>> /\ i = 0 /\ ~shifted /\ should_upload
  /\ result # "none" => step = "ended"
  /\ phase # "done" /\ step # "ended" => Usable
  /\ phase = "done" => outcome # "none" /\ (outcome = "OK" => Usable)
  /\ phase = "receive" => step = "normalize"
  /\ step = "command" => should_upload
  /\ step = "command" /\ phase # "idle" => packet = Packet("command", 0) /\ flags = {}
  /\ step = "confirm" /\ phase # "idle" =>
       packet = Packet(IF should_upload THEN "ack" ELSE "reject", 0) /\ flags = {}
  /\ step = "first" => phase \in {"idle", "done"} /\ count >= 3
  /\ step = "first" /\ phase = "done" /\ outcome # "OK" => gone
  /\ step = "loop" /\ phase # "idle" => packet = Packet("data", i) /\ i < count /\ (shifted \/ flags = {})
  /\ step = "normalize" => shifted /\ phase \in {"receive", "done"}
  /\ step = "last" /\ phase # "idle" => packet = Packet("data", count) /\ flags = {}
  /\ step \in {"first", "loop", "normalize", "last"} => should_upload /\ i > 0
  /\ shifted => step \in {"loop", "normalize", "last", "ended"}

TransferLocks ==
  Orderly /\ ~Shifting =>
    /\ step # "ended" => Lockstep
    /\ Usable /\ phase = "idle" /\ (step # "ended" \/ result = "OK" \/ ~shifted) => Quiet

(* What is sent, and what the device has made of it.                       *)
SendingKinds == {"command", "data", "ack", "reject", "check"}

Sendable(p) == p.kind \in SendingKinds /\ (p.kind = "data" => p.id \in 0 .. count)

Taken_(a) ==
  a.to.kind = "data" /\ a.kind \in {"ack", "ack_term"} => a.to.id <= Len(received)

TransferDevice ==
  /\ \A j \in Sent : Sendable(toDevice[j])
  /\ packet = NoPacket \/ (Sendable(packet) /\ packet.kind # "check" /\ packet.intact)
  /\ received = [k \in 1 .. Len(received) |-> k] /\ Len(received) <= count
  /\ received # <<>> => device = "accepting"
  /\ \A j \in Answered : Taken_(toHost[j])
  /\ Taken_(answer)

(* A file whose overwrite is asked about, or was rejected.                 *)
Asked ==
  Orderly /\ Usable /\ step = "command" =>
    /\ \A j \in Answered : toHost[j].kind = "overwrite" => device = "asking"
    /\ phase = "done" /\ outcome = "OK" /\ answer.kind = "overwrite" => device = "asking"

Rejected ==
  Orderly /\ ~should_upload =>
    /\ step \in {"confirm", "ended"}
    /\ device \in {"asking", "refusing"}
    /\ \A j \in Sent : toDevice[j].kind \in {"reject", "check"}

Transferred == Orderly /\ result = "OK" /\ should_upload => Len(received) = count

TransferTypes ==
  /\ ExchangeTypeOK
  /\ call \in {"none", "send_file", "upload"} /\ step \in Transfer!Steps
  /\ shifting \in BOOLEAN /\ should_upload \in BOOLEAN
  /\ count \in Counts \cup {0} /\ i \in 0 .. count + 1
  /\ shifted \in BOOLEAN /\ result \in Outcomes /\ terminated \in BOOLEAN
  /\ device \in {"passive", "asking", "accepting", "refusing"}
  /\ received \in Seq(1 .. count)

TransferInv ==
  /\ TransferTypes /\ TransferStages /\ Window /\ TransferLocks
  /\ TransferDevice /\ Asked /\ Rejected /\ Transferred
  /\ Transfer!OneFaultIsSurvived

-----------------------------------------------------------------------------
(* The exchange of SevenTransfer is that of the first part.                *)
LEMMA TransferExchanges ==
  /\ Transfer!ExchangeInit <=> ExchangeInit
  /\ \A p, f : Transfer!StartExchange(p, f) <=> StartExchange(p, f)
  /\ Transfer!StartReceive <=> StartReceive
  /\ Transfer!ExchangeReturns <=> ExchangeReturns
  /\ \A k : Transfer!DeviceAnswers(k) <=> DeviceAnswers(k)
  /\ \A k, n : Transfer!Packet(k, n) = Packet(k, n)
<1>1. Transfer!ExchangeInit <=> ExchangeInit
  BY DEF Transfer!ExchangeInit, ExchangeInit, Transfer!NoPacket, NoPacket, Transfer!NoAnswer, NoAnswer,
         Transfer!Answer, Answer, Transfer!Numbered, Numbered, Transfer!Packet, Packet
<1>2. \A p, f : Transfer!StartExchange(p, f) <=> StartExchange(p, f)
  BY DEF Transfer!StartExchange, StartExchange, Transfer!InitialAttempts, InitialAttempts, Transfer!Finish, Finish
<1>3. (Transfer!StartReceive <=> StartReceive) /\ (Transfer!ExchangeReturns <=> ExchangeReturns)
  BY DEF Transfer!StartReceive, StartReceive, Transfer!ExchangeReturns, ExchangeReturns, Transfer!wireVars, wireVars
<1>4. \A k : Transfer!DeviceAnswers(k) <=> DeviceAnswers(k)
  BY DEF Transfer!DeviceAnswers, DeviceAnswers, Transfer!DeviceSends, DeviceSends, Transfer!Answer, Answer,
         Transfer!Numbered, Numbered, Transfer!hostVars, hostVars
<1>5. \A k, n : Transfer!Packet(k, n) = Packet(k, n)
  BY DEF Transfer!Packet, Packet
<1> QED
  BY <1>1, <1>2, <1>3, <1>4, <1>5

LEMMA TransferSteps ==
  /\ Transfer!Wire <=> Wire
  /\ Transfer!ExchangeStep <=> ExchangeStep
  /\ Transfer!Unplugged <=> Unplugged
<1> USE DEF Transfer!Receive, Receive, Transfer!Finish, Finish, Transfer!TryAgain, TryAgain, Transfer!TimeRunsOut,
            TimeRunsOut, Transfer!InitialAttempts, InitialAttempts, Transfer!AnswerKinds, AnswerKinds,
            Transfer!DamageErrors, DamageErrors, Transfer!timeout_check_packet, timeout_check_packet,
            Transfer!Packet, Packet
<1>1. Transfer!ReceiveDamaged <=> ReceiveDamaged
  BY DEF Transfer!ReceiveDamaged, ReceiveDamaged
<1>2. Transfer!ReceiveAnswer <=> ReceiveAnswer
  BY DEF Transfer!ReceiveAnswer, ReceiveAnswer
<1>3. Transfer!ReceiveResend <=> ReceiveResend
  BY DEF Transfer!ReceiveResend, ReceiveResend
<1>4. Transfer!ReceiveCheckAnswer <=> ReceiveCheckAnswer
  BY DEF Transfer!ReceiveCheckAnswer, ReceiveCheckAnswer
<1>5. Transfer!AnswerTimesOut <=> AnswerTimesOut
  BY DEF Transfer!AnswerTimesOut, AnswerTimesOut
<1>6. Transfer!CheckTimesOut <=> CheckTimesOut
  BY DEF Transfer!CheckTimesOut, CheckTimesOut
<1>7. Transfer!Unplugged <=> Unplugged
  BY DEF Transfer!Unplugged, Unplugged, Transfer!wireVars, wireVars
<1>8. Transfer!Wire <=> Wire
  BY DEF Transfer!Wire, Wire, Transfer!LosePacket, LosePacket, Transfer!DamagePacket, DamagePacket,
         Transfer!hostVars, hostVars
<1> HIDE DEF Transfer!Receive, Receive, Transfer!Finish, Finish, Transfer!TryAgain, TryAgain, Transfer!TimeRunsOut,
            TimeRunsOut, Transfer!InitialAttempts, InitialAttempts, Transfer!AnswerKinds, AnswerKinds,
            Transfer!DamageErrors, DamageErrors, Transfer!timeout_check_packet, timeout_check_packet,
            Transfer!Packet, Packet
<1>9. Transfer!ExchangeStep <=> ExchangeStep
  BY <1>1, <1>2, <1>3, <1>4, <1>5, <1>6 DEF Transfer!ExchangeStep, ExchangeStep
<1> QED
  BY <1>7, <1>8, <1>9

LEMMA TransferTyping == Transfer!ExchangeTypeOK <=> ExchangeTypeOK
BY DEF Transfer!ExchangeTypeOK, ExchangeTypeOK, Transfer!HostPackets, HostPackets, Transfer!DevicePackets,
       DevicePackets, Transfer!PacketKinds, PacketKinds, Transfer!AnswerKinds, AnswerKinds, Transfer!Flags,
       Flags, Transfer!Outcomes, Outcomes, Transfer!DamageErrors, DamageErrors

(* A wire that holds nothing is in lockstep, whatever the packet was.      *)
LEMMA QuietLocks ==
  ASSUME Quiet', packet'.intact, packet'.kind # "check", phase' = "idle" PROVE Lockstep'
<1>1. toDevice' = <<>> /\ toHost' = <<>> /\ Sent' = {} /\ Answered' = {}
  BY DEF Quiet, Sent, Answered
<1> QED
  BY <1>1 DEF Lockstep, Members, InOrder, NoCheck, Alone, Genuine, Over, Faults

-----------------------------------------------------------------------------
(* The steps of the function that take the outcome of an exchange.         *)

(* What all of them leave as it is, or do not need.                        *)
TransferReturns ==
  /\ phase \in {"idle", "done"} /\ phase' = "idle" /\ step # "idle" /\ step' \notin {"idle", "command"}
  /\ UNCHANGED <<wireVars, packet, flags, attempts, outcome, answer, gone>>
  /\ UNCHANGED <<call, shifting, count, device, received>>

LEMMA TransferReturnKeeps ==
  ASSUME TransferInv, TransferReturns, irrecoverable' \in BOOLEAN
  PROVE  /\ ExchangeTypeOK' /\ TransferDevice' /\ Asked' /\ (Orderly' <=> Orderly)
         /\ InFlight' = InFlight /\ (Quiet' <=> Quiet)
         /\ call' \in {"none", "send_file", "upload"} /\ shifting' \in BOOLEAN /\ count' \in Counts \cup {0}
         /\ device' \in {"passive", "asking", "accepting", "refusing"} /\ received' \in Seq(1 .. count')
         /\ packet.intact /\ packet.kind # "check"
<1>1. ExchangeTypeOK'
  BY DEF TransferInv, TransferTypes, ExchangeTypeOK, TransferReturns, wireVars
<1>2. TransferDevice'
  BY DEF TransferInv, TransferDevice, TransferReturns, wireVars, Sent, Answered, Sendable, Taken_
<1>3. Asked'
  BY DEF Asked, TransferReturns
<1>4. (Orderly' <=> Orderly) /\ InFlight' = InFlight /\ (Quiet' <=> Quiet)
  BY DEF Orderly, InFlight, Quiet, TransferReturns, wireVars
<1>5. packet.intact /\ packet.kind # "check"
  BY PacketsAre DEF TransferInv, TransferDevice
<1> QED
  BY <1>1, <1>2, <1>3, <1>4, <1>5 DEF TransferInv, TransferTypes, TransferReturns

(* The function fails: only the wire matters afterwards.                   *)
LEMMA TransferFails ==
  ASSUME TransferInv, TransferReturns,
         step' = "ended", result' \in Outcomes \ {"none", "OK"},
         UNCHANGED <<should_upload, i, shifted>>, terminated' \in BOOLEAN,
         irrecoverable' = irrecoverable \/ (irrecoverable' = TRUE /\ shifted),
         ~shifted /\ Orderly /\ Usable => Quiet
  PROVE  TransferInv'
<1>1. irrecoverable' \in BOOLEAN
  BY DEF TransferInv, TransferTypes, ExchangeTypeOK
<1>2. TransferTypes'
  BY <1>1, TransferReturnKeeps DEF TransferInv, TransferTypes, TransferReturns, Transfer!Steps
<1>3. TransferStages'
  BY DEF TransferInv, TransferStages, TransferReturns
<1>4. Window' /\ ~Shifting'
  BY DEF Window, Shifting
<1>5. TransferLocks'
  BY <1>1, TransferReturnKeeps DEF TransferLocks, Usable, TransferReturns
<1>6. TransferDevice' /\ Asked'
  BY <1>1, TransferReturnKeeps
<1>7. Rejected'
  BY <1>1, TransferReturnKeeps DEF TransferInv, Rejected, TransferReturns, Sent, wireVars
<1>8. Transferred'
  BY DEF Transferred
<1>9. Transfer!OneFaultIsSurvived'
  BY DEF TransferInv, Transfer!OneFaultIsSurvived, TransferReturns, wireVars
<1> QED
  BY <1>2, <1>3, <1>4, <1>5, <1>6, <1>7, <1>8, <1>9 DEF TransferInv

LEMMA TransferDone ==
  ASSUME TransferInv, phase = "done", ~Shifting, outcome = "OK" \/ flags = {}, Orderly, step # "ended"
  PROVE  /\ Usable => Quiet
         /\ outcome = "OK" => Same(answer.to, packet)
<1>1. packet.kind # "info"
  BY PacketsAre DEF TransferInv, TransferDevice, Sendable, SendingKinds
<1>2. Lockstep
  BY DEF TransferInv, TransferLocks
<1> QED
  BY <1>1, <1>2 DEF Lockstep, Over

LEMMA NothingInFlight ==
  ASSUME ExchangeTypeOK, InFlight <= 0 PROVE Quiet
BY EmptyOf DEF ExchangeTypeOK, InFlight, Quiet

(* The errors.                                                             *)
LEMMA UnknownIs == "UNKNOWN" \in Outcomes \ {"none", "OK"}
BY DEF Outcomes, DamageErrors

(* The function fails once an exchange has returned.                       *)
LEMMA TransferExchangeFails ==
  ASSUME TransferInv, ExchangeReturns, step \notin {"idle", "ended"},
         NEW e, e \in {outcome, "UNKNOWN"}, e = outcome => outcome # "OK", step = "first" => e = outcome,
         Transfer!GiveUp(e)
  PROVE  TransferInv'
<1>1. TransferReturns /\ irrecoverable' = irrecoverable /\ phase = "done"
  BY DEF TransferReturns, ExchangeReturns, Transfer!GiveUp, Transfer!callVars
<1>2. /\ step' = "ended" /\ result' = e
      /\ UNCHANGED <<should_upload, i, shifted, terminated>>
  BY DEF Transfer!GiveUp, Transfer!callVars
<1>3. e \in Outcomes \ {"none", "OK"}
  BY <1>1, UnknownIs DEF TransferInv, TransferTypes, ExchangeTypeOK, TransferStages
<1>4. ~shifted /\ Orderly /\ Usable => Quiet
  <2> SUFFICES ASSUME ~shifted, Orderly, Usable PROVE Quiet
    OBVIOUS
  <2>1. step # "first"
    BY <1>1 DEF TransferInv, TransferStages, Usable
  <2>2. ~Shifting /\ flags = {}
    BY <1>1, <2>1 DEF TransferInv, TransferTypes, TransferStages, Shifting, Transfer!Steps
  <2> QED
    BY <1>1, <2>2, TransferDone
<1> QED
  BY <1>1, <1>2, <1>3, <1>4, TransferFails DEF TransferInv, TransferTypes

(* The command, or the confirmation, is acknowledged.                      *)
LEMMA UploadBegins ==
  ASSUME TransferInv, ExchangeReturns, step \in {"command", "confirm"}, outcome = "OK", Transfer!BeginUpload
  PROVE  TransferInv'
<1>1. TransferReturns /\ irrecoverable' = irrecoverable /\ phase = "done" /\ irrecoverable' \in BOOLEAN
  BY DEF TransferReturns, ExchangeReturns, Transfer!BeginUpload, Transfer!AfterCommand, Transfer!callVars,
         TransferInv, TransferTypes, ExchangeTypeOK
<1>2. /\ step' \in {"ended", "first", "loop"} /\ i' = 1
      /\ step' = "ended" => (~should_upload \/ count = 0) /\ result' = "OK"
      /\ step' # "ended" => should_upload /\ result' = result
      /\ step' = "first" => count >= 3
      /\ UNCHANGED <<should_upload, shifted, terminated>>
  BY CountsAssumption
     DEF Transfer!BeginUpload, Transfer!AfterCommand, Transfer!callVars, TransferInv, TransferTypes
<1>3. ~shifted /\ ~Shifting /\ ~Shifting' /\ flags = {} /\ Usable /\ Usable' /\ result = "none"
  BY <1>1, <1>2 DEF Shifting, Usable, TransferReturns, TransferInv, TransferStages
<1>4. TransferTypes'
  <2>1. i' \in 0 .. count' + 1
    BY <1>1, <1>2, CountsAssumption DEF TransferInv, TransferTypes, TransferReturns
  <2>2. result' \in Outcomes
    BY <1>2, <1>3 DEF Outcomes
  <2> QED
    BY <1>1, <1>2, <2>1, <2>2, TransferReturnKeeps
       DEF TransferInv, TransferTypes, Transfer!Steps
<1>5. TransferStages'
  BY <1>1, <1>2, <1>3 DEF TransferStages, TransferReturns
<1>6. Window'
  BY <1>3 DEF Window
<1>7. TransferLocks'
  <2>1. Orderly' => Quiet'
    BY <1>1, <1>3, TransferDone, TransferReturnKeeps
  <2>2. packet'.intact /\ packet'.kind # "check" /\ phase' = "idle"
    BY <1>1, TransferReturnKeeps DEF TransferReturns
  <2> QED
    BY <2>1, <2>2, QuietLocks DEF TransferLocks
<1>8. TransferDevice' /\ Asked' /\ (Orderly' <=> Orderly)
  BY <1>1, TransferReturnKeeps
<1>9. Rejected'
  BY <1>1, <1>2, <1>8 DEF TransferInv, Rejected, TransferReturns, Sent, wireVars
<1>10. Transferred'
  <2>1. count = 0 => Len(received) = count
    BY EmptyOf DEF TransferInv, TransferDevice, TransferTypes
  <2> QED
    BY <1>1, <1>2, <1>3, <2>1 DEF Transferred, TransferReturns
<1>11. Transfer!OneFaultIsSurvived'
  BY <1>1, <1>2 DEF TransferInv, Transfer!OneFaultIsSurvived, TransferReturns, wireVars
<1> QED
  BY <1>4, <1>5, <1>6, <1>7, <1>8, <1>9, <1>10, <1>11 DEF TransferInv

LEMMA CommandReturnsPreserves ==
  ASSUME TransferInv, Transfer!CommandReturns \/ Transfer!ConfirmationReturns
  PROVE  TransferInv'
<1>1. ExchangeReturns /\ step \in {"command", "confirm"}
  BY TransferExchanges DEF Transfer!CommandReturns, Transfer!ConfirmationReturns
<1>2. CASE Transfer!Expect("ack")
  BY <1>1, <1>2, UploadBegins DEF Transfer!CommandReturns, Transfer!ConfirmationReturns, Transfer!Expect
<1>3. CASE ~Transfer!Expect("ack")
  <2>1. Transfer!GiveUp(IF outcome = "OK" THEN "UNKNOWN" ELSE outcome)
    BY <1>3 DEF Transfer!CommandReturns, Transfer!ConfirmationReturns
  <2> QED
    BY <1>1, <2>1, TransferExchangeFails
<1> QED
  BY <1>2, <1>3

(* The device asks whether to overwrite the file.                          *)
LEMMA OverwriteAskedPreserves ==
  ASSUME TransferInv, Transfer!OverwriteAsked
  PROVE  TransferInv'
<1>1. /\ ExchangeReturns /\ step = "command" /\ step' = "confirm" /\ should_upload' \in BOOLEAN
      /\ outcome = "OK" /\ answer.kind = "overwrite"
      /\ UNCHANGED <<call, shifting, count, i, shifted, result, terminated, device, received>>
  BY TransferExchanges DEF Transfer!OverwriteAsked, Transfer!Expect
<1>2. TransferReturns /\ irrecoverable' = irrecoverable /\ phase = "done" /\ irrecoverable' \in BOOLEAN
  BY <1>1 DEF TransferReturns, ExchangeReturns, TransferInv, TransferTypes, ExchangeTypeOK
<1>3. ~shifted /\ ~Shifting /\ ~Shifting' /\ flags = {} /\ Usable /\ Usable' /\ result = "none"
  BY <1>1, <1>2 DEF Shifting, Usable, TransferReturns, TransferInv, TransferStages
<1>4. TransferTypes'
  BY <1>1, <1>2, TransferReturnKeeps DEF TransferInv, TransferTypes, Transfer!Steps
<1>5. TransferStages'
  BY <1>1, <1>2, <1>3 DEF TransferStages, TransferReturns
<1>6. Window'
  BY <1>3 DEF Window
<1>7. Orderly' => Quiet'
  BY <1>1, <1>2, <1>3, TransferDone, TransferReturnKeeps
<1>8. TransferLocks'
  <2>1. packet'.intact /\ packet'.kind # "check" /\ phase' = "idle"
    BY <1>2, TransferReturnKeeps DEF TransferReturns
  <2> QED
    BY <1>7, <2>1, QuietLocks DEF TransferLocks
<1>9. TransferDevice' /\ Asked' /\ (Orderly' <=> Orderly)
  BY <1>2, TransferReturnKeeps
<1>10. Rejected'
  <2>1. Orderly' => device' = "asking"
    BY <1>1, <1>2, <1>3, <1>9 DEF TransferInv, Asked
  <2>2. Quiet' => Sent' = {}
    BY DEF Quiet, Sent
  <2> QED
    BY <1>1, <1>7, <2>1, <2>2 DEF Rejected
<1>11. Transferred'
  BY <1>1, <1>3 DEF Transferred
<1>12. Transfer!OneFaultIsSurvived'
  BY <1>1, <1>2 DEF TransferInv, Transfer!OneFaultIsSurvived, TransferReturns, wireVars
<1> QED
  BY <1>4, <1>5, <1>6, <1>8, <1>9, <1>10, <1>11, <1>12 DEF TransferInv

(* The packets of the data.                                                *)
LEMMA FirstSentPreserves ==
  ASSUME TransferInv, Transfer!FirstSent
  PROVE  TransferInv'
<1>1. ExchangeReturns /\ step = "first" /\ phase = "done"
  BY TransferExchanges DEF Transfer!FirstSent
<1>2. CASE outcome # "OK"
  BY <1>1, <1>2, TransferExchangeFails DEF Transfer!FirstSent
<1>3. CASE outcome = "OK"
  <2>1. /\ step' = "loop" /\ i' = 2 /\ shifted' = TRUE
        /\ UNCHANGED <<call, shifting, should_upload, count, result, terminated, device, received>>
    BY <1>3 DEF Transfer!FirstSent, Transfer!callVars
  <2>2. TransferReturns /\ irrecoverable' = irrecoverable /\ irrecoverable' \in BOOLEAN
    BY <1>1, <2>1 DEF TransferReturns, ExchangeReturns, TransferInv, TransferTypes, ExchangeTypeOK
  <2>3. Shifting /\ Shifting' /\ Usable /\ Usable' /\ result = "none" /\ count >= 3 /\ should_upload
    BY <1>1, <1>3, <2>1, <2>2 DEF Shifting, Usable, TransferReturns, TransferInv, TransferStages
  <2>4. TransferTypes'
    <3>1. i' \in 0 .. count' + 1
      BY <2>1, <2>3, CountsAssumption DEF TransferInv, TransferTypes
    <3> QED
      BY <2>1, <2>2, <3>1, TransferReturnKeeps DEF TransferInv, TransferTypes, Transfer!Steps
  <2>5. TransferStages'
    BY <2>1, <2>2, <2>3, CountsAssumption DEF TransferStages, TransferReturns, TransferInv, TransferTypes
  <2>6. Window'
    BY <1>1, <1>3, <2>1, <2>2, <2>3, TransferReturnKeeps DEF TransferInv, Window, TransferReturns, Usable
  <2>7. TransferLocks' /\ Transferred'
    BY <2>1, <2>3 DEF TransferLocks, Transferred
  <2>8. TransferDevice' /\ Asked'
    BY <2>2, TransferReturnKeeps
  <2>9. Rejected'
    BY <2>1, <2>3 DEF Rejected
  <2>10. Transfer!OneFaultIsSurvived'
    BY <2>1 DEF Transfer!OneFaultIsSurvived
  <2> QED
    BY <2>4, <2>5, <2>6, <2>7, <2>8, <2>9, <2>10 DEF TransferInv
<1> QED
  BY <1>2, <1>3

LEMMA PacketFailsPreserves ==
  ASSUME TransferInv, Transfer!PacketFails \/ Transfer!ReadFails
  PROVE  TransferInv'
<1>1. /\ phase \in {"idle", "done"} /\ phase' = "idle" /\ step \in {"first", "loop", "last"}
      /\ step' = "ended" /\ result' \in {outcome, "UNKNOWN"}
      /\ result' = outcome => (phase = "done" /\ outcome # "OK") \/ result' = "UNKNOWN"
      /\ UNCHANGED <<call, shifting, should_upload, count, i, shifted, terminated, device, received>>
      /\ UNCHANGED <<wireVars, packet, flags, attempts, outcome, answer, gone>>
      /\ irrecoverable' \in {irrecoverable, irrecoverable \/ shifted}
      /\ phase = "done" => step = "loop" /\ outcome # "OK"
  BY DEF Transfer!PacketFails, Transfer!ReadFails, Transfer!GiveUp, Transfer!callVars, Transfer!wireVars, wireVars,
         TransferInv, TransferTypes, ExchangeTypeOK
<1>2. TransferReturns
  BY <1>1 DEF TransferReturns
<1>3. result' \in Outcomes \ {"none", "OK"}
  BY <1>1, UnknownIs DEF TransferInv, TransferTypes, ExchangeTypeOK, TransferStages
<1>4. irrecoverable' = irrecoverable \/ (irrecoverable' = TRUE /\ shifted)
  BY <1>1 DEF TransferInv, TransferTypes, ExchangeTypeOK
<1>5. ~shifted /\ Orderly /\ Usable => Quiet
  <2> SUFFICES ASSUME ~shifted, Orderly, Usable PROVE Quiet
    OBVIOUS
  <2>1. CASE phase = "done"
    <3>1. ~Shifting /\ flags = {}
      BY <1>1, <2>1 DEF TransferInv, TransferStages, Shifting
    <3> QED
      BY <1>1, <2>1, <3>1, TransferDone
  <2>2. CASE phase = "idle"
    BY <1>1, <2>2 DEF TransferInv, TransferLocks, Shifting
  <2> QED
    BY <1>1, <2>1, <2>2
<1> QED
  BY <1>1, <1>2, <1>3, <1>4, <1>5, TransferFails DEF TransferInv, TransferTypes

LEMMA PacketAnsweredPreserves ==
  ASSUME TransferInv, Transfer!PacketAnswered
  PROVE  TransferInv'
<1>1. ExchangeReturns /\ step = "loop" /\ phase = "done" /\ outcome = "OK"
  BY TransferExchanges DEF Transfer!PacketAnswered
<1>2. CASE ~Transfer!Expect("ack")
  <2>1. Transfer!GiveUp("UNKNOWN")
    BY <1>2 DEF Transfer!PacketAnswered
  <2> QED
    BY <1>1, <2>1, TransferExchangeFails
<1>3. CASE Transfer!Expect("ack")
  <2>1. /\ i' = i + 1
        /\ UNCHANGED <<call, shifting, should_upload, step, count, shifted, result, terminated, device, received>>
    BY <1>3 DEF Transfer!PacketAnswered, Transfer!callVars
  <2>2. TransferReturns /\ irrecoverable' = irrecoverable /\ irrecoverable' \in BOOLEAN
    BY <1>1, <2>1 DEF TransferReturns, ExchangeReturns, TransferInv, TransferTypes, ExchangeTypeOK
  <2>3. /\ (Shifting' <=> Shifting) /\ Usable /\ Usable' /\ result = "none" /\ should_upload
        /\ i < count /\ i > 0 /\ i \in Nat /\ count \in Nat
    BY <1>1, <2>1, <2>2, CountsAssumption
       DEF Shifting, Usable, TransferReturns, TransferInv, TransferStages, TransferTypes
  <2>4. TransferTypes'
    <3>1. i' \in 0 .. count' + 1
      BY <2>1, <2>3
    <3> QED
      BY <2>1, <2>2, <3>1, TransferReturnKeeps DEF TransferInv, TransferTypes, Transfer!Steps
  <2>5. TransferStages'
    BY <1>1, <2>1, <2>2, <2>3 DEF TransferStages, TransferReturns, TransferInv
  <2>6. Window'
    BY <1>1, <2>1, <2>2, <2>3, TransferReturnKeeps DEF TransferInv, Window, TransferReturns, Usable
  <2>7. TransferLocks'
    <3>1. Orderly' /\ ~Shifting' => Quiet'
      BY <1>1, <2>2, <2>3, TransferDone, TransferReturnKeeps
    <3>2. packet'.intact /\ packet'.kind # "check" /\ phase' = "idle"
      BY <2>2, TransferReturnKeeps DEF TransferReturns
    <3> QED
      BY <3>1, <3>2, QuietLocks DEF TransferLocks
  <2>8. TransferDevice' /\ Asked'
    BY <2>2, TransferReturnKeeps
  <2>9. Rejected' /\ Transferred'
    BY <2>1, <2>3 DEF Rejected, Transferred
  <2>10. Transfer!OneFaultIsSurvived'
    BY <2>1, <2>2 DEF TransferInv, Transfer!OneFaultIsSurvived, TransferReturns, wireVars
  <2> QED
    BY <2>4, <2>5, <2>6, <2>7, <2>8, <2>9, <2>10 DEF TransferInv
<1> QED
  BY <1>2, <1>3

(* The function goes on with the last packet: nothing is on the wire.      *)
LEMMA LastPacketIsNext ==
  ASSUME TransferInv, TransferReturns, step \in {"loop", "normalize"}, step' = "last",
         UNCHANGED <<irrecoverable, should_upload, i, shifted, result, terminated>>,
         Usable, Orderly => Quiet
  PROVE  TransferInv'
<1>1. irrecoverable' \in BOOLEAN /\ Usable' /\ ~Shifting' /\ result = "none" /\ should_upload
  BY DEF TransferInv, TransferTypes, ExchangeTypeOK, TransferStages, TransferReturns, Usable, Shifting
<1>2. TransferTypes'
  BY <1>1, TransferReturnKeeps DEF TransferInv, TransferTypes, TransferReturns, Transfer!Steps
<1>3. TransferStages'
  BY <1>1 DEF TransferStages, TransferReturns, TransferInv
<1>4. Window'
  BY <1>1 DEF Window
<1>5. TransferLocks'
  <2>1. Orderly' => Quiet'
    BY <1>1, TransferReturnKeeps
  <2>2. packet'.intact /\ packet'.kind # "check" /\ phase' = "idle"
    BY <1>1, TransferReturnKeeps DEF TransferReturns
  <2> QED
    BY <2>1, <2>2, QuietLocks DEF TransferLocks
<1>6. TransferDevice' /\ Asked'
  BY <1>1, TransferReturnKeeps
<1>7. Rejected' /\ Transferred'
  BY <1>1 DEF Rejected, Transferred
<1>8. Transfer!OneFaultIsSurvived'
  BY DEF TransferInv, Transfer!OneFaultIsSurvived, TransferReturns, wireVars
<1> QED
  BY <1>2, <1>3, <1>4, <1>5, <1>6, <1>7, <1>8 DEF TransferInv

LEMMA NormalizedPreserves ==
  ASSUME TransferInv, Transfer!Normalized
  PROVE  TransferInv'
<1>1. ExchangeReturns /\ step = "normalize" /\ phase = "done" /\ shifted /\ Shifting
  BY TransferExchanges DEF Transfer!Normalized, Shifting, TransferInv, TransferStages
<1>2. CASE ~Transfer!Expect("ack")
  <2>1. Transfer!GiveUp(IF outcome = "OK" THEN "UNKNOWN" ELSE outcome)
    BY <1>2 DEF Transfer!Normalized
  <2> QED
    BY <1>1, <2>1, TransferExchangeFails
<1>3. CASE Transfer!Expect("ack")
  <2>1. /\ step' = "last" /\ outcome = "OK"
        /\ UNCHANGED <<call, shifting, should_upload, i, count, shifted, result, terminated, device, received>>
    BY <1>3 DEF Transfer!Normalized, Transfer!callVars, Transfer!Expect
  <2>2. TransferReturns /\ irrecoverable' = irrecoverable /\ Usable
    BY <1>1, <2>1 DEF TransferReturns, ExchangeReturns, TransferInv, TransferStages
  <2>3. Orderly => Quiet
    BY <1>1, <2>1, NothingInFlight DEF TransferInv, Window, TransferTypes
  <2> QED
    BY <1>1, <2>1, <2>2, <2>3, LastPacketIsNext
<1> QED
  BY <1>2, <1>3

LEMMA EndLoopPreserves ==
  ASSUME TransferInv, Transfer!EndLoop
  PROVE  TransferInv'
<1>1. /\ step = "loop" /\ phase = "idle"
      /\ UNCHANGED <<call, shifting, should_upload, count, i, shifted, result, terminated, device, received>>
  BY DEF Transfer!EndLoop, Transfer!callVars
<1>2. Usable /\ result = "none" /\ should_upload
  BY <1>1 DEF TransferInv, TransferStages
<1>3. CASE ~shifted
  <2>1. step' = "last" /\ UNCHANGED exchangeVars
    BY <1>3 DEF Transfer!EndLoop, Transfer!exchangeVars, exchangeVars, Transfer!wireVars, wireVars,
                Transfer!hostVars, hostVars
  <2>2. TransferReturns /\ UNCHANGED irrecoverable
    BY <1>1, <2>1 DEF TransferReturns, exchangeVars, hostVars
  <2>3. Orderly => Quiet
    BY <1>1, <1>2, <1>3 DEF TransferInv, TransferLocks, Shifting
  <2> QED
    BY <1>1, <1>2, <2>1, <2>2, <2>3, LastPacketIsNext
<1>4. CASE shifted
  <2>1. step' = "normalize" /\ StartReceive
    BY <1>4, TransferExchanges DEF Transfer!EndLoop
  <2>2. /\ phase' = "receive"
        /\ UNCHANGED <<wireVars, packet, flags, attempts, outcome, answer, irrecoverable, gone>>
    BY <2>1 DEF StartReceive
  <2>3. Shifting /\ Shifting' /\ Usable'
    BY <1>1, <1>2, <1>4, <2>1, <2>2 DEF Shifting, Usable
  <2>4. TransferTypes'
    BY <1>1, <2>1, <2>2, ReturnIsTyped DEF TransferInv, TransferTypes, Transfer!Steps
  <2>5. TransferStages'
    BY <1>1, <1>2, <1>4, <2>1, <2>2, <2>3 DEF TransferStages, TransferInv
  <2>6. Window'
    BY <1>1, <1>2, <2>1, <2>2, <2>3 DEF TransferInv, Window, Usable, InFlight, wireVars, Orderly
  <2>7. TransferLocks'
    BY <2>3 DEF TransferLocks
  <2>8. TransferDevice'
    BY <1>1, <2>2 DEF TransferInv, TransferDevice, wireVars, Sent, Answered, Sendable, Taken_
  <2>9. Asked' /\ Rejected' /\ Transferred'
    BY <1>1, <1>2, <2>1 DEF Asked, Rejected, Transferred
  <2>10. Transfer!OneFaultIsSurvived'
    BY <1>1, <2>2 DEF TransferInv, Transfer!OneFaultIsSurvived, wireVars
  <2> QED
    BY <2>4, <2>5, <2>6, <2>7, <2>8, <2>9, <2>10 DEF TransferInv
<1> QED
  BY <1>3, <1>4 DEF TransferInv, TransferTypes

(* The answer to the last packet.                                          *)
LEMMA LastReturnsPreserves ==
  ASSUME TransferInv, Transfer!LastReturns
  PROVE  TransferInv'
<1>1. /\ ExchangeReturns /\ step = "last" /\ phase = "done" /\ step' = "ended"
      /\ UNCHANGED <<call, shifting, should_upload, count, i, shifted, device, received>>
      /\ terminated' \in BOOLEAN
  BY TransferExchanges DEF Transfer!LastReturns, Transfer!callVars
<1>2. TransferReturns /\ irrecoverable' = irrecoverable /\ irrecoverable' \in BOOLEAN
  BY <1>1 DEF TransferReturns, ExchangeReturns, TransferInv, TransferTypes, ExchangeTypeOK
<1>3. packet = Packet("data", count) /\ flags = {} /\ ~Shifting /\ should_upload /\ count \in Nat
  BY <1>1, CountsAssumption DEF TransferInv, TransferStages, TransferTypes, Shifting
<1>4. Orderly /\ Usable => Quiet
  BY <1>1, <1>3, TransferDone
<1>5. CASE ~Transfer!Expect("ack") /\ ~Transfer!Expect("ack_term")
  <2>1. result' = IF outcome = "OK" THEN "UNKNOWN" ELSE outcome
    BY <1>5 DEF Transfer!LastReturns
  <2>2. result' \in Outcomes \ {"none", "OK"}
    BY <1>1, <2>1, UnknownIs DEF TransferInv, TransferTypes, ExchangeTypeOK, TransferStages
  <2> QED
    BY <1>1, <1>2, <1>4, <2>2, TransferFails
<1>6. CASE Transfer!Expect("ack") \/ Transfer!Expect("ack_term")
  <2>1. result' = "OK" /\ outcome = "OK" /\ answer.kind \in {"ack", "ack_term"}
    BY <1>6 DEF Transfer!LastReturns, Transfer!Expect
  <2>2. TransferTypes'
    BY <1>1, <1>2, <2>1, TransferReturnKeeps DEF TransferInv, TransferTypes, TransferReturns, Transfer!Steps, Outcomes
  <2>3. TransferStages'
    BY <1>1, <1>2, <2>1 DEF TransferStages, TransferReturns, TransferInv
  <2>4. Window'
    BY <1>1 DEF Window, Shifting
  <2>5. TransferLocks'
    BY <1>1, <1>2, <1>4, TransferReturnKeeps DEF TransferLocks, TransferReturns, Usable
  <2>6. TransferDevice' /\ Asked' /\ (Orderly' <=> Orderly)
    BY <1>2, TransferReturnKeeps
  <2>7. Rejected'
    BY <1>1, <1>3 DEF Rejected
  <2>8. Transferred'
    <3> SUFFICES ASSUME Orderly PROVE Len(received) = count
      BY <1>1, <2>6 DEF Transferred
    <3>1. Same(answer.to, packet)
      BY <1>1, <1>3, <2>1, TransferDone
    <3>2. answer.to.kind = "data" /\ answer.to.id = count
      BY <1>3, <3>1, PacketsAre DEF Same, PacketKinds
    <3>3. count <= Len(received) /\ Len(received) <= count
      BY <2>1, <3>2 DEF TransferInv, TransferDevice, Taken_
    <3>4. Len(received) \in Nat
      BY EmptyOf DEF TransferInv, TransferTypes
    <3> QED
      BY <1>3, <3>3, <3>4
  <2>9. Transfer!OneFaultIsSurvived'
    BY <1>1, <1>2 DEF TransferInv, Transfer!OneFaultIsSurvived, TransferReturns, wireVars
  <2> QED
    BY <2>2, <2>3, <2>4, <2>5, <2>6, <2>7, <2>8, <2>9 DEF TransferInv
<1> QED
  BY <1>5, <1>6

-----------------------------------------------------------------------------
(* The steps of the function that send a packet.                           *)
LEMMA StartIs ==
  ASSUME ExchangeTypeOK, NEW p \in HostPackets, NEW f \in SUBSET Flags, StartExchange(p, f)
  PROVE  /\ phase = "idle" /\ packet' = p /\ flags' = f
         /\ toDevice' = Append(toDevice, p) /\ InFlight' = InFlight + 1 /\ InFlight \in Nat
         /\ Sent' = Sent \cup {Len(toDevice) + 1} /\ toDevice'[Len(toDevice) + 1] = p
         /\ \A j \in Sent : toDevice'[j] = toDevice[j]
         /\ UNCHANGED <<toHost, lost, damaged, late, answer, irrecoverable>>
         /\ attempts' = InitialAttempts(f)
         /\ "no_receive" \notin f => phase' = "answer" /\ UNCHANGED <<outcome, gone>>
         /\ "no_receive" \in f => /\ phase' = "done"
                                  /\ \/ outcome' = "OK" /\ UNCHANGED gone
                                     \/ outcome' = "GONE" /\ gone' = TRUE
<1>1. /\ toDevice' = Append(toDevice, p) /\ Len(toDevice') = Len(toDevice) + 1 /\ Len(toDevice) \in Nat
      /\ \A j \in Sent : toDevice'[j] = toDevice[j]
      /\ toDevice'[Len(toDevice) + 1] = p
  BY AppendOf DEF StartExchange, ExchangeTypeOK, Sent
<1>2. Len(toHost) \in Nat /\ toHost' = toHost
  BY EmptyOf DEF StartExchange, ExchangeTypeOK
<1>3. InFlight' = InFlight + 1 /\ InFlight \in Nat
  BY <1>1, <1>2 DEF InFlight
<1>4. Sent' = Sent \cup {Len(toDevice) + 1}
  BY <1>1 DEF Sent
<1> QED
  BY <1>1, <1>3, <1>4 DEF StartExchange, Finish

LEMMA TransferStartPreserves ==
  ASSUME TransferInv, NEW p \in HostPackets, NEW f \in SUBSET Flags, StartExchange(p, f),
         UNCHANGED <<call, step, shifting, should_upload, count, i, shifted, result, terminated, device, received>>,
         Sendable(p), p.kind # "check", p.intact,
         \/ /\ step = "command" /\ p = Packet("command", 0) /\ f = {}
         \/ /\ step = "confirm" /\ f = {}
            /\ p = Packet(IF should_upload THEN "ack" ELSE "reject", 0)
         \/ step = "first" /\ f = {"no_receive"}
         \/ /\ step = "loop" /\ i < count /\ p = Packet("data", i)
            /\ f = IF shifted THEN {"no_checksum", "no_timeout"} ELSE {}
         \/ step = "last" /\ p = Packet("data", count) /\ f = {}
  PROVE  TransferInv'
<1>1. /\ phase = "idle" /\ packet' = p /\ flags' = f
      /\ toDevice' = Append(toDevice, p) /\ InFlight' = InFlight + 1 /\ InFlight \in Nat
      /\ Sent' = Sent \cup {Len(toDevice) + 1} /\ toDevice'[Len(toDevice) + 1] = p
      /\ \A j \in Sent : toDevice'[j] = toDevice[j]
      /\ UNCHANGED <<toHost, lost, damaged, late, answer, irrecoverable>>
      /\ attempts' = InitialAttempts(f)
      /\ "no_receive" \notin f => phase' = "answer" /\ UNCHANGED <<outcome, gone>>
      /\ "no_receive" \in f => /\ phase' = "done"
                               /\ \/ outcome' = "OK" /\ UNCHANGED gone
                                  \/ outcome' = "GONE" /\ gone' = TRUE
  BY StartIs DEF TransferInv, TransferTypes
<1>2. "no_receive" \in f <=> step = "first"
  OBVIOUS
<1>3. Usable /\ result = "none" /\ step \in {"command", "confirm", "first", "loop", "last"}
      /\ irrecoverable = FALSE
  BY <1>1 DEF TransferInv, TransferStages, Usable, TransferTypes, ExchangeTypeOK
<1>4. TransferTypes'
  BY StartIsTyped DEF TransferInv, TransferTypes
<1>5. TransferStages'
  BY <1>1, <1>2, <1>3 DEF TransferInv, TransferStages, Usable
<1>6. Orderly' <=> Orderly
  BY <1>1 DEF Orderly
<1>7. Orderly /\ ~(shifted /\ step = "loop") => Quiet /\ InFlight = 0
  <2>1. Quiet => InFlight = 0
    BY DEF Quiet, InFlight
  <2>2. step = "first" => ~shifted
    BY DEF TransferInv, TransferStages
  <2> QED
    BY <1>1, <1>3, <2>1, <2>2 DEF TransferInv, TransferLocks, Shifting
<1>8. Window'
  <2>1. CASE shifted /\ step = "loop"
    <3>1. Orderly => InFlight <= 1
      BY <1>1, <2>1 DEF TransferInv, Window, Shifting
    <3>2. InitialAttempts(f) = 1 /\ f = {"no_checksum", "no_timeout"}
      BY <2>1, AttemptsAre
    <3> QED
      BY <1>1, <1>2, <1>3, <1>6, <2>1, <3>1, <3>2 DEF Window, Shifting
  <2>2. CASE step = "first"
    BY <1>1, <1>2, <1>3, <1>6, <1>7, <2>2 DEF Window, Shifting, TransferInv, TransferStages
  <2>3. CASE ~(shifted /\ step = "loop") /\ step # "first"
    BY <1>3, <2>3 DEF Window, Shifting
  <2> QED
    BY <2>1, <2>2, <2>3
<1>9. TransferLocks'
  <2> SUFFICES ASSUME Orderly', ~Shifting' PROVE Lockstep' /\ phase' # "idle"
    BY DEF TransferLocks
  <2>1. step # "first" /\ ~(shifted /\ step = "loop")
    BY <1>1, <1>2 DEF Shifting
  <2>2. Quiet
    BY <1>6, <1>7, <2>1
  <2> QED
    BY <1>1, <1>2, <2>1, <2>2, StartLocks DEF TransferInv, TransferTypes
<1>10. TransferDevice'
  <2>1. \A q : (Sendable(q)' <=> Sendable(q)) /\ (Taken_(q)' <=> Taken_(q))
    BY DEF Sendable, Taken_
  <2>2. \A j \in Sent' : Sendable(toDevice'[j])
    <3>1. \A j \in Sent : Sendable(toDevice'[j])
      BY <1>1 DEF TransferInv, TransferDevice
    <3>2. Sendable(toDevice'[Len(toDevice) + 1])
      BY <1>1
    <3> QED
      BY <1>1, <3>1, <3>2
  <2>3. Answered' = Answered
    BY <1>1 DEF Answered
  <2> QED
    BY <1>1, <2>1, <2>2, <2>3 DEF TransferInv, TransferDevice
<1>11. Asked'
  BY <1>1, <1>2, <1>3, <1>6 DEF TransferInv, Asked, Answered
<1>12. Rejected'
  <2>1. ~should_upload /\ Orderly => step = "confirm" /\ p.kind = "reject"
    BY <1>3, PacketsAre DEF TransferInv, Rejected, PacketKinds
  <2> QED
    BY <1>1, <1>6, <2>1 DEF TransferInv, Rejected
<1>13. Transferred' /\ Transfer!OneFaultIsSurvived'
  BY <1>1, <1>3 DEF Transferred, TransferInv, Transfer!OneFaultIsSurvived
<1> QED
  BY <1>4, <1>5, <1>8, <1>9, <1>10, <1>11, <1>12, <1>13 DEF TransferInv

LEMMA TransferSendPreserves ==
  ASSUME TransferInv,
         \/ Transfer!SendCommand \/ Transfer!SendConfirmation \/ Transfer!SendFirst
         \/ Transfer!SendPacket \/ Transfer!SendLast
  PROVE  TransferInv'
<1> DEFINE p == CASE step = "command" -> Packet("command", 0)
                  [] step = "confirm" -> Packet(IF should_upload THEN "ack" ELSE "reject", 0)
                  [] step = "first" -> Packet("data", 1)
                  [] step = "loop" -> Packet("data", i)
                  [] step = "last" -> Packet("data", count)
           f == CASE step = "first" -> {"no_receive"}
                  [] step = "loop" /\ shifted -> {"no_checksum", "no_timeout"}
                  [] OTHER -> {}
<1>1. step \in {"command", "confirm", "first", "loop", "last"} /\ (step = "loop" => i < count)
  BY DEF Transfer!SendCommand, Transfer!SendConfirmation, Transfer!SendFirst, Transfer!SendPacket, Transfer!SendLast
<1>2. StartExchange(p, f)
  BY TransferExchanges
     DEF Transfer!SendCommand, Transfer!SendConfirmation, Transfer!SendFirst, Transfer!SendPacket, Transfer!SendLast,
         Transfer!loop_send_flags
<1>3. UNCHANGED <<call, step, shifting, should_upload, count, i, shifted, result, terminated, device, received>>
  BY DEF Transfer!SendCommand, Transfer!SendConfirmation, Transfer!SendFirst, Transfer!SendPacket, Transfer!SendLast,
         Transfer!transferVars, Transfer!callVars
<1>4. f \in SUBSET Flags
  BY DEF Flags
<1>5. /\ i \in Nat /\ count \in Nat /\ (step \in {"first", "loop", "last"} => i > 0)
      /\ step = "first" => count >= 3
  BY CountsAssumption DEF TransferInv, TransferTypes, TransferStages
<1>6. p \in HostPackets /\ Sendable(p) /\ p.kind # "check" /\ p.intact
  <2>1. CASE step = "command"
    BY <2>1, PacketsAre DEF PacketKinds, Sendable, SendingKinds
  <2>2. CASE step = "confirm"
    BY <2>2, PacketsAre DEF PacketKinds, Sendable, SendingKinds
  <2>3. CASE step = "first"
    BY <1>5, <2>3, PacketsAre DEF PacketKinds, Sendable, SendingKinds
  <2>4. CASE step = "loop"
    BY <1>1, <1>5, <2>4, PacketsAre DEF PacketKinds, Sendable, SendingKinds
  <2>5. CASE step = "last"
    BY <1>5, <2>5, PacketsAre DEF PacketKinds, Sendable, SendingKinds
  <2> QED
    BY <1>1, <2>1, <2>2, <2>3, <2>4, <2>5
<1>7. \/ /\ step = "command" /\ p = Packet("command", 0) /\ f = {}
      \/ /\ step = "confirm" /\ f = {}
         /\ p = Packet(IF should_upload THEN "ack" ELSE "reject", 0)
      \/ step = "first" /\ f = {"no_receive"}
      \/ /\ step = "loop" /\ i < count /\ p = Packet("data", i)
         /\ f = IF shifted THEN {"no_checksum", "no_timeout"} ELSE {}
      \/ step = "last" /\ p = Packet("data", count) /\ f = {}
  BY <1>1
<1> HIDE DEF p, f
<1> QED
  BY <1>2, <1>3, <1>4, <1>6, <1>7, TransferStartPreserves

(* The call.                                                               *)
LEMMA TransferBeginPreserves ==
  ASSUME TransferInv, NEW function \in {"send_file", "upload"}, NEW n \in Counts, NEW allowed \in BOOLEAN,
         Transfer!Begin(function, n, allowed)
  PROVE  TransferInv'
<1>1. /\ step = "idle" /\ step' = "command" /\ call' = function /\ count' = n /\ shifting' = allowed
      /\ UNCHANGED <<exchangeVars, should_upload, i, shifted, result, terminated, device, received>>
  BY DEF Transfer!Begin, Transfer!exchangeVars, exchangeVars, Transfer!wireVars, wireVars, Transfer!hostVars, hostVars
<1>2. UNCHANGED <<toDevice, toHost, lost, damaged, late, phase, packet, flags, attempts, outcome, answer,
                  irrecoverable, gone>>
  BY <1>1 DEF exchangeVars, wireVars, hostVars
<1>3. phase = "idle" /\ Quiet /\ packet = NoPacket /\ received = <<>> /\ i = 0 /\ ~shifted /\ should_upload
      /\ Usable /\ result = "none"
  BY <1>1 DEF TransferInv, TransferStages
<1>4. Sent = {} /\ Answered = {} /\ Sent' = {} /\ Answered' = {} /\ Len(received) = 0
      /\ Quiet' /\ Usable' /\ Len(received') = 0
  BY <1>1, <1>2, <1>3 DEF Quiet, Sent, Answered, Usable
<1>5. TransferTypes'
  <2>1. i' \in 0 .. count' + 1 /\ received' \in Seq(1 .. count')
    BY <1>1, <1>3, CountsAssumption
  <2>2. ExchangeTypeOK'
    BY <1>2 DEF TransferInv, TransferTypes, ExchangeTypeOK
  <2> QED
    BY <1>1, <2>1, <2>2 DEF TransferInv, TransferTypes, Transfer!Steps
<1>6. TransferStages'
  BY <1>1, <1>2, <1>3, <1>4 DEF TransferStages
<1>7. Window' /\ Asked' /\ Rejected' /\ Transferred'
  BY <1>1, <1>2, <1>3, <1>4 DEF Window, Shifting, Asked, Rejected, Transferred
<1>8. TransferLocks'
  BY <1>1, <1>2, <1>3, <1>4, QuietLocks, PacketsAre DEF TransferLocks
<1>9. TransferDevice'
  <2>1. Taken_(answer)'
    BY <1>1, <1>2, <1>3 DEF TransferInv, TransferDevice, Taken_
  <2>2. received' = [k \in 1 .. Len(received') |-> k] /\ Len(received') <= count'
    BY <1>1, <1>3, CountsAssumption
  <2> QED
    BY <1>1, <1>2, <1>3, <1>4, <2>1, <2>2 DEF TransferDevice
<1>10. Transfer!OneFaultIsSurvived'
  BY <1>1, <1>2 DEF TransferInv, Transfer!OneFaultIsSurvived
<1> QED
  BY <1>5, <1>6, <1>7, <1>8, <1>9, <1>10 DEF TransferInv


-----------------------------------------------------------------------------
(* What a step of the exchange, or of the wire, leaves of the packets.     *)
StepOrWire == ExchangeStep \/ Unplugged \/ Wire

LEMMA ReceptionTakes ==
  ASSUME ExchangeTypeOK, NEW kinds, Receive(kinds)
  PROVE  /\ \A j \in Answered' : j + 1 \in Answered /\ toHost'[j] = toHost[j + 1]
         /\ 1 \in Answered /\ toHost[1].kind \in kinds
         /\ answer' = IF toHost[1].kind = "damaged" THEN answer ELSE toHost[1]
         /\ Len(toHost') = Len(toHost) - 1 /\ Len(toHost) \in Nat \ {0}
         /\ UNCHANGED <<lost, damaged, late, packet, flags, gone>>
BY TailOf DEF ExchangeTypeOK, Receive, Answered

LEMMA RetrySends ==
  ASSUME ExchangeTypeOK, NEW n, TryAgain(n)
  PROVE  \A j \in Sent' : (j \in Sent /\ toDevice'[j] = toDevice[j]) \/ toDevice'[j] = packet
<1>1. CASE toDevice' = Append(toDevice, packet)
  BY <1>1, AppendOf DEF ExchangeTypeOK, Sent
<1>2. CASE UNCHANGED toDevice
  BY <1>2 DEF Sent
<1> QED
  BY <1>1, <1>2 DEF TryAgain

LEMMA SentKeeps ==
  ASSUME ExchangeTypeOK, StepOrWire
  PROVE  \A j \in Sent' : \/ \E k \in Sent : Same(toDevice'[j], toDevice[k])
                          \/ toDevice'[j].kind = "check"
                          \/ phase \in {"answer", "check"} /\ Same(toDevice'[j], packet)
<1>1. CASE UNCHANGED toDevice
  BY <1>1 DEF Sent, Same
<1>2. CASE \E n : TryAgain(n) /\ phase \in {"answer", "check"}
  BY <1>2, RetrySends DEF Same
<1>3. CASE toDevice' = Append(toDevice, timeout_check_packet)
  BY <1>3, AppendOf, PacketsAre DEF ExchangeTypeOK, Sent, Same
<1>4. CASE DamagePacket
  <2>1. Sent' = Sent
    BY <1>4, DamageIs DEF Sent
  <2> QED
    BY <1>4, <2>1, DamageIs
<1>5. CASE toDevice # <<>> /\ toDevice' = Tail(toDevice)
  BY <1>5, TailOf DEF ExchangeTypeOK, Sent, Same
<1> QED
  BY <1>1, <1>2, <1>3, <1>4, <1>5
     DEF StepOrWire, ExchangeStep, ReceiveDamaged, ReceiveAnswer, ReceiveResend, ReceiveCheckAnswer, AnswerTimesOut,
         CheckTimesOut, Unplugged, Wire, LosePacket, wireVars

LEMMA AnsweredKeeps ==
  ASSUME ExchangeTypeOK, StepOrWire
  PROVE  \A j \in Answered' : \E k \in Answered :
           /\ toHost'[j].to = toHost[k].to /\ toHost'[j].id = toHost[k].id
           /\ toHost'[j].kind \in {toHost[k].kind, "damaged", "other"}
<1>1. CASE UNCHANGED toHost
  BY <1>1 DEF Answered
<1>2. CASE \E kinds : Receive(kinds)
  BY <1>2, ReceptionTakes
<1>3. CASE DamagePacket
  <2>1. Answered' = Answered
    BY <1>3, DamageIs DEF Answered
  <2> QED
    BY <1>3, <2>1, DamageIs
<1>4. CASE toHost # <<>> /\ toHost' = Tail(toHost)
  BY <1>4, TailOf DEF ExchangeTypeOK, Answered
<1> QED
  BY <1>1, <1>2, <1>3, <1>4
     DEF StepOrWire, ExchangeStep, ReceiveDamaged, ReceiveAnswer, ReceiveResend, ReceiveCheckAnswer, AnswerTimesOut,
         CheckTimesOut, Unplugged, Wire, LosePacket, wireVars

(* And of the exchange.                                                    *)
LEMMA HostKeeps ==
  ASSUME ExchangeTypeOK, StepOrWire
  PROVE  /\ UNCHANGED <<packet, flags>>
         /\ answer' = answer \/ (1 \in Answered /\ answer' = toHost[1])
         /\ \/ Wire /\ UNCHANGED hostVars /\ ~Quiet
            \/ /\ phase \in {"answer", "check", "receive"} /\ phase' \in {"answer", "check", "done"}
               /\ phase = "receive" => phase' = "done"
               /\ phase' # "done" => UNCHANGED <<irrecoverable, gone>>
               /\ phase' = "done" => outcome' # "none"
               /\ phase' = "done" /\ outcome' = "OK" =>
                    UNCHANGED <<irrecoverable, gone>> /\ 1 \in Answered /\ answer' = toHost[1]
<1>1. CASE Wire
  <2>1. ~Quiet
    BY <1>1, DamageIs DEF Wire, LosePacket, Quiet
  <2> QED
    BY <1>1, <2>1, DamageIs DEF Wire, LosePacket, hostVars
<1>2. CASE ReceiveDamaged
  BY <1>2, ReceptionTakes DEF ReceiveDamaged, Finish, DamageErrors
<1>3. CASE ReceiveAnswer
  BY <1>3, ReceptionTakes DEF ReceiveAnswer, Finish
<1>4. CASE ReceiveResend
  BY <1>4, ReceptionTakes DEF ReceiveResend, Finish, TryAgain
<1>5. CASE ReceiveCheckAnswer
  BY <1>5, ReceptionTakes DEF ReceiveCheckAnswer, Finish, TryAgain
<1>6. CASE AnswerTimesOut \/ CheckTimesOut \/ Unplugged
  BY <1>6 DEF AnswerTimesOut, CheckTimesOut, Unplugged, Finish, TryAgain
<1> QED
  BY <1>1, <1>2, <1>3, <1>4, <1>5, <1>6 DEF StepOrWire, ExchangeStep

(* While packets are shifted, no step of the exchange sends any.           *)
LEMMA NoneIsSentAgain ==
  ASSUME ExchangeTypeOK, StepOrWire, phase # "check",
         phase = "answer" => flags = {"no_checksum", "no_timeout"} /\ attempts = 1
  PROVE  /\ InFlight \in Nat /\ InFlight' \in Nat /\ InFlight' <= InFlight
         /\ UNCHANGED irrecoverable
         /\ \/ UNCHANGED <<phase, attempts, flags, outcome>>
            \/ phase' = "done" /\ (outcome' = "OK" => InFlight' = InFlight - 1)
<1> USE DEF InFlight
<1>1. Len(toDevice) \in Nat /\ Len(toHost) \in Nat
  BY EmptyOf DEF ExchangeTypeOK
<1>2. CASE LosePacket
  BY <1>1, <1>2, TailOf DEF LosePacket, hostVars, ExchangeTypeOK
<1>3. CASE DamagePacket
  BY <1>1, <1>3, DamageIs DEF hostVars
<1>4. CASE ReceiveDamaged
  BY <1>1, <1>4, ReceptionTakes DEF ReceiveDamaged, Finish
<1>5. CASE ReceiveAnswer
  BY <1>1, <1>5, ReceptionTakes DEF ReceiveAnswer, Finish
<1>6. CASE ReceiveResend
  BY <1>1, <1>6, ReceptionTakes DEF ReceiveResend, Finish, TryAgain
<1>7. CASE AnswerTimesOut \/ Unplugged
  BY <1>1, <1>7 DEF AnswerTimesOut, Unplugged, Finish, wireVars
<1> QED
  BY <1>2, <1>3, <1>4, <1>5, <1>6, <1>7
     DEF StepOrWire, ExchangeStep, Wire, ReceiveCheckAnswer, CheckTimesOut

(* The faults are counted, and what was lost stays so.                     *)
LEMMA StepCounts ==
  ASSUME ExchangeTypeOK, StepOrWire
  PROVE  /\ ExchangeTypeOK' /\ (Orderly' => Orderly)
         /\ lost' + damaged' >= lost + damaged /\ (late' = 0 => late = 0)
         /\ lost' + damaged' \in Int /\ lost + damaged \in Int
         /\ Usable' => Usable
<1>1. ExchangeTypeOK'
  BY StepIsTyped, UnpluggingIsTyped, LossIsTyped, DamageIsTyped DEF StepOrWire, Wire
<1>2. /\ lost <= lost' /\ damaged <= damaged' /\ late <= late'
      /\ lost \in Int /\ damaged \in Int /\ late \in Nat /\ (Orderly' => Orderly)
      /\ irrecoverable => irrecoverable'
  BY FaultsAreCounted DEF StepOrWire
<1>3. lost' \in Int /\ damaged' \in Int /\ late' \in Nat
  BY <1>1, FaultsAssumption DEF ExchangeTypeOK
<1>4. late' = 0 => late = 0
  BY <1>2, <1>3
<1>5. lost' + damaged' \in Int /\ lost + damaged \in Int
  BY <1>2, <1>3
<1>6. lost' + damaged' >= lost + damaged
  <2> DEFINE j == lost  k == lost'  m == damaged  n == damaged'
  <2>1. j \in Int /\ k \in Int /\ m \in Int /\ n \in Int /\ j <= k /\ m <= n
    BY <1>2, <1>3
  <2> HIDE DEF j, k, m, n
  <2>2. k + n >= j + m
    BY <2>1
  <2> QED
    BY <2>2 DEF j, k, m, n
<1>7. gone' = gone \/ gone' = TRUE
  BY DEF StepOrWire, ExchangeStep, ReceiveDamaged, ReceiveAnswer, ReceiveResend, ReceiveCheckAnswer,
         AnswerTimesOut, CheckTimesOut, Unplugged, Wire, LosePacket, DamagePacket, hostVars, Receive
<1>8. Usable' => Usable
  BY <1>2, <1>7 DEF Usable
<1> QED
  BY <1>1, <1>2, <1>4, <1>5, <1>6, <1>8

LEMMA SurvivesStep ==
  ASSUME ExchangeTypeOK, StepOrWire, Survives, Orderly /\ ~irrecoverable /\ phase = "check" => Lockstep
  PROVE  Survives'
<1>1. /\ lost' + damaged' >= lost + damaged /\ (late' = 0 => late = 0)
      /\ lost' + damaged' \in Int /\ lost + damaged \in Int
  BY StepCounts
<1>2. CASE UNCHANGED irrecoverable
  BY <1>1, <1>2 DEF Survives
<1>3. ASSUME irrecoverable' # irrecoverable, late' = 0
      PROVE  lost' + damaged' >= 2
  <2>1. ExchangeStep /\ phase = "check"
    BY <1>3 DEF StepOrWire, ExchangeStep, ReceiveDamaged, ReceiveAnswer, ReceiveResend, ReceiveCheckAnswer,
       AnswerTimesOut, CheckTimesOut, Unplugged, Wire, LosePacket, DamagePacket, hostVars
  <2>2. Orderly
    BY <1>1, <1>3 DEF Orderly
  <2>3. ~irrecoverable
    BY <1>3, FaultsAreCounted, StepCounts DEF StepOrWire, ExchangeTypeOK
  <2>4. InLockstep
    BY <2>1, <2>2, <2>3 DEF InLockstep
  <2> QED
    BY <1>3, <2>1, <2>4, TwoFaultsBreak
<1> QED
  BY <1>1, <1>2, <1>3 DEF Survives

(* The packet that was received last changes when the exchange succeeds,   *)
(* when it asks for another one, or when the link breaks.                  *)
LEMMA AnswerMeans ==
  ASSUME ExchangeTypeOK, StepOrWire
  PROVE  /\ \/ answer' = answer
            \/ answer'.kind = "resend"
            \/ phase' = "done" /\ (outcome' = "OK" \/ irrecoverable') /\ outcome' # "GONE"
         /\ gone' = gone \/ (phase' = "done" /\ outcome' = "GONE")
<1>1. CASE ReceiveDamaged
  BY <1>1, ReceptionTakes DEF ReceiveDamaged
<1>2. CASE ReceiveAnswer
  BY <1>2, ReceptionTakes DEF ReceiveAnswer, Finish
<1>3. CASE ReceiveResend
  BY <1>3, ReceptionTakes DEF ReceiveResend
<1>4. CASE ReceiveCheckAnswer
  BY <1>4, ReceptionTakes DEF ReceiveCheckAnswer, Finish
<1>5. CASE AnswerTimesOut \/ CheckTimesOut \/ Unplugged
  BY <1>5 DEF AnswerTimesOut, CheckTimesOut, Unplugged, Finish
<1>6. CASE Wire
  BY <1>6, DamageIs DEF Wire, LosePacket, hostVars
<1> QED
  BY <1>1, <1>2, <1>3, <1>4, <1>5, <1>6 DEF StepOrWire, ExchangeStep

(* The exchange of the transfer goes on.                                   *)
LEMMA TransferExchangePreserves ==
  ASSUME TransferInv, Transfer!Exchange
  PROVE  TransferInv'
<1>1. StepOrWire
  BY TransferSteps DEF Transfer!Exchange, StepOrWire
<1>2. UNCHANGED <<call, step, shifting, should_upload, count, i, shifted, result, terminated, device, received>>
  BY DEF Transfer!Exchange, Transfer!transferVars, Transfer!callVars
<1>3. ExchangeTypeOK /\ ExchangeTypeOK' /\ (Orderly' => Orderly) /\ (Usable' => Usable)
  BY <1>1, StepCounts DEF TransferInv, TransferTypes
<1>4. /\ UNCHANGED <<packet, flags>>
      /\ answer' = answer \/ (1 \in Answered /\ answer' = toHost[1])
      /\ \/ Wire /\ UNCHANGED <<phase, packet, flags, attempts, outcome, answer, irrecoverable, gone>> /\ ~Quiet
         \/ /\ phase \in {"answer", "check", "receive"} /\ phase' \in {"answer", "check", "done"}
            /\ phase = "receive" => phase' = "done"
            /\ phase' # "done" => UNCHANGED <<irrecoverable, gone>>
            /\ phase' = "done" => outcome' # "none"
            /\ phase' = "done" /\ outcome' = "OK" =>
                 UNCHANGED <<irrecoverable, gone>> /\ 1 \in Answered /\ answer' = toHost[1]
  BY <1>1, <1>3, HostKeeps DEF hostVars
<1>5. TransferTypes'
  BY <1>2, <1>3 DEF TransferInv, TransferTypes
<1>6. TransferStages'
  BY <1>2, <1>4 DEF TransferInv, TransferStages, Usable
<1>7. Shifting' <=> Shifting
  BY <1>2, <1>4 DEF TransferInv, TransferStages, Shifting
<1>8. Window'
  <2> SUFFICES ASSUME Orderly, Shifting, Orderly' PROVE Window'
    BY <1>3, <1>7 DEF Window
  <2>1. /\ ~irrecoverable /\ phase # "check"
        /\ phase = "idle" => InFlight <= 1
        /\ phase = "answer" => InFlight <= 2 /\ flags = {"no_checksum", "no_timeout"} /\ attempts = 1
        /\ phase = "receive" => InFlight <= 1
        /\ phase = "done" /\ outcome = "OK" => InFlight <= IF step = "normalize" THEN 0 ELSE 1
    BY DEF TransferInv, Window
  <2>2. /\ InFlight \in Nat /\ InFlight' \in Nat /\ InFlight' <= InFlight
        /\ UNCHANGED irrecoverable
        /\ \/ UNCHANGED <<phase, attempts, flags, outcome>>
           \/ phase' = "done" /\ (outcome' = "OK" => InFlight' = InFlight - 1)
    BY <1>1, <1>3, <2>1, NoneIsSentAgain
  <2>3. phase = "receive" <=> step = "normalize" /\ phase # "done"
    BY DEF TransferInv, TransferStages
  <2>4. CASE UNCHANGED <<phase, attempts, flags, outcome>>
    BY <1>2, <2>1, <2>2, <2>4 DEF Window
  <2>5. CASE phase' = "done" /\ phase # "done" /\ (outcome' = "OK" => InFlight' = InFlight - 1)
    <3>1. step = "normalize" => InFlight <= 1
      BY <2>1, <2>3, <2>5
    <3>2. phase \in {"answer", "receive"}
      BY <1>4, <2>1, <2>5
    <3> QED
      BY <1>2, <2>1, <2>2, <2>5, <3>1, <3>2 DEF Window
  <2> QED
    BY <1>4, <2>2, <2>4, <2>5
<1>9. TransferLocks'
  <2> SUFFICES ASSUME Orderly, Orderly', ~Shifting PROVE TransferLocks'
    BY <1>3, <1>7 DEF TransferLocks
  <2>1. step' # "ended" => Lockstep'
    <3> SUFFICES ASSUME step # "ended" PROVE Lockstep'
      BY <1>2
    <3>1. InLockstep
      BY <1>3 DEF TransferInv, TransferLocks, InLockstep
    <3>2. phase # "receive"
      BY DEF TransferInv, TransferStages, Shifting
    <3> QED
      BY <1>1, <3>1, <3>2, StepLocks, WireLocks DEF StepOrWire
  <2>2. ~(Usable' /\ phase' = "idle" /\ (step' # "ended" \/ result' = "OK" \/ ~shifted'))
    BY <1>2, <1>4 DEF TransferInv, TransferLocks, Usable
  <2> QED
    BY <2>1, <2>2 DEF TransferLocks
<1>10. /\ \A j \in Sent' : \/ \E k \in Sent : Same(toDevice'[j], toDevice[k])
                           \/ toDevice'[j].kind = "check"
                           \/ phase \in {"answer", "check"} /\ Same(toDevice'[j], packet)
       /\ \A j \in Answered' : \E k \in Answered :
            /\ toHost'[j].to = toHost[k].to
            /\ toHost'[j].kind \in {toHost[k].kind, "damaged", "other"}
  BY <1>1, <1>3, SentKeeps, AnsweredKeeps
<1>11. TransferDevice'
  <2>1. \A q : (Sendable(q)' <=> Sendable(q)) /\ (Taken_(q)' <=> Taken_(q))
    BY <1>2 DEF Sendable, Taken_
  <2>2. packet # NoPacket \/ phase \notin {"answer", "check"}
    BY DEF TransferInv, TransferStages, TransferTypes, Transfer!Steps, NoPacket, Packet
  <2>3. \A j \in Sent' : Sendable(toDevice'[j])
    BY <1>10, <2>2 DEF TransferInv, TransferDevice, Sendable, SendingKinds, Same
  <2>4. \A j \in Answered' : Taken_(toHost'[j])
    BY <1>10 DEF TransferInv, TransferDevice, Taken_
  <2>5. Taken_(answer')
    BY <1>4 DEF TransferInv, TransferDevice
  <2> QED
    BY <1>2, <1>4, <2>1, <2>3, <2>4, <2>5 DEF TransferInv, TransferDevice
<1>12. Asked'
  <2> SUFFICES ASSUME Orderly, Usable, step = "command" PROVE Asked'
    BY <1>2, <1>3 DEF Asked
  <2>2. /\ \A j \in Answered : toHost[j].kind = "overwrite" => device = "asking"
        /\ phase = "done" /\ outcome = "OK" /\ answer.kind = "overwrite" => device = "asking"
    BY DEF TransferInv, Asked
  <2> QED
    BY <1>2, <1>4, <1>10, <2>2 DEF Asked
<1>13. Rejected'
  <2> SUFFICES ASSUME Orderly, ~should_upload PROVE Rejected'
    BY <1>2, <1>3 DEF Rejected
  <2>1. phase \in {"answer", "check"} => packet.kind = "reject"
    BY PacketsAre DEF TransferInv, TransferStages, Rejected, PacketKinds
  <2> QED
    BY <1>2, <1>10, <2>1 DEF TransferInv, Rejected, Same
<1>14. Transferred'
  BY <1>2, <1>3 DEF TransferInv, Transferred
<1>15. Transfer!OneFaultIsSurvived'
  <2> SUFFICES ASSUME ~shifted PROVE Survives'
    BY <1>2 DEF Transfer!OneFaultIsSurvived, Survives
  <2>1. Orderly /\ phase = "check" => Lockstep
    BY DEF TransferInv, TransferStages, TransferLocks, Shifting
  <2>2. Survives
    BY DEF TransferInv, Transfer!OneFaultIsSurvived, Survives
  <2> QED
    BY <1>1, <1>3, <2>1, <2>2, SurvivesStep
<1> QED
  BY <1>5, <1>6, <1>8, <1>9, <1>11, <1>12, <1>13, <1>14, <1>15 DEF TransferInv

(* The device of a transfer.                                               *)
LEMMA TransferReplies ==
  ASSUME TransferInv, NEW p, Sendable(p), NEW k \in Transfer!Replies(p)
  PROVE  /\ k \in {"ack", "ack_term", "overwrite", "error", "resend"}
         /\ k = "resend" <=> ~p.intact \/ p.kind = "check"
         /\ p.kind = "command" /\ device = "asking" => k \in {"overwrite", "resend"}
         /\ p.kind = "command" /\ device = "accepting" => k \in {"ack", "resend"}
         /\ k = "overwrite" => p.kind = "command" /\ device \in {"passive", "asking"}
         /\ p.kind = "data" /\ k \in {"ack", "ack_term"} => device = "accepting" /\ ~(p.id > Len(received) + 1)
         /\ p.kind = "reject" /\ k = "ack" => device \in {"asking", "refusing"}
         /\ p.kind = "ack" /\ k = "ack" => device \in {"asking", "accepting"}
<1>1. CASE ~p.intact \/ p.kind = "check"
  BY <1>1 DEF Transfer!Replies
<1>2. CASE p.intact /\ p.kind = "command"
  BY <1>2 DEF Transfer!Replies, Transfer!RepliesToCommand, TransferInv, TransferTypes
<1>3. CASE p.intact /\ p.kind = "data"
  BY <1>3 DEF Transfer!Replies, Transfer!RepliesToData
<1>4. CASE p.intact /\ p.kind \in {"ack", "reject"}
  BY <1>4 DEF Transfer!Replies
<1> QED
  BY <1>1, <1>2, <1>3, <1>4 DEF Sendable, SendingKinds

LEMMA TransferDevicePreserves ==
  ASSUME TransferInv, Transfer!DeviceStep
  PROVE  TransferInv'
<1> DEFINE p == Head(toDevice)
<1>1. PICK k \in Transfer!Replies(p) :
        /\ DeviceAnswers(k)
        /\ device' = Transfer!DeviceAfter(p, k)
        /\ received' = IF p.kind = "data" /\ k \in {"ack", "ack_term"} /\ p.id = Len(received) + 1
                       THEN Append(received, p.id) ELSE received
  BY TransferExchanges DEF Transfer!DeviceStep
<1>2. /\ UNCHANGED <<call, step, shifting, should_upload, count, i, shifted, result, terminated>>
      /\ UNCHANGED <<lost, damaged, late, phase, packet, flags, attempts, outcome, answer, irrecoverable, gone>>
      /\ toDevice # <<>>
  BY <1>1 DEF Transfer!DeviceStep, Transfer!callVars, DeviceAnswers, DeviceSends, hostVars
<1>3. /\ toDevice' \in Seq(HostPackets) /\ Len(toDevice') = Len(toDevice) - 1 /\ Len(toDevice) \in Nat
      /\ p = toDevice[1] /\ 1 \in Sent /\ p \in HostPackets
      /\ \A j \in Sent' : toDevice'[j] = toDevice[j + 1] /\ j + 1 \in Sent
  BY <1>1, <1>2, TailOf DEF DeviceAnswers, DeviceSends, TransferInv, TransferTypes, ExchangeTypeOK, Sent
<1>4. Sendable(p)
  BY <1>3 DEF TransferInv, TransferDevice
<1>5. /\ k \in {"ack", "ack_term", "overwrite", "error", "resend"}
      /\ k = "resend" <=> ~p.intact \/ p.kind = "check"
      /\ p.kind = "command" /\ device = "asking" => k \in {"overwrite", "resend"}
      /\ p.kind = "command" /\ device = "accepting" => k \in {"ack", "resend"}
      /\ k = "overwrite" => p.kind = "command" /\ device \in {"passive", "asking"}
      /\ p.kind = "data" /\ k \in {"ack", "ack_term"} => device = "accepting" /\ ~(p.id > Len(received) + 1)
      /\ p.kind = "reject" /\ k = "ack" => device \in {"asking", "refusing"}
      /\ p.kind = "ack" /\ k = "ack" => device \in {"asking", "accepting"}
  BY <1>4, TransferReplies
<1> DEFINE a == Answer(k, p)
<1>6. a \in DevicePackets /\ a.kind = k /\ a.to = p /\ DeviceSends(a)
  BY <1>1, <1>3, <1>5, PacketsAre DEF AnswerKinds, DeviceAnswers
<1> HIDE DEF p, a
<1>7. /\ toHost' \in Seq(DevicePackets) /\ Len(toHost') = Len(toHost) + 1 /\ Len(toHost) \in Nat
      /\ Answered' = Answered \cup {Len(toHost) + 1} /\ toHost'[Len(toHost) + 1] = a
      /\ \A j \in Answered : toHost'[j] = toHost[j]
  BY <1>6, AppendOf DEF DeviceSends, TransferInv, TransferTypes, ExchangeTypeOK, Answered
<1>8. InFlight' = InFlight /\ (Orderly' <=> Orderly) /\ (Shifting' <=> Shifting) /\ (Usable' <=> Usable)
  BY <1>2, <1>3, <1>7 DEF InFlight, Orderly, Shifting, Usable
<1>9. /\ Len(received) \in Nat /\ received' \in Seq(1 .. count') /\ Len(received') <= count'
      /\ Len(received) <= Len(received')
      /\ received' = [n \in 1 .. Len(received') |-> n]
      /\ p.kind = "data" /\ k \in {"ack", "ack_term"} => p.id <= Len(received') /\ device = "accepting"
      /\ received' # received => device = "accepting" /\ p.kind = "data"
      /\ received' # <<>> => received # <<>> \/ (device = "accepting" /\ p.kind = "data")
  <2>1. received \in Seq(1 .. count) /\ received = [n \in 1 .. Len(received) |-> n] /\ Len(received) <= count
    BY DEF TransferInv, TransferTypes, TransferDevice
  <2>2. Len(received) \in Nat
    BY <2>1, EmptyOf
  <2>3. p.kind = "data" => p.id \in Nat /\ p.id \in 0 .. count
    BY <1>4, CountsAssumption DEF Sendable, TransferInv, TransferTypes
  <2>4. p.kind = "data" /\ k \in {"ack", "ack_term"} => device = "accepting" /\ p.id <= Len(received) + 1
    BY <1>5, <2>2, <2>3
  <2>5. CASE p.kind = "data" /\ k \in {"ack", "ack_term"} /\ p.id = Len(received) + 1
    <3>1. received' = Append(received, p.id)
      BY <1>1, <2>5 DEF p
    <3>2. /\ received' \in Seq(1 .. count) /\ Len(received') = Len(received) + 1
          /\ \A n \in 1 .. Len(received) : received'[n] = received[n]
          /\ received'[Len(received) + 1] = p.id
      BY <2>1, <2>3, <2>5, <3>1, AppendOf
    <3>3. \A n \in 1 .. Len(received') : received'[n] = n
      BY <2>1, <2>2, <2>5, <3>2
    <3>4. received' = [n \in 1 .. Len(received') |-> received'[n]]
      BY <3>2
    <3>5. received' = [n \in 1 .. Len(received') |-> n]
      BY <3>3, <3>4
    <3> QED
      BY <1>2, <2>2, <2>3, <2>4, <2>5, <3>2, <3>5
  <2>6. CASE ~(p.kind = "data" /\ k \in {"ack", "ack_term"} /\ p.id = Len(received) + 1)
    <3>1. received' = received
      BY <1>1, <2>6 DEF p
    <3>2. p.kind = "data" /\ k \in {"ack", "ack_term"} => p.id <= Len(received)
      BY <2>2, <2>3, <2>4, <2>6
    <3> QED
      BY <1>2, <2>1, <2>2, <2>4, <3>1, <3>2
  <2> QED
    BY <2>5, <2>6
<1>10. /\ device' \in {"passive", "asking", "accepting", "refusing"}
       /\ received' # <<>> => device' = "accepting"
       /\ k = "overwrite" => device' = "asking"
       /\ p.kind \in {"command", "check"} /\ device = "asking" => device' = "asking"
       /\ p.kind \in {"reject", "check"} /\ device \in {"asking", "refusing"} => device' \in {"asking", "refusing"}
  <2>1. device' = Transfer!DeviceAfter(p, k)
    BY <1>1 DEF p
  <2>2. received # <<>> => device = "accepting"
    BY DEF TransferInv, TransferDevice
  <2>3. device \in {"passive", "asking", "accepting", "refusing"}
    BY DEF TransferInv, TransferTypes
  <2> QED
    BY <1>5, <1>9, <2>1, <2>2, <2>3 DEF Transfer!DeviceAfter
<1>11. TransferTypes'
  <2>1. ExchangeTypeOK'
    BY <1>2, <1>6, SendingIsTyped DEF TransferInv, TransferTypes
  <2> QED
    BY <1>2, <1>9, <1>10, <2>1 DEF TransferInv, TransferTypes
<1>12. ~Quiet
  BY <1>2 DEF Quiet
<1>13. TransferStages'
  BY <1>2, <1>8, <1>12 DEF TransferInv, TransferStages
<1>14. Window'
  BY <1>2, <1>8 DEF TransferInv, Window
<1>15. TransferLocks'
  <2> SUFFICES ASSUME Orderly, ~Shifting PROVE TransferLocks'
    BY <1>8 DEF TransferLocks
  <2>1. ASSUME step # "ended" PROVE Lockstep'
    <3>1. InLockstep
      BY <2>1 DEF TransferInv, TransferTypes, TransferLocks, InLockstep
    <3>2. damaged = 0 => Proper(a)
      <4>1. damaged = 0 => p.intact
        BY <1>3, <3>1 DEF InLockstep, Lockstep, Genuine
      <4> QED
        BY <1>5, <1>6, <4>1 DEF Proper
    <3>3. a.kind = "resend" \/ a.to.kind # "check"
      BY <1>5, <1>6
    <3> QED
      BY <1>2, <1>6, <3>1, <3>2, <3>3, SendingLocks DEF p
  <2> QED
    BY <1>2, <1>8, <1>12, <2>1 DEF TransferInv, TransferLocks
<1>16. TransferDevice'
  <2>1. \A q : Sendable(q)' <=> Sendable(q)
    BY <1>2 DEF Sendable
  <2>2. \A j \in Sent' : Sendable(toDevice'[j])
    BY <1>3 DEF TransferInv, TransferDevice
  <2> DEFINE After(q) == q.to.kind = "data" /\ q.kind \in {"ack", "ack_term"} => q.to.id <= Len(received')
  <2>3. \A q \in DevicePackets : Taken_(q) => After(q)
    <3>1. Len(received') \in Nat /\ Len(received) \in Nat
      BY <1>9, EmptyOf
    <3> QED
      BY <1>9, <3>1 DEF Taken_, DevicePackets, HostPackets
  <2>4. After(a)
    BY <1>6, <1>9
  <2>5. \A j \in Answered' : After(toHost'[j])
    <3>1. \A j \in Answered : toHost[j] \in DevicePackets /\ Taken_(toHost[j])
      BY DEF TransferInv, TransferDevice, TransferTypes, ExchangeTypeOK, Answered
    <3>2. \A j \in Answered : After(toHost'[j])
      BY <1>7, <2>3, <3>1
    <3> HIDE DEF After
    <3> QED
      BY <1>7, <2>4, <3>2
  <2>6. After(answer')
    BY <1>2, <2>3 DEF TransferInv, TransferDevice, TransferTypes, ExchangeTypeOK
  <2>7. (\A j \in Answered' : Taken_(toHost[j])') /\ Taken_(answer)'
    BY <2>5, <2>6 DEF Taken_
  <2> HIDE DEF After
  <2> QED
    BY <1>2, <1>9, <1>10, <2>1, <2>2, <2>7 DEF TransferInv, TransferDevice
<1>17. Asked'
  <2> SUFFICES ASSUME Orderly, Usable, step = "command" PROVE Asked'
    BY <1>2, <1>8 DEF Asked
  <2>1. ~Shifting /\ phase # "idle"
    BY <1>12 DEF TransferInv, TransferStages, TransferLocks, Shifting
  <2>2. packet = Packet("command", 0) /\ Lockstep
    BY <2>1 DEF TransferInv, TransferStages, TransferLocks
  <2>3. p.kind \in {"command", "check"}
    BY <1>3, <2>2 DEF Lockstep, Members, Expected, Same, Packet
  <2> QED
    BY <1>2, <1>6, <1>7, <1>10, <2>3 DEF TransferInv, Asked
<1>18. Rejected'
  <2> SUFFICES ASSUME Orderly, ~should_upload PROVE Rejected'
    BY <1>2, <1>8 DEF Rejected
  <2>1. p.kind \in {"reject", "check"}
    BY <1>3 DEF TransferInv, Rejected
  <2> QED
    BY <1>2, <1>3, <1>10, <2>1 DEF TransferInv, Rejected
<1>19. Transferred'
  <2>1. Len(received') \in Nat /\ count \in Nat
    BY <1>9, CountsAssumption, EmptyOf DEF TransferInv, TransferTypes
  <2>2. Len(received) = count => Len(received') = count
    <3>1. \A j, n, m \in Nat : j <= m /\ m <= n /\ j = n => m = n
      OBVIOUS
    <3>2. Len(received) <= Len(received') /\ Len(received') <= count /\ Len(received) \in Nat
      BY <1>2, <1>9
    <3> QED
      BY <2>1, <3>1, <3>2
  <2> QED
    BY <1>2, <1>8, <2>2 DEF TransferInv, Transferred
<1>20. Transfer!OneFaultIsSurvived'
  BY <1>2 DEF TransferInv, Transfer!OneFaultIsSurvived
<1> QED
  BY <1>11, <1>13, <1>14, <1>15, <1>16, <1>17, <1>18, <1>19, <1>20 DEF TransferInv

LEMMA TransferNextPreserves ==
  ASSUME TransferInv, Transfer!Next
  PROVE  TransferInv'
<1>1. CASE \E n \in Counts, allowed \in BOOLEAN : Transfer!SendFile(n, allowed)
  BY <1>1, TransferBeginPreserves DEF Transfer!SendFile
<1>2. CASE \E n \in Counts : Transfer!UploadProgram(n)
  BY <1>2, TransferBeginPreserves DEF Transfer!UploadProgram
<1>3. CASE Transfer!Caller
  BY <1>3, TransferSendPreserves, CommandReturnsPreserves, OverwriteAskedPreserves, FirstSentPreserves,
     PacketFailsPreserves, PacketAnsweredPreserves, EndLoopPreserves, NormalizedPreserves, LastReturnsPreserves
     DEF Transfer!Caller
<1>4. CASE Transfer!ReadFails \/ Transfer!Exchange \/ Transfer!DeviceStep
  BY <1>4, PacketFailsPreserves, TransferExchangePreserves, TransferDevicePreserves
<1> QED
  BY <1>1, <1>2, <1>3, <1>4 DEF Transfer!Next

LEMMA TransferStutters ==
  ASSUME TransferInv, UNCHANGED <<exchangeVars, call, step, result, i, shifted, device, sendVars>>
  PROVE  TransferInv'
<1>1. /\ UNCHANGED <<toDevice, toHost, lost, damaged, late, phase, packet, flags, attempts, outcome, answer,
                     irrecoverable, gone>>
      /\ UNCHANGED <<call, step, result, i, shifted, device, shifting, should_upload, count, terminated, received>>
  BY DEF exchangeVars, wireVars, hostVars, sendVars
<1>2. TransferTypes' /\ TransferStages' /\ Window'
  BY <1>1 DEF TransferInv, TransferTypes, ExchangeTypeOK, TransferStages, Window, Shifting, Quiet, Usable, InFlight,
              Orderly
<1>3. Lockstep' <=> Lockstep
  BY <1>1 DEF Lockstep, Members, Expected, Same, InOrder, TwoAnswers, NoCheck, Alone, Genuine, Over, Faults, Sent,
              Answered, Quiet, Usable
<1>4. TransferLocks'
  BY <1>1, <1>3 DEF TransferInv, TransferLocks, Orderly, Shifting, Quiet, Usable
<1>5. TransferDevice' /\ Asked' /\ Rejected' /\ Transferred' /\ Transfer!OneFaultIsSurvived'
  BY <1>1 DEF TransferInv, TransferDevice, Sendable, Taken_, Asked, Rejected, Transferred,
              Transfer!OneFaultIsSurvived, Sent, Answered, Orderly, Usable
<1> QED
  BY <1>2, <1>4, <1>5 DEF TransferInv

LEMMA TransferBegins ==
  ASSUME Init PROVE TransferInv
<1>1. /\ ExchangeInit /\ call = "none" /\ shifting = FALSE /\ should_upload = TRUE
      /\ step = "idle" /\ count = 0 /\ i = 0 /\ shifted = FALSE
      /\ result = "none" /\ terminated = FALSE /\ device = "passive" /\ received = <<>>
  BY TransferExchanges DEF Init, Transfer!Init
<1>2. ExchangeTypeOK
  BY <1>1, InitialIsTyped
<1>3. Sent = {} /\ Answered = {} /\ Quiet /\ packet = NoPacket /\ phase = "idle" /\ Len(received) = 0
      /\ ~irrecoverable /\ ~gone /\ answer = NoAnswer
  BY <1>1 DEF ExchangeInit, Sent, Answered, Quiet
<1>4. Lockstep
  BY <1>3, PacketsAre DEF Lockstep, Members, InOrder, NoCheck, Alone, Genuine, Over, Faults, Quiet
<1>5. TransferTypes
  <2>1. i \in 0 .. count + 1 /\ received \in Seq(1 .. count)
    BY <1>1
  <2> QED
    BY <1>1, <1>2, <2>1 DEF TransferTypes, Transfer!Steps, Outcomes
<1>6. TransferStages /\ Window /\ TransferLocks
  BY <1>1, <1>3, <1>4 DEF TransferStages, Window, TransferLocks, Shifting, Usable
<1>7. TransferDevice
  <2>1. Taken_(answer)
    BY <1>3 DEF Taken_, NoAnswer, Answer, Numbered
  <2>2. received = [n \in 1 .. Len(received) |-> n] /\ Len(received) <= count
    BY <1>1
  <2> QED
    BY <1>1, <1>3, <2>1, <2>2 DEF TransferDevice
<1>8. Asked /\ Rejected /\ Transferred /\ Transfer!OneFaultIsSurvived
  BY <1>1, <1>3 DEF Asked, Rejected, Transferred, Transfer!OneFaultIsSurvived
<1> QED
  BY <1>5, <1>6, <1>7, <1>8 DEF TransferInv

LEMMA TransferIsRight ==
  ASSUME TransferInv
  PROVE  Transfer!TypeOK /\ Transfer!FileArrives /\ Transfer!QuietWhenOver /\ Transfer!OneFaultIsSurvived
<1>1. Transfer!Orderly <=> Orderly
  BY DEF Transfer!Orderly, Orderly
<1>2. Transfer!TypeOK
  BY TransferTyping DEF TransferInv, TransferTypes, Transfer!TypeOK, Transfer!Outcomes, Outcomes,
     Transfer!DamageErrors, DamageErrors
<1>3. Transfer!FileArrives
  <2> SUFFICES ASSUME Orderly PROVE Transfer!FileArrives
    BY <1>1 DEF Transfer!FileArrives
  <2>1. result = "OK" /\ should_upload => received = [n \in 1 .. count |-> n]
    BY DEF TransferInv, TransferDevice, Transferred
  <2>2. ~should_upload => device \in {"asking", "refusing"} /\ received = <<>>
    BY DEF TransferInv, Rejected, TransferDevice
  <2> QED
    BY <1>1, <2>1, <2>2 DEF Transfer!FileArrives
<1>4. Transfer!QuietWhenOver
  BY <1>1 DEF TransferInv, TransferStages, TransferLocks, Transfer!QuietWhenOver, Shifting, Usable, Quiet
<1> QED
  BY <1>2, <1>3, <1>4 DEF TransferInv

-----------------------------------------------------------------------------
(* Flashing (SevenFlash).                                                  *)

FlashKinds == {"info", "clear", "upload", "copy", "finish"}
FlashCommands == {"info", "clear", "upload", "copy", "terminate"}

(* What the packet that goes out, or that last did, is about.              *)
Doing == CASE step = "ended" -> packet.kind
           [] step = "terminate" -> "finish"
           [] OTHER -> step

CommandOf ==
  CASE Doing = "info" -> Packet("info", 0)
    [] Doing = "clear" -> Packet("clear", addr)
    [] Doing = "upload" -> Packet("upload", addr * Pieces + piece - 1)
    [] Doing = "copy" -> Packet("copy", addr)
    [] Doing = "finish" -> Packet("finish", 0)

FlashStages ==
  /\ step \in {"idle", "ended"} => phase = "idle"
  /\ step = "idle" => Quiet /\ packet = NoPacket /\ image = 0 /\ max_addr = 0
  /\ result # "none" => step = "ended"
  /\ step # "ended" /\ phase # "done" => Usable
  /\ phase = "done" => outcome # "none" /\ (outcome = "OK" => Usable)
  /\ result = "OK" => Usable /\ packet.kind = "finish"
  /\ step = "ended" => Doing \in FlashKinds
  /\ Doing \in FlashKinds /\ (phase # "idle" \/ step = "ended") => packet = CommandOf /\ flags = {}
  /\ phase = "receive" => step = "info_data"
  /\ step = "info_data" => phase \in {"receive", "done"} /\ packet = Packet("info", 0) /\ flags = {}
  /\ step # "idle" => max_addr \in 2 .. FlashEnd
  /\ Doing = "clear" => addr \in 1 .. max_addr - 1
  /\ Doing = "upload" => piece \in 1 .. Pieces
  /\ Doing \in {"upload", "copy"} => addr \in 1 .. image - 1

(* What the data of the information leave on the wire.                     *)
InfoLeft ==
  toDevice = <<>> /\ Len(toHost) <= 1 /\ \A j \in Answered : toHost[j].to.kind # "check"

FlashLocks ==
  Orderly =>
    /\ Lockstep
    /\ phase = "idle" /\ step \in FlashCommands => Quiet
    /\ result = "OK" => Quiet
    /\ step = "info" /\ phase = "done" /\ outcome = "OK" => InfoLeft
    /\ step = "info_data" /\ phase = "receive" => InfoLeft
    /\ step = "info_data" /\ phase = "done" /\ outcome = "OK" => Quiet

FlashPacket(p) ==
  /\ p.kind \in FlashKinds \cup {"check"}
  /\ p.kind = "upload" => p.id \div Pieces \in Flash!Sectors

FlashPackets ==
  /\ \A j \in Sent : FlashPacket(toDevice[j])
  /\ packet = NoPacket \/ FlashPacket(packet)

(* What an acknowledged packet has done.                                   *)
Carried(p) ==
  /\ p.kind = "clear" => flash[p.id] = "cleared"
  /\ p.kind = "upload" => buffer[(p.id % Pieces) + 1] = p.id \div Pieces
  /\ p.kind = "copy" => flash[p.id] = "whole"

FlashCarried ==
  Orderly /\ Flash!InRange =>
    /\ \A j \in Answered : toHost[j].kind = "ack" => Carried(toHost[j].to)
    /\ phase = "done" /\ outcome = "OK" /\ answer.kind = "ack" => Carried(answer.to)

FlashProgress ==
  Orderly /\ Flash!InRange =>
    /\ \A a \in Flash!Sectors : flash[a] # "mixed"
    /\ Doing \in {"idle", "info", "info_data", "clear"} => \A a \in Flash!Sectors : flash[a] # "whole"
    /\ Doing = "clear" => \A a \in 1 .. addr - 1 : flash[a] = "cleared"
    /\ Doing \in {"upload", "copy"} =>
         /\ \A a \in 1 .. max_addr - 1 : flash[a] \in {"cleared", "whole"}
         /\ IF addr = 1 THEN \A a \in 2 .. image - 1 : flash[a] = "whole"
            ELSE flash[1] = "cleared" /\ \A a \in 2 .. addr - 1 : flash[a] = "whole"
         /\ \A n \in 1 .. Pieces : Doing = "copy" \/ n < piece => buffer[n] = addr
    /\ Doing = "finish" => \A a \in 1 .. image - 1 : flash[a] = "whole"

FlashTypes == ExchangeTypeOK /\ Flash!TypeOK /\ result \in Outcomes

FlashInv ==
  /\ FlashTypes /\ FlashStages /\ FlashLocks
  /\ FlashPackets /\ FlashCarried /\ FlashProgress /\ Survives

(* A piece of a sector is known by both numbers.                           *)
LEMMA PieceNumbers ==
  ASSUME NEW a \in Nat, NEW q \in Nat \ {0}, NEW n \in 1 .. q
  PROVE  /\ a * q + n - 1 \in Nat
         /\ (a * q + n - 1) % q = n - 1 /\ (a * q + n - 1) \div q = a
OBVIOUS

(* The exchange of SevenFlash is that of the first part.                   *)
LEMMA FlashExchanges ==
  /\ Flash!ExchangeInit <=> ExchangeInit
  /\ \A p, f : Flash!StartExchange(p, f) <=> StartExchange(p, f)
  /\ Flash!ExchangeReturns <=> ExchangeReturns
  /\ \A k : Flash!DeviceAnswers(k) <=> DeviceAnswers(k)
  /\ \A k, n : Flash!Packet(k, n) = Packet(k, n)
  /\ \A k, p : Flash!Answer(k, p) = Answer(k, p)
<1>1. Flash!ExchangeInit <=> ExchangeInit
  BY DEF Flash!ExchangeInit, ExchangeInit, Flash!NoPacket, NoPacket, Flash!NoAnswer, NoAnswer,
         Flash!Answer, Answer, Flash!Numbered, Numbered, Flash!Packet, Packet
<1>2. \A p, f : Flash!StartExchange(p, f) <=> StartExchange(p, f)
  BY DEF Flash!StartExchange, StartExchange, Flash!InitialAttempts, InitialAttempts, Flash!Finish, Finish
<1>3. Flash!ExchangeReturns <=> ExchangeReturns
  BY DEF Flash!ExchangeReturns, ExchangeReturns, Flash!wireVars, wireVars
<1>4. \A k : Flash!DeviceAnswers(k) <=> DeviceAnswers(k)
  BY DEF Flash!DeviceAnswers, DeviceAnswers, Flash!DeviceSends, DeviceSends, Flash!Answer, Answer,
         Flash!Numbered, Numbered, Flash!hostVars, hostVars
<1>5. \A k, n : Flash!Packet(k, n) = Packet(k, n)
  BY DEF Flash!Packet, Packet
<1>6. \A k, p : Flash!Answer(k, p) = Answer(k, p)
  BY DEF Flash!Answer, Answer, Flash!Numbered, Numbered
<1> QED
  BY <1>1, <1>2, <1>3, <1>4, <1>5, <1>6

LEMMA FlashGoesOn == (Flash!ExchangeStep \/ Flash!Unplugged \/ Flash!Wire) <=> StepOrWire
<1> USE DEF Flash!Receive, Receive, Flash!Finish, Finish, Flash!TryAgain, TryAgain, Flash!TimeRunsOut,
            TimeRunsOut, Flash!InitialAttempts, InitialAttempts, Flash!AnswerKinds, AnswerKinds,
            Flash!DamageErrors, DamageErrors, Flash!timeout_check_packet, timeout_check_packet,
            Flash!Packet, Packet
<1>1. Flash!ReceiveDamaged <=> ReceiveDamaged
  BY DEF Flash!ReceiveDamaged, ReceiveDamaged
<1>2. Flash!ReceiveAnswer <=> ReceiveAnswer
  BY DEF Flash!ReceiveAnswer, ReceiveAnswer
<1>3. Flash!ReceiveResend <=> ReceiveResend
  BY DEF Flash!ReceiveResend, ReceiveResend
<1>4. Flash!ReceiveCheckAnswer <=> ReceiveCheckAnswer
  BY DEF Flash!ReceiveCheckAnswer, ReceiveCheckAnswer
<1>5. Flash!AnswerTimesOut <=> AnswerTimesOut
  BY DEF Flash!AnswerTimesOut, AnswerTimesOut
<1>6. Flash!CheckTimesOut <=> CheckTimesOut
  BY DEF Flash!CheckTimesOut, CheckTimesOut
<1>7. Flash!Unplugged <=> Unplugged
  BY DEF Flash!Unplugged, Unplugged, Flash!wireVars, wireVars
<1>8. Flash!Wire <=> Wire
  BY DEF Flash!Wire, Wire, Flash!LosePacket, LosePacket, Flash!DamagePacket, DamagePacket,
         Flash!hostVars, hostVars
<1> HIDE DEF Flash!Receive, Receive, Flash!Finish, Finish, Flash!TryAgain, TryAgain, Flash!TimeRunsOut,
            TimeRunsOut, Flash!InitialAttempts, InitialAttempts, Flash!AnswerKinds, AnswerKinds,
            Flash!DamageErrors, DamageErrors, Flash!timeout_check_packet, timeout_check_packet,
            Flash!Packet, Packet
<1> QED
  BY <1>1, <1>2, <1>3, <1>4, <1>5, <1>6, <1>7, <1>8 DEF Flash!ExchangeStep, ExchangeStep, StepOrWire

-----------------------------------------------------------------------------
(* The steps of the function that take the outcome of an exchange.         *)
FlashReturns ==
  /\ phase = "done" /\ phase' = "idle" /\ step \in FlashCommands \cup {"info_data"}
  /\ UNCHANGED <<wireVars, packet, flags, attempts, outcome, answer, irrecoverable, gone>>
  /\ UNCHANGED <<image, max_addr, buffer, flash>>

LEMMA FlashReturnKeeps ==
  ASSUME FlashInv, FlashReturns
  PROVE  /\ ExchangeTypeOK' /\ FlashPackets' /\ FlashCarried' /\ Survives' /\ (Orderly' <=> Orderly)
         /\ (Quiet' <=> Quiet) /\ (Usable' <=> Usable) /\ (Orderly => Lockstep')
         /\ Flash!InRange' <=> Flash!InRange
         /\ \A p : Carried(p)' <=> Carried(p)
<1>1. ExchangeTypeOK'
  BY DEF FlashInv, FlashTypes, ExchangeTypeOK, FlashReturns, wireVars
<1>2. FlashPackets' /\ Survives'
  BY DEF FlashInv, FlashPackets, Survives, FlashReturns, wireVars, Sent
<1>3. (Orderly' <=> Orderly) /\ (Quiet' <=> Quiet) /\ (Usable' <=> Usable) /\ (Flash!InRange' <=> Flash!InRange)
  BY DEF Orderly, Quiet, Usable, Flash!InRange, FlashReturns, wireVars
<1>4. Orderly => Lockstep'
  <2> SUFFICES ASSUME Orderly PROVE Lockstep'
    OBVIOUS
  <2>1. InLockstep
    BY DEF FlashInv, FlashTypes, FlashLocks, InLockstep
  <2> QED
    BY <2>1, ReturnLocks DEF FlashReturns
<1>5. \A p : Carried(p)' <=> Carried(p)
  BY DEF Carried, FlashReturns
<1>6. FlashCarried'
  BY <1>3, <1>5 DEF FlashInv, FlashCarried, FlashReturns, wireVars, Answered
<1> QED
  BY <1>1, <1>2, <1>3, <1>4, <1>5, <1>6

(* What the function has once its command is acknowledged.                 *)
LEMMA FlashAccepted ==
  ASSUME FlashInv, phase = "done", step \in FlashCommands \ {"info"}, Flash!Accepted
  PROVE  /\ Usable /\ packet = CommandOf /\ packet.kind = Doing
         /\ Orderly => Quiet
         /\ Orderly /\ Flash!InRange => Carried(packet)
<1>1. outcome = "OK" /\ answer.kind = "ack"
  BY DEF Flash!Accepted
<1>2. Usable /\ packet = CommandOf /\ Doing \in FlashKinds \ {"info"} /\ packet.kind = Doing
  BY <1>1 DEF FlashInv, FlashStages, Doing, FlashKinds, FlashCommands, CommandOf, Packet
<1>3. ASSUME Orderly PROVE Quiet /\ Same(answer.to, packet)
  BY <1>1, <1>2, <1>3 DEF FlashInv, FlashLocks, Lockstep, Over
<1>4. ASSUME Orderly, Flash!InRange PROVE Carried(packet)
  <2>1. Carried(answer.to)
    BY <1>1, <1>4 DEF FlashInv, FlashCarried
  <2> QED
    BY <1>3, <1>4, <2>1 DEF Carried, Same
<1> QED
  BY <1>2, <1>3, <1>4

(* The function gives up.                                                  *)
LEMMA FlashEnds ==
  ASSUME FlashInv, FlashReturns, Flash!End(result'), result' \in Outcomes \ {"none"}
  PROVE  /\ FlashTypes' /\ Doing' = (IF step = "info_data" THEN "info" ELSE Doing)
         /\ (result' = "OK" => step = "terminate" /\ Usable /\ (Orderly => Quiet)) => FlashStages' /\ FlashLocks'
         /\ (result' = "OK" => step = "terminate") => FlashProgress'
<1>1. /\ step' = "ended" /\ UNCHANGED <<image, max_addr, addr, piece, buffer, flash, packet, flags>> /\ phase' = "idle"
  BY DEF Flash!End, FlashReturns
<1>2. FlashTypes'
  BY <1>1, FlashReturnKeeps DEF FlashInv, FlashTypes, Flash!TypeOK, Flash!FlashSteps
<1>3. CASE step = "info_data"
  <2>1. packet.kind = "info" /\ packet = Packet("info", 0) /\ flags = {} /\ Doing = "info_data" /\ Doing' = "info"
    BY <1>1, <1>3 DEF FlashInv, FlashStages, Doing, Packet
  <2>2. CommandOf' = packet' /\ max_addr \in 2 .. FlashEnd
    BY <1>1, <1>3, <2>1 DEF CommandOf, FlashInv, FlashStages
  <2>3. (result' = "OK" => step = "terminate" /\ Usable /\ (Orderly => Quiet)) => FlashStages' /\ FlashLocks'
    BY <1>1, <1>3, <2>1, <2>2, FlashReturnKeeps DEF FlashStages, FlashLocks, FlashKinds, FlashCommands
  <2>4. FlashProgress'
    BY <1>1, <2>1, FlashReturnKeeps DEF FlashInv, FlashProgress
  <2> QED
    BY <1>2, <1>3, <2>1, <2>3, <2>4
<1>4. CASE step \in FlashCommands
  <2>1. packet = CommandOf /\ flags = {} /\ Doing \in FlashKinds /\ packet.kind = Doing /\ Doing' = Doing
    BY <1>1, <1>4 DEF FlashInv, FlashStages, Doing, CommandOf, Packet, FlashReturns, FlashKinds, FlashCommands
  <2>2. CommandOf' = packet'
    BY <1>1, <2>1 DEF CommandOf
  <2>3. (result' = "OK" => step = "terminate" /\ Usable /\ (Orderly => Quiet)) => FlashStages' /\ FlashLocks'
    <3>1. /\ max_addr \in 2 .. FlashEnd
          /\ Doing = "clear" => addr \in 1 .. max_addr - 1
          /\ Doing = "upload" => piece \in 1 .. Pieces
          /\ Doing \in {"upload", "copy"} => addr \in 1 .. image - 1
      BY <1>4 DEF FlashInv, FlashStages, FlashCommands
    <3>2. step = "terminate" => packet.kind = "finish"
      BY <2>1 DEF Doing
    <3> QED
      BY <1>1, <1>4, <2>1, <2>2, <3>1, <3>2, FlashReturnKeeps DEF FlashStages, FlashLocks, FlashKinds, FlashCommands
  <2>4. FlashProgress'
    BY <1>1, <2>1, FlashReturnKeeps DEF FlashInv, FlashProgress, FlashKinds
  <2> QED
    BY <1>2, <1>4, <2>1, <2>3, <2>4 DEF FlashCommands
<1> QED
  BY <1>3, <1>4 DEF FlashReturns

LEMMA CommandFailsPreserves ==
  ASSUME FlashInv, Flash!CommandFails
  PROVE  FlashInv'
<1>1. /\ ExchangeReturns /\ step \in FlashCommands /\ outcome \in Outcomes \ {"none"} /\ phase = "done"
      /\ Flash!End(IF outcome = "OK" THEN "UNKNOWN" ELSE outcome)
  BY FlashExchanges DEF Flash!CommandFails, FlashCommands, ExchangeReturns, FlashInv, FlashStages, FlashTypes,
     ExchangeTypeOK
<1>2. result' = IF outcome = "OK" THEN "UNKNOWN" ELSE outcome
  BY <1>1 DEF Flash!End
<1>3. result' \in Outcomes \ {"none", "OK"} /\ Flash!End(result')
  BY <1>1, <1>2, UnknownIs
<1>4. FlashReturns
  BY <1>1 DEF FlashReturns, ExchangeReturns, Flash!End
<1> QED
  BY <1>3, <1>4, FlashEnds, FlashReturnKeeps DEF FlashInv

(* The function goes on with another command.                              *)
LEMMA FlashMovesOn ==
  ASSUME FlashInv, FlashReturns, Usable, Orderly => Quiet,
         step' \in {"clear", "upload", "copy", "terminate"}, result' = result,
         addr' \in Flash!Sectors, piece' \in 0 .. Pieces,
         step' = "clear" => addr' \in 1 .. max_addr - 1,
         step' = "upload" => piece' \in 1 .. Pieces,
         step' \in {"upload", "copy"} => addr' \in 1 .. image - 1,
         FlashProgress'
  PROVE  FlashInv'
<1>1. phase' = "idle" /\ UNCHANGED <<image, max_addr, buffer, flash, packet, flags>> /\ step \notin {"idle", "ended"}
  BY DEF FlashReturns, FlashCommands
<1>2. result = "none" /\ max_addr \in 2 .. FlashEnd
  BY <1>1 DEF FlashInv, FlashStages, FlashTypes
<1>3. FlashTypes'
  BY <1>1, FlashReturnKeeps DEF FlashInv, FlashTypes, Flash!TypeOK, Flash!FlashSteps
<1>4. Doing' = IF step' = "terminate" THEN "finish" ELSE step'
  BY DEF Doing
<1>5. FlashStages'
  BY <1>1, <1>2, <1>4, FlashReturnKeeps DEF FlashStages
<1>6. FlashLocks'
  BY <1>1, <1>2, FlashReturnKeeps DEF FlashLocks
<1> QED
  BY <1>3, <1>5, <1>6, FlashReturnKeeps DEF FlashInv

LEMMA InfoReceivedPreserves ==
  ASSUME FlashInv, Flash!InfoReceived
  PROVE  FlashInv'
<1>1. step = "info_data" /\ phase = "done" /\ FlashReturns /\ outcome \in Outcomes \ {"none"}
  BY FlashExchanges DEF Flash!InfoReceived, ExchangeReturns, FlashReturns, Flash!GoTo, Flash!End,
     FlashInv, FlashStages, FlashTypes, ExchangeTypeOK
<1>2. CASE outcome = "OK"
  <2>1. step' = "clear" /\ addr' = 1 /\ piece' = 0 /\ result' = result /\ UNCHANGED <<image, flash>>
    BY <1>2 DEF Flash!InfoReceived, Flash!GoTo
  <2>2. max_addr \in 2 .. FlashEnd /\ Usable /\ Doing = "info_data" /\ Doing' = "clear"
    BY <1>1, <1>2, <2>1 DEF FlashInv, FlashStages, Doing
  <2>3. Orderly => Quiet
    BY <1>1, <1>2 DEF FlashInv, FlashLocks
  <2>4. 1 \in 1 .. max_addr - 1 /\ 1 \in Flash!Sectors /\ 0 \in 0 .. Pieces
    BY <2>2, SectorsAssumption DEF Flash!Sectors
  <2>5. FlashProgress'
    <3>1. \A a \in 1 .. addr' - 1 : FALSE
      BY <2>1
    <3> QED
      BY <2>1, <2>2, <3>1, <1>1, FlashReturnKeeps DEF FlashInv, FlashProgress
  <2> QED
    BY <1>1, <2>1, <2>2, <2>3, <2>4, <2>5, FlashMovesOn
<1>3. CASE outcome # "OK"
  <2>1. Flash!End(result') /\ result' = outcome
    BY <1>3 DEF Flash!InfoReceived, Flash!End
  <2> QED
    BY <1>1, <1>3, <2>1, FlashEnds, FlashReturnKeeps DEF FlashInv
<1> QED
  BY <1>2, <1>3

LEMMA SectorClearedPreserves ==
  ASSUME FlashInv, Flash!SectorCleared
  PROVE  FlashInv'
<1>1. step = "clear" /\ phase = "done" /\ FlashReturns /\ Flash!Accepted /\ step \in FlashCommands \ {"info"}
  BY FlashExchanges DEF Flash!SectorCleared, ExchangeReturns, FlashReturns, Flash!GoTo, FlashCommands
<1>2. UNCHANGED <<image, max_addr, result, buffer, flash>>
  BY DEF Flash!SectorCleared, Flash!GoTo
<1>3. /\ Doing = "clear" /\ Usable /\ packet = Packet("clear", addr)
      /\ Orderly => Quiet
      /\ Orderly /\ Flash!InRange => Carried(packet)
  BY <1>1, FlashAccepted DEF CommandOf, Doing
<1>4. /\ addr \in 1 .. max_addr - 1 /\ max_addr \in 2 .. FlashEnd /\ image \in 0 .. FlashEnd /\ FlashEnd \in Nat
      /\ Pieces \in Nat \ {0}
  BY <1>1, <1>3, SectorsAssumption DEF FlashInv, FlashStages, FlashTypes, Flash!TypeOK
<1>5. ASSUME Orderly, Flash!InRange
      PROVE  /\ \A a \in Flash!Sectors : flash[a] \notin {"mixed", "whole"}
             /\ \A a \in 1 .. addr : flash[a] = "cleared"
  <2>1. flash[addr] = "cleared"
    BY <1>3, <1>5 DEF Carried, Packet
  <2>2. \A a \in 1 .. addr : a = addr \/ a \in 1 .. addr - 1
    BY <1>4
  <2> QED
    BY <1>3, <1>5, <2>1, <2>2 DEF FlashInv, FlashProgress
<1>6. CASE addr + 1 < max_addr
  <2>1. step' = "clear" /\ addr' = addr + 1 /\ piece' = 0
    BY <1>6 DEF Flash!SectorCleared, Flash!GoTo
  <2>2. addr' \in 1 .. max_addr - 1 /\ addr' \in Flash!Sectors /\ piece' \in 0 .. Pieces /\ addr' - 1 = addr
    BY <1>4, <1>6, <2>1 DEF Flash!Sectors
  <2>3. Doing' = "clear"
    BY <2>1 DEF Doing
  <2>4. FlashProgress'
    BY <1>1, <1>2, <1>5, <2>2, <2>3, FlashReturnKeeps DEF FlashProgress
  <2> QED
    BY <1>1, <1>2, <1>3, <2>1, <2>2, <2>4, FlashMovesOn
<1>7. CASE ~(addr + 1 < max_addr)
  <2>1. addr = max_addr - 1
    BY <1>4, <1>7
  <2>2. step' = Flash!AfterClear[1] /\ addr' = Flash!AfterClear[2] /\ piece' = 1
    BY <1>7 DEF Flash!SectorCleared, Flash!GoTo
  <2>3. \/ image > 2 /\ step' = "upload" /\ addr' = 2
        \/ image = 2 /\ step' = "upload" /\ addr' = 1
        \/ image <= 1 /\ step' = "terminate" /\ addr' = 0
    BY <1>4, <2>2 DEF Flash!AfterClear
  <2>4. /\ addr' \in Flash!Sectors /\ piece' \in 1 .. Pieces /\ piece' \in 0 .. Pieces
        /\ step' = "upload" => addr' \in 1 .. image - 1
    BY <1>4, <2>2, <2>3 DEF Flash!Sectors
  <2>5. Doing' = IF step' = "terminate" THEN "finish" ELSE step'
    BY <2>3 DEF Doing
  <2>6. FlashProgress'
    <3> SUFFICES ASSUME Orderly, Flash!InRange PROVE FlashProgress'
      BY <1>1, FlashReturnKeeps DEF FlashProgress
    <3>1. /\ \A a \in Flash!Sectors : flash[a] \notin {"mixed", "whole"}
          /\ \A a \in 1 .. max_addr - 1 : flash[a] = "cleared"
      BY <1>5, <2>1
    <3>2. flash[1] = "cleared"
      BY <1>4, <3>1
    <3>3. \A n \in 1 .. Pieces : ~(n < 1)
      BY <1>4
    <3>4. CASE step' = "upload"
      <4>1. (image > 2 /\ addr' = 2) \/ (image = 2 /\ addr' = 1)
        BY <2>3, <3>4
      <4>2. image = 2 => \A a \in 2 .. image - 1 : FALSE
        OBVIOUS
      <4>3. \A a \in 2 .. 2 - 1 : FALSE
        OBVIOUS
      <4> QED
        BY <1>2, <2>2, <2>5, <3>1, <3>2, <3>3, <3>4, <4>1, <4>2, <4>3 DEF FlashProgress
    <3>5. CASE step' = "terminate"
      <4>1. \A a \in 1 .. image - 1 : FALSE
        BY <1>4, <2>3, <3>5
      <4> QED
        BY <1>2, <2>5, <3>1, <3>5, <4>1 DEF FlashProgress
    <3> QED
      BY <2>3, <3>4, <3>5
  <2> QED
    BY <1>1, <1>2, <1>3, <2>3, <2>4, <2>6, FlashMovesOn
<1> QED
  BY <1>6, <1>7

LEMMA PieceUploadedPreserves ==
  ASSUME FlashInv, Flash!PieceUploaded
  PROVE  FlashInv'
<1>1. step = "upload" /\ phase = "done" /\ FlashReturns /\ Flash!Accepted /\ step \in FlashCommands \ {"info"}
  BY FlashExchanges DEF Flash!PieceUploaded, ExchangeReturns, FlashReturns, Flash!GoTo, FlashCommands
<1>2. UNCHANGED <<image, max_addr, result, buffer, flash, addr>>
  BY DEF Flash!PieceUploaded, Flash!GoTo
<1>3. /\ Doing = "upload" /\ Usable /\ packet = Packet("upload", addr * Pieces + piece - 1)
      /\ Orderly => Quiet
      /\ Orderly /\ Flash!InRange => Carried(packet)
  BY <1>1, FlashAccepted DEF CommandOf, Doing
<1>4. /\ addr \in 1 .. image - 1 /\ addr \in Flash!Sectors /\ piece \in 1 .. Pieces /\ Pieces \in Nat \ {0}
      /\ addr \in Nat /\ image \in 0 .. FlashEnd
  BY <1>1, <1>3, SectorsAssumption DEF FlashInv, FlashStages, FlashTypes, Flash!TypeOK, Flash!Sectors
<1>5. ASSUME Orderly, Flash!InRange
      PROVE  \A n \in 1 .. piece : buffer[n] = addr
  <2>1. buffer[((addr * Pieces + piece - 1) % Pieces) + 1] = (addr * Pieces + piece - 1) \div Pieces
    BY <1>3, <1>5 DEF Carried, Packet
  <2>2. /\ (addr * Pieces + piece - 1) % Pieces = piece - 1
        /\ (addr * Pieces + piece - 1) \div Pieces = addr
    BY <1>4, PieceNumbers
  <2>3. buffer[piece] = addr
    BY <1>4, <2>1, <2>2
  <2>4. \A n \in 1 .. piece : n = piece \/ (n \in 1 .. Pieces /\ n < piece)
    BY <1>4
  <2> QED
    BY <1>3, <1>5, <2>3, <2>4 DEF FlashInv, FlashProgress
<1>6. /\ step' \in {"upload", "copy"} /\ Doing' = step'
      /\ step' = "upload" => piece < Pieces /\ piece' = piece + 1
      /\ step' = "copy" => piece' = piece /\ ~(piece < Pieces)
  BY DEF Flash!PieceUploaded, Flash!GoTo, Doing
<1>7. piece' \in 0 .. Pieces /\ (step' = "upload" => piece' \in 1 .. Pieces)
  BY <1>4, <1>6
<1>8. FlashProgress'
  <2> SUFFICES ASSUME Orderly, Flash!InRange PROVE FlashProgress'
    BY <1>1, FlashReturnKeeps DEF FlashProgress
  <2>1. \A n \in 1 .. Pieces : Doing' = "copy" \/ n < piece' => n \in 1 .. piece
    BY <1>4, <1>6
  <2>2. \A n \in 1 .. Pieces : Doing' = "copy" \/ n < piece' => buffer[n] = addr
    BY <1>5, <2>1
  <2> QED
    BY <1>2, <1>3, <1>6, <2>2 DEF FlashInv, FlashProgress
<1> QED
  BY <1>1, <1>2, <1>3, <1>4, <1>6, <1>7, <1>8, FlashMovesOn

LEMMA SectorCopiedPreserves ==
  ASSUME FlashInv, Flash!SectorCopied
  PROVE  FlashInv'
<1>1. step = "copy" /\ phase = "done" /\ FlashReturns /\ Flash!Accepted /\ step \in FlashCommands \ {"info"}
  BY FlashExchanges DEF Flash!SectorCopied, ExchangeReturns, FlashReturns, Flash!GoTo, FlashCommands
<1>2. UNCHANGED <<image, max_addr, result, buffer, flash>>
  BY DEF Flash!SectorCopied, Flash!GoTo
<1>3. /\ Doing = "copy" /\ Usable /\ packet = Packet("copy", addr)
      /\ Orderly => Quiet
      /\ Orderly /\ Flash!InRange => Carried(packet)
  BY <1>1, FlashAccepted DEF CommandOf, Doing
<1>4. /\ addr \in 1 .. image - 1 /\ addr \in Flash!Sectors /\ Pieces \in Nat \ {0}
      /\ addr \in Nat /\ image \in 0 .. FlashEnd /\ FlashEnd \in Nat
  BY <1>1, <1>3, SectorsAssumption DEF FlashInv, FlashStages, FlashTypes, Flash!TypeOK, Flash!Sectors
<1>5. step' = Flash!AfterCopy[1] /\ addr' = Flash!AfterCopy[2] /\ piece' = 1
  BY DEF Flash!SectorCopied, Flash!GoTo
<1>6. \/ addr # 1 /\ addr + 1 < image /\ step' = "upload" /\ addr' = addr + 1
      \/ addr # 1 /\ addr + 1 = image /\ step' = "upload" /\ addr' = 1
      \/ addr = 1 /\ step' = "terminate" /\ addr' = 0
  BY <1>4, <1>5 DEF Flash!AfterCopy
<1>7. /\ addr' \in Flash!Sectors /\ piece' \in 1 .. Pieces /\ piece' \in 0 .. Pieces
      /\ step' = "upload" => addr' \in 1 .. image - 1
  BY <1>4, <1>5, <1>6 DEF Flash!Sectors
<1>8. Doing' = IF step' = "terminate" THEN "finish" ELSE step'
  BY <1>6 DEF Doing
<1>9. FlashProgress'
  <2> SUFFICES ASSUME Orderly, Flash!InRange PROVE FlashProgress'
    BY <1>1, FlashReturnKeeps DEF FlashProgress
  <2>1. flash[addr] = "whole"
    BY <1>3 DEF Carried, Packet
  <2>2. /\ \A a \in Flash!Sectors : flash[a] # "mixed"
        /\ \A a \in 1 .. max_addr - 1 : flash[a] \in {"cleared", "whole"}
        /\ IF addr = 1 THEN \A a \in 2 .. image - 1 : flash[a] = "whole"
           ELSE flash[1] = "cleared" /\ \A a \in 2 .. addr - 1 : flash[a] = "whole"
    BY <1>3 DEF FlashInv, FlashProgress
  <2>3. \A n \in 1 .. Pieces : ~(n < 1)
    BY <1>4
  <2>4. CASE addr # 1 /\ addr + 1 < image /\ step' = "upload" /\ addr' = addr + 1
    <3>1. \A a \in 2 .. addr' - 1 : a = addr \/ a \in 2 .. addr - 1
      BY <1>4, <2>4
    <3>2. addr' # 1
      BY <1>4, <2>4
    <3> QED
      BY <1>2, <1>5, <1>8, <2>1, <2>2, <2>3, <2>4, <3>1, <3>2 DEF FlashProgress
  <2>5. CASE addr # 1 /\ addr + 1 = image /\ step' = "upload" /\ addr' = 1
    <3>1. \A a \in 2 .. image - 1 : a = addr \/ a \in 2 .. addr - 1
      BY <1>4, <2>5
    <3> QED
      BY <1>2, <1>5, <1>8, <2>1, <2>2, <2>3, <2>5, <3>1 DEF FlashProgress
  <2>6. CASE addr = 1 /\ step' = "terminate" /\ addr' = 0
    <3>1. \A a \in 1 .. image - 1 : a = addr \/ a \in 2 .. image - 1
      BY <1>4, <2>6
    <3> QED
      BY <1>2, <1>8, <2>1, <2>2, <2>6, <3>1 DEF FlashProgress
  <2> QED
    BY <1>6, <2>4, <2>5, <2>6
<1> QED
  BY <1>1, <1>2, <1>3, <1>6, <1>7, <1>9, FlashMovesOn

LEMMA TerminatedPreserves ==
  ASSUME FlashInv, Flash!Terminated
  PROVE  FlashInv'
<1>1. step = "terminate" /\ phase = "done" /\ FlashReturns /\ Flash!Accepted /\ step \in FlashCommands \ {"info"}
  BY FlashExchanges DEF Flash!Terminated, ExchangeReturns, FlashReturns, Flash!End, FlashCommands
<1>2. Flash!End(result') /\ result' = "OK"
  BY DEF Flash!Terminated, Flash!End
<1>3. Usable /\ (Orderly => Quiet)
  BY <1>1, FlashAccepted
<1>4. "OK" \in Outcomes \ {"none"}
  BY DEF Outcomes
<1> QED
  BY <1>1, <1>2, <1>3, <1>4, FlashEnds, FlashReturnKeeps DEF FlashInv

(* The acknowledgement of the first command, whose data come next.         *)
LEMMA InfoAcceptedPreserves ==
  ASSUME FlashInv, Flash!InfoAccepted
  PROVE  FlashInv'
<1>1. /\ step = "info" /\ phase = "done" /\ outcome = "OK" /\ phase' = "receive" /\ step' = "info_data"
      /\ UNCHANGED <<wireVars, packet, flags, attempts, outcome, answer, irrecoverable, gone>>
      /\ UNCHANGED <<image, max_addr, result, buffer, flash, addr, piece>>
  BY DEF Flash!InfoAccepted, Flash!Accepted, Flash!GoTo, Flash!wireVars, wireVars
<1>2. /\ Doing = "info" /\ Doing' = "info_data" /\ packet = Packet("info", 0) /\ flags = {} /\ Usable
      /\ max_addr \in 2 .. FlashEnd
  BY <1>1 DEF FlashInv, FlashStages, Doing, FlashKinds, CommandOf
<1>3. FlashTypes'
  BY <1>1 DEF FlashInv, FlashTypes, Flash!TypeOK, Flash!FlashSteps, ExchangeTypeOK, wireVars
<1>4. (Usable' <=> Usable) /\ (Orderly' <=> Orderly) /\ (InfoLeft' <=> InfoLeft) /\ Survives' /\ FlashPackets'
      /\ result = "none"
  BY <1>1 DEF Usable, Orderly, InfoLeft, Answered, Survives, FlashInv, FlashPackets, Sent, wireVars, FlashStages
<1>5. FlashStages'
  BY <1>1, <1>2, <1>4 DEF FlashStages, FlashKinds
<1>6. FlashLocks'
  <2> SUFFICES ASSUME Orderly PROVE FlashLocks'
    BY <1>4 DEF FlashLocks
  <2>1. InLockstep /\ InfoLeft
    BY <1>1 DEF FlashInv, FlashTypes, FlashLocks, InLockstep
  <2>2. NoCheck'
    <3>1. Sent' = {} /\ \A j \in Answered' : toHost'[j].to.kind # "check"
      BY <1>1, <2>1 DEF InfoLeft, Sent, Answered, wireVars
    <3> QED
      BY <3>1 DEF NoCheck
  <2>3. Lockstep'
    BY <1>1, <2>1, <2>2, ReturnLocks
  <2> QED
    BY <1>1, <1>4, <2>1, <2>3 DEF FlashLocks, FlashCommands
<1>7. FlashCarried'
  BY <1>1, <1>4 DEF FlashInv, FlashCarried, Carried, Answered, Flash!InRange, wireVars
<1>8. FlashProgress'
  BY <1>1, <1>2, <1>4 DEF FlashInv, FlashProgress, Flash!InRange
<1> QED
  BY <1>3, <1>4, <1>5, <1>6, <1>7, <1>8 DEF FlashInv

(* A command goes out.                                                     *)
LEMMA FlashSendPreserves ==
  ASSUME FlashInv, Flash!SendCommand
  PROVE  FlashInv'
<1>1. /\ step \in FlashCommands /\ UNCHANGED <<step, image, max_addr, addr, piece, result, buffer, flash>>
      /\ Doing \in FlashKinds /\ Doing' = Doing /\ CommandOf' = CommandOf
  BY DEF Flash!SendCommand, Flash!flashVars, FlashCommands, FlashKinds, Doing, CommandOf
<1>2. StartExchange(CommandOf, {})
  <2>1. Flash!Command = CommandOf
    BY <1>1, FlashExchanges DEF Flash!Command, CommandOf, Doing, FlashCommands
  <2> QED
    BY <2>1, FlashExchanges DEF Flash!SendCommand
<1>3. /\ addr \in Nat /\ Pieces \in Nat \ {0} /\ (Doing = "upload" => piece \in 1 .. Pieces)
      /\ addr \in Flash!Sectors
  BY <1>1, SectorsAssumption DEF FlashInv, FlashTypes, Flash!TypeOK, Flash!Sectors, FlashStages
<1>4. CommandOf \in HostPackets /\ CommandOf.intact /\ CommandOf.kind = Doing /\ FlashPacket(CommandOf)
  <2>1. CASE Doing \in {"info", "finish", "clear", "copy"}
    BY <1>1, <1>3, <2>1, PacketsAre DEF CommandOf, FlashPacket, FlashKinds, PacketKinds
  <2>2. CASE Doing = "upload"
    <3>1. /\ addr * Pieces + piece - 1 \in Nat
          /\ (addr * Pieces + piece - 1) \div Pieces = addr
      BY <1>3, <2>2, PieceNumbers
    <3>2. CommandOf = Packet("upload", addr * Pieces + piece - 1)
      BY <2>2 DEF CommandOf
    <3> QED
      BY <1>3, <2>2, <3>1, <3>2, PacketsAre DEF FlashPacket, FlashKinds, PacketKinds
  <2> QED
    BY <1>1, <2>1, <2>2 DEF FlashKinds
<1>5. {} \in SUBSET Flags
  OBVIOUS
<1>6. /\ phase = "idle" /\ packet' = CommandOf /\ flags' = {}
      /\ Sent' = Sent \cup {Len(toDevice) + 1} /\ toDevice'[Len(toDevice) + 1] = CommandOf
      /\ \A j \in Sent : toDevice'[j] = toDevice[j]
      /\ UNCHANGED <<toHost, lost, damaged, late, answer, irrecoverable, outcome, gone>> /\ phase' = "answer"
  BY <1>2, <1>4, <1>5, StartIs DEF FlashInv, FlashTypes
<1>7. result = "none" /\ step # "idle" /\ step # "ended" /\ step # "info_data"
  BY <1>1 DEF FlashInv, FlashStages, FlashCommands
<1>8. (Orderly' <=> Orderly) /\ (Usable' <=> Usable) /\ Usable /\ Survives'
  BY <1>1, <1>6, <1>7 DEF Orderly, Usable, Survives, FlashInv, FlashStages
<1>9. FlashTypes'
  BY <1>1, <1>2, <1>4, <1>5, StartIsTyped DEF FlashInv, FlashTypes, Flash!TypeOK
<1>10. FlashStages'
  BY <1>1, <1>6, <1>7, <1>8 DEF FlashInv, FlashStages
<1>11. FlashLocks'
  <2> SUFFICES ASSUME Orderly PROVE FlashLocks'
    BY <1>8 DEF FlashLocks
  <2>1. Quiet
    BY <1>1, <1>6 DEF FlashInv, FlashLocks
  <2>2. Lockstep'
    BY <1>1, <1>2, <1>4, <2>1, StartLocks DEF FlashInv, FlashTypes, FlashKinds
  <2> QED
    BY <1>1, <1>6, <1>7, <2>2 DEF FlashLocks
<1>12. FlashPackets'
  <2>1. \A j \in Sent' : FlashPacket(toDevice'[j])
    BY <1>4, <1>6 DEF FlashInv, FlashPackets
  <2> QED
    BY <1>4, <1>6, <2>1 DEF FlashPackets
<1>13. FlashCarried'
  BY <1>1, <1>6, <1>8 DEF FlashInv, FlashCarried, Carried, Answered, Flash!InRange
<1>14. FlashProgress'
  BY <1>1, <1>8 DEF FlashInv, FlashProgress, Flash!InRange
<1> QED
  BY <1>8, <1>9, <1>10, <1>11, <1>12, <1>13, <1>14 DEF FlashInv

(* The call.                                                               *)
LEMMA FlashBeginPreserves ==
  ASSUME FlashInv, NEW n \in 1 .. FlashEnd, NEW reset \in BOOLEAN, Flash!Begin(n, reset)
  PROVE  FlashInv'
<1>1. /\ step = "idle" /\ step' = "info" /\ image' = n /\ max_addr' = IF reset THEN FlashEnd ELSE SystemEnd
      /\ UNCHANGED <<toDevice, toHost, lost, damaged, late, phase, packet, flags, attempts, outcome, answer,
                     irrecoverable, gone>>
      /\ UNCHANGED <<addr, piece, result, buffer, flash>>
  BY DEF Flash!Begin, Flash!exchangeVars, Flash!wireVars, Flash!hostVars
<1>2. /\ phase = "idle" /\ Quiet /\ packet = NoPacket /\ Usable /\ result = "none"
      /\ Doing = "idle" /\ Doing' = "info"
  BY <1>1 DEF FlashInv, FlashStages, Doing
<1>3. (Orderly' <=> Orderly) /\ Quiet' /\ Usable' /\ Survives' /\ Sent' = {} /\ Answered' = {}
  BY <1>1, <1>2 DEF Orderly, Quiet, Usable, FlashInv, Survives, Sent, Answered
<1>4. FlashTypes' /\ max_addr' \in 2 .. FlashEnd
  BY <1>1, SectorsAssumption DEF FlashInv, FlashTypes, Flash!TypeOK, Flash!FlashSteps, ExchangeTypeOK
<1>5. FlashStages'
  BY <1>1, <1>2, <1>3, <1>4 DEF FlashStages
<1>6. FlashLocks'
  <2>1. Lockstep'
    BY <1>1, <1>2, <1>3, QuietLocks, PacketsAre
  <2> QED
    BY <1>1, <1>2, <1>3, <2>1 DEF FlashLocks
<1>7. FlashPackets' /\ FlashCarried'
  BY <1>1, <1>2, <1>3 DEF FlashPackets, FlashCarried
<1>8. FlashProgress'
  <2>1. Orderly => \A a \in Flash!Sectors : flash[a] \notin {"mixed", "whole"}
    BY <1>1, <1>2 DEF FlashInv, FlashStages, FlashProgress, Flash!InRange
  <2> QED
    BY <1>1, <1>2, <1>3, <2>1 DEF FlashProgress
<1> QED
  BY <1>3, <1>4, <1>5, <1>6, <1>7, <1>8 DEF FlashInv

-----------------------------------------------------------------------------
(* The exchange.                                                           *)
LEMMA InfoIsAcknowledged ==
  ASSUME InLockstep, phase = "answer", NEW kinds, Receive(kinds), UNCHANGED toDevice,
         toHost[1].kind # "resend" \/ packet.kind = "info"
  PROVE  InfoLeft'
<1>1. /\ \A j \in Answered' : j + 1 \in Answered /\ toHost'[j] = toHost[j + 1]
      /\ 1 \in Answered /\ Len(toHost') = Len(toHost) - 1 /\ Len(toHost) \in Nat \ {0}
  BY ReceptionTakes DEF InLockstep
<1>2. /\ \A j \in Sent : toDevice[j].kind # "check"
      /\ \A j \in Answered : toHost[j].to.kind # "check"
      /\ \A j \in Answered, k \in Sent : Before(toHost[j].to, toDevice[k])
      /\ \A j, k \in Answered : j < k => Before(toHost[j].to, toHost[k].to) \/ TwoAnswers(j, k)
  BY DEF InLockstep, Lockstep, NoCheck, InOrder
<1>3. toDevice' = <<>>
  <2>1. 1 \notin Sent
    BY <1>1, <1>2 DEF Before
  <2>2. toDevice = <<>> <=> Len(toDevice) = 0
    BY EmptyOf DEF InLockstep, ExchangeTypeOK
  <2>3. Len(toDevice) \in Nat
    BY EmptyOf DEF InLockstep, ExchangeTypeOK
  <2> QED
    BY <2>1, <2>2, <2>3 DEF Sent
<1>4. Len(toHost) <= 2
  <2>1. ASSUME 3 \in Answered PROVE FALSE
    BY <1>1, <1>2, <2>1 DEF Before, TwoAnswers
  <2> QED
    BY <1>1, <2>1 DEF Answered
<1>5. Len(toHost') <= 1 /\ \A j \in Answered' : toHost'[j].to.kind # "check"
  BY <1>1, <1>2, <1>4
<1> QED
  BY <1>3, <1>5 DEF InfoLeft

LEMMA InfoLeftShrinks ==
  ASSUME ExchangeTypeOK, InfoLeft, Wire
  PROVE  InfoLeft'
<1>1. toDevice' = <<>> /\ toHost \in Seq(DevicePackets)
  BY DEF InfoLeft, Wire, LosePacket, DamagePacket, ExchangeTypeOK
<1>2. \A j \in Answered' : toHost'[j].to.kind # "check"
  BY AnsweredKeeps DEF InfoLeft, StepOrWire
<1>3. CASE DamagePacket
  BY <1>1, <1>2, <1>3, DamageIs DEF InfoLeft
<1>4. CASE LosePacket
  <2>1. Len(toHost') = Len(toHost) - 1 /\ Len(toHost) \in Nat
    BY <1>1, <1>4, TailOf DEF LosePacket, InfoLeft
  <2> QED
    BY <1>1, <1>2, <2>1 DEF InfoLeft
<1> QED
  BY <1>3, <1>4 DEF Wire

LEMMA InfoLocked ==
  ASSUME FlashInv, Orderly, StepOrWire, UNCHANGED step
  PROVE  /\ step' = "info" /\ phase' = "done" /\ outcome' = "OK" => InfoLeft'
         /\ step' = "info_data" /\ phase' = "receive" => InfoLeft'
         /\ step' = "info_data" /\ phase' = "done" /\ outcome' = "OK" => Quiet'
<1>1. InLockstep
  BY DEF FlashInv, FlashTypes, FlashLocks, InLockstep
<1>2. /\ step = "info" /\ phase = "done" /\ outcome = "OK" => InfoLeft
      /\ step = "info_data" /\ phase = "receive" => InfoLeft
      /\ step = "info_data" /\ phase = "done" /\ outcome = "OK" => Quiet
      /\ step = "info" => phase # "receive"
      /\ step = "info" /\ phase = "answer" => packet.kind = "info"
      /\ step = "info_data" => phase \in {"receive", "done"}
  BY PacketsAre DEF FlashInv, FlashLocks, FlashStages, Doing, FlashKinds, CommandOf, PacketKinds
<1>3. CASE Wire
  <2>1. ~Quiet /\ UNCHANGED <<phase, outcome>>
    BY <1>3, DamageIs DEF Wire, LosePacket, Quiet, FlashInv, FlashTypes, hostVars
  <2>2. InfoLeft => InfoLeft'
    BY <1>1, <1>3, InfoLeftShrinks DEF InLockstep
  <2> QED
    BY <1>2, <2>1, <2>2
<1>4. CASE ReceiveAnswer \/ ReceiveResend
  <2>1. /\ phase \in {"answer", "receive"} /\ \E kinds : Receive(kinds)
        /\ phase' = "done" /\ outcome' = "OK" => UNCHANGED toDevice
        /\ phase' # "receive"
        /\ phase = "receive" => UNCHANGED toDevice
    BY <1>4 DEF ReceiveAnswer, ReceiveResend, TryAgain, Finish
  <2>2. InfoLeft => (UNCHANGED toDevice => Quiet')
    <3> SUFFICES ASSUME InfoLeft, UNCHANGED toDevice PROVE Quiet'
      OBVIOUS
    <3>1. toHost' \in Seq(DevicePackets) /\ Len(toHost') = Len(toHost) - 1 /\ Len(toHost) \in Nat \ {0}
      BY <1>1, <2>1, ReceptionTakes, ReceptionIsTyped DEF InLockstep
    <3>2. Len(toHost') = 0
      BY <3>1, EmptyOf DEF InfoLeft
    <3> QED
      BY <3>1, <3>2, EmptyOf DEF InfoLeft, Quiet
  <2> QED
    BY <1>1, <1>2, <2>1, <2>2, InfoIsAcknowledged
<1>5. CASE ReceiveDamaged \/ ReceiveCheckAnswer \/ AnswerTimesOut \/ CheckTimesOut \/ Unplugged
  BY <1>5 DEF ReceiveDamaged, ReceiveCheckAnswer, AnswerTimesOut, CheckTimesOut, Unplugged, TryAgain, Finish, DamageErrors
<1> QED
  BY <1>3, <1>4, <1>5 DEF StepOrWire, ExchangeStep

LEMMA FlashExchangePreserves ==
  ASSUME FlashInv, Flash!Exchange
  PROVE  FlashInv'
<1>1. StepOrWire /\ UNCHANGED <<step, image, max_addr, addr, piece, result, buffer, flash>>
  BY FlashGoesOn DEF Flash!Exchange, Flash!flashVars
<1>2. ExchangeTypeOK /\ ExchangeTypeOK' /\ (Orderly' => Orderly) /\ (Usable' => Usable)
  BY <1>1, StepCounts DEF FlashInv, FlashTypes
<1>3. /\ UNCHANGED <<packet, flags>>
      /\ answer' = answer \/ (1 \in Answered /\ answer' = toHost[1])
      /\ \/ Wire /\ UNCHANGED <<phase, packet, flags, attempts, outcome, answer, irrecoverable, gone>> /\ ~Quiet
         \/ /\ phase \in {"answer", "check", "receive"} /\ phase' \in {"answer", "check", "done"}
            /\ phase = "receive" => phase' = "done"
            /\ phase' # "done" => UNCHANGED <<irrecoverable, gone>>
            /\ phase' = "done" => outcome' # "none"
            /\ phase' = "done" /\ outcome' = "OK" =>
                 UNCHANGED <<irrecoverable, gone>> /\ 1 \in Answered /\ answer' = toHost[1]
  BY <1>1, <1>2, HostKeeps DEF hostVars
<1>4. Doing' = Doing /\ CommandOf' = CommandOf /\ (Flash!InRange' <=> Flash!InRange)
      /\ \A p : (Carried(p)' <=> Carried(p)) /\ (FlashPacket(p)' <=> FlashPacket(p))
  BY <1>1, <1>3 DEF Doing, CommandOf, Flash!InRange, Carried, FlashPacket
<1>5. FlashTypes'
  BY <1>1, <1>2 DEF FlashInv, FlashTypes, Flash!TypeOK
<1>6. FlashStages'
  BY <1>1, <1>3, <1>4 DEF FlashInv, FlashStages, Usable
<1>7. FlashLocks'
  <2> SUFFICES ASSUME Orderly, Orderly' PROVE FlashLocks'
    BY <1>2 DEF FlashLocks
  <2>1. Lockstep'
    <3>1. InLockstep
      BY <1>2 DEF FlashInv, FlashLocks, InLockstep
    <3>2. phase = "receive" => packet.kind = "info"
      BY PacketsAre DEF FlashInv, FlashStages, PacketKinds
    <3> QED
      BY <1>1, <3>1, <3>2, StepLocks, WireLocks DEF StepOrWire
  <2>2. ~(phase' = "idle" /\ step \in FlashCommands) /\ result # "OK"
    BY <1>3 DEF FlashInv, FlashStages, FlashLocks
  <2> QED
    BY <1>1, <2>1, <2>2, InfoLocked DEF FlashLocks
<1>8. FlashPackets'
  <2>1. \A j \in Sent' : FlashPacket(toDevice'[j])
    <3>1. phase \in {"answer", "check"} => FlashPacket(packet)
      BY DEF FlashInv, FlashTypes, Flash!TypeOK, FlashStages, FlashPackets, Flash!FlashSteps, FlashKinds, Doing,
             CommandOf, NoPacket, Packet
    <3>2. \A p, q : Same(p, q) /\ FlashPacket(q) => FlashPacket(p)
      BY DEF Same, FlashPacket
    <3>3. \A p : p.kind = "check" => FlashPacket(p)
      BY DEF FlashPacket
    <3> QED
      BY <1>1, <1>2, <3>1, <3>2, <3>3, SentKeeps DEF FlashInv, FlashPackets
  <2> QED
    BY <1>3, <1>4, <2>1 DEF FlashInv, FlashPackets
<1>9. FlashCarried'
  <2> SUFFICES ASSUME Orderly, Flash!InRange PROVE FlashCarried'
    BY <1>2, <1>4 DEF FlashCarried
  <2>1. \A j \in Answered' : toHost'[j].kind = "ack" => Carried(toHost'[j].to)
    BY <1>1, <1>2, AnsweredKeeps DEF FlashInv, FlashCarried
  <2>2. phase' = "done" /\ outcome' = "OK" /\ answer'.kind = "ack" => Carried(answer'.to)
    BY <1>3 DEF FlashInv, FlashCarried
  <2> QED
    BY <1>4, <2>1, <2>2 DEF FlashCarried
<1>10. FlashProgress'
  BY <1>1, <1>2, <1>4 DEF FlashInv, FlashProgress
<1>11. Survives'
  BY <1>1, <1>2, SurvivesStep DEF FlashInv, FlashLocks
<1> QED
  BY <1>5, <1>6, <1>7, <1>8, <1>9, <1>10, <1>11 DEF FlashInv

-----------------------------------------------------------------------------
(* The device that is flashed.                                             *)

(* It answers the command for its information with two packets.            *)
LEMMA InfoLocks ==
  ASSUME InLockstep, toDevice # <<>>, Head(toDevice).kind = "info", Head(toDevice).intact,
         toDevice' = Tail(toDevice),
         toHost' = toHost \o <<Answer("ack", Head(toDevice)), Answer("data", Head(toDevice))>>,
         UNCHANGED <<lost, damaged, late, hostVars>>
  PROVE  Lockstep' /\ ExchangeTypeOK'
<1> DEFINE p == Head(toDevice)  a == Answer("ack", p)  b == Answer("data", p)
<1>1. /\ toDevice' \in Seq(HostPackets) /\ Len(toDevice') = Len(toDevice) - 1 /\ Len(toDevice) \in Nat
      /\ p = toDevice[1] /\ 1 \in Sent /\ p \in HostPackets
      /\ \A j \in Sent' : toDevice'[j] = toDevice[j + 1] /\ j + 1 \in Sent /\ 1 < j + 1
  BY TailOf DEF InLockstep, ExchangeTypeOK, Sent
<1>2. UNCHANGED <<lost, damaged, late, phase, packet, flags, attempts, outcome, answer, irrecoverable, gone>>
  BY DEF hostVars
<1>3. a \in DevicePackets /\ b \in DevicePackets /\ a.to = p /\ b.to = p /\ a.kind = "ack" /\ b.kind = "data"
  BY <1>1, PacketsAre DEF AnswerKinds
<1>4. toHost = <<>>
  <2>1. 1 \notin Answered
    BY <1>1 DEF InLockstep, Lockstep, InOrder, Before
  <2>2. (toHost = <<>> <=> Len(toHost) = 0) /\ Len(toHost) \in Nat
    BY EmptyOf DEF InLockstep, ExchangeTypeOK
  <2> QED
    BY <2>1, <2>2 DEF Answered
<1> HIDE DEF a, b, p
<1>5. toHost' = <<a, b>>
  <2>1. toHost' = <<>> \o <<a, b>>
    BY <1>4 DEF a, b, p
  <2>2. <<>> \o <<a, b>> = <<a, b>>
    OBVIOUS
  <2> QED
    BY <2>1, <2>2
<1>6. /\ toHost' \in Seq(DevicePackets) /\ Len(toHost') = 2 /\ Answered' = {1, 2}
      /\ toHost'[1] = a /\ toHost'[2] = b
  <2>1. \A x, y \in DevicePackets : /\ <<x, y>> \in Seq(DevicePackets) /\ Len(<<x, y>>) = 2
                                    /\ <<x, y>>[1] = x /\ <<x, y>>[2] = y
    OBVIOUS
  <2>2. /\ toHost' \in Seq(DevicePackets) /\ Len(toHost') = 2 /\ toHost'[1] = a /\ toHost'[2] = b
    BY <1>3, <1>5, <2>1
  <2>3. Answered' = 1 .. 2
    BY <2>2 DEF Answered
  <2>4. 1 .. 2 = {1, 2}
    OBVIOUS
  <2> QED
    BY <2>2, <2>3, <2>4
<1>7. ExchangeTypeOK'
  BY <1>1, <1>2, <1>6 DEF InLockstep, ExchangeTypeOK
<1>8. p.kind = "info" /\ p.intact /\ Same(p, packet) /\ packet.kind = "info" /\ packet.intact
  BY <1>1 DEF p, InLockstep, Lockstep, Members, Expected, Same
<1>9. \A j \in Sent' : toDevice'[j].kind = "check"
  BY <1>1 DEF InLockstep, Lockstep, InOrder, Before
<1>10. Members'
  <2>1. \A j \in Sent' : Same(toDevice'[j], packet) \/ toDevice'[j].kind = "check"
    BY <1>9
  <2>2. \A j \in Answered' : toHost'[j].to = p /\ toHost'[j].kind \in {"ack", "data"}
    BY <1>3, <1>6
  <2>3. \A j \in Sent' : toDevice'[j] \in HostPackets
    BY <1>1 DEF Sent
  <2> QED
    BY <1>1, <1>2, <1>8, <2>1, <2>2, <2>3 DEF InLockstep, Lockstep, Members, Expected, Same
<1>11. InOrder'
  <2>1. \A j, k \in Sent' : j < k => FALSE
    <3>1. \A j, k \in Sent' : j < k => j + 1 < k + 1
      BY DEF Sent
    <3> QED
      BY <1>1, <1>9, <3>1 DEF InLockstep, Lockstep, InOrder, Before
  <2>2. \A j, k \in Answered' : j < k => j = 1 /\ k = 2
    BY <1>6
  <2>3. \A j \in Answered', k \in Sent' : Before(toHost'[j].to, toDevice'[k])
    BY <1>3, <1>6, <1>8, <1>9 DEF Before
  <2>4. TwoAnswers(1, 2)'
    BY <1>3, <1>6, <1>8 DEF TwoAnswers
  <2>5. \A j, k \in Answered' : j < k => TwoAnswers(j, k)'
    BY <2>2, <2>4
  <2> QED
    BY <2>1, <2>3, <2>5 DEF InOrder
<1>12. NoCheck'
  <2>1. phase \in {"answer", "receive"} => Sent' = {}
    BY <1>1, <1>9 DEF InLockstep, Lockstep, NoCheck
  <2> QED
    BY <1>2, <1>3, <1>6, <1>8, <2>1 DEF NoCheck
<1>13. late = 0 => toDevice' = <<>> /\ Len(toDevice') = 0 /\ phase # "check"
  <2> SUFFICES ASSUME late = 0 PROVE toDevice' = <<>> /\ Len(toDevice') = 0 /\ phase # "check"
    OBVIOUS
  <2>1. Len(toDevice) <= 1 /\ phase # "check"
    BY <1>1, <1>8 DEF InLockstep, Lockstep, Alone
  <2>2. Len(toDevice') = 0
    BY <1>1, <2>1, EmptyOf
  <2> QED
    BY <1>1, <2>1, <2>2, EmptyOf
<1>14. Alone' /\ Faults'
  BY <1>2, <1>3, <1>6, <1>8, <1>13 DEF Alone, Faults, Quiet
<1>15. Genuine'
  BY <1>1, <1>2, <1>3, <1>6, <1>8 DEF InLockstep, Lockstep, Genuine, Proper
<1>16. Over'
  BY <1>2, <1>8 DEF InLockstep, Lockstep, Over
<1> QED
  BY <1>7, <1>10, <1>11, <1>12, <1>14, <1>15, <1>16 DEF Lockstep

LEMMA FlashReplies ==
  ASSUME FlashInv, Flash!DeviceStep
  PROVE  /\ toDevice # <<>> /\ toDevice' = Tail(toDevice) /\ ExchangeTypeOK'
         /\ UNCHANGED <<lost, damaged, late, phase, packet, flags, attempts, outcome, answer, irrecoverable, gone>>
         /\ UNCHANGED <<step, image, max_addr, addr, piece, result>>
         /\ \/ UNCHANGED <<buffer, flash>>
            \/ Flash!CarryOut(Head(toDevice)) /\ Head(toDevice).kind # "check"
         /\ \A j \in Answered' : \/ j \in Answered /\ toHost'[j] = toHost[j]
                                 \/ /\ toHost'[j].to = Head(toDevice)
                                    /\ toHost'[j].kind = "ack" => Flash!CarryOut(Head(toDevice))
         /\ InLockstep => Lockstep'
<1> DEFINE p == Head(toDevice)
<1>1. toDevice # <<>> /\ UNCHANGED <<step, image, max_addr, addr, piece, result>>
  BY DEF Flash!DeviceStep
<1>2. /\ toDevice \in Seq(HostPackets) /\ toHost \in Seq(DevicePackets) /\ ExchangeTypeOK
      /\ p = toDevice[1] /\ 1 \in Sent /\ p \in HostPackets
  BY <1>1, TailOf DEF FlashInv, FlashTypes, ExchangeTypeOK, Sent
<1>3. ASSUME NEW k \in {"resend", "error", "ack"}, DeviceAnswers(k),
             k = "resend" <=> ~p.intact \/ p.kind = "check",
             UNCHANGED <<buffer, flash>> \/ (Flash!CarryOut(p) /\ p.kind # "check"),
             k = "ack" => Flash!CarryOut(p)
      PROVE  /\ toDevice' = Tail(toDevice) /\ ExchangeTypeOK'
             /\ UNCHANGED <<lost, damaged, late, phase, packet, flags, attempts, outcome, answer, irrecoverable, gone>>
             /\ \A j \in Answered' : \/ j \in Answered /\ toHost'[j] = toHost[j]
                                     \/ toHost'[j].to = p /\ (toHost'[j].kind = "ack" => Flash!CarryOut(p))
             /\ InLockstep => Lockstep'
  <2> DEFINE a == Answer(k, p)
  <2>1. a \in DevicePackets /\ a.kind = k /\ a.to = p /\ DeviceSends(a)
    BY <1>2, <1>3, PacketsAre DEF AnswerKinds, DeviceAnswers
  <2> HIDE DEF p, a
  <2>2. toDevice' = Tail(toDevice) /\ toHost' = Append(toHost, a)
        /\ UNCHANGED <<lost, damaged, late, phase, packet, flags, attempts, outcome, answer, irrecoverable, gone>>
    BY <2>1 DEF DeviceSends, hostVars
  <2>3. ExchangeTypeOK'
    BY <1>1, <1>2, <2>1, SendingIsTyped
  <2>4. Answered' = Answered \cup {Len(toHost) + 1} /\ toHost'[Len(toHost) + 1] = a
        /\ \A j \in Answered : toHost'[j] = toHost[j]
    BY <1>2, <2>1, <2>2, AppendOf DEF Answered
  <2>5. InLockstep => Lockstep'
    <3> SUFFICES ASSUME InLockstep PROVE Lockstep'
      OBVIOUS
    <3>1. damaged = 0 => Proper(a)
      <4>1. damaged = 0 => p.intact
        BY <1>2 DEF InLockstep, Lockstep, Genuine
      <4> QED
        BY <1>3, <2>1, <4>1 DEF Proper
    <3>2. a.kind = "resend" \/ a.to.kind # "check"
      BY <1>3, <2>1
    <3> QED
      BY <1>1, <2>1, <3>1, <3>2, SendingLocks DEF p
  <2>6. \A j \in Answered' : \/ j \in Answered /\ toHost'[j] = toHost[j]
                             \/ toHost'[j].to = p /\ (toHost'[j].kind = "ack" => Flash!CarryOut(p))
    BY <1>3, <2>1, <2>4
  <2> QED
    BY <2>2, <2>3, <2>5, <2>6
<1>4. CASE \/ (~p.intact \/ p.kind = "check") /\ Flash!DeviceAnswers("resend") /\ UNCHANGED <<buffer, flash>>
           \/ p.intact /\ p.kind # "check" /\ Flash!DeviceAnswers("error") /\ UNCHANGED <<buffer, flash>>
           \/ p.intact /\ p.kind \notin {"check", "info"} /\ Flash!DeviceAnswers("ack") /\ Flash!CarryOut(p)
  <2>1. PICK k \in {"resend", "error", "ack"} :
          /\ DeviceAnswers(k) /\ (k = "resend" <=> ~p.intact \/ p.kind = "check")
          /\ UNCHANGED <<buffer, flash>> \/ (Flash!CarryOut(p) /\ p.kind # "check")
          /\ k = "ack" => Flash!CarryOut(p)
    BY <1>4, FlashExchanges
  <2> HIDE DEF p
  <2>2. /\ toDevice' = Tail(toDevice) /\ ExchangeTypeOK'
        /\ UNCHANGED <<lost, damaged, late, phase, packet, flags, attempts, outcome, answer, irrecoverable, gone>>
        /\ \A j \in Answered' : \/ j \in Answered /\ toHost'[j] = toHost[j]
                                \/ toHost'[j].to = p /\ (toHost'[j].kind = "ack" => Flash!CarryOut(p))
        /\ InLockstep => Lockstep'
    BY <1>3, <2>1
  <2> QED
    BY <1>1, <2>1, <2>2 DEF p
<1>5. CASE /\ p.intact /\ p.kind = "info"
           /\ toDevice' = Tail(toDevice)
           /\ toHost' = toHost \o <<Flash!Answer("ack", p), Flash!Answer("data", p)>>
           /\ UNCHANGED <<lost, damaged, late, Flash!hostVars, buffer, flash>>
  <2> DEFINE a == Answer("ack", p)  b == Answer("data", p)
  <2>1. /\ toDevice' = Tail(toDevice) /\ toHost' = toHost \o <<a, b>>
        /\ UNCHANGED <<lost, damaged, late, hostVars, buffer, flash>>
        /\ p.intact /\ p.kind = "info"
    BY <1>5, FlashExchanges DEF Flash!hostVars, hostVars
  <2>2. a \in DevicePackets /\ b \in DevicePackets /\ a.to = p /\ b.to = p
    BY <1>2, PacketsAre DEF AnswerKinds
  <2>3. InLockstep => Lockstep'
    BY <1>1, <2>1, InfoLocks
  <2>4. Flash!CarryOut(p)
    BY <2>1 DEF Flash!CarryOut
  <2> HIDE DEF p, a, b
  <2>5. UNCHANGED <<phase, packet, flags, attempts, outcome, answer, irrecoverable, gone>>
    BY <2>1 DEF hostVars
  <2>6. /\ toHost' \in Seq(DevicePackets)
        /\ \A j \in Answered' : (j \in Answered /\ toHost'[j] = toHost[j]) \/ toHost'[j] = a \/ toHost'[j] = b
    <3>1. \A s \in Seq(DevicePackets), x, y \in DevicePackets :
            /\ s \o <<x, y>> \in Seq(DevicePackets)
            /\ \A j \in 1 .. Len(s \o <<x, y>>) : \/ j \in 1 .. Len(s) /\ (s \o <<x, y>>)[j] = s[j]
                                                  \/ (s \o <<x, y>>)[j] = x \/ (s \o <<x, y>>)[j] = y
      OBVIOUS
    <3> QED
      BY <1>2, <2>1, <2>2, <3>1 DEF Answered
  <2>7. toDevice' \in Seq(HostPackets)
    BY <1>1, <1>2, <2>1, TailOf
  <2>8. ExchangeTypeOK'
    BY <1>2, <2>1, <2>5, <2>6, <2>7 DEF ExchangeTypeOK
  <2>9. \A j \in Answered' : \/ j \in Answered /\ toHost'[j] = toHost[j]
                             \/ toHost'[j].to = p /\ (toHost'[j].kind = "ack" => Flash!CarryOut(p))
    BY <2>2, <2>4, <2>6
  <2> QED
    BY <1>1, <2>1, <2>3, <2>5, <2>8, <2>9 DEF p
<1>6. \/ (~p.intact \/ p.kind = "check") /\ Flash!DeviceAnswers("resend") /\ UNCHANGED <<buffer, flash>>
      \/ p.intact /\ p.kind # "check" /\ Flash!DeviceAnswers("error") /\ UNCHANGED <<buffer, flash>>
      \/ p.intact /\ p.kind \notin {"check", "info"} /\ Flash!DeviceAnswers("ack") /\ Flash!CarryOut(p)
      \/ /\ p.intact /\ p.kind = "info"
         /\ toDevice' = Tail(toDevice)
         /\ toHost' = toHost \o <<Flash!Answer("ack", p), Flash!Answer("data", p)>>
         /\ UNCHANGED <<lost, damaged, late, Flash!hostVars, buffer, flash>>
  BY DEF Flash!DeviceStep
<1> QED
  BY <1>4, <1>5, <1>6

(* It carries out the command that goes out, and no other.                 *)
LEMMA FlashCarries ==
  ASSUME FlashInv, Orderly, Flash!InRange, toDevice # <<>>,
         Head(toDevice).kind # "check", Flash!CarryOut(Head(toDevice)),
         UNCHANGED <<step, image, max_addr, addr, piece, packet>>
  PROVE  FlashProgress' /\ \A q : Expected(q) => Carried(q)'
<1> DEFINE p == Head(toDevice)
<1>1. Same(p, packet) /\ p.kind # "check"
  <2>1. p = toDevice[1] /\ 1 \in Sent
    BY TailOf DEF FlashInv, FlashTypes, ExchangeTypeOK, Sent
  <2> QED
    BY <2>1 DEF FlashInv, FlashLocks, Lockstep, Members, Expected
<1> DEFINE n == packet.id
<1>2. /\ p.kind = packet.kind /\ p.id = n
      /\ step # "idle"
      /\ (Doing \in FlashKinds /\ packet = CommandOf) \/ packet.kind = "info"
  <2>1. ~Quiet
    BY DEF Quiet
  <2>2. step # "idle" /\ (step \in FlashCommands => phase # "idle")
    BY <2>1 DEF FlashInv, FlashStages, FlashLocks
  <2>3. step = "ended" \/ step = "info_data" \/ step \in FlashCommands
    BY <2>2 DEF FlashInv, FlashTypes, Flash!TypeOK, Flash!FlashSteps, FlashCommands
  <2>4. CASE step = "info_data"
    BY <1>1, <2>2, <2>4 DEF FlashInv, FlashStages, Packet, Same
  <2>5. CASE step # "info_data"
    BY <1>1, <2>2, <2>3, <2>5 DEF FlashInv, FlashStages, Doing, FlashCommands, FlashKinds, Same
  <2> QED
    BY <1>1, <2>2, <2>4, <2>5 DEF Same
<1>3. Doing' = Doing /\ CommandOf' = CommandOf /\ (Flash!InRange' <=> Flash!InRange)
      /\ max_addr \in 2 .. FlashEnd /\ image \in 0 .. FlashEnd /\ image <= max_addr /\ FlashEnd \in Nat
      /\ flash \in [Flash!Sectors -> {"old", "cleared", "whole", "mixed"}]
      /\ buffer \in [1 .. Pieces -> Flash!Sectors] /\ Pieces \in Nat \ {0}
      /\ Flash!Sectors = 0 .. FlashEnd - 1
  BY <1>2, SectorsAssumption
     DEF Doing, CommandOf, Flash!InRange, FlashInv, FlashTypes, Flash!TypeOK, FlashStages, Flash!Sectors
<1>4. CASE UNCHANGED <<buffer, flash>> /\ packet.kind \in {"info", "finish"}
  <2>1. FlashProgress'
    BY <1>3, <1>4 DEF FlashInv, FlashProgress
  <2>2. \A q : Expected(q) => Carried(q)'
    BY <1>4 DEF Expected, Same, Carried
  <2> QED
    BY <2>1, <2>2
<1>5. CASE packet.kind = "clear"
  <2>1. Doing = "clear" /\ packet = Packet("clear", addr)
    BY <1>2, <1>5 DEF CommandOf, Packet, FlashKinds
  <2>2. n = addr /\ addr \in 1 .. max_addr - 1
    BY <2>1 DEF Packet, FlashInv, FlashStages
  <2>3. addr \in Flash!Sectors
    BY <1>3, <2>2
  <2>4. flash' = [flash EXCEPT ![addr] = "cleared"] /\ UNCHANGED buffer
    BY <1>2, <1>5, <2>2 DEF Flash!CarryOut
  <2>5. /\ flash'[addr] = "cleared"
        /\ \A a \in Flash!Sectors : flash'[a] = flash[a] \/ flash'[a] = "cleared"
        /\ \A a \in 1 .. addr - 1 : flash'[a] = "cleared"
    <3>1. \A a \in 1 .. addr - 1 : a \in Flash!Sectors /\ flash[a] = "cleared"
      BY <1>3, <2>1, <2>2 DEF FlashInv, FlashProgress
    <3> QED
      BY <1>3, <2>3, <2>4, <3>1
  <2>6. FlashProgress'
    BY <1>3, <2>1, <2>4, <2>5 DEF FlashInv, FlashProgress
  <2>7. \A q : Expected(q) => Carried(q)'
    BY <1>5, <2>2, <2>5 DEF Expected, Same, Carried
  <2> QED
    BY <2>6, <2>7
<1>6. CASE packet.kind = "upload"
  <2>1. Doing = "upload" /\ packet = Packet("upload", addr * Pieces + piece - 1)
    BY <1>2, <1>6 DEF CommandOf, Packet, FlashKinds
  <2>2. n = addr * Pieces + piece - 1 /\ addr \in 1 .. image - 1 /\ piece \in 1 .. Pieces
    BY <2>1 DEF Packet, FlashInv, FlashStages
  <2>3. n % Pieces = piece - 1 /\ n \div Pieces = addr
    <3>1. addr \in Nat
      BY <1>3, <2>2
    <3> HIDE DEF n
    <3> QED
      BY <1>3, <2>2, <3>1, PieceNumbers
  <2>4. (n % Pieces) + 1 = piece
    BY <2>2, <2>3
  <2>5. buffer' = [buffer EXCEPT ![piece] = addr] /\ UNCHANGED flash
    BY <1>2, <1>6, <2>3, <2>4 DEF Flash!CarryOut
  <2>6. /\ buffer'[piece] = addr
        /\ \A k \in 1 .. Pieces : k < piece => buffer'[k] = addr
    BY <1>3, <2>1, <2>2, <2>5 DEF FlashInv, FlashProgress
  <2>7. FlashProgress'
    BY <1>3, <2>1, <2>5, <2>6 DEF FlashInv, FlashProgress
  <2>8. \A q : Expected(q) => Carried(q)'
    BY <1>6, <2>3, <2>4, <2>6 DEF Expected, Same, Carried
  <2> QED
    BY <2>7, <2>8
<1>7. CASE packet.kind = "copy"
  <2>1. Doing = "copy" /\ packet = Packet("copy", addr)
    BY <1>2, <1>7 DEF CommandOf, Packet, FlashKinds
  <2>2. n = addr /\ addr \in 1 .. image - 1
    BY <2>1 DEF Packet, FlashInv, FlashStages
  <2>3. addr \in Flash!Sectors /\ addr \in 1 .. max_addr - 1
    BY <1>3, <2>2
  <2>4. flash[addr] \in {"cleared", "whole"} /\ \A k \in 1 .. Pieces : buffer[k] = addr
    BY <2>1, <2>3 DEF FlashInv, FlashProgress
  <2>5. flash' = [flash EXCEPT ![addr] = "whole"] /\ UNCHANGED buffer
    BY <1>2, <1>7, <2>2, <2>4 DEF Flash!CarryOut, Flash!Copied
  <2>6. /\ flash'[addr] = "whole"
        /\ \A a \in Flash!Sectors : flash'[a] = flash[a] \/ flash'[a] = "whole"
        /\ addr # 1 => flash'[1] = flash[1]
    BY <1>3, <2>3, <2>5
  <2>7. \A a \in 1 .. max_addr - 1 : a \in Flash!Sectors
    BY <1>3
  <2>8. \A a \in 2 .. image - 1 : a \in Flash!Sectors
    BY <1>3
  <2>9. \A a \in 2 .. addr - 1 : a \in Flash!Sectors
    BY <1>3, <2>3
  <2>10. FlashProgress'
    <3>1. \A a \in Flash!Sectors : flash'[a] # "mixed"
      BY <2>6 DEF FlashInv, FlashProgress
    <3>2. \A a \in 1 .. max_addr - 1 : flash'[a] \in {"cleared", "whole"}
      BY <2>1, <2>6, <2>7 DEF FlashInv, FlashProgress
    <3>3. IF addr = 1 THEN \A a \in 2 .. image - 1 : flash'[a] = "whole"
          ELSE flash'[1] = "cleared" /\ \A a \in 2 .. addr - 1 : flash'[a] = "whole"
      BY <2>1, <2>6, <2>8, <2>9 DEF FlashInv, FlashProgress
    <3> QED
      BY <1>3, <2>1, <2>4, <2>5, <3>1, <3>2, <3>3 DEF FlashProgress
  <2>11. \A q : Expected(q) => Carried(q)'
    BY <1>7, <2>2, <2>6 DEF Expected, Same, Carried
  <2> QED
    BY <2>10, <2>11
<1>8. packet.kind \in {"info", "finish"} => UNCHANGED <<buffer, flash>>
  BY <1>2 DEF Flash!CarryOut
<1>9. packet.kind \in {"info", "clear", "upload", "copy", "finish"}
  BY <1>2 DEF FlashKinds, CommandOf, Packet
<1> QED
  BY <1>4, <1>5, <1>6, <1>7, <1>8, <1>9

LEMMA FlashDevicePreserves ==
  ASSUME FlashInv, Flash!DeviceStep
  PROVE  FlashInv'
<1> DEFINE p == Head(toDevice)
<1>1. /\ toDevice # <<>> /\ toDevice' = Tail(toDevice) /\ ExchangeTypeOK'
      /\ UNCHANGED <<lost, damaged, late, phase, packet, flags, attempts, outcome, answer, irrecoverable, gone>>
      /\ UNCHANGED <<step, image, max_addr, addr, piece, result>>
      /\ UNCHANGED <<buffer, flash>> \/ (Flash!CarryOut(p) /\ p.kind # "check")
      /\ \A j \in Answered' : \/ j \in Answered /\ toHost'[j] = toHost[j]
                              \/ /\ toHost'[j].to = p
                                 /\ toHost'[j].kind = "ack" => Flash!CarryOut(p)
      /\ InLockstep => Lockstep'
  BY FlashReplies
<1>2. /\ \A j \in Sent' : toDevice'[j] = toDevice[j + 1] /\ j + 1 \in Sent
      /\ p = toDevice[1] /\ 1 \in Sent /\ p \in HostPackets
  BY <1>1, TailOf DEF FlashInv, FlashTypes, ExchangeTypeOK, Sent
<1>3. Doing' = Doing /\ CommandOf' = CommandOf /\ (Flash!InRange' <=> Flash!InRange)
      /\ (Orderly' <=> Orderly) /\ (Usable' <=> Usable)
      /\ \A q : FlashPacket(q)' <=> FlashPacket(q)
  BY <1>1 DEF Doing, CommandOf, Flash!InRange, Orderly, Usable, FlashPacket
<1>4. step # "idle" /\ ~Quiet
  BY <1>1 DEF FlashInv, FlashStages, Quiet
<1>5. FlashTypes'
  <2>1. /\ flash \in [Flash!Sectors -> {"old", "cleared", "whole", "mixed"}]
        /\ buffer \in [1 .. Pieces -> Flash!Sectors]
    BY DEF FlashInv, FlashTypes, Flash!TypeOK
  <2>2. p.kind = "upload" => p.id \div Pieces \in Flash!Sectors
    BY <1>2 DEF FlashInv, FlashPackets, FlashPacket
  <2>3. \A a : Flash!Copied(a) \in {"whole", "mixed"}
    BY DEF Flash!Copied
  <2> HIDE DEF p
  <2>4. /\ \A a : [flash EXCEPT ![a] = "cleared"] \in [Flash!Sectors -> {"old", "cleared", "whole", "mixed"}]
        /\ \A a, b : b \in {"whole", "mixed"} =>
             [flash EXCEPT ![a] = b] \in [Flash!Sectors -> {"old", "cleared", "whole", "mixed"}]
        /\ \A n, a : a \in Flash!Sectors => [buffer EXCEPT ![n] = a] \in [1 .. Pieces -> Flash!Sectors]
    BY <2>1
  <2>5. ASSUME Flash!CarryOut(p)
        PROVE  /\ flash' \in [Flash!Sectors -> {"old", "cleared", "whole", "mixed"}]
               /\ buffer' \in [1 .. Pieces -> Flash!Sectors]
    BY <2>1, <2>2, <2>3, <2>4, <2>5 DEF Flash!CarryOut
  <2> QED
    BY <1>1, <2>5 DEF FlashInv, FlashTypes, Flash!TypeOK
<1>6. FlashStages'
  BY <1>1, <1>3, <1>4 DEF FlashInv, FlashStages
<1>7. FlashLocks'
  <2> SUFFICES ASSUME Orderly PROVE FlashLocks'
    BY <1>3 DEF FlashLocks
  <2>1. Lockstep'
    BY <1>1 DEF FlashInv, FlashTypes, FlashLocks, InLockstep
  <2>2. ~InfoLeft
    BY <1>1 DEF InfoLeft
  <2> QED
    BY <1>1, <1>3, <1>4, <2>1, <2>2 DEF FlashInv, FlashLocks
<1>8. FlashPackets'
  BY <1>1, <1>2, <1>3 DEF FlashInv, FlashPackets
<1>9. FlashProgress' /\ FlashCarried'
  <2> SUFFICES ASSUME Orderly, Flash!InRange PROVE FlashProgress' /\ FlashCarried'
    BY <1>3 DEF FlashProgress, FlashCarried
  <2>1. /\ \A j \in Answered : Expected(toHost[j].to)
        /\ phase = "done" /\ outcome = "OK" => Expected(answer.to)
        /\ Expected(p)
    BY <1>2 DEF FlashInv, FlashLocks, Lockstep, Members, Over, Expected
  <2>2. CASE Flash!CarryOut(p) /\ p.kind # "check"
    <3>1. FlashProgress' /\ \A q : Expected(q) => Carried(q)'
      BY <1>1, <2>2, FlashCarries
    <3>2. \A q \in DevicePackets : Expected(q.to) => Carried(q.to)'
      BY <3>1
    <3>3. \A j \in Answered' : Expected(toHost'[j].to)
      BY <1>1, <2>1
    <3>4. \A j \in Answered' : Carried(toHost[j].to)'
      <4>1. \A q, r : q = r => (Carried(q)' <=> Carried(r)')
        OBVIOUS
      <4> QED
        BY <3>1, <3>3 DEF Carried
    <3>5. phase' = "done" /\ outcome' = "OK" => Carried(answer.to)'
      BY <1>1, <2>1, <3>1 DEF Carried
    <3> QED
      BY <3>1, <3>4, <3>5 DEF FlashCarried
  <2>3. CASE UNCHANGED <<buffer, flash>>
    <3>1. FlashProgress'
      BY <1>1, <1>3, <2>3 DEF FlashInv, FlashProgress
    <3>2. \A q : Carried(q)' <=> Carried(q)
      BY <2>3 DEF Carried
    <3>3. \A j \in Answered' : toHost'[j].kind = "ack" => Carried(toHost'[j].to)
      <4> SUFFICES ASSUME NEW j \in Answered', toHost'[j].kind = "ack", toHost'[j] # toHost[j] \/ j \notin Answered
                   PROVE  Carried(toHost'[j].to)
        BY <1>1 DEF FlashInv, FlashCarried
      <4>1. toHost'[j].to = p /\ Flash!CarryOut(p)
        BY <1>1
      <4>2. p.kind # "check" => \A q : Expected(q) => Carried(q)
        BY <1>1, <3>2, <4>1, FlashCarries
      <4>3. p.kind = "check" => Carried(p)
        BY DEF Carried
      <4> QED
        BY <2>1, <4>1, <4>2, <4>3
    <3>4. phase' = "done" /\ outcome' = "OK" /\ answer'.kind = "ack" => Carried(answer'.to)
      BY <1>1 DEF FlashInv, FlashCarried
    <3> QED
      BY <2>3, <3>1, <3>3, <3>4 DEF FlashCarried, Carried
  <2> QED
    BY <1>1, <2>2, <2>3
<1>10. Survives'
  BY <1>1 DEF FlashInv, Survives
<1> QED
  BY <1>5, <1>6, <1>7, <1>8, <1>9, <1>10 DEF FlashInv

LEMMA FlashNextPreserves ==
  ASSUME FlashInv, Flash!Next
  PROVE  FlashInv'
<1>1. CASE \E n \in 1 .. FlashEnd, reset \in BOOLEAN : Flash!Begin(n, reset)
  BY <1>1, FlashBeginPreserves
<1>2. CASE Flash!Caller
  BY <1>2, FlashSendPreserves, CommandFailsPreserves, InfoAcceptedPreserves, InfoReceivedPreserves,
     SectorClearedPreserves, PieceUploadedPreserves, SectorCopiedPreserves, TerminatedPreserves DEF Flash!Caller
<1>3. CASE Flash!Exchange \/ Flash!DeviceStep
  BY <1>3, FlashExchangePreserves, FlashDevicePreserves
<1> QED
  BY <1>1, <1>2, <1>3 DEF Flash!Next

LEMMA FlashStutters ==
  ASSUME FlashInv, UNCHANGED <<exchangeVars, step, result, flashVars>>
  PROVE  FlashInv'
<1>1. /\ UNCHANGED <<toDevice, toHost, lost, damaged, late, phase, packet, flags, attempts, outcome, answer,
                     irrecoverable, gone>>
      /\ UNCHANGED <<step, result, image, max_addr, addr, piece, buffer, flash>>
  BY DEF exchangeVars, wireVars, hostVars, flashVars
<1>2. FlashTypes'
  BY <1>1 DEF FlashInv, FlashTypes, ExchangeTypeOK, Flash!TypeOK
<1>3. Doing' = Doing /\ CommandOf' = CommandOf /\ (Flash!InRange' <=> Flash!InRange) /\ (Usable' <=> Usable)
      /\ (Quiet' <=> Quiet) /\ (Orderly' <=> Orderly) /\ (InfoLeft' <=> InfoLeft) /\ Sent' = Sent /\ Answered' = Answered
  BY <1>1 DEF Doing, CommandOf, Flash!InRange, Usable, Quiet, Orderly, InfoLeft, Sent, Answered
<1>4. FlashStages'
  BY <1>1, <1>3 DEF FlashInv, FlashStages
<1>5. Lockstep' <=> Lockstep
  BY <1>1 DEF Lockstep, Members, Expected, Same, InOrder, TwoAnswers, NoCheck, Alone, Genuine, Over, Faults, Sent,
              Answered, Quiet, Usable
<1>6. FlashLocks' /\ Survives'
  BY <1>1, <1>3, <1>5 DEF FlashInv, FlashLocks, Survives
<1>7. FlashPackets' /\ FlashCarried' /\ FlashProgress'
  BY <1>1, <1>3 DEF FlashInv, FlashPackets, FlashPacket, FlashCarried, Carried, FlashProgress
<1> QED
  BY <1>2, <1>4, <1>6, <1>7 DEF FlashInv

LEMMA FlashBegins ==
  ASSUME Init PROVE FlashInv
<1>1. /\ ExchangeInit /\ step = "idle" /\ image = 0 /\ max_addr = 0 /\ addr = 0 /\ piece = 0 /\ result = "none"
      /\ buffer = [p \in 1 .. Pieces |-> 0] /\ flash = [a \in Flash!Sectors |-> "old"]
  BY FlashExchanges DEF Init, Flash!Init
<1>2. FlashTypes
  <2>1. 0 \in Flash!Sectors /\ image \in 0 .. FlashEnd /\ piece \in 0 .. Pieces
    BY <1>1, SectorsAssumption DEF Flash!Sectors
  <2> QED
    BY <1>1, <2>1, InitialIsTyped DEF FlashTypes, Flash!TypeOK, Flash!FlashSteps, Outcomes
<1>3. Sent = {} /\ Answered = {} /\ Quiet /\ packet = NoPacket /\ phase = "idle" /\ outcome = "none"
      /\ ~irrecoverable /\ ~gone /\ answer = NoAnswer
  BY <1>1 DEF ExchangeInit, Sent, Answered, Quiet
<1>4. Lockstep
  BY <1>3, PacketsAre DEF Lockstep, Members, InOrder, NoCheck, Alone, Genuine, Over, Faults, Quiet
<1>5. Doing = "idle"
  BY <1>1 DEF Doing
<1>6. FlashStages
  BY <1>1, <1>3, <1>5 DEF FlashStages, FlashKinds, Usable
<1>7. FlashLocks
  BY <1>1, <1>3, <1>4 DEF FlashLocks, FlashCommands
<1>8. FlashPackets /\ FlashCarried /\ FlashProgress /\ Survives
  BY <1>1, <1>3, <1>5 DEF FlashPackets, FlashCarried, FlashProgress, Survives
<1> QED
  BY <1>2, <1>6, <1>7, <1>8 DEF FlashInv

LEMMA FlashIsRight ==
  ASSUME FlashInv
  PROVE  /\ Flash!TypeOK /\ Flash!FlashedInOrder
         /\ result = "OK" /\ Flash!Orderly => Quiet
         /\ Flash!Orderly <=> Orderly
<1>1. Flash!Orderly <=> Orderly
  BY DEF Flash!Orderly, Orderly
<1>2. Flash!FlashedInOrder
  <2> SUFFICES ASSUME Orderly, Flash!InRange
               PROVE  /\ \A a \in Flash!Sectors : flash[a] # "mixed"
                      /\ flash[1] = "whole" => \A a \in 2 .. image - 1 : flash[a] = "whole"
                      /\ result = "OK" => \A a \in 1 .. image - 1 : flash[a] = "whole"
    BY <1>1 DEF Flash!FlashedInOrder
  <2>1. /\ image \in Nat /\ max_addr \in Nat /\ FlashEnd \in Nat /\ image <= max_addr /\ max_addr <= FlashEnd
        /\ 1 < FlashEnd
    BY SectorsAssumption DEF FlashInv, FlashTypes, Flash!TypeOK, Flash!InRange
  <2>2. 1 \in Flash!Sectors /\ \A a \in 2 .. image - 1 : a \in 1 .. image - 1
    BY <2>1 DEF Flash!Sectors
  <2>3. Doing \in {"idle", "info", "info_data", "clear", "upload", "copy", "finish"}
    <3>1. step \in Flash!FlashSteps
      BY DEF FlashInv, FlashTypes, Flash!TypeOK
    <3> QED
      BY <3>1 DEF FlashInv, FlashStages, Doing, FlashKinds, Flash!FlashSteps
  <2>4. result = "OK" => Doing = "finish"
    BY DEF FlashInv, FlashStages, Doing
  <2> QED
    BY <2>2, <2>3, <2>4 DEF FlashInv, FlashProgress
<1>3. result = "OK" /\ Orderly => Quiet
  BY DEF FlashInv, FlashLocks
<1>4. Flash!TypeOK
  BY DEF FlashInv, FlashTypes
<1> QED
  BY <1>1, <1>2, <1>3, <1>4

-----------------------------------------------------------------------------
(* Where the roles are swapped (SevenRoleSwap): what SevenListing and      *)
(* SevenReceive share.                                                     *)

ItemKinds == {"command", "unknown_command", "data"}

SwapTypes ==
  /\ ExchangeTypeOK
  /\ result \in Outcomes \cup {"INT", "FILE"}
  /\ items \in Seq({"command", "unknown_command", "data"}) /\ sent \in 0 .. Len(items)
  /\ device \in {"passive", "accepted", "active", "back"} /\ checked \in BOOLEAN

(* What the device has sent as active, and what that tells of it.          *)
Itemized(a) ==
  /\ a.kind = "roleswap" => device = "back"
  /\ a.kind \in ItemKinds => a.id \in 1 .. Len(items) /\ a.kind = items[a.id]

SwapDevice ==
  /\ device = "active" => sent > 0
  /\ device \in {"passive", "accepted"} => sent = 0
  /\ \A j \in Answered : Itemized(toHost[j])
  /\ Itemized(answer)

-----------------------------------------------------------------------------
(* Going through the entries of a storage (SevenListing).                  *)

ListingStages ==
  /\ step \in {"idle", "spinning", "ended"} => phase = "idle"
  /\ step = "idle" => Quiet /\ sent = 0 /\ seen = <<>> /\ found = FALSE /\ device = "passive" /\ answer = NoAnswer
  /\ result # "none" => step = "ended"
  /\ step # "ended" /\ phase # "done" => Usable
  /\ phase = "done" => outcome # "none" /\ (outcome = "OK" => Usable)
  /\ phase # "receive" /\ (phase # "idle" => flags = {})
  /\ packet.kind \in {"none", "command", "roleswap", "ack"} /\ packet.intact
  /\ phase # "idle" => packet.kind = CASE step = "command" -> "command"
                                       [] step = "swap" -> "roleswap"
                                       [] OTHER -> "ack"
  /\ result \in {"OK", "INT"} => answer.kind = "roleswap"

ListingLocks ==
  Orderly =>
    /\ Lockstep
    /\ phase = "idle" /\ step # "ended" => Quiet
    /\ result \in {"OK", "INT"} => Quiet

(* The entries behind the items.                                           *)
EntryItems ==
  /\ Len(items) = Len(entries)
  /\ \A n \in 1 .. Len(entries) : items[n] = IF entries[n] = "unknown" THEN "unknown_command" ELSE "command"

ListingTypes ==
  /\ SwapTypes
  /\ call \in {"list", "type", "none"}
  /\ step \in {"idle", "command", "swap", "listing", "spinning", "ended"}
  /\ entries \in Seq(Listing!Entries) /\ Len(entries) <= MaxEntries
  /\ should_skip \in BOOLEAN /\ found \in BOOLEAN
  /\ seen \in Seq(1 .. MaxEntries)

(* The first n entries have been looked at, and no other.                  *)
Looked(n) ==
  /\ call = "list" => Listing!WereGiven(Listing!Named(n))
  /\ call = "type" => (found <=> \E k \in 1 .. n : entries[k] = "wanted")

(* While nothing is lost or late, the host and the device count alike:     *)
(* when the packet has not been acted upon, and when it was answered.      *)
NotActedUpon ==
  /\ packet.kind = "command" => device = "passive" /\ sent = 0 /\ Looked(0)
  /\ packet.kind = "roleswap" => device = "accepted" /\ sent = 0 /\ Looked(0)
  /\ packet.kind = "ack" => device = "active" /\ Looked(sent)

CountsAlike(a) ==
  /\ a.kind = "ack" => device = "accepted" /\ sent = 0 /\ Looked(0)
  /\ a.kind \in ItemKinds => device = "active" /\ a.id = sent /\ Looked(sent - 1)
  /\ a.kind = "roleswap" => Looked(Len(items))
  /\ a.kind = "resend" => NotActedUpon

ListingProgress ==
  lost = 0 /\ late = 0 =>
    /\ phase # "check" /\ ~checked
    /\ phase = "answer" =>
         /\ ~Quiet
         /\ toDevice # <<>> => NotActedUpon
         /\ \A j \in Answered : CountsAlike(toHost[j])
    /\ \A j \in Sent : toDevice[j].kind # "check"
    /\ phase = "idle" /\ step \in {"idle", "command"} => device = "passive" /\ sent = 0 /\ Looked(0)
    /\ phase = "idle" /\ step = "swap" => device = "accepted" /\ sent = 0 /\ Looked(0)
    /\ phase = "idle" /\ step = "listing" => CountsAlike(answer) /\ answer.kind # "resend"
    /\ phase = "done" /\ outcome = "OK" => CountsAlike(answer) /\ answer.kind # "resend"
    /\ result = "OK" => Looked(Len(items))
    /\ \E n \in 0 .. sent : Looked(n)

ListingInv ==
  /\ ListingTypes /\ SwapDevice /\ ListingStages /\ ListingLocks /\ EntryItems
  /\ ListingProgress /\ Survives

(* The exchange and the device of SevenReceive, and those of SevenListing. *)
LEMMA ReceiveExchanges ==
  /\ Receive_!ExchangeInit <=> ExchangeInit
  /\ \A p, f : Receive_!StartExchange(p, f) <=> StartExchange(p, f)
  /\ Receive_!ExchangeReturns <=> ExchangeReturns
  /\ Receive_!StartReceive <=> StartReceive
  /\ \A k, n : Receive_!Packet(k, n) = Packet(k, n)
<1>1. Receive_!ExchangeInit <=> ExchangeInit
  BY DEF Receive_!ExchangeInit, ExchangeInit, Receive_!NoPacket, NoPacket, Receive_!NoAnswer, NoAnswer,
         Receive_!Answer, Answer, Receive_!Numbered, Numbered, Receive_!Packet, Packet
<1>2. \A p, f : Receive_!StartExchange(p, f) <=> StartExchange(p, f)
  BY DEF Receive_!StartExchange, StartExchange, Receive_!InitialAttempts, InitialAttempts, Receive_!Finish, Finish
<1>3. (Receive_!StartReceive <=> StartReceive) /\ (Receive_!ExchangeReturns <=> ExchangeReturns)
  BY DEF Receive_!StartReceive, StartReceive, Receive_!ExchangeReturns, ExchangeReturns, Receive_!wireVars, wireVars
<1>4. \A k, n : Receive_!Packet(k, n) = Packet(k, n)
  BY DEF Receive_!Packet, Packet
<1> QED
  BY <1>1, <1>2, <1>3, <1>4

LEMMA ReceiveGoesOn == (Receive_!ExchangeStep \/ Receive_!Unplugged \/ Receive_!Wire) <=> StepOrWire
<1> USE DEF Receive_!Receive, Receive, Receive_!Finish, Finish, Receive_!TryAgain, TryAgain, Receive_!TimeRunsOut,
            TimeRunsOut, Receive_!InitialAttempts, InitialAttempts, Receive_!AnswerKinds, AnswerKinds,
            Receive_!DamageErrors, DamageErrors, Receive_!timeout_check_packet, timeout_check_packet,
            Receive_!Packet, Packet
<1>1. Receive_!ReceiveDamaged <=> ReceiveDamaged
  BY DEF Receive_!ReceiveDamaged, ReceiveDamaged
<1>2. Receive_!ReceiveAnswer <=> ReceiveAnswer
  BY DEF Receive_!ReceiveAnswer, ReceiveAnswer
<1>3. Receive_!ReceiveResend <=> ReceiveResend
  BY DEF Receive_!ReceiveResend, ReceiveResend
<1>4. Receive_!ReceiveCheckAnswer <=> ReceiveCheckAnswer
  BY DEF Receive_!ReceiveCheckAnswer, ReceiveCheckAnswer
<1>5. Receive_!AnswerTimesOut <=> AnswerTimesOut
  BY DEF Receive_!AnswerTimesOut, AnswerTimesOut
<1>6. Receive_!CheckTimesOut <=> CheckTimesOut
  BY DEF Receive_!CheckTimesOut, CheckTimesOut
<1>7. Receive_!Unplugged <=> Unplugged
  BY DEF Receive_!Unplugged, Unplugged, Receive_!wireVars, wireVars
<1>8. Receive_!Wire <=> Wire
  BY DEF Receive_!Wire, Wire, Receive_!LosePacket, LosePacket, Receive_!DamagePacket, DamagePacket,
         Receive_!hostVars, hostVars
<1> HIDE DEF Receive_!Receive, Receive, Receive_!Finish, Finish, Receive_!TryAgain, TryAgain, Receive_!TimeRunsOut,
            TimeRunsOut, Receive_!InitialAttempts, InitialAttempts, Receive_!AnswerKinds, AnswerKinds,
            Receive_!DamageErrors, DamageErrors, Receive_!timeout_check_packet, timeout_check_packet,
            Receive_!Packet, Packet
<1> QED
  BY <1>1, <1>2, <1>3, <1>4, <1>5, <1>6, <1>7, <1>8 DEF Receive_!ExchangeStep, ExchangeStep, StepOrWire

LEMMA ListingExchanges ==
  /\ Listing!ExchangeInit <=> ExchangeInit
  /\ \A p, f : Listing!StartExchange(p, f) <=> StartExchange(p, f)
  /\ Listing!ExchangeReturns <=> ExchangeReturns
  /\ \A k, n : Listing!Packet(k, n) = Packet(k, n)
<1>1. Listing!ExchangeInit <=> ExchangeInit
  BY DEF Listing!ExchangeInit, ExchangeInit, Listing!NoPacket, NoPacket, Listing!NoAnswer, NoAnswer,
         Listing!Answer, Answer, Listing!Numbered, Numbered, Listing!Packet, Packet
<1>2. \A p, f : Listing!StartExchange(p, f) <=> StartExchange(p, f)
  BY DEF Listing!StartExchange, StartExchange, Listing!InitialAttempts, InitialAttempts, Listing!Finish, Finish
<1>3. Listing!ExchangeReturns <=> ExchangeReturns
  BY DEF Listing!ExchangeReturns, ExchangeReturns, Listing!wireVars, wireVars
<1>4. \A k, n : Listing!Packet(k, n) = Packet(k, n)
  BY DEF Listing!Packet, Packet
<1> QED
  BY <1>1, <1>2, <1>3, <1>4

LEMMA ListingGoesOn == (Listing!ExchangeStep \/ Listing!Unplugged \/ Listing!Wire) <=> StepOrWire
<1> USE DEF Listing!Receive, Receive, Listing!Finish, Finish, Listing!TryAgain, TryAgain, Listing!TimeRunsOut,
            TimeRunsOut, Listing!InitialAttempts, InitialAttempts, Listing!AnswerKinds, AnswerKinds,
            Listing!DamageErrors, DamageErrors, Listing!timeout_check_packet, timeout_check_packet,
            Listing!Packet, Packet
<1>1. Listing!ReceiveDamaged <=> ReceiveDamaged
  BY DEF Listing!ReceiveDamaged, ReceiveDamaged
<1>2. Listing!ReceiveAnswer <=> ReceiveAnswer
  BY DEF Listing!ReceiveAnswer, ReceiveAnswer
<1>3. Listing!ReceiveResend <=> ReceiveResend
  BY DEF Listing!ReceiveResend, ReceiveResend
<1>4. Listing!ReceiveCheckAnswer <=> ReceiveCheckAnswer
  BY DEF Listing!ReceiveCheckAnswer, ReceiveCheckAnswer
<1>5. Listing!AnswerTimesOut <=> AnswerTimesOut
  BY DEF Listing!AnswerTimesOut, AnswerTimesOut
<1>6. Listing!CheckTimesOut <=> CheckTimesOut
  BY DEF Listing!CheckTimesOut, CheckTimesOut
<1>7. Listing!Unplugged <=> Unplugged
  BY DEF Listing!Unplugged, Unplugged, Listing!wireVars, wireVars
<1>8. Listing!Wire <=> Wire
  BY DEF Listing!Wire, Wire, Listing!LosePacket, LosePacket, Listing!DamagePacket, DamagePacket,
         Listing!hostVars, hostVars
<1> HIDE DEF Listing!Receive, Receive, Listing!Finish, Finish, Listing!TryAgain, TryAgain, Listing!TimeRunsOut,
            TimeRunsOut, Listing!InitialAttempts, InitialAttempts, Listing!AnswerKinds, AnswerKinds,
            Listing!DamageErrors, DamageErrors, Listing!timeout_check_packet, timeout_check_packet,
            Listing!Packet, Packet
<1> QED
  BY <1>1, <1>2, <1>3, <1>4, <1>5, <1>6, <1>7, <1>8 DEF Listing!ExchangeStep, ExchangeStep, StepOrWire

(* The answers of the device.                                              *)
SwapReply(p, a) ==
  \/ /\ ~p.intact \/ p.kind = "check"
     /\ a.kind = "resend" /\ checked' = (checked \/ p.intact) /\ UNCHANGED <<sent, device>>
  \/ /\ p.intact /\ p.kind # "check" /\ checked' = FALSE
     /\ \/ a.kind = "error" /\ UNCHANGED <<sent, device>>
        \/ p.kind = "command" /\ device = "passive" /\ a.kind = "ack" /\ device' = "accepted" /\ UNCHANGED sent
        \/ \E n \in Nat \ {0} :
             /\ \/ p.kind = "roleswap" /\ device = "accepted" /\ n = 1
                \/ p.kind = "ack" /\ device = "active" /\ n = sent + 1
             /\ \/ n <= Len(items) /\ a.kind = items[n] /\ a.id = n /\ sent' = n /\ device' = "active"
                \/ n > Len(items) /\ a.kind = "roleswap" /\ device' = "back" /\ UNCHANGED sent
        \/ /\ checked /\ UNCHANGED <<sent, device>>
           /\ \/ device = "accepted" /\ a.kind = "ack"
              \/ device = "active" /\ a.kind = items[sent] /\ a.id = sent
              \/ device = "back" /\ a.kind = "roleswap"

LEMMA ItemsAre ==
  ASSUME SwapTypes, NEW n \in 1 .. Len(items), NEW p \in HostPackets
  PROVE  /\ items[n] \in ItemKinds
         /\ Numbered(items[n], n, p) \in DevicePackets /\ Numbered(items[n], n, p).kind = items[n]
         /\ Numbered(items[n], n, p).id = n /\ Numbered(items[n], n, p).to = p
<1>1. items[n] \in ItemKinds
  BY DEF SwapTypes, ItemKinds
<1>2. items[n] \in AnswerKinds /\ n \in Nat
  BY <1>1 DEF ItemKinds, AnswerKinds
<1> QED
  BY <1>1, <1>2, PacketsAre

LEMMA SwapReplies ==
  ASSUME SwapTypes, SwapDevice, Receive_!DeviceStep
  PROVE  /\ toDevice # <<>> /\ UNCHANGED <<call, step, result, items>>
         /\ \E a \in DevicePackets : a.to = Head(toDevice) /\ DeviceSends(a) /\ SwapReply(Head(toDevice), a)
<1> DEFINE p == Head(toDevice)
<1>1. toDevice # <<>> /\ UNCHANGED <<call, step, result, items>>
  BY DEF Receive_!DeviceStep
<1>2. p \in HostPackets
  BY <1>1, TailOf DEF SwapTypes, ExchangeTypeOK
<1>3. \A k : Receive_!DeviceAnswers(k) => DeviceSends(Answer(k, p))
  BY DEF Receive_!DeviceAnswers, Receive_!DeviceSends, DeviceSends, Receive_!Answer, Answer,
         Receive_!Numbered, Numbered, Receive_!hostVars, hostVars
<1>4. \A k, n : Receive_!DeviceSends(Receive_!Numbered(k, n, p)) => DeviceSends(Numbered(k, n, p))
  BY DEF Receive_!DeviceSends, DeviceSends, Receive_!Numbered, Numbered, Receive_!hostVars, hostVars
<1>5. \A k \in AnswerKinds : Answer(k, p) \in DevicePackets /\ Answer(k, p).kind = k /\ Answer(k, p).to = p
  BY <1>2, PacketsAre
<1>6. sent \in Nat /\ Len(items) \in Nat /\ sent <= Len(items)
  BY EmptyOf DEF SwapTypes
<1>7. ASSUME NEW n \in Nat \ {0}, Receive_!SendItem(n)
      PROVE  \E a \in DevicePackets :
               /\ a.to = p /\ DeviceSends(a)
               /\ \/ n <= Len(items) /\ a.kind = items[n] /\ a.id = n /\ sent' = n /\ device' = "active"
                  \/ n > Len(items) /\ a.kind = "roleswap" /\ device' = "back" /\ UNCHANGED sent
  <2>1. CASE n <= Len(items)
    <3>1. DeviceSends(Numbered(items[n], n, p)) /\ sent' = n /\ device' = "active"
      BY <1>4, <1>7, <2>1 DEF Receive_!SendItem
    <3>2. n \in 1 .. Len(items)
      BY <1>6, <2>1
    <3> QED
      BY <1>2, <2>1, <3>1, <3>2, ItemsAre
  <2>2. CASE n > Len(items)
    <3>1. DeviceSends(Answer("roleswap", p)) /\ device' = "back" /\ UNCHANGED sent
      BY <1>3, <1>6, <1>7, <2>2 DEF Receive_!SendItem
    <3> QED
      BY <1>5, <2>2, <3>1 DEF AnswerKinds
  <2> QED
    BY <1>6, <2>1, <2>2
<1>8. CASE ~p.intact \/ p.kind = "check"
  <2>1. DeviceSends(Answer("resend", p)) /\ checked' = (checked \/ p.intact) /\ UNCHANGED <<sent, device>>
    BY <1>3, <1>8 DEF Receive_!DeviceStep
  <2> QED
    BY <1>1, <1>5, <1>8, <2>1 DEF SwapReply, AnswerKinds
<1>9. CASE p.intact /\ p.kind # "check"
  <2>1. (Receive_!TakeAsNew(p) \/ (checked /\ Receive_!TakeAsCopy(p))) /\ checked' = FALSE
    BY <1>9 DEF Receive_!DeviceStep
  <2>2. CASE p.kind = "command" /\ DeviceSends(Answer("ack", p)) /\ device = "passive" /\ device' = "accepted" /\ UNCHANGED sent
    BY <1>1, <1>5, <1>9, <2>1, <2>2 DEF SwapReply, AnswerKinds
  <2>3. CASE DeviceSends(Answer("error", p)) /\ UNCHANGED <<sent, device>>
    BY <1>1, <1>5, <1>9, <2>1, <2>3 DEF SwapReply, AnswerKinds
  <2>4. CASE p.kind = "roleswap" /\ device = "accepted" /\ Receive_!SendItem(1)
    <3>1. PICK a \in DevicePackets :
               /\ a.to = p /\ DeviceSends(a)
               /\ \/ 1 <= Len(items) /\ a.kind = items[1] /\ a.id = 1 /\ sent' = 1 /\ device' = "active"
                  \/ 1 > Len(items) /\ a.kind = "roleswap" /\ device' = "back" /\ UNCHANGED sent
      BY <1>7, <2>4
    <3>2. SwapReply(p, a)
      BY <1>9, <2>1, <2>4, <3>1 DEF SwapReply
    <3> QED
      BY <1>1, <3>1, <3>2
  <2>5. CASE p.kind = "ack" /\ device = "active" /\ Receive_!SendItem(sent + 1)
    <3>1. PICK a \in DevicePackets :
               /\ a.to = p /\ DeviceSends(a)
               /\ \/ sent + 1 <= Len(items) /\ a.kind = items[sent + 1] /\ a.id = sent + 1 /\ sent' = sent + 1 /\ device' = "active"
                  \/ sent + 1 > Len(items) /\ a.kind = "roleswap" /\ device' = "back" /\ UNCHANGED sent
      BY <1>6, <1>7, <2>5
    <3>2. SwapReply(p, a)
      BY <1>6, <1>9, <2>1, <2>5, <3>1 DEF SwapReply
    <3> QED
      BY <1>1, <3>1, <3>2
  <2>6. CASE checked /\ Receive_!TakeAsCopy(p)
    <3>1. CASE device = "accepted" /\ DeviceSends(Answer("ack", p))
      BY <1>1, <1>5, <1>9, <2>1, <2>6, <3>1 DEF SwapReply, AnswerKinds, Receive_!TakeAsCopy
    <3>2. CASE device = "active" /\ DeviceSends(Numbered(items[sent], sent, p))
      <4>1. sent \in 1 .. Len(items)
        BY <1>6, <3>2 DEF SwapDevice
      <4> QED
        BY <1>1, <1>2, <1>9, <2>1, <2>6, <3>2, <4>1, ItemsAre DEF SwapReply, Receive_!TakeAsCopy
    <3>3. CASE device = "back" /\ DeviceSends(Answer("roleswap", p))
      BY <1>1, <1>5, <1>9, <2>1, <2>6, <3>3 DEF SwapReply, AnswerKinds, Receive_!TakeAsCopy
    <3> QED
      BY <1>3, <1>4, <2>6, <3>1, <3>2, <3>3 DEF Receive_!TakeAsCopy
  <2> QED
    BY <1>3, <2>1, <2>2, <2>3, <2>4, <2>5, <2>6 DEF Receive_!TakeAsNew
<1> QED
  BY <1>8, <1>9, <1>1

LEMMA SwapAnswers ==
  ASSUME SwapTypes, SwapDevice, toDevice # <<>>, NEW a \in DevicePackets, a.to = Head(toDevice), DeviceSends(a),
         SwapReply(Head(toDevice), a), UNCHANGED <<result, items>>
  PROVE  /\ SwapTypes' /\ SwapDevice' /\ (InLockstep => Lockstep')
         /\ Answered' = Answered \cup {Len(toHost) + 1} /\ toHost'[Len(toHost) + 1] = a
         /\ \A j \in Answered : toHost'[j] = toHost[j]
         /\ UNCHANGED <<lost, damaged, late, phase, packet, flags, attempts, outcome, answer, irrecoverable, gone>>
         /\ 1 \in Sent /\ toDevice[1] = Head(toDevice)
         /\ \A j \in Sent' : toDevice'[j] = toDevice[j + 1] /\ j + 1 \in Sent
<1> DEFINE p == Head(toDevice)
<1>1. /\ toDevice' = Tail(toDevice) /\ toHost' = Append(toHost, a)
      /\ UNCHANGED <<lost, damaged, late, phase, packet, flags, attempts, outcome, answer, irrecoverable, gone>>
  BY DEF DeviceSends, hostVars
<1>2. /\ 1 \in Sent /\ p = toDevice[1] /\ p \in HostPackets
      /\ \A j \in Sent' : toDevice'[j] = toDevice[j + 1] /\ j + 1 \in Sent
  BY <1>1, TailOf DEF SwapTypes, ExchangeTypeOK, Sent
<1>3. Answered' = Answered \cup {Len(toHost) + 1} /\ toHost'[Len(toHost) + 1] = a
      /\ \A j \in Answered : toHost'[j] = toHost[j]
  BY <1>1, AppendOf DEF SwapTypes, ExchangeTypeOK, Answered
<1>4. sent \in Nat /\ Len(items) \in Nat /\ sent <= Len(items)
  BY EmptyOf DEF SwapTypes
<1>5. /\ sent' \in 0 .. Len(items) /\ device' \in {"passive", "accepted", "active", "back"} /\ checked' \in BOOLEAN
      /\ device' = "active" => sent' > 0
      /\ device' \in {"passive", "accepted"} => sent' = 0
      /\ device = "back" => device' = "back"
      /\ a.kind = "roleswap" => device' = "back"
      /\ a.kind \in ItemKinds => a.id \in 1 .. Len(items) /\ a.kind = items[a.id]
      /\ a.kind = "resend" <=> ~p.intact \/ p.kind = "check"
  <2>1. \A n \in 1 .. Len(items) : items[n] \in ItemKinds
    BY DEF SwapTypes, ItemKinds
  <2>2. device = "active" => sent > 0 /\ sent \in 1 .. Len(items)
    BY <1>4 DEF SwapDevice
  <2>3. device \in {"passive", "accepted"} => sent = 0
    BY DEF SwapDevice
  <2>4. sent \in 0 .. Len(items) /\ device \in {"passive", "accepted", "active", "back"} /\ checked \in BOOLEAN
        /\ p.intact \in BOOLEAN
    BY <1>2, <1>4 DEF SwapTypes, HostPackets
  <2>5. CASE (~p.intact \/ p.kind = "check") /\ a.kind = "resend" /\ checked' = (checked \/ p.intact)
             /\ UNCHANGED <<sent, device>>
    BY <2>2, <2>3, <2>4, <2>5 DEF ItemKinds
  <2> DEFINE intact == p.intact /\ p.kind # "check"
  <2> HIDE DEF p
  <2>6. CASE intact /\ checked' = FALSE /\ a.kind = "error" /\ UNCHANGED <<sent, device>>
    BY <2>2, <2>3, <2>4, <2>6 DEF ItemKinds
  <2>7. CASE intact /\ checked' = FALSE /\ device = "passive" /\ a.kind = "ack" /\ device' = "accepted"
             /\ UNCHANGED sent
    BY <2>2, <2>3, <2>4, <2>7 DEF ItemKinds
  <2>8. CASE \E n \in Nat \ {0} :
               /\ intact /\ checked' = FALSE
               /\ \/ n <= Len(items) /\ a.kind = items[n] /\ a.id = n /\ sent' = n /\ device' = "active" /\ device # "back"
                  \/ n > Len(items) /\ a.kind = "roleswap" /\ device' = "back" /\ UNCHANGED sent
    <3>1. PICK n \in Nat \ {0} :
               /\ intact /\ checked' = FALSE
               /\ \/ n <= Len(items) /\ a.kind = items[n] /\ a.id = n /\ sent' = n /\ device' = "active" /\ device # "back"
                  \/ n > Len(items) /\ a.kind = "roleswap" /\ device' = "back" /\ UNCHANGED sent
      BY <2>8
    <3>2. CASE n <= Len(items) /\ a.kind = items[n] /\ a.id = n /\ sent' = n /\ device' = "active" /\ device # "back"
      <4>1. n \in 1 .. Len(items) /\ n \in 0 .. Len(items) /\ n > 0
        BY <1>4, <3>2
      <4>2. a.kind \in ItemKinds
        BY <2>1, <3>2, <4>1
      <4> QED
        BY <3>1, <3>2, <4>1, <4>2 DEF ItemKinds
    <3>3. CASE n > Len(items) /\ a.kind = "roleswap" /\ device' = "back" /\ UNCHANGED sent
      BY <2>3, <2>4, <3>1, <3>3 DEF ItemKinds
    <3> QED
      BY <3>1, <3>2, <3>3
  <2>9. CASE /\ intact /\ checked' = FALSE /\ UNCHANGED <<sent, device>>
             /\ \/ device = "accepted" /\ a.kind = "ack"
                \/ device = "active" /\ a.kind = items[sent] /\ a.id = sent
                \/ device = "back" /\ a.kind = "roleswap"
    BY <2>1, <2>2, <2>3, <2>4, <2>9 DEF ItemKinds
  <2> QED
    BY <2>5, <2>6, <2>7, <2>8, <2>9 DEF SwapReply, p
<1>6. SwapTypes'
  <2>1. ExchangeTypeOK'
    BY SendingIsTyped DEF SwapTypes
  <2> QED
    BY <1>5, <2>1 DEF SwapTypes
<1>7. SwapDevice'
  <2>1. \A q : Itemized(q) => (q.kind = "roleswap" => device' = "back")
    BY <1>5 DEF Itemized
  <2>2. \A j \in Answered' : /\ toHost'[j].kind = "roleswap" => device' = "back"
                             /\ toHost'[j].kind \in ItemKinds => /\ toHost'[j].id \in 1 .. Len(items)
                                                                 /\ toHost'[j].kind = items[toHost'[j].id]
    BY <1>3, <1>5 DEF SwapDevice, Itemized
  <2>3. /\ answer'.kind = "roleswap" => device' = "back"
        /\ answer'.kind \in ItemKinds => answer'.id \in 1 .. Len(items) /\ answer'.kind = items[answer'.id]
    BY <1>1, <1>5 DEF SwapDevice, Itemized
  <2> QED
    BY <1>5, <2>2, <2>3 DEF SwapDevice, Itemized
<1>8. InLockstep => Lockstep'
  <2> SUFFICES ASSUME InLockstep PROVE Lockstep'
    OBVIOUS
  <2>1. damaged = 0 => p.intact
    BY <1>2 DEF InLockstep, Lockstep, Genuine
  <2>2. a.kind \notin {"none", "damaged", "other"}
    <3>1. \A n \in 1 .. Len(items) : items[n] \in ItemKinds
      BY DEF SwapTypes, ItemKinds
    <3>2. device = "active" => sent \in 1 .. Len(items)
      BY <1>4 DEF SwapDevice
    <3>3. \A n \in Nat \ {0} : n <= Len(items) => n \in 1 .. Len(items)
      BY <1>4
    <3> QED
      BY <3>1, <3>2, <3>3 DEF SwapReply, ItemKinds
  <2>3. damaged = 0 => Proper(a)
    BY <1>5, <2>1, <2>2 DEF Proper
  <2>4. a.kind = "resend" \/ a.to.kind # "check"
    BY <1>5
  <2> QED
    BY <2>3, <2>4, SendingLocks
<1> QED
  BY <1>1, <1>2, <1>3, <1>6, <1>7, <1>8

LEMMA SwapStepKeeps ==
  ASSUME ExchangeTypeOK, SwapDevice, StepOrWire, UNCHANGED <<items, sent, device>>
  PROVE  SwapDevice'
<1>1. answer' = answer \/ (1 \in Answered /\ answer' = toHost[1])
  BY HostKeeps
<1>2. \A q : Itemized(q)' <=> Itemized(q)
  BY DEF Itemized
<1>3. \A j \in Answered' : Itemized(toHost'[j])
  BY AnsweredKeeps DEF SwapDevice, Itemized, ItemKinds
<1> QED
  BY <1>1, <1>2, <1>3 DEF SwapDevice

-----------------------------------------------------------------------------
(* The function that goes through the entries.                             *)

(* What does not depend on where the function and the exchange are.        *)
LEMMA LookedKeeps ==
  ASSUME UNCHANGED <<call, entries, found, seen>>
  PROVE  \A n : Looked(n)' <=> Looked(n)
BY DEF Looked, Listing!WereGiven, Listing!Named

(* It goes on with nothing sent, or is over.                               *)
LEMMA ListingMoves ==
  ASSUME ListingInv, phase \in {"idle", "done"}, phase' = "idle", step \notin {"idle", "ended"},
         UNCHANGED <<wireVars, packet, flags, attempts, outcome, answer, irrecoverable, gone>>,
         UNCHANGED <<call, items, sent, device, checked, entries, should_skip, found, seen>>,
         step' \in {"swap", "listing", "spinning", "ended"},
         step' # "ended" => UNCHANGED result /\ Usable /\ (Orderly => Quiet),
         result' \in Outcomes \cup {"INT"},
         result' \in {"OK", "INT"} => answer.kind = "roleswap" /\ (Orderly => Quiet),
         lost = 0 /\ late = 0 =>
           /\ step' = "swap" => device = "accepted" /\ sent = 0 /\ Looked(0)
           /\ step' = "listing" => CountsAlike(answer) /\ answer.kind # "resend"
           /\ result' = "OK" => Looked(Len(items))
  PROVE  ListingInv'
<1>1. /\ UNCHANGED <<toDevice, toHost, lost, damaged, late>>
      /\ (Orderly' <=> Orderly) /\ (Usable' <=> Usable) /\ (Quiet' <=> Quiet) /\ Sent' = Sent /\ Answered' = Answered
  BY DEF wireVars, Orderly, Usable, Quiet, Sent, Answered
<1>2. ListingTypes'
  <2>1. ExchangeTypeOK'
    BY <1>1 DEF ListingInv, ListingTypes, SwapTypes, ExchangeTypeOK
  <2> QED
    BY <2>1 DEF ListingInv, ListingTypes, SwapTypes
<1>3. SwapDevice' /\ EntryItems' /\ Survives'
  BY <1>1 DEF ListingInv, SwapDevice, Itemized, EntryItems, Survives
<1>4. ListingStages'
  BY <1>1 DEF ListingInv, ListingStages
<1>5. ListingLocks'
  <2> SUFFICES ASSUME Orderly PROVE ListingLocks'
    BY <1>1 DEF ListingLocks
  <2>1. InLockstep
    BY DEF ListingInv, ListingTypes, SwapTypes, ListingLocks, InLockstep
  <2>2. Lockstep'
    BY <1>1, <2>1 DEF InLockstep, Lockstep, Members, Expected, Same, InOrder, TwoAnswers, NoCheck, Alone, Genuine, Over, Faults,
       Sent, Answered, Quiet, Usable
  <2> QED
    BY <1>1, <2>2 DEF ListingInv, ListingLocks
<1>6. ListingProgress'
  <2> SUFFICES ASSUME lost = 0, late = 0 PROVE ListingProgress'
    BY <1>1 DEF ListingProgress
  <2>1. \A n : Looked(n)' <=> Looked(n)
    BY LookedKeeps
  <2>2. CountsAlike(answer)' <=> CountsAlike(answer)
    BY <2>1 DEF CountsAlike, NotActedUpon
  <2> QED
    BY <1>1, <2>1, <2>2 DEF ListingInv, ListingProgress, ListingStages
<1> QED
  BY <1>2, <1>3, <1>4, <1>5, <1>6 DEF ListingInv

LEMMA ListingDone ==
  ASSUME ListingInv, phase = "done", outcome = "OK"
  PROVE  Usable /\ (Orderly => Quiet)
BY DEF ListingInv, ListingStages, ListingLocks, Lockstep, Over

LEMMA ListingReturns ==
  ASSUME ListingInv, ExchangeReturns, step \notin {"idle", "ended"},
         UNCHANGED <<call, items, sent, device, checked, entries, should_skip, found, seen>>,
         \/ step' = "ended" /\ result' \in Outcomes \ {"OK"}
         \/ /\ step' \in {"swap", "listing"} /\ outcome = "OK" /\ UNCHANGED result
            /\ step' = "swap" => answer.kind = "ack"
  PROVE  ListingInv'
<1>1. /\ phase = "done" /\ phase' = "idle" /\ result = "none"
      /\ UNCHANGED <<wireVars, packet, flags, attempts, outcome, answer, irrecoverable, gone>>
  BY DEF ExchangeReturns, ListingInv, ListingStages
<1>2. outcome = "OK" => Usable /\ (Orderly => Quiet)
  BY <1>1, ListingDone
<1>3. outcome = "OK" /\ lost = 0 /\ late = 0 => CountsAlike(answer) /\ answer.kind # "resend"
  BY <1>1 DEF ListingInv, ListingProgress
<1>4. result' \in Outcomes \cup {"INT"} /\ ~(result' \in {"OK", "INT"})
  BY <1>1 DEF Outcomes, DamageErrors
<1>5. lost = 0 /\ late = 0 =>
           /\ step' = "swap" => device = "accepted" /\ sent = 0 /\ Looked(0)
           /\ step' = "listing" => CountsAlike(answer) /\ answer.kind # "resend"
  BY <1>3 DEF CountsAlike
<1> QED
  BY <1>1, <1>2, <1>4, <1>5, ListingMoves

LEMMA ListingReturnsPreserves ==
  ASSUME ListingInv,
         \/ Listing!CommandReturns /\ UNCHANGED <<entries, should_skip, found, seen>>
         \/ Listing!RoleswapReturns \/ Listing!AcknowledgeReturns
  PROVE  ListingInv'
<1>1. ExchangeReturns /\ phase = "done" /\ outcome # "none" /\ step \in {"command", "swap", "listing"} /\ result = "none"
  BY ListingExchanges DEF Listing!CommandReturns, Listing!RoleswapReturns, Listing!AcknowledgeReturns, ExchangeReturns,
     ListingInv, ListingStages
<1>2. /\ UNCHANGED <<call, items, sent, device, checked, entries, should_skip, found, seen>>
      /\ \/ step' = "ended" /\ result' \in {outcome, "UNKNOWN"} /\ (result' = outcome => outcome # "OK" \/ result' = "UNKNOWN")
         \/ /\ step' \in {"swap", "listing"} /\ outcome = "OK" /\ UNCHANGED result
            /\ step' = "swap" => answer.kind = "ack"
  BY DEF Listing!CommandReturns, Listing!RoleswapReturns, Listing!AcknowledgeReturns, Listing!Expect, Listing!GoTo,
     Listing!End, Listing!Error, Listing!deviceVars, Listing!listingVars, Listing!swapVars
<1>3. step' = "ended" => result' \in Outcomes \ {"OK"}
  <2>1. outcome \in Outcomes
    BY DEF ListingInv, ListingTypes, SwapTypes, ExchangeTypeOK
  <2> QED
    BY <1>2, <2>1 DEF Outcomes, DamageErrors
<1> QED
  BY <1>1, <1>2, <1>3, ListingReturns

(* The loop goes round for ever, or is left.                               *)
LEMMA ListingLoopPreserves ==
  ASSUME ListingInv, Listing!ContinueAfterStop \/ Listing!ContinueUnknown \/ Listing!LoopEnds
  PROVE  ListingInv'
<1>1. /\ step = "listing" /\ phase = "idle" /\ phase' = "idle"
      /\ UNCHANGED <<wireVars, packet, flags, attempts, outcome, answer, irrecoverable, gone>>
      /\ UNCHANGED <<call, items, sent, device, checked, entries, should_skip, found, seen>>
      /\ \/ step' = "spinning" /\ UNCHANGED result
         \/ /\ step' = "ended" /\ result' \in {"UNKNOWN", "INT", "OK"}
            /\ result' \in {"INT", "OK"} => answer.kind = "roleswap"
  BY DEF Listing!ContinueAfterStop, Listing!ContinueUnknown, Listing!LoopEnds, Listing!Listing, Listing!Spin, Listing!GoTo,
     Listing!End, Listing!deviceVars, Listing!listingVars, Listing!exchangeVars, Listing!wireVars, Listing!hostVars, wireVars
<1>2. Usable /\ (Orderly => Quiet) /\ result = "none"
  BY <1>1 DEF ListingInv, ListingStages, ListingLocks
<1>3. lost = 0 /\ late = 0 => CountsAlike(answer)
  BY <1>1 DEF ListingInv, ListingProgress
<1>4. result' \in Outcomes \cup {"INT"}
  BY <1>1, <1>2 DEF Outcomes, DamageErrors
<1>5. lost = 0 /\ late = 0 => (result' = "OK" => Looked(Len(items)))
  BY <1>1, <1>2, <1>3 DEF CountsAlike
<1> QED
  BY <1>1, <1>2, <1>4, <1>5, ListingMoves

(* It sends a packet.                                                      *)
LEMMA ListingSends ==
  ASSUME ListingInv, NEW k \in {"command", "roleswap", "ack"}, StartExchange(Packet(k, 0), {}),
         UNCHANGED <<call, step, result, items, sent, device, checked, entries>>,
         step \in {"command", "swap", "listing"},
         k = CASE step = "command" -> "command" [] step = "swap" -> "roleswap" [] OTHER -> "ack",
         should_skip' \in BOOLEAN, found' \in BOOLEAN, seen' \in Seq(1 .. MaxEntries),
         lost = 0 /\ late = 0 =>
           /\ device = CASE k = "command" -> "passive" [] k = "roleswap" -> "accepted" [] OTHER -> "active"
           /\ k # "ack" => sent = 0
           /\ Looked(sent)'
  PROVE  ListingInv'
<1> DEFINE p == Packet(k, 0)
<1>1. p \in HostPackets /\ p.kind = k /\ p.intact /\ p.kind # "check"
  BY PacketsAre DEF PacketKinds
<1>2. /\ phase = "idle" /\ packet' = p /\ flags' = {} /\ toDevice' = Append(toDevice, p)
      /\ Sent' = Sent \cup {Len(toDevice) + 1} /\ toDevice'[Len(toDevice) + 1] = p
      /\ \A j \in Sent : toDevice'[j] = toDevice[j]
      /\ UNCHANGED <<toHost, lost, damaged, late, answer, irrecoverable>>
      /\ phase' = "answer" /\ UNCHANGED <<outcome, gone>>
  <2>1. {} \in SUBSET Flags /\ "no_receive" \notin {} /\ ExchangeTypeOK
    BY DEF ListingInv, ListingTypes, SwapTypes
  <2> QED
    BY <1>1, <2>1, StartIs
<1> HIDE DEF p
<1>3. Usable /\ result = "none" /\ (Orderly => Quiet)
  BY <1>2 DEF ListingInv, ListingStages, ListingLocks
<1>4. (Orderly' <=> Orderly) /\ (Usable' <=> Usable) /\ Answered' = Answered
  BY <1>2 DEF Orderly, Usable, Answered
<1>5. ListingTypes'
  <2>1. ExchangeTypeOK'
    BY <1>1, StartIsTyped DEF ListingInv, ListingTypes, SwapTypes, p
  <2> QED
    BY <2>1 DEF ListingInv, ListingTypes, SwapTypes
<1>6. SwapDevice' /\ EntryItems' /\ Survives'
  BY <1>2, <1>4 DEF ListingInv, SwapDevice, Itemized, EntryItems, Survives
<1>7. ListingStages'
  BY <1>1, <1>2, <1>3, <1>4 DEF ListingInv, ListingStages
<1>8. ListingLocks'
  <2> SUFFICES ASSUME Orderly PROVE ListingLocks'
    BY <1>4 DEF ListingLocks
  <2>1. Lockstep'
    BY <1>1, <1>3, StartLocks DEF ListingInv, ListingTypes, SwapTypes, p
  <2> QED
    BY <1>2, <1>3, <2>1 DEF ListingLocks
<1>9. ListingProgress'
  <2> SUFFICES ASSUME lost = 0, late = 0 PROVE ListingProgress'
    BY <1>2 DEF ListingProgress
  <2>1. Quiet /\ Sent = {} /\ Answered' = {}
    BY <1>3, <1>4 DEF Orderly, Quiet, Sent, Answered
  <2>2. toDevice' # <<>> /\ ~Quiet'
    <3>1. toDevice' = <<p>>
      BY <1>2, <2>1 DEF Quiet
    <3> QED
      BY <3>1 DEF Quiet
  <2>3. NotActedUpon'
    BY <1>1, <1>2 DEF NotActedUpon
  <2>4. \E n \in 0 .. sent : Looked(n)'
    <3>1. sent \in 0 .. sent
      BY EmptyOf DEF ListingInv, ListingTypes, SwapTypes
    <3> QED
      BY <3>1
  <2>5. ~checked
    BY DEF ListingInv, ListingProgress
  <2> QED
    BY <1>1, <1>2, <1>3, <2>1, <2>2, <2>3, <2>4, <2>5 DEF ListingProgress
<1> QED
  BY <1>5, <1>6, <1>7, <1>8, <1>9 DEF ListingInv

LEMMA NamedNext ==
  ASSUME NEW n \in Nat \ {0}
  PROVE  /\ entries[n] \in {"wanted", "plain"} => Listing!Named(n) = Listing!Named(n - 1) \cup {n}
         /\ entries[n] \notin {"wanted", "plain"} => Listing!Named(n) = Listing!Named(n - 1)
         /\ \A k \in Listing!Named(n - 1) : k < n /\ k \in Nat
<1>1. 1 .. n = (1 .. n - 1) \cup {n} /\ \A k \in 1 .. n - 1 : k < n /\ k \in Nat
  OBVIOUS
<1> QED
  BY <1>1 DEF Listing!Named

(* The entry in the answer has been looked at.                             *)
LEMMA EntryLooked ==
  ASSUME ListingInv, step = "listing", phase = "idle", answer.kind \in {"command", "unknown_command"},
         UNCHANGED <<call, entries, sent>>,
         \/ /\ call = "list"
            /\ answer.kind = "unknown_command" \/ entries[answer.id] = "unnamed"
            /\ UNCHANGED seen
         \/ /\ call = "list" /\ answer.kind = "command" /\ entries[answer.id] # "unnamed"
            /\ seen' = Append(seen, answer.id)
         \/ /\ call = "type" /\ answer.kind = "command"
            /\ found' <=> found \/ entries[answer.id] = "wanted"
  PROVE  /\ call = "list" => seen' \in Seq(1 .. MaxEntries)
         /\ lost = 0 /\ late = 0 => device = "active" /\ Looked(sent)'
<1>1. answer.id \in 1 .. Len(entries) /\ Len(entries) \in Nat /\ Len(entries) <= MaxEntries /\ MaxEntries \in Nat
  BY CountsAssumption, EmptyOf DEF ListingInv, ListingTypes, SwapDevice, Itemized, EntryItems, ItemKinds
<1>2. /\ entries[answer.id] \in {"wanted", "plain", "unnamed", "unknown"}
      /\ answer.kind = "unknown_command" <=> entries[answer.id] = "unknown"
  BY <1>1 DEF ListingInv, ListingTypes, Listing!Entries, SwapDevice, Itemized, EntryItems, ItemKinds
<1>3. seen \in Seq(1 .. MaxEntries) /\ answer.id \in 1 .. MaxEntries
  BY <1>1 DEF ListingInv, ListingTypes
<1>4. call = "list" => seen' \in Seq(1 .. MaxEntries)
  BY <1>3, AppendOf
<1>5. ASSUME lost = 0, late = 0
      PROVE  device = "active" /\ Looked(sent)'
  <2>1. device = "active" /\ answer.id = sent /\ Looked(sent - 1) /\ sent \in Nat \ {0}
    BY <1>1, <1>5 DEF ListingInv, ListingProgress, CountsAlike, ItemKinds
  <2>2. CASE call = "list" /\ entries[sent] \in {"wanted", "plain"}
    <3>1. /\ seen' = Append(seen, sent) /\ Listing!WereGiven(Listing!Named(sent - 1))
          /\ Listing!Named(sent) = Listing!Named(sent - 1) \cup {sent}
          /\ \A k \in Listing!Named(sent - 1) : k < sent /\ k \in Nat
      BY <1>2, <2>1, <2>2, NamedNext DEF Looked
    <3>2. /\ Len(seen') = Len(seen) + 1 /\ Len(seen) \in Nat /\ seen'[Len(seen) + 1] = sent
          /\ \A k \in 1 .. Len(seen) : seen'[k] = seen[k]
          /\ DOMAIN seen = 1 .. Len(seen) /\ DOMAIN seen' = 1 .. Len(seen) + 1
      BY <1>3, <1>4, <2>1, <2>2, <3>1, AppendOf
    <3>3. \A k \in DOMAIN seen : seen[k] \in Listing!Named(sent - 1)
      BY <3>1 DEF Listing!WereGiven
    <3>4. {seen'[k] : k \in DOMAIN seen'} = Listing!Named(sent)
      <4>1. DOMAIN seen' = DOMAIN seen \cup {Len(seen) + 1}
        BY <3>2
      <4>2. {seen'[k] : k \in DOMAIN seen'} = {seen[k] : k \in DOMAIN seen} \cup {sent}
        BY <3>2, <4>1
      <4> QED
        BY <3>1, <4>2 DEF Listing!WereGiven
    <3>5. \A j, k \in DOMAIN seen' : j < k => seen'[j] < seen'[k]
      <4> SUFFICES ASSUME NEW j \in DOMAIN seen', NEW k \in DOMAIN seen', j < k PROVE seen'[j] < seen'[k]
        OBVIOUS
      <4>1. j \in DOMAIN seen
        BY <3>2
      <4>2. CASE k \in DOMAIN seen
        BY <3>1, <3>2, <4>1, <4>2 DEF Listing!WereGiven
      <4>3. CASE k \notin DOMAIN seen
        <5>1. seen'[k] = sent
          BY <3>2, <4>3
        <5> QED
          BY <3>1, <3>2, <3>3, <4>1, <5>1
      <4> QED
        BY <4>2, <4>3
    <3>6. Listing!WereGiven(Listing!Named(sent))'
      BY <3>4, <3>5 DEF Listing!WereGiven, Listing!Named
    <3> QED
      BY <2>1, <2>2, <3>6 DEF Looked
  <2>3. CASE call = "list" /\ entries[sent] \notin {"wanted", "plain"}
    <3>1. seen' = seen /\ Listing!Named(sent) = Listing!Named(sent - 1)
      BY <1>2, <2>1, <2>3, NamedNext
    <3> QED
      BY <2>1, <2>3, <3>1 DEF Looked, Listing!WereGiven, Listing!Named
  <2>4. CASE call = "type"
    <3>1. 1 .. sent = (1 .. sent - 1) \cup {sent}
      BY <2>1
    <3>2. found' <=> found \/ entries[sent] = "wanted"
      BY <2>1, <2>4
    <3>3. found <=> \E k \in 1 .. sent - 1 : entries[k] = "wanted"
      BY <2>1, <2>4 DEF Looked
    <3>4. found' <=> \E k \in 1 .. sent : entries[k] = "wanted"
      BY <3>1, <3>2, <3>3
    <3> QED
      BY <2>1, <2>4, <3>4 DEF Looked
  <2>5. call \in {"list", "type"}
    OBVIOUS
  <2> QED
    BY <2>2, <2>3, <2>4, <2>5
<1> QED
  BY <1>4, <1>5

LEMMA ListingSendPreserves ==
  ASSUME ListingInv,
         \/ (Listing!SendCommand \/ Listing!SendRoleswap) /\ UNCHANGED <<entries, should_skip, found, seen>>
         \/ Listing!SkipUnknown \/ Listing!SkipUnnamed \/ Listing!Callback \/ Listing!Compare
  PROVE  ListingInv'
<1>1. /\ should_skip \in BOOLEAN /\ found \in BOOLEAN /\ seen \in Seq(1 .. MaxEntries)
  BY DEF ListingInv, ListingTypes
<1>2. CASE (Listing!SendCommand \/ Listing!SendRoleswap) /\ UNCHANGED <<entries, should_skip, found, seen>>
  <2>1. PICK k \in {"command", "roleswap"} :
          /\ StartExchange(Packet(k, 0), {})
          /\ UNCHANGED <<call, step, result, items, sent, device, checked, entries, should_skip, found, seen>>
          /\ step = IF k = "command" THEN "command" ELSE "swap"
    BY <1>2, ListingExchanges DEF Listing!SendCommand, Listing!SendRoleswap, Listing!swapVars, Listing!deviceVars
  <2>2. phase = "idle"
    BY <2>1 DEF StartExchange
  <2>3. lost = 0 /\ late = 0 =>
          /\ device = IF k = "command" THEN "passive" ELSE "accepted"
          /\ sent = 0 /\ Looked(sent)'
    BY <2>1, <2>2, LookedKeeps DEF ListingInv, ListingProgress
  <2> QED
    BY <1>1, <2>1, <2>3, ListingSends
<1>3. CASE Listing!SkipUnknown \/ Listing!SkipUnnamed \/ Listing!Callback \/ Listing!Compare
  <2>1. /\ StartExchange(Packet("ack", 0), {}) /\ step = "listing" /\ phase = "idle"
        /\ UNCHANGED <<call, step, result, items, sent, device, checked, entries>>
        /\ should_skip' \in BOOLEAN
        /\ answer.kind \in {"command", "unknown_command"}
    BY <1>1, <1>3, ListingExchanges
       DEF Listing!SkipUnknown, Listing!SkipUnnamed, Listing!Callback, Listing!Compare, Listing!Listing,
           Listing!Acknowledge, Listing!swapVars, Listing!deviceVars, Listing!listingVars
  <2>2. \/ /\ call = "list"
           /\ answer.kind = "unknown_command" \/ entries[answer.id] = "unnamed"
           /\ UNCHANGED <<seen, found>>
        \/ /\ call = "list" /\ answer.kind = "command" /\ entries[answer.id] # "unnamed"
           /\ seen' = Append(seen, answer.id) /\ UNCHANGED found
        \/ /\ call = "type" /\ answer.kind = "command" /\ UNCHANGED seen
           /\ found' = (found \/ entries[answer.id] = "wanted")
    BY <1>3 DEF Listing!SkipUnknown, Listing!SkipUnnamed, Listing!Callback, Listing!Compare, Listing!Listing,
           Listing!Entry, Listing!listingVars
  <2>3. (call = "list" => seen' \in Seq(1 .. MaxEntries)) /\ (lost = 0 /\ late = 0 => device = "active" /\ Looked(sent)')
    <3>1. UNCHANGED <<call, entries, sent>>
      BY <2>1
    <3> QED
      BY <2>1, <2>2, <3>1, EntryLooked
  <2>4. found' \in BOOLEAN /\ seen' \in Seq(1 .. MaxEntries)
    BY <1>1, <2>2, <2>3
  <2> QED
    BY <2>1, <2>3, <2>4, ListingSends
<1> QED
  BY <1>2, <1>3

(* The call.                                                               *)
LEMMA ListingBeginPreserves ==
  ASSUME ListingInv, NEW function \in {"list", "type"}, NEW list \in Listing!Lists, Listing!Begin(function, list)
  PROVE  ListingInv'
<1>1. /\ step = "idle" /\ step' = "command" /\ call' = function /\ Usable /\ entries' = list
      /\ items' = [n \in DOMAIN list |-> IF list[n] = "unknown" THEN "unknown_command" ELSE "command"]
      /\ UNCHANGED <<toDevice, toHost, lost, damaged, late, phase, packet, flags, attempts, outcome, answer,
                     irrecoverable, gone>>
      /\ UNCHANGED <<result, sent, device, checked, should_skip, found, seen>>
  BY DEF Listing!Begin, Listing!BeginCall, Listing!exchangeVars, Listing!wireVars, Listing!hostVars, Usable
<1>2. Quiet /\ sent = 0 /\ seen = <<>> /\ found = FALSE /\ device = "passive" /\ phase = "idle" /\ answer = NoAnswer
      /\ result = "none"
  BY <1>1 DEF ListingInv, ListingStages
<1>3. PICK m \in 0 .. MaxEntries : list \in [1 .. m -> Listing!Entries]
  BY DEF Listing!Lists
<1>4. /\ list \in Seq(Listing!Entries) /\ Len(list) = m /\ DOMAIN list = 1 .. m
      /\ items' \in Seq({"command", "unknown_command", "data"}) /\ Len(items') = m
      /\ m \in Nat /\ m <= MaxEntries
      /\ \A n \in 1 .. m : items'[n] = IF list[n] = "unknown" THEN "unknown_command" ELSE "command"
  <2>1. m \in Nat /\ m <= MaxEntries
    BY <1>3, CountsAssumption
  <2>2. DOMAIN list = 1 .. m /\ list \in Seq(Listing!Entries) /\ Len(list) = m
    BY <1>3, <2>1
  <2>3. items' \in [1 .. m -> {"command", "unknown_command", "data"}]
    BY <1>1, <2>2
  <2> QED
    BY <1>1, <2>1, <2>2, <2>3
<1>5. (Orderly' <=> Orderly) /\ Usable' /\ Quiet' /\ Sent' = {} /\ Answered' = {}
  BY <1>1, <1>2 DEF Orderly, Usable, Quiet, Sent, Answered
<1>6. ListingTypes'
  <2>1. ExchangeTypeOK'
    BY <1>1 DEF ListingInv, ListingTypes, SwapTypes, ExchangeTypeOK
  <2>2. sent' \in 0 .. Len(items')
    BY <1>1, <1>2, <1>4
  <2> QED
    BY <1>1, <1>2, <1>4, <2>1, <2>2 DEF ListingInv, ListingTypes, SwapTypes
<1>7. SwapDevice'
  <2>1. Itemized(answer)'
    BY <1>1, <1>2, PacketsAre DEF Itemized, ItemKinds
  <2> QED
    BY <1>1, <1>2, <1>5, <2>1 DEF SwapDevice
<1>8. EntryItems' /\ Survives'
  BY <1>1, <1>4 DEF ListingInv, EntryItems, Survives
<1>9. ListingStages'
  BY <1>1, <1>2, <1>5 DEF ListingInv, ListingStages
<1>10. ListingLocks'
  <2>1. packet'.intact /\ packet'.kind # "check" /\ phase' = "idle"
    BY <1>1, <1>2 DEF ListingInv, ListingStages
  <2> QED
    BY <1>1, <1>2, <1>5, <2>1, QuietLocks DEF ListingLocks
<1>11. ListingProgress'
  <2> SUFFICES ASSUME lost = 0, late = 0 PROVE ListingProgress'
    BY <1>1 DEF ListingProgress
  <2>1. Looked(0)'
    <3>1. Listing!Named(0)' = {} /\ 1 .. 0 = {}
      BY DEF Listing!Named
    <3>2. {seen'[k] : k \in DOMAIN seen'} = {} /\ \A j \in DOMAIN seen' : FALSE
      BY <1>1, <1>2
    <3>3. Listing!WereGiven({})'
      BY <3>2 DEF Listing!WereGiven
    <3>4. Listing!WereGiven(Listing!Named(0))'
      BY <3>1, <3>3 DEF Listing!WereGiven
    <3> QED
      BY <1>1, <1>2, <3>1, <3>4 DEF Looked
  <2>2. \E n \in 0 .. sent' : Looked(n)'
    <3>1. 0 \in 0 .. sent'
      BY <1>1, <1>2
    <3> QED
      BY <2>1, <3>1
  <2>3. ~checked
    BY DEF ListingInv, ListingProgress
  <2> QED
    BY <1>1, <1>2, <1>5, <2>1, <2>2, <2>3 DEF ListingProgress
<1> QED
  BY <1>6, <1>7, <1>8, <1>9, <1>10, <1>11 DEF ListingInv

(* The exchange goes on, while nothing is lost or late: nothing is ever    *)
(* waited for in vain.                                                     *)
LEMMA ListingGoesRight ==
  ASSUME ListingInv, StepOrWire, UNCHANGED <<call, step, result, items, sent, device, checked, entries, found, seen>>
  PROVE  ListingProgress'
<1> SUFFICES ASSUME lost' = 0, late' = 0 PROVE ListingProgress'
  BY DEF ListingProgress
<1>1. ExchangeTypeOK /\ lost = 0 /\ late = 0
  <2>1. ExchangeTypeOK
    BY DEF ListingInv, ListingTypes, SwapTypes
  <2>2. lost <= lost' /\ late <= late' /\ lost \in Nat /\ late \in Nat
    BY <2>1, FaultsAreCounted DEF StepOrWire
  <2> QED
    BY <2>1, <2>2
<1>2. /\ phase # "check" /\ ~checked /\ phase # "receive"
      /\ phase = "answer" =>
           /\ ~Quiet
           /\ toDevice # <<>> => NotActedUpon
           /\ \A j \in Answered : CountsAlike(toHost[j])
      /\ \A j \in Sent : toDevice[j].kind # "check"
      /\ phase = "idle" /\ step \in {"idle", "command"} => device = "passive" /\ sent = 0 /\ Looked(0)
      /\ phase = "idle" /\ step = "swap" => device = "accepted" /\ sent = 0 /\ Looked(0)
      /\ phase = "idle" /\ step = "listing" => CountsAlike(answer) /\ answer.kind # "resend"
      /\ phase = "done" /\ outcome = "OK" => CountsAlike(answer) /\ answer.kind # "resend"
      /\ result = "OK" => Looked(Len(items))
      /\ \E n \in 0 .. sent : Looked(n)
  BY <1>1 DEF ListingInv, ListingProgress, ListingStages
<1>3. UNCHANGED packet
  BY <1>1, HostKeeps
<1>4. \A n : Looked(n)' <=> Looked(n)
  BY LookedKeeps
<1>5. NotActedUpon' <=> NotActedUpon
  BY <1>3, <1>4 DEF NotActedUpon
<1>6. \A q : CountsAlike(q)' <=> CountsAlike(q)
  BY <1>4, <1>5 DEF CountsAlike
<1>7. (\E n \in 0 .. sent' : Looked(n)') /\ (result' = "OK" => Looked(Len(items))') /\ ~checked'
      /\ device' = device /\ sent' = sent /\ step' = step /\ (Looked(0)' <=> Looked(0))
  BY <1>2, <1>4
<1>8. CASE DamagePacket
  <2>1. /\ UNCHANGED <<phase, outcome, answer>> /\ Sent' = Sent /\ Answered' = Answered
        /\ \A k \in Sent : Same(toDevice'[k], toDevice[k])
        /\ \A k \in Answered : /\ toHost'[k].id = toHost[k].id
                               /\ toHost'[k].kind \in {toHost[k].kind, "damaged", "other"}
        /\ (toDevice' = <<>> <=> toDevice = <<>>) /\ (toHost' = <<>> <=> toHost = <<>>)
    <3>1. /\ toDevice \in Seq(HostPackets) /\ toHost \in Seq(DevicePackets)
          /\ toDevice' \in Seq(HostPackets) /\ toHost' \in Seq(DevicePackets)
          /\ Len(toDevice') = Len(toDevice) /\ Len(toHost') = Len(toHost)
      BY <1>1, <1>8, DamageIs DEF ExchangeTypeOK
    <3> QED
      BY <1>1, <1>8, <3>1, DamageIs, EmptyOf DEF hostVars, Sent, Answered
  <2>2. phase = "answer" => \A j \in Answered' : CountsAlike(toHost'[j])
    BY <1>2, <2>1 DEF CountsAlike, ItemKinds
  <2>3. phase' = "answer" => /\ ~Quiet' /\ (toDevice' # <<>> => NotActedUpon')
                             /\ \A j \in Answered' : CountsAlike(toHost'[j])
    BY <1>2, <1>5, <2>1, <2>2 DEF Quiet
  <2>4. \A j \in Sent' : toDevice'[j].kind # "check"
    BY <1>2, <2>1 DEF Same
  <2> QED
    BY <1>2, <1>6, <1>7, <2>1, <2>3, <2>4 DEF ListingProgress
<1>9. CASE ReceiveDamaged \/ Unplugged
  <2>1. phase' = "done" /\ outcome' # "OK" /\ UNCHANGED toDevice
    BY <1>9 DEF ReceiveDamaged, Unplugged, Finish, DamageErrors, wireVars
  <2> QED
    BY <1>2, <1>7, <2>1 DEF ListingProgress, Sent
<1>10. CASE ReceiveAnswer
  <2>1. /\ phase' = "done" /\ UNCHANGED toDevice /\ phase = "answer"
        /\ 1 \in Answered /\ toHost[1].kind \notin {"damaged", "resend"} /\ answer' = toHost[1]
    BY <1>1, <1>2, <1>10, ReceptionTakes DEF ReceiveAnswer, Finish
  <2>2. CountsAlike(answer') /\ answer'.kind # "resend"
    BY <1>2, <2>1
  <2>3. CountsAlike(answer)'
    BY <1>3, <1>7, <1>5, <2>2, <1>4 DEF CountsAlike
  <2> QED
    BY <1>2, <1>7, <2>1, <2>2, <2>3 DEF ListingProgress, Sent
<1>11. CASE ReceiveResend
  <2>1. /\ phase = "answer" /\ TryAgain(attempts) /\ 1 \in Answered /\ toHost[1].kind = "resend"
        /\ \A j \in Answered' : j + 1 \in Answered /\ toHost'[j] = toHost[j + 1]
    BY <1>1, <1>2, <1>11, ReceptionTakes DEF ReceiveResend
  <2>2. NotActedUpon
    BY <1>2, <2>1 DEF CountsAlike
  <2>3. \A j \in Sent' : toDevice'[j].kind # "check"
    <3>1. packet.kind # "check"
      BY DEF ListingInv, ListingStages
    <3> QED
      BY <1>1, <1>2, <2>1, <3>1, RetrySends
  <2>4. \A j \in Answered' : CountsAlike(toHost'[j])
    BY <1>2, <2>1
  <2>5. phase' = "answer" => toDevice' # <<>>
    <3>1. packet \in HostPackets /\ toDevice \in Seq(HostPackets)
      BY <1>1 DEF ExchangeTypeOK
    <3>2. Append(toDevice, packet) # <<>>
      BY <3>1, AppendOf, EmptyOf
    <3> QED
      BY <2>1, <3>2 DEF TryAgain, Finish
  <2>6. phase' \in {"answer", "done"} /\ (phase' = "done" => outcome' # "OK")
    BY <2>1 DEF TryAgain, Finish
  <2> QED
    BY <1>5, <1>6, <1>7, <2>2, <2>3, <2>4, <2>5, <2>6 DEF ListingProgress, Quiet
<1>12. ~(LosePacket \/ ReceiveCheckAnswer \/ CheckTimesOut \/ AnswerTimesOut)
  <2>1. ~LosePacket
    BY <1>1 DEF LosePacket
  <2>2. ~AnswerTimesOut
    BY <1>1, <1>2 DEF AnswerTimesOut, TimeRunsOut, Quiet
  <2> QED
    BY <1>2, <2>1, <2>2 DEF ReceiveCheckAnswer, CheckTimesOut
<1> QED
  BY <1>8, <1>9, <1>10, <1>11, <1>12 DEF StepOrWire, ExchangeStep, Wire

LEMMA ListingExchangePreserves ==
  ASSUME ListingInv, Listing!Exchange
  PROVE  ListingInv'
<1>1. StepOrWire /\ UNCHANGED <<call, step, result, items, sent, device, checked, entries, should_skip, found, seen>>
  BY ListingGoesOn DEF Listing!Exchange, Listing!callVars, Listing!swapVars, Listing!deviceVars, Listing!listingVars
<1>2. ExchangeTypeOK /\ ExchangeTypeOK' /\ (Orderly' => Orderly) /\ (Usable' => Usable)
  BY <1>1, StepCounts DEF ListingInv, ListingTypes, SwapTypes
<1>3. /\ UNCHANGED <<packet, flags>>
      /\ answer' = answer \/ (1 \in Answered /\ answer' = toHost[1])
      /\ \/ Wire /\ UNCHANGED <<phase, packet, flags, attempts, outcome, answer, irrecoverable, gone>> /\ ~Quiet
         \/ /\ phase \in {"answer", "check", "receive"} /\ phase' \in {"answer", "check", "done"}
            /\ phase = "receive" => phase' = "done"
            /\ phase' # "done" => UNCHANGED <<irrecoverable, gone>>
            /\ phase' = "done" => outcome' # "none"
            /\ phase' = "done" /\ outcome' = "OK" =>
                 UNCHANGED <<irrecoverable, gone>> /\ 1 \in Answered /\ answer' = toHost[1]
  BY <1>1, <1>2, HostKeeps DEF hostVars
<1>4. ListingTypes'
  BY <1>1, <1>2 DEF ListingInv, ListingTypes, SwapTypes
<1>5. SwapDevice' /\ EntryItems'
  BY <1>1, <1>2, SwapStepKeeps DEF ListingInv, EntryItems
<1>6. ListingStages'
  BY <1>1, <1>3 DEF ListingInv, ListingStages, Usable
<1>7. ListingLocks'
  <2> SUFFICES ASSUME Orderly, Orderly' PROVE ListingLocks'
    BY <1>2 DEF ListingLocks
  <2>1. Lockstep'
    <3>1. InLockstep /\ phase # "receive"
      BY <1>2 DEF ListingInv, ListingLocks, ListingStages, InLockstep
    <3> QED
      BY <1>1, <3>1, StepLocks, WireLocks DEF StepOrWire
  <2>2. phase' = "idle" /\ step # "ended" => FALSE
    BY <1>3 DEF ListingInv, ListingLocks
  <2>3. result \notin {"OK", "INT"}
    BY <1>3 DEF ListingInv, ListingStages, ListingLocks
  <2> QED
    BY <1>1, <2>1, <2>2, <2>3 DEF ListingLocks
<1>8. ListingProgress'
  BY <1>1, ListingGoesRight
<1>9. Survives'
  BY <1>1, <1>2, SurvivesStep DEF ListingInv, ListingLocks
<1> QED
  BY <1>4, <1>5, <1>6, <1>7, <1>8, <1>9 DEF ListingInv

LEMMA ListingDeviceIs == Listing!DeviceStep <=> Receive_!DeviceStep
<1>1. \A k : Listing!DeviceAnswers(k) <=> Receive_!DeviceAnswers(k)
  BY DEF Listing!DeviceAnswers, Receive_!DeviceAnswers, Listing!DeviceSends, Receive_!DeviceSends,
         Listing!Answer, Receive_!Answer, Listing!Numbered, Receive_!Numbered, Listing!hostVars, Receive_!hostVars
<1>2. \A k, n, p : Listing!DeviceSends(Listing!Numbered(k, n, p)) <=> Receive_!DeviceSends(Receive_!Numbered(k, n, p))
  BY DEF Listing!DeviceSends, Receive_!DeviceSends, Listing!Numbered, Receive_!Numbered, Listing!hostVars,
         Receive_!hostVars
<1>3. \A n : Listing!SendItem(n) <=> Receive_!SendItem(n)
  BY <1>1, <1>2 DEF Listing!SendItem, Receive_!SendItem
<1>4. \A p : Listing!TakeAsNew(p) <=> Receive_!TakeAsNew(p)
  BY <1>1, <1>3 DEF Listing!TakeAsNew, Receive_!TakeAsNew
<1>5. \A p : Listing!TakeAsCopy(p) <=> Receive_!TakeAsCopy(p)
  BY <1>1, <1>2 DEF Listing!TakeAsCopy, Receive_!TakeAsCopy
<1> QED
  BY <1>1, <1>4, <1>5 DEF Listing!DeviceStep, Receive_!DeviceStep

(* The device counts like the function, when it acts upon the packet.      *)
LEMMA ReplyCounts ==
  ASSUME ListingTypes, EntryItems, NotActedUpon, ~checked, NEW p, p.intact \in BOOLEAN, p.kind = packet.kind,
         p.kind # "check", NEW a, SwapReply(p, a), UNCHANGED <<call, packet, items, entries, found, seen>>
  PROVE  CountsAlike(a)' /\ ~checked'
<1>1. \A n : Looked(n)' <=> Looked(n)
  BY LookedKeeps
<1>2. sent \in Nat /\ Len(items) \in Nat /\ sent <= Len(items)
  BY EmptyOf DEF ListingTypes, SwapTypes
<1>3. \A n \in 1 .. Len(items) : items[n] \in ItemKinds
  BY DEF ListingTypes, SwapTypes, ItemKinds
<1>4. CASE ~p.intact /\ a.kind = "resend" /\ checked' = (checked \/ p.intact) /\ UNCHANGED <<sent, device>>
  BY <1>1, <1>4 DEF CountsAlike, NotActedUpon, ItemKinds
<1>5. CASE a.kind = "error" /\ checked' = FALSE
  BY <1>5 DEF CountsAlike, ItemKinds
<1>6. CASE /\ p.kind = "command" /\ device = "passive" /\ a.kind = "ack" /\ device' = "accepted" /\ UNCHANGED sent
           /\ checked' = FALSE
  BY <1>1, <1>6 DEF CountsAlike, NotActedUpon, ItemKinds
<1>7. ASSUME NEW n \in Nat \ {0}, checked' = FALSE,
             \/ p.kind = "roleswap" /\ device = "accepted" /\ n = 1
             \/ p.kind = "ack" /\ device = "active" /\ n = sent + 1,
             \/ n <= Len(items) /\ a.kind = items[n] /\ a.id = n /\ sent' = n /\ device' = "active"
             \/ n > Len(items) /\ a.kind = "roleswap" /\ device' = "back" /\ UNCHANGED sent
      PROVE  CountsAlike(a)' /\ ~checked'
  <2>1. Looked(n - 1)' /\ n - 1 <= Len(items)
    <3>1. n - 1 = sent /\ Looked(sent)
      BY <1>2, <1>7 DEF NotActedUpon
    <3> QED
      BY <1>1, <1>2, <3>1
  <2>2. CASE n <= Len(items) /\ a.kind = items[n] /\ a.id = n /\ sent' = n /\ device' = "active"
    <3>1. a.kind \in ItemKinds
      BY <1>2, <1>3, <2>2
    <3>2. a.kind \notin {"ack", "roleswap", "resend"}
      BY <3>1 DEF ItemKinds
    <3> QED
      BY <1>7, <2>1, <2>2, <3>2 DEF CountsAlike
  <2>3. CASE n > Len(items) /\ a.kind = "roleswap" /\ device' = "back" /\ UNCHANGED sent
    <3>1. n - 1 = Len(items)
      BY <1>2, <2>1, <2>3
    <3>2. Looked(Len(items))'
      BY <2>1, <3>1
    <3> QED
      BY <1>7, <2>3, <3>2 DEF CountsAlike, ItemKinds
  <2> QED
    BY <1>7, <2>2, <2>3
<1>8. \/ ~p.intact /\ a.kind = "resend" /\ checked' = (checked \/ p.intact) /\ UNCHANGED <<sent, device>>
      \/ a.kind = "error" /\ checked' = FALSE
      \/ /\ p.kind = "command" /\ device = "passive" /\ a.kind = "ack" /\ device' = "accepted" /\ UNCHANGED sent
         /\ checked' = FALSE
      \/ \E n \in Nat \ {0} :
           /\ checked' = FALSE
           /\ \/ p.kind = "roleswap" /\ device = "accepted" /\ n = 1
              \/ p.kind = "ack" /\ device = "active" /\ n = sent + 1
           /\ \/ n <= Len(items) /\ a.kind = items[n] /\ a.id = n /\ sent' = n /\ device' = "active"
              \/ n > Len(items) /\ a.kind = "roleswap" /\ device' = "back" /\ UNCHANGED sent
  BY DEF SwapReply
<1> QED
  BY <1>4, <1>5, <1>6, <1>7, <1>8

LEMMA ListingDevicePreserves ==
  ASSUME ListingInv, Listing!Device
  PROVE  ListingInv'
<1> DEFINE p == Head(toDevice)
<1>1. Receive_!DeviceStep /\ UNCHANGED <<entries, should_skip, found, seen>> /\ SwapTypes /\ SwapDevice
  BY ListingDeviceIs DEF Listing!Device, Listing!listingVars, ListingInv, ListingTypes
<1>2. toDevice # <<>> /\ UNCHANGED <<call, step, result, items>>
  BY <1>1, SwapReplies
<1>3. PICK a \in DevicePackets : a.to = p /\ DeviceSends(a) /\ SwapReply(p, a)
  BY <1>1, SwapReplies
<1>4. /\ SwapTypes' /\ SwapDevice' /\ (InLockstep => Lockstep')
      /\ Answered' = Answered \cup {Len(toHost) + 1} /\ toHost'[Len(toHost) + 1] = a
      /\ UNCHANGED <<lost, damaged, late, phase, packet, flags, attempts, outcome, answer, irrecoverable, gone>>
      /\ 1 \in Sent /\ toDevice[1] = p
      /\ \A j \in Sent' : toDevice'[j] = toDevice[j + 1] /\ j + 1 \in Sent
  BY <1>1, <1>2, <1>3, SwapAnswers
<1>5. /\ toDevice' = Tail(toDevice) /\ toHost' = Append(toHost, a)
      /\ toDevice \in Seq(HostPackets) /\ toHost \in Seq(DevicePackets) /\ p \in HostPackets
  BY <1>1, <1>2, <1>3, TailOf DEF DeviceSends, SwapTypes, ExchangeTypeOK
<1>6. ~Quiet /\ step # "idle" /\ (Orderly' <=> Orderly) /\ (Usable' <=> Usable)
  BY <1>2, <1>4 DEF ListingInv, ListingStages, Quiet, Orderly, Usable
<1>7. ListingTypes' /\ EntryItems'
  BY <1>1, <1>2, <1>4 DEF ListingInv, ListingTypes, EntryItems
<1>8. ListingStages'
  BY <1>2, <1>4, <1>6 DEF ListingInv, ListingStages
<1>9. ListingLocks'
  <2> SUFFICES ASSUME Orderly PROVE ListingLocks'
    BY <1>6 DEF ListingLocks
  <2>1. Lockstep'
    BY <1>1, <1>4 DEF ListingInv, ListingLocks, SwapTypes, InLockstep
  <2> QED
    BY <1>2, <1>4, <1>6, <2>1 DEF ListingInv, ListingLocks
<1>10. Survives'
  BY <1>4 DEF ListingInv, Survives
<1>11. ListingProgress'
  <2> SUFFICES ASSUME lost = 0, late = 0 PROVE ListingProgress'
    BY <1>4 DEF ListingProgress
  <2>1. /\ phase \notin {"check", "receive"} /\ ~checked
        /\ \A j \in Sent : toDevice[j].kind # "check"
        /\ phase = "answer" => NotActedUpon
        /\ \E n \in 0 .. sent : Looked(n)
    BY <1>2 DEF ListingInv, ListingProgress, ListingStages
  <2>2. /\ Lockstep /\ result \notin {"OK", "INT"} /\ (phase = "idle" => step = "ended")
        /\ ~(phase = "done" /\ outcome = "OK")
    BY <1>6 DEF ListingInv, ListingStages, ListingLocks, Lockstep, Over, Orderly
  <2>3. toHost = <<>> /\ Len(toDevice) <= 1
    BY <1>2, <2>2 DEF Lockstep, Alone
  <2>4. p.kind # "check" /\ p.kind = packet.kind
    BY <1>4, <2>1, <2>2 DEF Lockstep, Members, Expected, Same
  <2>5. toDevice' = <<>> /\ Len(toHost) = 0 /\ toHost' # <<>>
    <3>1. Len(toDevice') = 0 /\ toDevice' \in Seq(HostPackets)
      BY <1>2, <1>5, <2>3, TailOf
    <3>2. Len(toHost') = 1 /\ toHost' \in Seq(DevicePackets) /\ Len(toHost) = 0
      BY <1>5, <2>3, AppendOf, EmptyOf
    <3> QED
      BY <3>1, <3>2, EmptyOf
  <2>6. phase = "answer" => CountsAlike(a)' /\ ~checked'
    <3>1. p.intact \in BOOLEAN
      BY <1>5 DEF HostPackets
    <3> QED
      BY <1>1, <1>2, <1>3, <1>4, <2>1, <2>4, <3>1, ReplyCounts DEF ListingInv
  <2>7. ~checked'
    BY <1>3, <2>1, <2>4 DEF SwapReply
  <2>8. phase' = "answer" => \A j \in Answered' : CountsAlike(toHost[j])'
    <3> SUFFICES ASSUME phase = "answer", NEW j \in Answered' PROVE CountsAlike(toHost[j])'
      BY <1>4
    <3>1. j = 1 /\ toHost'[1] = a
      BY <1>4, <2>5 DEF Answered
    <3> QED
      BY <2>6, <3>1 DEF CountsAlike
  <2>9. \E n \in 0 .. sent' : Looked(n)'
    <3>1. sent \in Nat /\ sent' \in Nat /\ sent <= sent'
      <4>1. sent \in Nat /\ sent' \in Nat /\ Len(items) \in Nat
        BY <1>1, <1>2, <1>4, EmptyOf DEF SwapTypes
      <4> QED
        BY <1>1, <1>3, <4>1 DEF SwapReply, SwapDevice
    <3>2. PICK n \in 0 .. sent : Looked(n)
      BY <2>1
    <3>3. Looked(n)'
      BY <1>1, <1>2, <3>2, LookedKeeps
    <3>4. n \in 0 .. sent'
      BY <3>1, <3>2
    <3> QED
      BY <3>3, <3>4
  <2>10. \A j \in Sent' : toDevice'[j].kind # "check"
    BY <1>4, <2>1
  <2> QED
    BY <1>2, <1>4, <2>1, <2>2, <2>5, <2>7, <2>8, <2>9, <2>10 DEF ListingProgress, Quiet
<1> QED
  BY <1>4, <1>7, <1>8, <1>9, <1>10, <1>11 DEF ListingInv

LEMMA ListingNextPreserves ==
  ASSUME ListingInv, Listing!Next
  PROVE  ListingInv'
<1>1. ASSUME NEW list \in Listing!Lists, Listing!ListEntries(list) \/ Listing!RequestType(list)
      PROVE  ListingInv'
  BY <1>1, ListingBeginPreserves DEF Listing!ListEntries, Listing!RequestType
<1>2. CASE Listing!Caller
  BY <1>2, ListingSendPreserves, ListingReturnsPreserves, ListingLoopPreserves DEF Listing!Caller, Listing!listingVars
<1>3. CASE Listing!Exchange \/ Listing!Device
  BY <1>3, ListingExchangePreserves, ListingDevicePreserves
<1> QED
  BY <1>1, <1>2, <1>3 DEF Listing!Next

LEMMA ListingStutters ==
  ASSUME ListingInv, UNCHANGED <<exchangeVars, call, step, result, items, sent, device, checked, listingVars>>
  PROVE  ListingInv'
<1>1. /\ UNCHANGED <<toDevice, toHost, lost, damaged, late, phase, packet, flags, attempts, outcome, answer,
                     irrecoverable, gone>>
      /\ UNCHANGED <<call, step, result, items, sent, device, checked, entries, should_skip, found, seen>>
  BY DEF exchangeVars, wireVars, hostVars, listingVars
<1>2. ListingTypes'
  BY <1>1 DEF ListingInv, ListingTypes, SwapTypes, ExchangeTypeOK
<1>3. (Usable' <=> Usable) /\ (Quiet' <=> Quiet) /\ (Orderly' <=> Orderly) /\ Sent' = Sent /\ Answered' = Answered
  BY <1>1 DEF Usable, Quiet, Orderly, Sent, Answered
<1>4. ListingStages' /\ SwapDevice' /\ EntryItems' /\ Survives'
  BY <1>1, <1>3 DEF ListingInv, ListingStages, SwapDevice, Itemized, EntryItems, Survives
<1>5. Lockstep' <=> Lockstep
  BY <1>1 DEF Lockstep, Members, Expected, Same, InOrder, TwoAnswers, NoCheck, Alone, Genuine, Over, Faults, Sent,
              Answered, Quiet, Usable
<1>6. ListingLocks'
  BY <1>1, <1>3, <1>5 DEF ListingInv, ListingLocks
<1>7. \A n : Looked(n)' <=> Looked(n)
  BY <1>1, LookedKeeps
<1>8. NotActedUpon' <=> NotActedUpon
  BY <1>1, <1>7 DEF NotActedUpon
<1>9. \A q : CountsAlike(q)' <=> CountsAlike(q)
  BY <1>1, <1>7, <1>8 DEF CountsAlike
<1>10. CountsAlike(answer)' <=> CountsAlike(answer)
  BY <1>1, <1>7, <1>8 DEF CountsAlike
<1>11. ListingProgress'
  BY <1>1, <1>3, <1>7, <1>8, <1>9, <1>10 DEF ListingInv, ListingProgress
<1> QED
  BY <1>2, <1>4, <1>6, <1>11 DEF ListingInv

(* Where the roles are not swapped yet.                                    *)
LEMMA SwapBegins ==
  ASSUME ExchangeInit, Receive_!SwapInit
  PROVE  /\ SwapTypes /\ SwapDevice /\ Lockstep /\ Quiet /\ Usable /\ Survives
         /\ Sent = {} /\ Answered = {} /\ phase = "idle" /\ answer = NoAnswer /\ NoAnswer.kind = "none"
         /\ packet.kind = "none" /\ packet.intact /\ flags = {}
         /\ call = "none" /\ step = "idle" /\ result = "none" /\ device = "passive" /\ sent = 0 /\ ~checked
         /\ items = <<>> /\ Len(items) = 0
<1>1. /\ call = "none" /\ step = "idle" /\ result = "none" /\ device = "passive" /\ sent = 0 /\ ~checked
      /\ items = <<>> /\ Len(items) = 0 /\ checked \in BOOLEAN
      /\ items \in Seq({"command", "unknown_command", "data"})
  <2>1. <<>> \in Seq({"command", "unknown_command", "data"})
    OBVIOUS
  <2> QED
    BY <2>1, EmptyOf DEF Receive_!SwapInit
<1>2. Sent = {} /\ Answered = {} /\ Quiet /\ packet = NoPacket /\ phase = "idle" /\ outcome = "none"
      /\ Usable /\ answer = NoAnswer /\ flags = {} /\ ~irrecoverable
  BY DEF ExchangeInit, Sent, Answered, Quiet, Usable
<1>3. Lockstep
  BY <1>2, PacketsAre DEF Lockstep, Members, InOrder, NoCheck, Alone, Genuine, Over, Faults, Quiet
<1>4. SwapTypes
  BY <1>1, InitialIsTyped DEF SwapTypes, Outcomes
<1>5. SwapDevice
  BY <1>1, <1>2, PacketsAre DEF SwapDevice, Itemized, ItemKinds
<1> QED
  BY <1>1, <1>2, <1>3, <1>4, <1>5, PacketsAre DEF Survives

LEMMA ListingBegins ==
  ASSUME Init PROVE ListingInv
<1>1. ExchangeInit /\ Receive_!SwapInit /\ entries = <<>> /\ should_skip = FALSE /\ found = FALSE /\ seen = <<>>
  BY ReceiveExchanges DEF Init, Receive_!Init, Listing!Init
<1>2. /\ SwapTypes /\ SwapDevice /\ Lockstep /\ Quiet /\ Usable /\ Survives
      /\ Sent = {} /\ Answered = {} /\ phase = "idle" /\ answer = NoAnswer /\ answer.kind = "none"
      /\ packet.kind = "none" /\ packet.intact /\ flags = {}
      /\ call = "none" /\ step = "idle" /\ result = "none" /\ device = "passive" /\ sent = 0 /\ ~checked
      /\ Len(items) = 0
  BY <1>1, SwapBegins
<1>3. ListingTypes
  <2>1. entries \in Seq(Listing!Entries) /\ Len(entries) <= MaxEntries /\ seen \in Seq(1 .. MaxEntries)
    BY <1>1, CountsAssumption
  <2> QED
    BY <1>1, <1>2, <2>1 DEF ListingTypes
<1>4. ListingStages /\ ListingLocks /\ EntryItems
  <2>1. \A n \in 1 .. Len(entries) : FALSE
    BY <1>1
  <2> QED
    BY <1>1, <1>2, <2>1 DEF ListingStages, ListingLocks, EntryItems
<1>5. Looked(0)
  BY <1>2 DEF Looked
<1>6. ListingProgress
  <2>1. \E n \in 0 .. sent : Looked(n)
    BY <1>2, <1>5
  <2> QED
    BY <1>2, <1>5, <2>1 DEF ListingProgress
<1> QED
  BY <1>2, <1>3, <1>4, <1>6 DEF ListingInv

(* The types of SevenReceive and of SevenListing.                          *)
LEMMA SwapTyping ==
  ASSUME SwapTypes PROVE Receive_!SwapTypeOK /\ Listing!SwapTypeOK
BY DEF SwapTypes, Receive_!SwapTypeOK, Listing!SwapTypeOK, Receive_!Results, Listing!Results,
       Receive_!ExchangeTypeOK, Listing!ExchangeTypeOK, ExchangeTypeOK, Receive_!HostPackets, Listing!HostPackets,
       HostPackets, Receive_!DevicePackets, Listing!DevicePackets, DevicePackets, Receive_!PacketKinds,
       Listing!PacketKinds, PacketKinds, Receive_!AnswerKinds, Listing!AnswerKinds, AnswerKinds, Receive_!Flags,
       Listing!Flags, Flags, Receive_!Outcomes, Listing!Outcomes, Outcomes, Receive_!DamageErrors,
       Listing!DamageErrors, DamageErrors

LEMMA ListingIsRight ==
  ASSUME ListingInv
  PROVE  /\ Listing!TypeOK /\ Receive_!RolesAreBack /\ Receive_!OneFaultIsSurvived
         /\ Listing!EntriesInOrder /\ Listing!TypeIsFound
<1>1. Listing!TypeOK
  BY SwapTyping DEF ListingInv, ListingTypes, Listing!TypeOK
<1>2. Receive_!RolesAreBack
  BY DEF Receive_!RolesAreBack, Receive_!Orderly, Orderly, ListingInv, ListingStages, ListingLocks, SwapDevice,
         Itemized, Quiet
<1>3. Receive_!OneFaultIsSurvived
  BY DEF Receive_!OneFaultIsSurvived, ListingInv, Survives
<1>4. Listing!EntriesInOrder
  BY DEF Listing!EntriesInOrder, ListingInv, ListingProgress, EntryItems, Looked
<1>5. Listing!TypeIsFound
  <2>1. DOMAIN entries = 1 .. Len(items)
    BY DEF ListingInv, ListingTypes, EntryItems
  <2> QED
    BY <2>1 DEF Listing!TypeIsFound, ListingInv, ListingProgress, Looked
<1> QED
  BY <1>1, <1>2, <1>3, <1>4, <1>5

-----------------------------------------------------------------------------
(* Data from the device (SevenReceive).                                    *)

ReceiveTypes ==
  /\ SwapTypes
  /\ result \in Outcomes \cup {"FILE"}
  /\ call \in {"request_file", "backup_rom", "receive_bytes", "capacity", "none"}
  /\ step \in {"idle", "command", "swap", "loop", "first", "shift", "middle",
               "normalize", "final", "last_ack", "ended"}
  /\ announced \in Nat /\ size \in 0 .. announced /\ i \in Nat
  /\ shifted \in BOOLEAN /\ written \in Seq(1 .. MaxCount)
  /\ Len(items) <= MaxCount + 1

Before_ == {"idle", "command", "swap"}
Receiving == {"loop", "first", "shift", "middle", "normalize", "final", "last_ack"}

(* What has been written, and what remains.  When the sizes of the packets *)
(* do not sum up to what was announced, no packet fits any more.           *)
ReceiveData ==
  /\ step \in Before_ => i = 0 /\ size = 0 /\ written = <<>>
  /\ step \in Receiving => i > 0 /\ written = [k \in 1 .. i - 1 |-> k] /\ size = announced - (i - 1)
  /\ step = "first" => i = 1
  /\ step = "shift" => i = 2 /\ Len(items) - 1 >= 3
  /\ step = "middle" => i <= Receive_!MiddleEnd /\ (phase # "idle" => i < Receive_!MiddleEnd)
  /\ step = "normalize" => size = 0 \/ i = Len(items) - 2
  /\ step = "final" => size = 0 \/ i = Len(items) - 1
  /\ step = "last_ack" => size = 0
  /\ Receive_!FileArrives

(* Where the function and the exchange are.  The function that requests a  *)
(* file goes on after an exchange that failed only if the link is broken.  *)
ReceiveStages ==
  /\ step \in {"idle", "ended"} => phase = "idle"
  /\ step = "idle" => Quiet /\ device = "passive" /\ sent = 0 /\ answer = NoAnswer /\ ~shifted
  /\ result # "none" => step = "ended"
  /\ gone => step = "ended" \/ (phase = "done" /\ outcome = "GONE")
  /\ phase = "done" => outcome # "none"
  /\ step = "swap" /\ phase # "done" => answer.kind # "command"
  /\ step = "swap" /\ phase = "done" /\ answer.kind = "command" => outcome = "OK" \/ (irrecoverable /\ ~gone)
  /\ phase = "receive" => step = "normalize"
  /\ step = "shift" => phase \in {"idle", "done"}
  /\ shifted => step \in {"middle", "normalize", "final", "last_ack", "ended"}
  /\ step = "normalize" => shifted /\ phase \in {"receive", "done"}
  /\ phase # "idle" /\ step # "shift" /\ ~(shifted /\ step # "last_ack") => flags = {}
  /\ packet.kind \in {"none", "command", "roleswap", "ack"} /\ packet.intact
  /\ result = "OK" => answer.kind = "roleswap" /\ ~gone

(* Packets are being shifted: one is on its way, or its answer, when the   *)
(* next one is sent.                                                       *)
ReceiveShifting ==
  \/ step = "shift" /\ phase = "done"
  \/ shifted /\ step \in {"middle", "normalize", "final"}

ReceiveWindow ==
  Orderly /\ ~irrecoverable /\ ReceiveShifting =>
    /\ phase # "check"
    /\ phase = "idle" => InFlight <= IF step = "final" THEN 0 ELSE 1
    /\ phase = "answer" =>
         /\ InFlight <= IF step = "final" THEN 1 ELSE 2
         /\ flags = {"no_checksum", "no_timeout"} /\ attempts = 1
    /\ phase = "receive" => InFlight <= 1
    /\ phase = "done" /\ outcome = "OK" =>
         InFlight <= IF step \in {"normalize", "final"} THEN 0 ELSE 1

ReceiveLocks ==
  Orderly /\ ~irrecoverable /\ ~ReceiveShifting =>
    /\ step # "ended" => Lockstep
    /\ phase = "idle" /\ (step # "ended" \/ result = "OK") => Quiet

ReceiveInv ==
  /\ ReceiveTypes /\ SwapDevice /\ ReceiveData /\ ReceiveStages
  /\ ReceiveWindow /\ ReceiveLocks
  /\ ~shifted /\ result # "FILE" => Survives

-----------------------------------------------------------------------------
(* The steps of the function that take the outcome of an exchange.         *)

(* What an exchange that succeeded leaves on the wire.                     *)
LEMMA ReceiveDone ==
  ASSUME ReceiveInv, phase = "done", outcome = "OK"
  PROVE  /\ ~gone
         /\ Orderly /\ ~irrecoverable /\ ReceiveShifting =>
              InFlight <= IF step \in {"normalize", "final"} THEN 0 ELSE 1
         /\ Orderly /\ ~irrecoverable /\ ~ReceiveShifting => Quiet
<1>1. ~gone /\ step # "ended"
  BY DEF ReceiveInv, ReceiveStages
<1>2. Orderly /\ ~irrecoverable /\ ~ReceiveShifting => Quiet
  BY <1>1 DEF ReceiveInv, ReceiveStages, ReceiveLocks, Lockstep, Over, Usable
<1> QED
  BY <1>1, <1>2 DEF ReceiveInv, ReceiveWindow

LEMMA NothingLeft == ASSUME ExchangeTypeOK, InFlight <= 0 PROVE Quiet
BY EmptyOf DEF ExchangeTypeOK, InFlight, Quiet

(* It goes on with nothing sent, or is over.                               *)
LEMMA ReceiveMoves ==
  ASSUME ReceiveInv, phase \in {"idle", "done"}, phase' = "idle", step \notin {"idle", "ended"},
         UNCHANGED <<wireVars, packet, flags, attempts, outcome, answer, gone>>,
         UNCHANGED <<call, items, sent, device, checked>>,
         irrecoverable' \in BOOLEAN, irrecoverable => irrecoverable',
         irrecoverable' # irrecoverable => result' = "FILE",
         announced' \in Nat, size' \in 0 .. announced', i' \in Nat, shifted' \in BOOLEAN,
         written' \in Seq(1 .. MaxCount), result' \in Outcomes \cup {"FILE"},
         step' \in {"swap", "loop", "first", "shift", "middle", "final", "last_ack", "ended"},
         step' # "ended" => result' = result /\ ~gone,
         shifted => shifted', shifted' => step' \in {"middle", "final", "last_ack", "ended"},
         result' = "OK" => answer.kind = "roleswap" /\ ~gone,
         step' = "swap" => answer.kind # "command",
         Orderly /\ ~irrecoverable /\ shifted' /\ step' \in {"middle", "final"} =>
           InFlight <= IF step' = "final" THEN 0 ELSE 1,
         Orderly /\ ~irrecoverable /\ ~(shifted' /\ step' \in {"middle", "final"})
           /\ (step' # "ended" \/ result' = "OK") => Quiet,
         ReceiveData'
  PROVE  ReceiveInv'
<1>1. /\ UNCHANGED <<toDevice, toHost, lost, damaged, late>>
      /\ (Orderly' <=> Orderly) /\ (Quiet' <=> Quiet) /\ Answered' = Answered /\ InFlight' = InFlight
  BY DEF wireVars, Orderly, Quiet, Answered, InFlight
<1>2. ReceiveTypes'
  <2>1. ExchangeTypeOK'
    BY <1>1 DEF ReceiveInv, ReceiveTypes, SwapTypes, ExchangeTypeOK
  <2> QED
    BY <2>1 DEF ReceiveInv, ReceiveTypes, SwapTypes
<1>3. SwapDevice'
  BY <1>1 DEF ReceiveInv, SwapDevice, Itemized
<1>4. ReceiveStages'
  <2>1. result' # "none" => step' = "ended"
    BY DEF ReceiveInv, ReceiveStages
  <2>2. packet.kind \in {"none", "command", "roleswap", "ack"} /\ packet.intact
    BY DEF ReceiveInv, ReceiveStages
  <2>3. gone' => step' = "ended"
    OBVIOUS
  <2> QED
    BY <2>1, <2>2, <2>3 DEF ReceiveStages
<1>5. ReceiveShifting' <=> shifted' /\ step' \in {"middle", "final"}
  BY DEF ReceiveShifting
<1>6. ReceiveWindow'
  BY <1>1, <1>5 DEF ReceiveWindow
<1>7. ReceiveLocks'
  <2>1. packet.kind # "check" /\ packet.intact
    BY DEF ReceiveInv, ReceiveStages
  <2> QED
    BY <1>1, <1>5, <2>1, QuietLocks DEF ReceiveLocks
<1>8. ~shifted' /\ result' # "FILE" => Survives'
  <2>1. ASSUME ~shifted', result' # "FILE" PROVE irrecoverable' = irrecoverable /\ Survives
    <3>1. result # "FILE"
      BY <2>1 DEF ReceiveInv, ReceiveStages
    <3> QED
      BY <2>1, <3>1 DEF ReceiveInv, ReceiveTypes
  <2> QED
    BY <1>1, <2>1 DEF Survives
<1> QED
  BY <1>2, <1>3, <1>4, <1>6, <1>7, <1>8, <1>5 DEF ReceiveInv

(* It is over.                                                             *)
LEMMA ReceiveEnds ==
  ASSUME ReceiveInv, phase \in {"idle", "done"}, phase' = "idle", step \notin {"idle", "ended"},
         UNCHANGED <<wireVars, packet, flags, attempts, outcome, answer, gone>>,
         UNCHANGED <<call, items, sent, device, checked, announced, size, i, shifted, written>>,
         irrecoverable' \in BOOLEAN, irrecoverable => irrecoverable',
         irrecoverable' # irrecoverable => result' = "FILE",
         step' = "ended", result' \in Outcomes \cup {"FILE"},
         result' = "OK" => step = "last_ack" /\ phase = "done" /\ outcome = "OK" /\ answer.kind = "roleswap"
  PROVE  ReceiveInv'
<1>1. /\ announced \in Nat /\ size \in 0 .. announced /\ i \in Nat /\ shifted \in BOOLEAN
      /\ written \in Seq(1 .. MaxCount)
  BY DEF ReceiveInv, ReceiveTypes
<1>2. result' = "OK" => ~gone /\ (Orderly /\ ~irrecoverable => Quiet)
  BY ReceiveDone DEF ReceiveShifting
<1>3. ReceiveData'
  <2>1. result' = "OK" => written = [k \in 1 .. announced |-> k]
    <3> SUFFICES ASSUME result' = "OK" PROVE written = [k \in 1 .. announced |-> k]
      OBVIOUS
    <3>1. written = [k \in 1 .. i - 1 |-> k] /\ size = announced - (i - 1) /\ size = 0
      BY DEF ReceiveInv, ReceiveData, Receiving
    <3>2. i - 1 = announced
      BY <1>1, <3>1
    <3> QED
      BY <3>1, <3>2
  <2>2. Receive_!FileArrives'
    BY <2>1 DEF Receive_!FileArrives
  <2> QED
    BY <2>2 DEF ReceiveData, Before_, Receiving
<1>4. shifted => step' \in {"middle", "final", "last_ack", "ended"}
  OBVIOUS
<1>5. ~(step' \in {"middle", "final"}) /\ step' # "swap"
  OBVIOUS
<1> QED
  BY <1>1, <1>2, <1>3, <1>4, <1>5, ReceiveMoves

LEMMA ErrorIs ==
  ASSUME ReceiveInv, phase = "done" PROVE Receive_!Error \in Outcomes \ {"OK", "none"} /\ outcome \in Outcomes \ {"none"}
<1>1. outcome \in Outcomes \ {"none"}
  BY DEF ReceiveInv, ReceiveTypes, SwapTypes, ExchangeTypeOK, ReceiveStages
<1> QED
  BY <1>1 DEF Receive_!Error, Outcomes, DamageErrors

(* A data packet is written.                                               *)
LEMMA StoresNext ==
  ASSUME ReceiveInv, step \in Receiving, NEW k \in Int, k = i \/ size = 0,
         answer.kind = "data", Receive_!Fits(k),
         written' = Append(written, answer.id - 1), size' = size - 1, i' = k + 1, UNCHANGED announced
  PROVE  /\ k = i /\ k <= Len(items) - 1 /\ i' \in Nat /\ i' > 0 /\ size > 0
         /\ written' \in Seq(1 .. MaxCount) /\ written' = [j \in 1 .. i' - 1 |-> j]
         /\ size' = announced' - (i' - 1) /\ size' \in 0 .. announced'
         /\ k < Len(items) - 1 => size' > 0
         /\ k >= Len(items) - 1 => size' = 0
<1>1. /\ announced \in Nat /\ size \in 0 .. announced /\ i \in Nat /\ i > 0 /\ Len(items) \in Nat
      /\ Len(items) <= MaxCount + 1 /\ MaxCount \in Nat /\ written \in Seq(1 .. MaxCount)
      /\ written = [j \in 1 .. i - 1 |-> j] /\ size = announced - (i - 1)
  BY CountsAssumption, EmptyOf DEF ReceiveInv, ReceiveTypes, SwapTypes, ReceiveData
<1>2. answer.id = k + 1 /\ answer.id \in 1 .. Len(items)
  BY DEF Receive_!Fits, ReceiveInv, SwapDevice, Itemized, ItemKinds
<1>3. IF k < Len(items) - 1 THEN size > 1 ELSE size = 1
  BY DEF Receive_!Fits, Receive_!Count
<1>4. k = i /\ k <= Len(items) - 1 /\ size > 0
  BY <1>1, <1>2, <1>3
<1>5. written' = Append(written, i) /\ i \in 1 .. MaxCount
  BY <1>1, <1>2, <1>4
<1>6. written' \in Seq(1 .. MaxCount) /\ written' = [j \in 1 .. i |-> j]
  <2>1. /\ written' \in Seq(1 .. MaxCount) /\ Len(written') = Len(written) + 1 /\ Len(written) = i - 1
        /\ \A j \in 1 .. i - 1 : written'[j] = written[j]
        /\ written'[i] = i
    BY <1>1, <1>5, AppendOf
  <2>2. Len(written') = i /\ written' = [j \in 1 .. Len(written') |-> written'[j]]
    <3>1. \A s \in Seq(1 .. MaxCount) : s = [j \in 1 .. Len(s) |-> s[j]]
      OBVIOUS
    <3>2. Len(written') = i
      BY <1>1, <2>1
    <3> QED
      BY <2>1, <3>1, <3>2
  <2>3. \A j \in 1 .. i - 1 : written'[j] = j
    BY <1>1, <2>1
  <2>4. 1 .. i = (1 .. i - 1) \cup {i}
    BY <1>1
  <2>5. \A j \in 1 .. i : written'[j] = j
    BY <2>1, <2>3, <2>4
  <2> QED
    BY <2>1, <2>2, <2>5
<1> QED
  BY <1>1, <1>3, <1>4, <1>6

(* The function takes a data packet, or refuses it.                        *)
LEMMA ReceiveStores ==
  ASSUME ReceiveInv, NEW k \in Int, NEW s \in {"loop", "shift", "middle", "final", "last_ack"},
         step \in {"loop", "first", "middle", "normalize", "final"}, Receive_!Store(k, s),
         k = i \/ size = 0,
         shifted => s \in {"middle", "final", "last_ack"},
         s = "shift" => k = 1 /\ Len(items) - 1 >= 3,
         s = "middle" => k + 1 <= Receive_!MiddleEnd,
         s = "final" => k + 1 = Len(items) - 1 /\ (shifted => step = "normalize"),
         s = "last_ack" => k >= Len(items) - 1 /\ (shifted => step = "final")
  PROVE  ReceiveInv'
<1>1. /\ phase = "done" /\ phase' = "idle"
      /\ UNCHANGED <<wireVars, packet, flags, attempts, outcome, answer, irrecoverable, gone>>
  BY ReceiveExchanges DEF Receive_!Store, ExchangeReturns
<1>2. irrecoverable \in BOOLEAN /\ step \in Receiving /\ UNCHANGED <<call, items, sent, device, checked>>
  BY DEF ReceiveInv, ReceiveTypes, SwapTypes, ExchangeTypeOK, Receiving, Receive_!Store, Receive_!GoTo, Receive_!End,
         Receive_!deviceVars
<1>3. CASE Receive_!Expect("data") /\ Receive_!Fits(k)
  <2>1. /\ step' = s /\ result' = result /\ outcome = "OK" /\ answer.kind = "data"
        /\ written' = Append(written, answer.id - 1) /\ size' = size - 1 /\ i' = k + 1
        /\ UNCHANGED <<announced, shifted>>
    BY <1>3 DEF Receive_!Store, Receive_!Expect, Receive_!GoTo
  <2>2. /\ k = i /\ k <= Len(items) - 1 /\ i' \in Nat /\ i' > 0
        /\ written' \in Seq(1 .. MaxCount) /\ written' = [j \in 1 .. i' - 1 |-> j]
        /\ size' = announced' - (i' - 1) /\ size' \in 0 .. announced'
        /\ k >= Len(items) - 1 => size' = 0
    BY <1>2, <1>3, <2>1, StoresNext
  <2>3. result = "none" /\ result' = "none"
    BY <2>1 DEF ReceiveInv, ReceiveStages
  <2>4. ReceiveData'
    <3>1. Receive_!MiddleEnd' = Receive_!MiddleEnd /\ Len(items') = Len(items) /\ Len(items) \in Nat
      BY <1>2, <2>1, EmptyOf DEF Receive_!MiddleEnd, Receive_!Count, ReceiveInv, ReceiveTypes, SwapTypes
    <3>2. Receive_!FileArrives'
      BY <2>3 DEF Receive_!FileArrives
    <3>3. s \in Receiving /\ s \notin Before_ /\ s # "first" /\ s # "normalize"
      BY DEF Receiving, Before_
    <3>4. /\ s = "shift" => i' = 2 /\ Len(items') - 1 >= 3
          /\ s = "middle" => i' <= Receive_!MiddleEnd'
          /\ s = "final" => i' = Len(items') - 1
          /\ s = "last_ack" => size' = 0
      BY <2>1, <2>2, <3>1
    <3> QED
      BY <1>1, <2>1, <2>2, <3>2, <3>3, <3>4 DEF ReceiveData
  <2>5. /\ ~gone
        /\ Orderly /\ ~irrecoverable /\ ReceiveShifting => InFlight <= IF step \in {"normalize", "final"} THEN 0 ELSE 1
        /\ Orderly /\ ~irrecoverable /\ ~ReceiveShifting => Quiet
    BY <1>1, <2>1, ReceiveDone
  <2>6. ReceiveShifting <=> shifted
    BY DEF ReceiveShifting, ReceiveInv, ReceiveStages
  <2>7. Orderly /\ ~irrecoverable /\ shifted' /\ step' \in {"middle", "final"} =>
          InFlight <= IF step' = "final" THEN 0 ELSE 1
    <3>1. InFlight \in Nat
      BY EmptyOf DEF InFlight, ReceiveInv, ReceiveTypes, SwapTypes, ExchangeTypeOK
    <3> QED
      BY <2>1, <2>5, <2>6, <3>1
  <2>8. Orderly /\ ~irrecoverable /\ ~(shifted' /\ step' \in {"middle", "final"}) => Quiet
    <3>1. shifted => s \in {"middle", "final"} \/ step = "final"
      OBVIOUS
    <3> QED
      BY <2>1, <2>5, <2>6, <3>1, NothingLeft DEF ReceiveInv, ReceiveTypes, SwapTypes
  <2>9. announced \in Nat /\ shifted \in BOOLEAN /\ "none" \in Outcomes
    BY DEF ReceiveInv, ReceiveTypes, Outcomes
  <2> QED
    BY <1>1, <1>2, <2>1, <2>2, <2>3, <2>4, <2>5, <2>7, <2>8, <2>9, ReceiveMoves
<1>4. CASE ~(Receive_!Expect("data") /\ Receive_!Fits(k))
  <2>1. step' = "ended" /\ result' = Receive_!Error /\ UNCHANGED <<announced, size, i, shifted, written>>
    BY <1>4 DEF Receive_!Store, Receive_!End, Receive_!receiveVars
  <2>2. result' \in Outcomes \ {"OK"}
    BY <1>1, <2>1, ErrorIs
  <2> QED
    BY <1>1, <1>2, <2>1, <2>2, ReceiveEnds
<1> QED
  BY <1>3, <1>4

LEMMA ReceiveStoresPreserves ==
  ASSUME ReceiveInv,
         \/ Receive_!LoopReturns \/ Receive_!FirstReturns \/ Receive_!MiddleReturns \/ Receive_!Normalized
         \/ Receive_!FinalReturns
  PROVE  ReceiveInv'
<1>1. i \in Nat /\ size \in Nat /\ Len(items) \in Nat /\ shifted \in BOOLEAN
  BY EmptyOf DEF ReceiveInv, ReceiveTypes, SwapTypes
<1>2. phase = "done"
  BY ReceiveExchanges DEF Receive_!LoopReturns, Receive_!FirstReturns, Receive_!MiddleReturns, Receive_!Normalized,
     Receive_!FinalReturns, Receive_!Store, ExchangeReturns
<1>3. shifted => step \in {"middle", "normalize", "final", "last_ack", "ended"}
  BY DEF ReceiveInv, ReceiveStages
<1>4. CASE Receive_!LoopReturns
  <2>1. step = "loop" /\ Receive_!Store(i, "loop") /\ ~shifted
    BY <1>3, <1>4 DEF Receive_!LoopReturns
  <2> QED
    BY <1>1, <2>1, ReceiveStores
<1>5. CASE Receive_!FirstReturns
  <2> DEFINE s == IF Len(items) - 1 >= 3 /\ call = "receive_bytes" THEN "shift"
                  ELSE IF Len(items) - 1 > 1 THEN "middle" ELSE "last_ack"
  <2>1. step = "first" /\ Receive_!Store(1, s) /\ ~shifted /\ i = 1
    BY <1>3, <1>5 DEF Receive_!FirstReturns, Receive_!Count, ReceiveInv, ReceiveData
  <2>2. /\ s \in {"shift", "middle", "last_ack"} /\ (s = "shift" => Len(items) - 1 >= 3)
        /\ s = "middle" => 2 <= Receive_!MiddleEnd
        /\ s = "last_ack" => 1 >= Len(items) - 1
    BY <1>1, <2>1 DEF Receive_!MiddleEnd, Receive_!Count
  <2> HIDE DEF s
  <2> QED
    BY <2>1, <2>2, ReceiveStores
<1>6. CASE Receive_!MiddleReturns
  <2>1. step = "middle" /\ Receive_!Store(i, "middle") /\ i < Receive_!MiddleEnd
    BY <1>2, <1>6 DEF Receive_!MiddleReturns, ReceiveInv, ReceiveData
  <2>2. i + 1 <= Receive_!MiddleEnd
    BY <1>1, <2>1 DEF Receive_!MiddleEnd, Receive_!Count
  <2> QED
    BY <1>1, <2>1, <2>2, ReceiveStores
<1>7. CASE Receive_!Normalized
  <2>1. /\ step = "normalize" /\ Receive_!Store(Len(items) - 1 - 1, "final")
        /\ size = 0 \/ i = Len(items) - 2
    BY <1>7 DEF Receive_!Normalized, Receive_!Count, ReceiveInv, ReceiveData
  <2>2. shifted
    BY <2>1 DEF ReceiveInv, ReceiveStages
  <2>3. /\ Len(items) - 1 - 1 \in Int /\ Len(items) - 1 - 1 + 1 = Len(items) - 1
        /\ Len(items) - 1 - 1 = i \/ size = 0
    BY <1>1, <2>1
  <2> QED
    BY <2>1, <2>2, <2>3, ReceiveStores
<1>8. CASE Receive_!FinalReturns
  <2>1. /\ step = "final" /\ Receive_!Store(Len(items) - 1, "last_ack")
        /\ size = 0 \/ i = Len(items) - 1
    BY <1>8 DEF Receive_!FinalReturns, Receive_!Count, ReceiveInv, ReceiveData
  <2>2. Len(items) - 1 \in Int
    BY <1>1
  <2> QED
    BY <2>1, <2>2, ReceiveStores
<1> QED
  BY <1>4, <1>5, <1>6, <1>7, <1>8

(* The function takes another outcome, or the file cannot be written.      *)
LEMMA ReceiveReturnsPreserves ==
  ASSUME ReceiveInv,
         \/ Receive_!CommandReturns /\ UNCHANGED <<announced, size, i, shifted, written>>
         \/ Receive_!RoleswapReturns \/ Receive_!ShiftReturns \/ Receive_!LastAckReturns
         \/ Receive_!NoRoom \/ Receive_!WriteFails
  PROVE  ReceiveInv'
<1>1. /\ phase = "done" /\ phase' = "idle" /\ step \in {"command", "swap", "shift", "last_ack", "loop"}
      /\ UNCHANGED <<wireVars, packet, flags, attempts, outcome, answer, gone>>
      /\ UNCHANGED <<call, items, sent, device, checked>>
      /\ irrecoverable' \in BOOLEAN /\ (irrecoverable => irrecoverable')
      /\ irrecoverable' # irrecoverable => result' = "FILE"
  <2>1. irrecoverable \in BOOLEAN
    BY DEF ReceiveInv, ReceiveTypes, SwapTypes, ExchangeTypeOK
  <2>2. ASSUME ExchangeReturns
        PROVE  /\ phase = "done" /\ phase' = "idle"
               /\ UNCHANGED <<wireVars, packet, flags, attempts, outcome, answer, gone, irrecoverable>>
    BY <2>2 DEF ExchangeReturns
  <2>3. CASE ~Receive_!NoRoom
    <3>1. ExchangeReturns /\ step \in {"command", "swap", "shift", "last_ack", "loop"}
          /\ UNCHANGED <<call, items, sent, device, checked>>
      BY <2>3, ReceiveExchanges
         DEF Receive_!CommandReturns, Receive_!RoleswapReturns, Receive_!ShiftReturns, Receive_!LastAckReturns,
             Receive_!WriteFails, Receive_!GoTo, Receive_!End, Receive_!deviceVars
    <3> QED
      BY <2>1, <2>2, <3>1
  <2>4. CASE Receive_!NoRoom
    <3>1. /\ phase = "done" /\ phase' = "idle" /\ step = "swap" /\ result' = "FILE"
          /\ UNCHANGED <<wireVars, packet, flags, attempts, outcome, answer, gone>>
          /\ UNCHANGED <<call, items, sent, device, checked>>
          /\ irrecoverable' = (irrecoverable \/ call # "request_file")
      BY <2>4 DEF Receive_!NoRoom, Receive_!End, Receive_!deviceVars, Receive_!wireVars, wireVars
    <3>2. irrecoverable' \in BOOLEAN /\ (irrecoverable => irrecoverable')
      BY <3>1
    <3> QED
      BY <3>1, <3>2
  <2> QED
    BY <2>3, <2>4
<1>2. /\ announced \in Nat /\ size \in 0 .. announced /\ i \in Nat /\ shifted \in BOOLEAN
      /\ written \in Seq(1 .. MaxCount) /\ result = "none" /\ result \in Outcomes
      /\ outcome \in Outcomes \ {"none"} /\ Receive_!Error \in Outcomes \ {"OK", "none"}
      /\ Len(items) \in Nat
      /\ step # "last_ack" => ~shifted
  BY <1>1, ErrorIs, EmptyOf DEF ReceiveInv, ReceiveTypes, SwapTypes, ReceiveStages, Outcomes
<1>3. CASE step' = "ended"
  <2>1. /\ UNCHANGED <<announced, size, i, shifted, written>>
        /\ result' \in (Outcomes \ {"OK"}) \cup {"FILE"} \/ (step = "last_ack" /\ Receive_!Expect("roleswap") /\ result' = "OK")
    BY <1>1, <1>2, <1>3
       DEF Receive_!CommandReturns, Receive_!RoleswapReturns, Receive_!ShiftReturns, Receive_!LastAckReturns,
           Receive_!NoRoom, Receive_!WriteFails, Receive_!GoTo, Receive_!End, Receive_!receiveVars, Outcomes, DamageErrors
  <2>2. result' \in Outcomes \cup {"FILE"}
    BY <2>1 DEF Outcomes
  <2> QED
    BY <1>1, <1>3, <2>1, <2>2, ReceiveEnds DEF Receive_!Expect
<1>4. CASE Receive_!CommandReturns /\ UNCHANGED <<announced, size, i, shifted, written>> /\ step' # "ended"
  <2>1. step = "command" /\ step' = "swap" /\ UNCHANGED <<result, irrecoverable>> /\ outcome = "OK" /\ answer.kind = "ack"
    BY <1>4, ReceiveExchanges DEF Receive_!CommandReturns, Receive_!Expect, Receive_!GoTo, Receive_!End, ExchangeReturns
  <2>2. ~gone /\ (Orderly /\ ~irrecoverable => Quiet)
    BY <1>1, <2>1, ReceiveDone DEF ReceiveShifting, ReceiveInv, ReceiveStages
  <2>3. ReceiveData'
    BY <1>2, <1>4, <2>1 DEF ReceiveInv, ReceiveData, Before_, Receiving, Receive_!FileArrives
  <2> QED
    BY <1>1, <1>2, <1>4, <2>1, <2>2, <2>3, ReceiveMoves
<1>5. CASE Receive_!RoleswapReturns /\ step' # "ended"
  <2>1. /\ step = "swap" /\ step' \in {"loop", "first", "last_ack"} /\ UNCHANGED <<result, irrecoverable>>
        /\ answer.kind = "command" /\ size' = announced /\ i' = 1 /\ UNCHANGED <<announced, shifted, written>>
        /\ step' = "last_ack" => announced = 0
    BY <1>5, ReceiveExchanges
       DEF Receive_!RoleswapReturns, Receive_!Announced, Receive_!GoTo, Receive_!End, ExchangeReturns
  <2>2. ~gone /\ (Orderly /\ ~irrecoverable => Quiet)
    <3>1. outcome = "OK" \/ (irrecoverable /\ ~gone)
      BY <1>1, <2>1 DEF ReceiveInv, ReceiveStages
    <3> QED
      BY <1>1, <1>2, <2>1, <3>1, ReceiveDone DEF ReceiveShifting
  <2>3. ReceiveData'
    <3>1. written = <<>>
      BY <2>1 DEF ReceiveInv, ReceiveData, Before_
    <3>2. written' = [k \in 1 .. i' - 1 |-> k] /\ size' = announced' - (i' - 1) /\ i' > 0
      <4>1. i' - 1 = 0 /\ 1 .. 0 = {}
        BY <2>1
      <4>2. written' = [k \in 1 .. 0 |-> k]
        BY <2>1, <3>1, <4>1
      <4> QED
        BY <1>2, <2>1, <4>1, <4>2
    <3>3. Receive_!FileArrives'
      BY <1>2, <2>1 DEF Receive_!FileArrives
    <3> QED
      BY <2>1, <3>2, <3>3 DEF ReceiveData, Before_
  <2>4. i' \in Nat /\ size' \in 0 .. announced' /\ ~shifted
    BY <1>2, <2>1
  <2> QED
    BY <1>1, <1>2, <2>1, <2>2, <2>3, <2>4, ReceiveMoves
<1>6. CASE Receive_!ShiftReturns /\ step' # "ended"
  <2>1. /\ step = "shift" /\ step' = "middle" /\ UNCHANGED <<result, irrecoverable>> /\ outcome = "OK"
        /\ shifted' = TRUE /\ UNCHANGED <<announced, size, i, written>>
    BY <1>6, ReceiveExchanges DEF Receive_!ShiftReturns, Receive_!GoTo, Receive_!End, ExchangeReturns
  <2>2. ~gone /\ (Orderly /\ ~irrecoverable => InFlight <= 1)
    BY <1>1, <2>1, ReceiveDone DEF ReceiveShifting
  <2>3. ReceiveData'
    <3>1. /\ i > 0 /\ written = [k \in 1 .. i - 1 |-> k] /\ size = announced - (i - 1)
          /\ i = 2 /\ Len(items) - 1 >= 3
      BY <2>1 DEF ReceiveInv, ReceiveData, Receiving
    <3>2. i' <= Receive_!MiddleEnd'
      BY <1>1, <1>2, <2>1, <3>1 DEF Receive_!MiddleEnd, Receive_!Count
    <3>3. Receive_!FileArrives'
      BY <1>2, <2>1 DEF Receive_!FileArrives
    <3> QED
      BY <1>1, <2>1, <3>1, <3>2, <3>3 DEF ReceiveData, Before_
  <2> QED
    BY <1>1, <1>2, <2>1, <2>2, <2>3, ReceiveMoves
<1>7. Receive_!LastAckReturns \/ Receive_!NoRoom \/ Receive_!WriteFails => step' = "ended"
  BY DEF Receive_!LastAckReturns, Receive_!NoRoom, Receive_!WriteFails, Receive_!End
<1> QED
  BY <1>3, <1>4, <1>5, <1>6, <1>7

(* A loop is over.                                                         *)
LEMMA LoopEndsPreserves ==
  ASSUME ReceiveInv, Receive_!LoopEnds \/ (Receive_!MiddleEnds /\ ~shifted)
  PROVE  ReceiveInv'
<1>1. /\ step \in {"loop", "middle"} /\ phase = "idle" /\ phase' = "idle" /\ ~shifted
      /\ UNCHANGED <<wireVars, packet, flags, attempts, outcome, answer, irrecoverable, gone>>
      /\ UNCHANGED <<call, result, items, sent, device, checked, announced, size, i, shifted, written>>
      /\ \/ step' = "last_ack" /\ size = 0
         \/ step' = "final" /\ step = "middle" /\ (size = 0 \/ i >= Receive_!MiddleEnd)
  BY DEF Receive_!LoopEnds, Receive_!MiddleEnds, Receive_!GoTo, Receive_!deviceVars, Receive_!receiveVars,
         Receive_!exchangeVars, Receive_!wireVars, Receive_!hostVars, wireVars, ReceiveInv, ReceiveStages
<1>2. /\ announced \in Nat /\ size \in 0 .. announced /\ i \in Nat /\ shifted \in BOOLEAN
      /\ written \in Seq(1 .. MaxCount) /\ result = "none" /\ result \in Outcomes /\ irrecoverable \in BOOLEAN
      /\ Len(items) \in Nat /\ ~gone
  BY <1>1, EmptyOf DEF ReceiveInv, ReceiveTypes, SwapTypes, ExchangeTypeOK, ReceiveStages, Outcomes
<1>3. Orderly /\ ~irrecoverable => Quiet
  BY <1>1 DEF ReceiveInv, ReceiveLocks, ReceiveShifting
<1>4. ReceiveData'
  <2>1. /\ i > 0 /\ written = [k \in 1 .. i - 1 |-> k] /\ size = announced - (i - 1)
        /\ step = "middle" => i <= Receive_!MiddleEnd
    BY <1>1 DEF ReceiveInv, ReceiveData, Receiving
  <2>2. step' = "final" => size = 0 \/ i = Len(items) - 1
    BY <1>1, <1>2, <2>1 DEF Receive_!MiddleEnd, Receive_!Count
  <2>3. Receive_!FileArrives'
    BY <1>1, <1>2 DEF Receive_!FileArrives
  <2> QED
    BY <1>1, <2>1, <2>2, <2>3 DEF ReceiveData, Before_
<1> QED
  BY <1>1, <1>2, <1>3, <1>4, ReceiveMoves

(* The packet that was shifted is received.                                *)
LEMMA NormalizePreserves ==
  ASSUME ReceiveInv, Receive_!MiddleEnds, shifted
  PROVE  ReceiveInv'
<1>1. /\ step = "middle" /\ phase = "idle" /\ phase' = "receive" /\ step' = "normalize"
      /\ size = 0 \/ i >= Receive_!MiddleEnd
      /\ UNCHANGED <<toDevice, toHost, lost, damaged, late, packet, flags, attempts, outcome, answer, irrecoverable, gone>>
      /\ UNCHANGED <<call, result, items, sent, device, checked, announced, size, i, shifted, written>>
  BY ReceiveExchanges
     DEF Receive_!MiddleEnds, Receive_!GoTo, Receive_!deviceVars, Receive_!receiveVars, StartReceive, wireVars
<1>2. /\ (Orderly' <=> Orderly) /\ Answered' = Answered /\ InFlight' = InFlight
      /\ ReceiveShifting /\ ReceiveShifting'
  BY <1>1 DEF Orderly, Answered, InFlight, ReceiveShifting
<1>3. ReceiveTypes'
  <2>1. ExchangeTypeOK'
    BY <1>1 DEF ReceiveInv, ReceiveTypes, SwapTypes, ExchangeTypeOK
  <2> QED
    BY <1>1, <2>1 DEF ReceiveInv, ReceiveTypes, SwapTypes
<1>4. SwapDevice'
  BY <1>1, <1>2 DEF ReceiveInv, SwapDevice, Itemized
<1>5. ReceiveStages'
  BY <1>1 DEF ReceiveInv, ReceiveStages
<1>6. ReceiveWindow' /\ ReceiveLocks'
  BY <1>1, <1>2 DEF ReceiveInv, ReceiveWindow, ReceiveLocks
<1>7. ReceiveData'
  <2>1. /\ i > 0 /\ written = [k \in 1 .. i - 1 |-> k] /\ size = announced - (i - 1)
        /\ i <= Receive_!MiddleEnd /\ i \in Nat /\ Len(items) \in Nat
    BY <1>1, EmptyOf DEF ReceiveInv, ReceiveTypes, SwapTypes, ReceiveData, Receiving
  <2>2. size = 0 \/ i = Len(items) - 2
    BY <1>1, <2>1 DEF Receive_!MiddleEnd, Receive_!Count
  <2>3. Receive_!FileArrives'
    BY <1>1 DEF Receive_!FileArrives, ReceiveInv, ReceiveData
  <2> QED
    BY <1>1, <2>1, <2>2, <2>3 DEF ReceiveData, Before_
<1>8. ~shifted' /\ result' # "FILE" => Survives'
  BY <1>1
<1> QED
  BY <1>3, <1>4, <1>5, <1>6, <1>7, <1>8 DEF ReceiveInv

(* A packet is sent.                                                       *)
LEMMA ReceiveSends ==
  ASSUME ReceiveInv, NEW k \in {"command", "roleswap", "ack"}, NEW n \in Nat, NEW f,
         StartExchange(Packet(k, n), f),
         f = IF shifted /\ step # "last_ack" THEN {"no_checksum", "no_timeout"} ELSE {},
         UNCHANGED <<call, step, result, items, sent, device, checked, announced, size, i, shifted, written>>,
         step \in {"command", "swap", "loop", "first", "middle", "final", "last_ack"},
         step = "middle" => i < Receive_!MiddleEnd
  PROVE  ReceiveInv'
<1> DEFINE p == Packet(k, n)
<1>1. p \in HostPackets /\ p.kind = k /\ p.intact /\ p.kind # "check"
  BY PacketsAre DEF PacketKinds
<1>2. /\ phase = "idle" /\ packet' = p /\ flags' = f /\ toDevice' = Append(toDevice, p)
      /\ UNCHANGED <<toHost, lost, damaged, late, answer, irrecoverable, outcome, gone>>
      /\ phase' = "answer" /\ ("no_checksum" \in f => attempts' = 1)
      /\ ExchangeTypeOK' /\ f \in SUBSET Flags
  <2>1. f \in SUBSET Flags /\ "no_receive" \notin f
    BY DEF Flags
  <2>2. ExchangeTypeOK
    BY DEF ReceiveInv, ReceiveTypes, SwapTypes
  <2> QED
    BY <1>1, <2>1, <2>2, StartIsTyped, AttemptsAre DEF StartExchange
<1> HIDE DEF p
<1>3. /\ (Orderly' <=> Orderly) /\ Answered' = Answered /\ (ReceiveShifting' <=> ReceiveShifting)
      /\ (ReceiveShifting <=> shifted /\ step # "last_ack")
  <2>1. shifted => step \in {"middle", "normalize", "final", "last_ack", "ended"}
    BY DEF ReceiveInv, ReceiveStages
  <2>2. /\ (Orderly' <=> Orderly) /\ Answered' = Answered
    BY <1>2 DEF Orderly, Answered
  <2>3. ReceiveShifting' <=> ReceiveShifting
    BY DEF ReceiveShifting
  <2>4. ReceiveShifting <=> shifted /\ step # "last_ack"
    BY <2>1 DEF ReceiveShifting
  <2> QED
    BY <2>2, <2>3, <2>4
<1>4. InFlight' = InFlight + 1 /\ InFlight \in Nat
  <2>1. Len(toDevice) \in Nat /\ Len(toHost) \in Nat /\ Len(toDevice') = Len(toDevice) + 1
    BY <1>1, <1>2, AppendOf, EmptyOf DEF ReceiveInv, ReceiveTypes, SwapTypes, ExchangeTypeOK
  <2> QED
    BY <1>2, <2>1 DEF InFlight
<1>5. ReceiveTypes'
  BY <1>2 DEF ReceiveInv, ReceiveTypes, SwapTypes
<1>6. SwapDevice'
  BY <1>2, <1>3 DEF ReceiveInv, SwapDevice, Itemized
<1>7. ReceiveData'
  BY DEF ReceiveInv, ReceiveData, Receive_!MiddleEnd, Receive_!Count, Receive_!FileArrives
<1>8. ReceiveStages'
  <2>1. flags' = {} \/ (shifted /\ step # "last_ack")
    BY <1>2
  <2> QED
    BY <1>1, <1>2, <2>1 DEF ReceiveInv, ReceiveStages
<1>9. ReceiveWindow'
  <2> SUFFICES ASSUME Orderly, ~irrecoverable, ReceiveShifting PROVE ReceiveWindow'
    BY <1>2, <1>3 DEF ReceiveWindow
  <2>1. InFlight <= IF step = "final" THEN 0 ELSE 1
    BY <1>2 DEF ReceiveInv, ReceiveWindow
  <2>2. InFlight' <= IF step = "final" THEN 1 ELSE 2
    BY <1>4, <2>1
  <2>3. f = {"no_checksum", "no_timeout"} /\ attempts' = 1
    BY <1>2, <1>3
  <2> QED
    BY <1>2, <2>2, <2>3 DEF ReceiveWindow
<1>10. ReceiveLocks'
  <2> SUFFICES ASSUME Orderly, ~irrecoverable, ~ReceiveShifting PROVE ReceiveLocks'
    BY <1>2, <1>3 DEF ReceiveLocks
  <2>1. Quiet /\ f = {}
    BY <1>2, <1>3 DEF ReceiveInv, ReceiveLocks
  <2>2. Lockstep'
    BY <1>1, <2>1, StartLocks DEF ReceiveInv, ReceiveTypes, SwapTypes, p
  <2> QED
    BY <1>2, <2>2 DEF ReceiveLocks
<1>11. ~shifted' /\ result' # "FILE" => Survives'
  BY <1>2 DEF ReceiveInv, Survives
<1> QED
  BY <1>5, <1>6, <1>7, <1>8, <1>9, <1>10, <1>11 DEF ReceiveInv

LEMMA ReceiveSendPreserves ==
  ASSUME ReceiveInv,
         \/ (Receive_!SendCommand \/ Receive_!SendRoleswap) /\ UNCHANGED <<announced, size, i, shifted, written>>
         \/ Receive_!LoopRequest \/ Receive_!FirstRequest \/ Receive_!MiddleRequest \/ Receive_!FinalRequest
         \/ Receive_!SendLastAck
  PROVE  ReceiveInv'
<1>1. i \in Nat /\ (step \in {"command", "swap", "loop", "first"} => ~shifted)
  BY DEF ReceiveInv, ReceiveTypes, ReceiveStages
<1>2. PICK k \in {"command", "roleswap", "ack"}, n \in {0, i}, f \in {Receive_!loop_send_flags, {}} :
        /\ StartExchange(Packet(k, n), f)
        /\ UNCHANGED <<call, step, result, items, sent, device, checked, announced, size, i, shifted, written>>
        /\ step \in {"command", "swap", "loop", "first", "middle", "final", "last_ack"}
        /\ step = "middle" => i < Receive_!MiddleEnd
        /\ f = IF step \in {"middle", "final"} THEN Receive_!loop_send_flags ELSE {}
  BY ReceiveExchanges
     DEF Receive_!SendCommand, Receive_!SendRoleswap, Receive_!LoopRequest, Receive_!FirstRequest,
         Receive_!MiddleRequest, Receive_!FinalRequest, Receive_!SendLastAck, Receive_!Acknowledge, Receive_!callVars,
         Receive_!swapVars, Receive_!deviceVars, Receive_!receiveVars
<1>3. f = IF shifted /\ step # "last_ack" THEN {"no_checksum", "no_timeout"} ELSE {}
  BY <1>1, <1>2 DEF Receive_!loop_send_flags
<1> QED
  BY <1>1, <1>2, <1>3, ReceiveSends

(* The first packet is shifted.                                            *)
LEMMA ShiftPreserves ==
  ASSUME ReceiveInv, Receive_!Shift
  PROVE  ReceiveInv'
<1> DEFINE p == Packet("ack", i)
<1>1. p \in HostPackets /\ p.kind = "ack" /\ p.intact
  BY PacketsAre DEF ReceiveInv, ReceiveTypes, PacketKinds
<1>2. /\ step = "shift" /\ StartExchange(p, {"no_receive"})
      /\ UNCHANGED <<call, step, result, items, sent, device, checked, announced, size, i, shifted, written>>
  BY ReceiveExchanges
     DEF Receive_!Shift, Receive_!Acknowledge, Receive_!callVars, Receive_!swapVars, Receive_!deviceVars,
         Receive_!receiveVars
<1>3. /\ phase = "idle" /\ packet' = p /\ toDevice' = Append(toDevice, p) /\ phase' = "done"
      /\ UNCHANGED <<toHost, lost, damaged, late, answer, irrecoverable>>
      /\ (outcome' = "OK" /\ UNCHANGED gone) \/ outcome' = "GONE"
  BY <1>2 DEF StartExchange, Finish
<1>4. ExchangeTypeOK'
  <2>1. {"no_receive"} \in SUBSET Flags
    BY DEF Flags
  <2> QED
    BY <1>1, <1>2, <2>1, StartIsTyped DEF ReceiveInv, ReceiveTypes, SwapTypes
<1> HIDE DEF p
<1>5. /\ (Orderly' <=> Orderly) /\ Answered' = Answered /\ ReceiveShifting' /\ ~ReceiveShifting /\ ~shifted
      /\ result = "none" /\ ~gone
  BY <1>2, <1>3 DEF Orderly, Answered, ReceiveShifting, ReceiveInv, ReceiveStages
<1>6. ReceiveTypes'
  BY <1>2, <1>4 DEF ReceiveInv, ReceiveTypes, SwapTypes
<1>7. SwapDevice'
  BY <1>2, <1>3, <1>5 DEF ReceiveInv, SwapDevice, Itemized
<1>8. ReceiveData'
  BY <1>2 DEF ReceiveInv, ReceiveData, Receive_!FileArrives
<1>9. ReceiveStages'
  BY <1>1, <1>2, <1>3, <1>5 DEF ReceiveInv, ReceiveStages
<1>10. ReceiveWindow'
  <2> SUFFICES ASSUME Orderly, ~irrecoverable PROVE ReceiveWindow'
    BY <1>3, <1>5 DEF ReceiveWindow
  <2>1. Quiet
    BY <1>2, <1>3, <1>5 DEF ReceiveInv, ReceiveLocks
  <2>2. InFlight' = 1
    <3>1. /\ toDevice \in Seq(HostPackets) /\ Len(toDevice) = 0 /\ Len(toHost) = 0
          /\ Len(toDevice') = Len(toDevice) + 1
      BY <1>1, <1>3, <2>1, AppendOf, EmptyOf DEF Quiet, ReceiveInv, ReceiveTypes, SwapTypes, ExchangeTypeOK
    <3> QED
      BY <1>3, <3>1 DEF InFlight
  <2> QED
    BY <1>2, <1>3, <2>2 DEF ReceiveWindow
<1>11. ReceiveLocks'
  BY <1>5 DEF ReceiveLocks
<1>12. ~shifted' /\ result' # "FILE" => Survives'
  BY <1>2, <1>3, <1>5 DEF ReceiveInv, Survives
<1> QED
  BY <1>6, <1>7, <1>8, <1>9, <1>10, <1>11, <1>12 DEF ReceiveInv

(* The call.                                                               *)
LEMMA ReceiveBeginPreserves ==
  ASSUME ReceiveInv, NEW function, NEW n \in Nat, NEW m \in 0 .. MaxCount, Receive_!Begin(function, n, m)
  PROVE  ReceiveInv'
<1>1. /\ step = "idle" /\ step' = "command" /\ call' = function /\ ~irrecoverable /\ ~gone
      /\ function \in {"request_file", "backup_rom", "receive_bytes", "capacity"}
      /\ items' = <<"command">> \o [k \in 1 .. m |-> "data"]
      /\ UNCHANGED <<toDevice, toHost, lost, damaged, late, phase, packet, flags, attempts, outcome, answer,
                     irrecoverable, gone>>
      /\ UNCHANGED <<result, sent, device, checked, size, i, shifted, written>> /\ announced' = n
  BY DEF Receive_!Begin, Receive_!BeginCall, Receive_!exchangeVars, Receive_!wireVars, Receive_!hostVars
<1>2. Quiet /\ sent = 0 /\ device = "passive" /\ phase = "idle" /\ answer = NoAnswer /\ ~shifted /\ result = "none"
      /\ i = 0 /\ size = 0 /\ written = <<>> /\ shifted \in BOOLEAN
  BY <1>1 DEF ReceiveInv, ReceiveTypes, ReceiveStages, ReceiveData, Before_
<1>3. /\ items' \in Seq({"command", "unknown_command", "data"}) /\ Len(items') = m + 1
      /\ m \in Nat /\ m + 1 <= MaxCount + 1
  <2>1. m \in Nat /\ m <= MaxCount /\ MaxCount \in Nat
    BY CountsAssumption
  <2> DEFINE S == {"command", "unknown_command", "data"}
             t == [k \in 1 .. m |-> "data"]
  <2>2. t \in Seq(S) /\ Len(t) = m
    <3>1. t \in [1 .. m -> S]
      OBVIOUS
    <3>2. DOMAIN t = 1 .. m
      OBVIOUS
    <3> QED
      BY <2>1, <3>1, <3>2
  <2>3. <<"command">> \in Seq(S) /\ Len(<<"command">>) = 1
    OBVIOUS
  <2> HIDE DEF t
  <2>4. \A r, s \in Seq(S) : r \o s \in Seq(S) /\ Len(r \o s) = Len(r) + Len(s)
    OBVIOUS
  <2> QED
    BY <1>1, <2>1, <2>2, <2>3, <2>4 DEF t
<1>4. (Orderly' <=> Orderly) /\ Quiet' /\ Answered' = {} /\ ~ReceiveShifting'
  BY <1>1, <1>2 DEF Orderly, Quiet, Answered, ReceiveShifting
<1>5. ReceiveTypes'
  <2>1. ExchangeTypeOK'
    BY <1>1 DEF ReceiveInv, ReceiveTypes, SwapTypes, ExchangeTypeOK
  <2>2. sent' \in 0 .. Len(items') /\ size' \in 0 .. announced'
    BY <1>1, <1>2, <1>3
  <2> QED
    BY <1>1, <1>2, <1>3, <2>1, <2>2 DEF ReceiveInv, ReceiveTypes, SwapTypes
<1>6. SwapDevice'
  <2>1. Itemized(answer)'
    BY <1>1, <1>2, PacketsAre DEF Itemized, ItemKinds
  <2> QED
    BY <1>1, <1>2, <1>4, <2>1 DEF SwapDevice
<1>7. ReceiveData'
  BY <1>1, <1>2 DEF ReceiveData, Before_, Receiving, Receive_!FileArrives
<1>8. ReceiveStages'
  BY <1>1, <1>2 DEF ReceiveInv, ReceiveStages
<1>9. ReceiveWindow' /\ ReceiveLocks'
  <2>1. packet'.intact /\ packet'.kind # "check" /\ phase' = "idle"
    BY <1>1, <1>2 DEF ReceiveInv, ReceiveStages
  <2> QED
    BY <1>4, <2>1, QuietLocks DEF ReceiveWindow, ReceiveLocks
<1>10. ~shifted' /\ result' # "FILE" => Survives'
  BY <1>1, <1>2 DEF ReceiveInv, Survives
<1> QED
  BY <1>5, <1>6, <1>7, <1>8, <1>9, <1>10 DEF ReceiveInv

(* A step of the exchange, or of the wire.                                 *)
LEMMA ReceiveExchangePreserves ==
  ASSUME ReceiveInv, Receive_!Exchange
  PROVE  ReceiveInv'
<1>1. StepOrWire /\ UNCHANGED <<call, step, result, items, sent, device, checked, announced, size, i, shifted, written>>
  BY ReceiveGoesOn DEF Receive_!Exchange, Receive_!callVars, Receive_!swapVars, Receive_!deviceVars, Receive_!receiveVars
<1>2. /\ ExchangeTypeOK /\ ExchangeTypeOK' /\ (Orderly' => Orderly)
      /\ irrecoverable => irrecoverable'
  BY <1>1, StepCounts, FaultsAreCounted DEF ReceiveInv, ReceiveTypes, SwapTypes, StepOrWire
<1>3. /\ UNCHANGED <<packet, flags>>
      /\ \/ Wire /\ UNCHANGED <<phase, packet, flags, attempts, outcome, answer, irrecoverable, gone>> /\ ~Quiet
         \/ /\ phase \in {"answer", "check", "receive"} /\ phase' \in {"answer", "check", "done"}
            /\ phase = "receive" => phase' = "done"
            /\ phase' = "done" => outcome' # "none"
  BY <1>1, <1>2, HostKeeps DEF hostVars
<1>4. /\ \/ answer' = answer
         \/ answer'.kind = "resend"
         \/ phase' = "done" /\ (outcome' = "OK" \/ irrecoverable') /\ outcome' # "GONE"
      /\ gone' = gone \/ (phase' = "done" /\ outcome' = "GONE")
  BY <1>1, <1>2, AnswerMeans
<1>5. ReceiveTypes'
  BY <1>1, <1>2 DEF ReceiveInv, ReceiveTypes, SwapTypes
<1>6. SwapDevice'
  BY <1>1, <1>2, SwapStepKeeps DEF ReceiveInv
<1>7. (phase' = "idle" <=> phase = "idle") /\ (phase = "idle" \/ phase = "done" => Wire /\ ~Quiet /\
        UNCHANGED <<phase, packet, flags, attempts, outcome, answer, irrecoverable, gone>>)
  BY <1>3
<1>8. ReceiveData'
  BY <1>1, <1>7 DEF ReceiveInv, ReceiveData, Receive_!MiddleEnd, Receive_!Count, Receive_!FileArrives
<1>9. ReceiveStages'
  <2>1. CASE ~Quiet /\ UNCHANGED <<phase, packet, flags, attempts, outcome, answer, irrecoverable, gone>>
    BY <1>1, <2>1 DEF ReceiveInv, ReceiveStages
  <2>2. CASE phase \in {"answer", "check", "receive"} /\ phase' \in {"answer", "check", "done"}
             /\ (phase = "receive" => phase' = "done") /\ (phase' = "done" => outcome' # "none")
    <3>1. /\ step \notin {"idle", "ended"} /\ result = "none" /\ ~gone /\ step # "shift"
          /\ step = "swap" => answer.kind # "command"
      BY <2>2 DEF ReceiveInv, ReceiveStages
    <3>2. step = "normalize" => phase' = "done"
      BY <2>2 DEF ReceiveInv, ReceiveStages
    <3>3. gone' => phase' = "done" /\ outcome' = "GONE"
      BY <1>4, <3>1
    <3>4. step = "swap" /\ phase' # "done" => answer'.kind # "command"
      BY <1>4, <3>1
    <3>5. step = "swap" /\ phase' = "done" /\ answer'.kind = "command" => outcome' = "OK" \/ (irrecoverable' /\ ~gone')
      BY <1>4, <3>1
    <3> QED
      BY <1>1, <1>3, <2>2, <3>1, <3>2, <3>3, <3>4, <3>5 DEF ReceiveInv, ReceiveStages
  <2> QED
    BY <1>3, <2>1, <2>2
<1>10. ReceiveShifting' <=> ReceiveShifting
  BY <1>1, <1>3, <1>7 DEF ReceiveInv, ReceiveStages, ReceiveShifting
<1>11. ReceiveWindow'
  <2> SUFFICES ASSUME Orderly, ~irrecoverable, ReceiveShifting PROVE ReceiveWindow'
    BY <1>2, <1>10 DEF ReceiveWindow
  <2>1. /\ InFlight \in Nat /\ InFlight' \in Nat /\ InFlight' <= InFlight
        /\ \/ UNCHANGED <<phase, attempts, flags, outcome>>
           \/ phase' = "done" /\ (outcome' = "OK" => InFlight' = InFlight - 1)
    <3>1. phase # "check" /\ (phase = "answer" => flags = {"no_checksum", "no_timeout"} /\ attempts = 1)
      BY DEF ReceiveInv, ReceiveWindow
    <3> QED
      BY <1>1, <1>2, <3>1, NoneIsSentAgain
  <2>2. CASE UNCHANGED <<phase, attempts, flags, outcome>>
    BY <1>1, <2>1, <2>2 DEF ReceiveInv, ReceiveWindow
  <2>3. CASE phase' = "done" /\ phase \in {"idle", "done"}
    BY <1>1, <1>7, <2>1, <2>3 DEF ReceiveInv, ReceiveWindow
  <2>4. CASE phase' = "done" /\ phase \in {"answer", "receive"} /\ (outcome' = "OK" => InFlight' = InFlight - 1)
    <3>1. InFlight <= IF step \in {"normalize", "final"} THEN 1 ELSE 2
      BY <2>4 DEF ReceiveInv, ReceiveWindow, ReceiveStages
    <3>2. outcome' = "OK" => InFlight' <= IF step \in {"normalize", "final"} THEN 0 ELSE 1
      BY <2>1, <2>4, <3>1
    <3> QED
      BY <1>1, <2>4, <3>2 DEF ReceiveWindow
  <2>5. phase \in {"idle", "answer", "check", "receive", "done"} /\ phase # "check"
    BY <1>2 DEF ReceiveInv, ReceiveWindow, ExchangeTypeOK
  <2> QED
    BY <2>1, <2>2, <2>3, <2>4, <2>5
<1>12. ReceiveLocks'
  <2> SUFFICES ASSUME Orderly, ~irrecoverable, ~ReceiveShifting PROVE ReceiveLocks'
    BY <1>2, <1>10 DEF ReceiveLocks
  <2>1. step # "ended" => Lockstep'
    <3> SUFFICES ASSUME step # "ended" PROVE Lockstep'
      OBVIOUS
    <3>1. InLockstep /\ phase # "receive"
      BY <1>2 DEF ReceiveInv, ReceiveLocks, ReceiveStages, ReceiveShifting, InLockstep
    <3> QED
      BY <1>1, <3>1, StepLocks, WireLocks DEF StepOrWire
  <2>2. phase' = "idle" /\ (step # "ended" \/ result = "OK") => FALSE
    BY <1>7 DEF ReceiveInv, ReceiveLocks
  <2> QED
    BY <1>1, <2>1, <2>2 DEF ReceiveLocks
<1>13. ~shifted' /\ result' # "FILE" => Survives'
  <2> SUFFICES ASSUME ~shifted, result # "FILE" PROVE Survives'
    BY <1>1
  <2>1. Orderly /\ ~irrecoverable /\ phase = "check" => Lockstep
    BY DEF ReceiveInv, ReceiveLocks, ReceiveStages, ReceiveShifting
  <2> QED
    BY <1>1, <1>2, <2>1, SurvivesStep DEF ReceiveInv
<1> QED
  BY <1>5, <1>6, <1>8, <1>9, <1>11, <1>12, <1>13 DEF ReceiveInv

(* The device.                                                             *)
LEMMA ReceiveDevicePreserves ==
  ASSUME ReceiveInv, Receive_!Device
  PROVE  ReceiveInv'
<1>1. Receive_!DeviceStep /\ UNCHANGED <<announced, size, i, shifted, written>> /\ SwapTypes /\ SwapDevice
  BY DEF Receive_!Device, Receive_!receiveVars, ReceiveInv, ReceiveTypes
<1>2. toDevice # <<>> /\ UNCHANGED <<call, step, result, items>>
  BY <1>1, SwapReplies
<1>3. PICK a \in DevicePackets : a.to = Head(toDevice) /\ DeviceSends(a) /\ SwapReply(Head(toDevice), a)
  BY <1>1, SwapReplies
<1>4. /\ SwapTypes' /\ SwapDevice' /\ (InLockstep => Lockstep')
      /\ UNCHANGED <<lost, damaged, late, phase, packet, flags, attempts, outcome, answer, irrecoverable, gone>>
  BY <1>1, <1>2, <1>3, SwapAnswers
<1>5. ~Quiet /\ step # "idle" /\ (Orderly' <=> Orderly) /\ (ReceiveShifting' <=> ReceiveShifting)
  <2>1. ~Quiet /\ step # "idle"
    BY <1>2 DEF ReceiveInv, ReceiveStages, Quiet
  <2>2. Orderly' <=> Orderly
    BY <1>4 DEF Orderly
  <2>3. ReceiveShifting' <=> ReceiveShifting
    BY <1>1, <1>2, <1>4 DEF ReceiveShifting
  <2> QED
    BY <2>1, <2>2, <2>3
<1>6. InFlight' = InFlight
  <2>1. /\ Len(toDevice') = Len(toDevice) - 1 /\ Len(toHost') = Len(toHost) + 1
        /\ Len(toDevice) \in Nat /\ Len(toHost) \in Nat
    BY <1>1, <1>2, <1>3, TailOf, AppendOf, EmptyOf DEF DeviceSends, SwapTypes, ExchangeTypeOK
  <2> QED
    BY <2>1 DEF InFlight
<1>7. ReceiveTypes'
  BY <1>1, <1>2, <1>4 DEF ReceiveInv, ReceiveTypes
<1>8. ReceiveData'
  BY <1>1, <1>2, <1>4 DEF ReceiveInv, ReceiveData, Receive_!MiddleEnd, Receive_!Count, Receive_!FileArrives
<1>9. ReceiveStages'
  BY <1>1, <1>2, <1>4, <1>5 DEF ReceiveInv, ReceiveStages
<1>10. ReceiveWindow'
  BY <1>2, <1>4, <1>5, <1>6 DEF ReceiveInv, ReceiveWindow
<1>11. ReceiveLocks'
  <2> SUFFICES ASSUME Orderly, ~irrecoverable, ~ReceiveShifting PROVE ReceiveLocks'
    BY <1>4, <1>5 DEF ReceiveLocks
  <2>1. step # "ended" => Lockstep'
    BY <1>1, <1>4 DEF ReceiveInv, ReceiveLocks, SwapTypes, InLockstep
  <2>2. phase = "idle" /\ (step # "ended" \/ result = "OK") => FALSE
    BY <1>5 DEF ReceiveInv, ReceiveLocks
  <2> QED
    BY <1>2, <1>4, <2>1, <2>2 DEF ReceiveLocks
<1>12. ~shifted' /\ result' # "FILE" => Survives'
  BY <1>1, <1>2, <1>4 DEF ReceiveInv, Survives
<1> QED
  BY <1>4, <1>7, <1>8, <1>9, <1>10, <1>11, <1>12 DEF ReceiveInv

LEMMA ReceiveNextPreserves ==
  ASSUME ReceiveInv, Receive_!Next
  PROVE  ReceiveInv'
<1>1. ASSUME NEW m \in 0 .. MaxCount, NEW n \in Receive_!Sizes(m),
             Receive_!RequestFile(n, m) \/ Receive_!BackupRom(n, m) \/ Receive_!ReceiveBytes(n, m)
      PROVE  ReceiveInv'
  <2>1. n \in Nat
    BY <1>1, CountsAssumption DEF Receive_!Sizes
  <2> QED
    BY <1>1, <2>1, ReceiveBeginPreserves DEF Receive_!RequestFile, Receive_!BackupRom, Receive_!ReceiveBytes
<1>2. CASE Receive_!RequestCapacity
  <2>1. 0 \in 0 .. MaxCount
    BY CountsAssumption
  <2> QED
    BY <1>2, <2>1, ReceiveBeginPreserves DEF Receive_!RequestCapacity
<1>3. CASE Receive_!Caller \/ Receive_!NoRoom \/ Receive_!WriteFails
  <2>1. CASE Receive_!MiddleEnds
    BY <2>1, LoopEndsPreserves, NormalizePreserves DEF ReceiveInv, ReceiveTypes
  <2> QED
    BY <1>3, <2>1, ReceiveSendPreserves, ReceiveReturnsPreserves, ReceiveStoresPreserves, LoopEndsPreserves,
       ShiftPreserves
       DEF Receive_!Caller, Receive_!receiveVars
<1>4. CASE Receive_!Exchange \/ Receive_!Device
  BY <1>4, ReceiveExchangePreserves, ReceiveDevicePreserves
<1> QED
  BY <1>1, <1>2, <1>3, <1>4 DEF Receive_!Next

LEMMA ReceiveStutters ==
  ASSUME ReceiveInv, UNCHANGED <<exchangeVars, callVars, moveVars, device, swapVars, receiveVars>>
  PROVE  ReceiveInv'
<1>1. /\ UNCHANGED <<toDevice, toHost, lost, damaged, late, phase, packet, flags, attempts, outcome, answer,
                     irrecoverable, gone>>
      /\ UNCHANGED <<call, step, result, items, sent, device, checked, announced, size, i, shifted, written>>
  BY DEF exchangeVars, wireVars, hostVars, callVars, moveVars, swapVars, receiveVars
<1>2. ReceiveTypes'
  BY <1>1 DEF ReceiveInv, ReceiveTypes, SwapTypes, ExchangeTypeOK
<1>3. (Quiet' <=> Quiet) /\ (Orderly' <=> Orderly) /\ Answered' = Answered /\ InFlight' = InFlight
      /\ (ReceiveShifting' <=> ReceiveShifting)
  BY <1>1 DEF Quiet, Orderly, Answered, InFlight, ReceiveShifting
<1>4. SwapDevice'
  BY <1>1, <1>3 DEF ReceiveInv, SwapDevice, Itemized
<1>5. ReceiveData'
  BY <1>1 DEF ReceiveInv, ReceiveData, Receive_!MiddleEnd, Receive_!Count, Receive_!FileArrives
<1>6. ReceiveStages' /\ ReceiveWindow' /\ Survives' = Survives
  BY <1>1, <1>3 DEF ReceiveInv, ReceiveStages, ReceiveWindow, Survives
<1>7. Lockstep' <=> Lockstep
  BY <1>1 DEF Lockstep, Members, Expected, Same, InOrder, TwoAnswers, NoCheck, Alone, Genuine, Over, Faults, Sent,
              Answered, Quiet, Usable
<1>8. ReceiveLocks'
  BY <1>1, <1>3, <1>7 DEF ReceiveInv, ReceiveLocks
<1> QED
  BY <1>1, <1>2, <1>4, <1>5, <1>6, <1>8 DEF ReceiveInv

LEMMA ReceiveBegins ==
  ASSUME Init PROVE ReceiveInv
<1>1. /\ ExchangeInit /\ Receive_!SwapInit
      /\ announced = 0 /\ size = 0 /\ i = 0 /\ shifted = FALSE /\ written = <<>>
  BY ReceiveExchanges DEF Init, Receive_!Init
<1>2. /\ SwapTypes /\ SwapDevice /\ Lockstep /\ Quiet /\ Survives
      /\ phase = "idle" /\ answer = NoAnswer /\ packet.kind = "none" /\ packet.intact /\ flags = {}
      /\ call = "none" /\ step = "idle" /\ result = "none" /\ device = "passive" /\ sent = 0 /\ ~gone
      /\ Len(items) = 0
  BY <1>1, SwapBegins DEF Usable
<1>3. ReceiveTypes
  <2>1. <<>> \in Seq(1 .. MaxCount)
    OBVIOUS
  <2>2. Len(items) <= MaxCount + 1
    BY <1>2, CountsAssumption
  <2>3. announced \in Nat /\ size \in 0 .. announced /\ i \in Nat
    BY <1>1
  <2>5. shifted \in BOOLEAN
    BY <1>1
  <2>4. result \in Outcomes \cup {"FILE"}
    BY <1>2 DEF Outcomes
  <2> QED
    BY <1>1, <1>2, <2>1, <2>2, <2>3, <2>4, <2>5 DEF ReceiveTypes
<1>4. ReceiveData
  BY <1>1, <1>2 DEF ReceiveData, Before_, Receiving, Receive_!FileArrives
<1>5. ReceiveStages /\ ReceiveWindow /\ ReceiveLocks
  BY <1>1, <1>2 DEF ReceiveStages, ReceiveWindow, ReceiveLocks, ReceiveShifting
<1> QED
  BY <1>2, <1>3, <1>4, <1>5 DEF ReceiveInv

LEMMA ReceiveIsRight ==
  ASSUME ReceiveInv
  PROVE  Receive_!TypeOK /\ Receive_!FileArrives /\ Receive_!RolesAreBack /\ Receive_!OneFaultIsSurvived
<1>1. Receive_!TypeOK
  BY SwapTyping DEF ReceiveInv, ReceiveTypes, Receive_!TypeOK
<1>2. Receive_!FileArrives
  BY DEF ReceiveInv, ReceiveData
<1>3. Receive_!RolesAreBack
  <2> SUFFICES ASSUME Orderly, result \in {"OK", "INT"}, ~irrecoverable PROVE Receive_!RolesAreBack
    BY DEF Receive_!RolesAreBack, Receive_!Orderly, Orderly
  <2>1. result = "OK"
    BY DEF ReceiveInv, ReceiveTypes, Outcomes, DamageErrors
  <2>2. step = "ended" /\ phase = "idle" /\ device = "back"
    BY <2>1 DEF ReceiveInv, ReceiveStages, SwapDevice, Itemized
  <2>3. Quiet
    BY <2>1, <2>2 DEF ReceiveInv, ReceiveLocks, ReceiveShifting
  <2> QED
    BY <2>2, <2>3 DEF Receive_!RolesAreBack, Quiet
<1>4. Receive_!OneFaultIsSurvived
  BY DEF Receive_!OneFaultIsSurvived, ReceiveInv, Survives
<1> QED
  BY <1>1, <1>2, <1>3, <1>4

-----------------------------------------------------------------------------
(* The operations together.                                                *)

OperationInv ==
  /\ operation \in {"transfer", "receive", "listing", "flash", "passive"}
  /\ operation = "transfer" => TransferInv
  /\ operation = "receive" => ReceiveInv
  /\ operation = "listing" => ListingInv
  /\ operation = "flash" => FlashInv

(* The invariant of each operation is one of the whole, whichever the call *)
(* is of: every step of the functions (cahute_seven_send_file_to_storage,  *)
(* cahute_seven_request_file_from_storage, cahute_seven_backup_rom, ...),  *)
(* of the exchange they run, of the wire and of the device keeps it.       *)
THEOREM OperationsKeepInv == Spec => []OperationInv
<1>1. Init => OperationInv
  BY TransferBegins, ReceiveBegins, ListingBegins, FlashBegins DEF Init, OperationInv
<1>2. OperationInv /\ [Next]_vars => OperationInv'
  <2> SUFFICES ASSUME OperationInv, [Next]_vars PROVE OperationInv'
    OBVIOUS
  <2>1. CASE operation = "transfer" /\ Transfer!Next /\ TransferOnly
    <3>1. TransferInv' /\ operation' = "transfer"
      BY <2>1, TransferNextPreserves DEF OperationInv, TransferOnly
    <3> QED
      BY <3>1 DEF OperationInv
  <2>2. CASE operation = "receive" /\ Receive_!Next /\ ReceiveOnly
    <3>1. ReceiveInv' /\ operation' = "receive"
      BY <2>2, ReceiveNextPreserves DEF OperationInv, ReceiveOnly
    <3> QED
      BY <3>1 DEF OperationInv
  <2>3. CASE operation = "listing" /\ Listing!Next /\ ListingOnly
    <3>1. ListingInv' /\ operation' = "listing"
      BY <2>3, ListingNextPreserves DEF OperationInv, ListingOnly
    <3> QED
      BY <3>1 DEF OperationInv
  <2>4. CASE operation = "flash" /\ Flash!Next /\ FlashOnly
    <3>1. FlashInv' /\ operation' = "flash"
      BY <2>4, FlashNextPreserves DEF OperationInv, FlashOnly
    <3> QED
      BY <3>1 DEF OperationInv
  <2>5. CASE operation = "passive" /\ PassiveSide!Next /\ PassiveOnly
    BY <2>5 DEF OperationInv, PassiveOnly
  <2>6. CASE UNCHANGED vars
    <3>1. /\ UNCHANGED <<exchangeVars, operation, callVars, moveVars, device, sendVars, swapVars, receiveVars,
                         listingVars, flashVars>>
      BY <2>6 DEF vars
    <3>2. UNCHANGED <<call, step, result, i, shifted, items, sent, checked>>
      BY <3>1 DEF callVars, moveVars, swapVars
    <3>3. operation = "transfer" => TransferInv'
      BY <3>1, <3>2, TransferStutters DEF OperationInv
    <3>4. operation = "receive" => ReceiveInv'
      BY <3>1, ReceiveStutters DEF OperationInv
    <3>5. operation = "listing" => ListingInv'
      BY <3>1, <3>2, ListingStutters DEF OperationInv
    <3>6. operation = "flash" => FlashInv'
      BY <3>1, <3>2, FlashStutters DEF OperationInv
    <3> QED
      BY <3>1, <3>3, <3>4, <3>5, <3>6 DEF OperationInv
  <2> QED
    BY <2>1, <2>2, <2>3, <2>4, <2>5, <2>6 DEF Next
<1> QED
  BY <1>1, <1>2, PTL DEF Spec

(* The system is flashed whole, its first sector last, and a flash that    *)
(* says it is done is (flash_system_using_fxremote_method.c), for images   *)
(* and pieces of any size.                                                 *)
THEOREM FlashIsInOrder == Spec => []FlashedInOrder
<1>1. OperationInv => FlashedInOrder
  BY FlashIsRight DEF OperationInv, FlashedInOrder
<1> QED
  BY <1>1, OperationsKeepInv, PTL

(* The entries of a storage are given to the program once each and in      *)
(* order, and the type that was asked for is found if it is there          *)
(* (list_storage_entries.c and request_main_memory_file_type.c), as long   *)
(* as nothing is lost or late.                                             *)
THEOREM EntriesAreGivenInOrder == Spec => []EntriesAreFaithful
<1>1. OperationInv => EntriesAreFaithful
  BY ListingIsRight DEF OperationInv, EntriesAreFaithful
<1> QED
  BY <1>1, OperationsKeepInv, PTL

(* A call of the active side that succeeds leaves a quiet link and, when   *)
(* the roles were swapped, a passive device, so that the next call may use *)
(* the link (cahute_seven_send_file_to_storage and the like, over          *)
(* cahute_seven_exchange), whatever was lost, damaged or repeated.         *)
THEOREM LinkIsLeftFree == Spec => []LinkIsFree
<1>1. OperationInv => LinkIsFree
  BY TransferIsRight, ReceiveIsRight, ListingIsRight, FlashIsRight DEF OperationInv, LinkIsFree, Quiet
<1> QED
  BY <1>1, OperationsKeepInv, PTL

(* One packet lost or damaged never costs the link, for any number of      *)
(* packets and of attempts, unless packets are shifted                     *)
(* (cahute_seven_exchange, and the timeout checks it sends).               *)
THEOREM LinkSurvivesOneFault == Spec => []OneFaultIsSurvived
<1>1. OperationInv => OneFaultIsSurvived
  BY TransferIsRight, ReceiveIsRight, ListingIsRight
     DEF OperationInv, OneFaultIsSurvived, FlashInv, Survives, Receive_!OneFaultIsSurvived
<1> QED
  BY <1>1, OperationsKeepInv, PTL

(* A transfer of the active side that succeeds has moved the whole of the  *)
(* data, once and in order, with and without packet shifting               *)
(* (send_bytes_from_stream.c, receive_bytes.c, receive_bytes_into_stream.c *)
(* and the functions over them), for files of any size, whatever was lost, *)
(* damaged or late.                                                        *)
THEOREM TransfersAreWhole == Spec => [](operation # "passive" => FileArrives)
<1>1. OperationInv => (operation # "passive" => FileArrives)
  BY TransferIsRight, ReceiveIsRight DEF OperationInv, FileArrives
<1> QED
  BY <1>1, OperationsKeepInv, PTL

-----------------------------------------------------------------------------
(* The passive side, and the parameters of the ports.                      *)

(* Nothing tells the ends that they do not understand each other.          *)
Trusted == waited /\ ~irrecoverable /\ ~broken /\ ~gone /\ damaged = 0

OldActive == speed["active"] = "old"
NewPassive == speed["passive"] = "new"

(* The active side waits for the answer to a command.                      *)
Calling ==
  /\ phase \in {"idle", "answer", "check", "done"} /\ flags = {}
  /\ phase # "idle" => call \notin {"none", "set"}

Clean ==
  /\ \A j \in Sent : toDevice[j].intact
  /\ \A j \in Answered : toHost[j].kind \in {"ack", "ack_extended", "error", "other"}

(* Settings are acknowledged, or their acknowledgement is lost.            *)
Acked ==
  \/ call = "settings" /\ phase = "answer" /\ toHost # <<>> /\ toHost[1].kind = "ack"
  \/ call = "settings" /\ phase = "done" /\ outcome = "OK" /\ answer.kind = "ack"
  \/ call = "set"

AckLost == call = "settings" /\ phase = "answer" /\ toDevice = <<>> /\ toHost = <<>>

(* The passive side has a packet to answer.                                *)
Pending == step \in {"decide", "request", "last_ack"}

SettingsPacket(p) == p.kind = "command" /\ p.id = 2

(* One packet at a time is on its way or being answered, and it is the one *)
(* that is waited for.                                                     *)
Lone ==
  /\ phase \in {"idle", "done"} => Quiet /\ ~Pending
  /\ phase = "answer" =>
       /\ call = "settings" <=> SettingsPacket(packet)
       /\ InFlight <= 1 /\ (Pending => Quiet)
       /\ \A j \in Sent : toDevice[j] = packet
       /\ Pending => (call = "settings" <=> step = "decide" /\ command = "settings")

(* What the ports have while they differ.                                  *)
Ports ==
  /\ ~OldActive /\ ~NewPassive => step = "set"
  /\ OldActive /\ NewPassive => step \in {"idle", "listen"}

(* As long as no check has gone out, the parameters follow the             *)
(* acknowledgement; a passive side that checks never answers again.        *)
Agreeing ==
  /\ Acked => step \in {"set", "listen", "idle"} /\ (step = "set" \/ NewPassive)
  /\ OldActive /\ (step = "set" \/ NewPassive) => Acked \/ AckLost
  /\ step = "check" => \A j \in Answered : toHost[j].kind = "ack" => j = 1 /\ phase = "answer"
  /\ step # "check" => Lone

ParamsInv == Trusted => Clean /\ Ports /\ (phase # "check" => Agreeing)

PassiveInv == PassiveSide!TypeOK /\ Calling /\ ParamsInv

LEMMA PassiveExchanges ==
  /\ PassiveSide!ExchangeInit <=> ExchangeInit
  /\ \A p, f : PassiveSide!StartExchange(p, f) <=> StartExchange(p, f)
  /\ PassiveSide!ExchangeReturns <=> ExchangeReturns
  /\ \A k, n : PassiveSide!Packet(k, n) = Packet(k, n)
  /\ \A k, p : PassiveSide!Answer(k, p) = Answer(k, p)
  /\ PassiveSide!timeout_check_packet = timeout_check_packet
  /\ PassiveSide!ExchangeTypeOK <=> ExchangeTypeOK
<1>1. PassiveSide!ExchangeInit <=> ExchangeInit
  BY DEF PassiveSide!ExchangeInit, ExchangeInit, PassiveSide!NoPacket, NoPacket, PassiveSide!NoAnswer,
         NoAnswer, PassiveSide!Answer, Answer, PassiveSide!Numbered, Numbered, PassiveSide!Packet, Packet
<1>2. \A p, f : PassiveSide!StartExchange(p, f) <=> StartExchange(p, f)
  BY DEF PassiveSide!StartExchange, StartExchange, PassiveSide!InitialAttempts, InitialAttempts,
         PassiveSide!Finish, Finish
<1>3. PassiveSide!ExchangeReturns <=> ExchangeReturns
  BY DEF PassiveSide!ExchangeReturns, ExchangeReturns, PassiveSide!wireVars, wireVars
<1>4. \A k, n : PassiveSide!Packet(k, n) = Packet(k, n)
  BY DEF PassiveSide!Packet, Packet
<1>5. \A k, p : PassiveSide!Answer(k, p) = Answer(k, p)
  BY DEF PassiveSide!Answer, Answer, PassiveSide!Numbered, Numbered
<1>6. PassiveSide!timeout_check_packet = timeout_check_packet
  BY DEF PassiveSide!timeout_check_packet, timeout_check_packet, PassiveSide!Packet, Packet
<1>7. PassiveSide!ExchangeTypeOK <=> ExchangeTypeOK
  BY DEF PassiveSide!ExchangeTypeOK, ExchangeTypeOK, PassiveSide!HostPackets, HostPackets,
         PassiveSide!DevicePackets, DevicePackets, PassiveSide!PacketKinds, PacketKinds,
         PassiveSide!AnswerKinds, AnswerKinds, PassiveSide!Flags, Flags, PassiveSide!Outcomes, Outcomes,
         PassiveSide!DamageErrors, DamageErrors
<1> QED
  BY <1>1, <1>2, <1>3, <1>4, <1>5, <1>6, <1>7

LEMMA PassiveGoesOn ==
  /\ PassiveSide!ExchangeStep <=> ExchangeStep
  /\ PassiveSide!Unplugged <=> Unplugged
  /\ PassiveSide!Wire <=> Wire
<1> USE DEF PassiveSide!Receive, Receive, PassiveSide!Finish, Finish, PassiveSide!TryAgain, TryAgain,
            PassiveSide!TimeRunsOut, TimeRunsOut, PassiveSide!InitialAttempts, InitialAttempts,
            PassiveSide!AnswerKinds, AnswerKinds, PassiveSide!DamageErrors, DamageErrors,
            PassiveSide!timeout_check_packet, timeout_check_packet, PassiveSide!Packet, Packet
<1>1. PassiveSide!ReceiveDamaged <=> ReceiveDamaged
  BY DEF PassiveSide!ReceiveDamaged, ReceiveDamaged
<1>2. PassiveSide!ReceiveAnswer <=> ReceiveAnswer
  BY DEF PassiveSide!ReceiveAnswer, ReceiveAnswer
<1>3. PassiveSide!ReceiveResend <=> ReceiveResend
  BY DEF PassiveSide!ReceiveResend, ReceiveResend
<1>4. PassiveSide!ReceiveCheckAnswer <=> ReceiveCheckAnswer
  BY DEF PassiveSide!ReceiveCheckAnswer, ReceiveCheckAnswer
<1>5. PassiveSide!AnswerTimesOut <=> AnswerTimesOut
  BY DEF PassiveSide!AnswerTimesOut, AnswerTimesOut
<1>6. PassiveSide!CheckTimesOut <=> CheckTimesOut
  BY DEF PassiveSide!CheckTimesOut, CheckTimesOut
<1>7. PassiveSide!Unplugged <=> Unplugged
  BY DEF PassiveSide!Unplugged, Unplugged, PassiveSide!wireVars, wireVars
<1>8. PassiveSide!Wire <=> Wire
  BY DEF PassiveSide!Wire, Wire, PassiveSide!LosePacket, LosePacket, PassiveSide!DamagePacket, DamagePacket,
         PassiveSide!hostVars, hostVars
<1> HIDE DEF PassiveSide!Receive, Receive, PassiveSide!Finish, Finish, PassiveSide!TryAgain, TryAgain,
            PassiveSide!TimeRunsOut, TimeRunsOut, PassiveSide!InitialAttempts, InitialAttempts,
            PassiveSide!AnswerKinds, AnswerKinds, PassiveSide!DamageErrors, DamageErrors,
            PassiveSide!timeout_check_packet, timeout_check_packet, PassiveSide!Packet, Packet
<1> QED
  BY <1>1, <1>2, <1>3, <1>4, <1>5, <1>6, <1>7, <1>8 DEF PassiveSide!ExchangeStep, ExchangeStep

(* The types of the two ends, but for the exchange.                        *)
ActiveTypes ==
  /\ call \in PassiveSide!Calls \cup {"none", "set", "data"} /\ i \in 0 .. count /\ count \in 0 .. MaxPackets
  /\ calls \in 0 .. MaxCalls

PassiveTypes ==
  /\ receptions \in 0 .. MaxCalls /\ step \in PassiveSide!Steps
  /\ command \in PassiveSide!Commands \cup {"none"} /\ size \in 0 .. MaxPackets /\ received \in Seq(Nat)
  /\ terminated \in BOOLEAN /\ broken \in BOOLEAN

PortTypes == speed \in [PassiveSide!Ends -> {"old", "new"}] /\ waited \in BOOLEAN

LEMMA PassiveTypesAre == PassiveSide!TypeOK <=> ExchangeTypeOK /\ ActiveTypes /\ PassiveTypes /\ PortTypes
BY PassiveExchanges DEF PassiveSide!TypeOK, ActiveTypes, PassiveTypes, PortTypes

LEMMA CommandNumbers ==
  \A c \in PassiveSide!Commands, n \in Nat :
    PassiveSide!Number(c, n) \in Nat /\ (PassiveSide!Number(c, n) = 2 <=> c = "settings")
BY DEF PassiveSide!Commands, PassiveSide!Number

LEMMA SentIs ==
  ASSUME ExchangeTypeOK, NEW k \in AnswerKinds, NEW p \in HostPackets
  PROVE  /\ PassiveSide!Sent(k, p) = Append(toHost, Answer(IF PassiveSide!SameParams THEN k ELSE "damaged", p))
         /\ Answer(IF PassiveSide!SameParams THEN k ELSE "damaged", p) \in DevicePackets
         /\ PassiveSide!Sent(k, p) \in Seq(DevicePackets)
<1>1. Answer(IF PassiveSide!SameParams THEN k ELSE "damaged", p) \in DevicePackets
  BY PacketsAre DEF AnswerKinds
<1>2. PassiveSide!Sent(k, p) = Append(toHost, Answer(IF PassiveSide!SameParams THEN k ELSE "damaged", p))
  BY PassiveExchanges DEF PassiveSide!Sent
<1> QED
  BY <1>1, <1>2, AppendOf DEF ExchangeTypeOK

LEMMA PassiveNumbers == MaxPackets \in Nat /\ MaxCalls \in Nat
BY PassiveAssumption

LEMMA CallIsTyped ==
  ASSUME ExchangeTypeOK, ActiveTypes, NEW c \in PassiveSide!Calls, PassiveSide!Begin(c)
  PROVE  ExchangeTypeOK' /\ ActiveTypes'
<1> DEFINE P == IF c \in PassiveSide!Commands THEN Packet("command", PassiveSide!Number(c, count')) ELSE Packet(c, 0)
<1>1. calls' \in 0 .. MaxCalls /\ call' = c /\ i' = 0 /\ count' \in 0 .. MaxPackets /\ 0 \in 0 .. MaxPackets
  BY PassiveNumbers DEF PassiveSide!Begin, ActiveTypes
<1>2. P \in HostPackets
  BY <1>1, PacketsAre, CommandNumbers, PassiveNumbers DEF PassiveSide!Calls, PacketKinds
<1>3. StartExchange(P, {})
  BY PassiveExchanges DEF PassiveSide!Begin
<1>4. ExchangeTypeOK'
  BY <1>2, <1>3, StartIsTyped
<1> QED
  BY <1>1, <1>4, PassiveNumbers DEF ActiveTypes

LEMMA ActiveIsTyped ==
  ASSUME ExchangeTypeOK, ActiveTypes, PortTypes, PassiveTypes, PassiveSide!Active
  PROVE  ExchangeTypeOK' /\ ActiveTypes' /\ PassiveTypes' /\ PortTypes'
<1>1. CASE PassiveSide!CommandReturns
  <2>1. ExchangeTypeOK' /\ PassiveTypes' /\ PortTypes'
    BY <1>1, PassiveExchanges, ReturnIsTyped DEF PassiveSide!CommandReturns, PassiveSide!passiveVars,
       PassiveSide!portVars, PassiveTypes, PortTypes
  <2>2. ActiveTypes'
    BY <1>1, PassiveNumbers DEF PassiveSide!CommandReturns, PassiveSide!Return, ActiveTypes, PassiveSide!Calls,
       PassiveSide!Commands
  <2> QED
    BY <2>1, <2>2
<1>2. CASE PassiveSide!SendData
  <2>1. PassiveSide!Data(calls, i) \in HostPackets
    BY PacketsAre, PassiveExchanges, PassiveNumbers DEF PassiveSide!Data, ActiveTypes, PacketKinds
  <2>2. ExchangeTypeOK'
    BY <1>2, <2>1, PassiveExchanges, StartIsTyped DEF PassiveSide!SendData
  <2> QED
    BY <1>2, <2>2 DEF PassiveSide!SendData, PassiveSide!activeVars, PassiveSide!passiveVars,
       PassiveSide!portVars, ActiveTypes, PassiveTypes, PortTypes
<1>3. CASE PassiveSide!FileSent
  <2>1. ExchangeTypeOK' /\ PassiveTypes' /\ PortTypes'
    BY <1>3 DEF PassiveSide!FileSent, PassiveSide!exchangeVars, PassiveSide!wireVars, PassiveSide!hostVars,
       PassiveSide!passiveVars, PassiveSide!portVars, ExchangeTypeOK, PassiveTypes, PortTypes
  <2>2. ActiveTypes'
    BY <1>3, PassiveNumbers DEF PassiveSide!FileSent, PassiveSide!Return, ActiveTypes, PassiveSide!Calls,
       PassiveSide!Commands
  <2> QED
    BY <2>1, <2>2
<1>4. CASE PassiveSide!SetOwnParams
  <2>1. /\ UNCHANGED <<toDevice, toHost, lost, damaged, late, phase, packet, flags, attempts, outcome, answer, gone>>
        /\ UNCHANGED <<step, command, size, receptions, received, terminated, i, count, calls>>
        /\ call' = "none"
    BY <1>4 DEF PassiveSide!SetOwnParams, PassiveSide!wireVars, PassiveSide!Return
  <2>2. /\ irrecoverable' \in BOOLEAN /\ broken' \in BOOLEAN /\ waited' \in BOOLEAN
        /\ speed' \in [PassiveSide!Ends -> {"old", "new"}]
    <3>1. CASE PassiveSide!SetFails("active")
      BY <3>1 DEF PassiveSide!SetFails, PassiveSide!portVars, PortTypes, ExchangeTypeOK, PassiveTypes
    <3>2. CASE speed' = [speed EXCEPT !["active"] = "new"] /\ waited' \in {waited, FALSE}
               /\ UNCHANGED <<irrecoverable, broken>>
      <4>1. speed' \in [PassiveSide!Ends -> {"old", "new"}]
        BY <3>2 DEF PortTypes
      <4>2. waited' = waited \/ waited' = FALSE
        BY <3>2
      <4>3. waited' \in BOOLEAN
        BY <4>2, Zenon DEF PortTypes
      <4> QED
        BY <3>2, <4>1, <4>3 DEF ExchangeTypeOK, PassiveTypes
    <3> QED
      BY <1>4, <3>1, <3>2 DEF PassiveSide!SetOwnParams
  <2> QED
    BY <2>1, <2>2 DEF ExchangeTypeOK, ActiveTypes, PassiveTypes, PortTypes
<1> QED
  BY <1>1, <1>2, <1>3, <1>4 DEF PassiveSide!Active

(* What the passive side does with the wire.                               *)
WireTypes == toDevice' \in Seq(HostPackets) /\ toHost' \in Seq(DevicePackets) /\ late' \in 0 .. MaxLate
HostKept == UNCHANGED <<lost, damaged, phase, packet, flags, attempts, outcome, answer, gone>>

LEMMA WireIsTyped ==
  ASSUME ExchangeTypeOK, HostKept, WireTypes, irrecoverable' \in BOOLEAN
  PROVE  ExchangeTypeOK'
BY DEF ExchangeTypeOK, HostKept, WireTypes

LEMMA PassiveWireIsTyped ==
  ASSUME ExchangeTypeOK
  PROVE  /\ \A k \in AnswerKinds : PassiveSide!SendAnswer(k) => WireTypes /\ HostKept /\ irrecoverable' = irrecoverable
         /\ \A k \in AnswerKinds : toDevice # <<>> /\ PassiveSide!TakeAndAnswer(k) =>
                                     WireTypes /\ HostKept /\ irrecoverable' = irrecoverable
         /\ toDevice # <<>> /\ PassiveSide!Take => WireTypes /\ HostKept /\ irrecoverable' = irrecoverable
         /\ UNCHANGED exchangeVars => WireTypes /\ HostKept /\ irrecoverable' = irrecoverable
<1>1. toDevice # <<>> => Tail(toDevice) \in Seq(HostPackets) /\ Head(toDevice) \in HostPackets
  BY TailOf DEF ExchangeTypeOK
<1>2. \A k \in AnswerKinds : PassiveSide!Sent(k, timeout_check_packet) \in Seq(DevicePackets)
  BY SentIs, PacketsAre
<1>3. toDevice # <<>> => \A k \in AnswerKinds : PassiveSide!Sent(k, Head(toDevice)) \in Seq(DevicePackets)
  BY <1>1, SentIs
<1>4. toDevice \in Seq(HostPackets) /\ toHost \in Seq(DevicePackets) /\ late \in 0 .. MaxLate
  BY DEF ExchangeTypeOK
<1> USE DEF WireTypes, HostKept, PassiveSide!hostVars
<1>5. ASSUME NEW k \in AnswerKinds, PassiveSide!SendAnswer(k)
      PROVE  WireTypes /\ HostKept /\ irrecoverable' = irrecoverable
  BY <1>2, <1>4, <1>5, PassiveExchanges DEF PassiveSide!SendAnswer
<1>6. ASSUME NEW k \in AnswerKinds, toDevice # <<>>, PassiveSide!TakeAndAnswer(k)
      PROVE  WireTypes /\ HostKept /\ irrecoverable' = irrecoverable
  BY <1>1, <1>3, <1>4, <1>6 DEF PassiveSide!TakeAndAnswer
<1>7. ASSUME toDevice # <<>>, PassiveSide!Take PROVE WireTypes /\ HostKept /\ irrecoverable' = irrecoverable
  BY <1>1, <1>4, <1>7 DEF PassiveSide!Take
<1>8. ASSUME UNCHANGED exchangeVars PROVE WireTypes /\ HostKept /\ irrecoverable' = irrecoverable
  BY <1>4, <1>8 DEF exchangeVars, wireVars, hostVars
<1> QED
  BY <1>5, <1>6, <1>7, <1>8

LEMMA StepsStay ==
  /\ \A s \in PassiveSide!Steps : PassiveTypes /\ PassiveSide!GoTo(s) => PassiveTypes'
  /\ \A r : PassiveTypes /\ PassiveSide!Give(r) => PassiveTypes'
  /\ PassiveTypes /\ PassiveSide!Breaks => PassiveTypes'
<1>1. \A s \in PassiveSide!Steps : PassiveTypes /\ PassiveSide!GoTo(s) => PassiveTypes'
  BY DEF PassiveTypes, PassiveSide!GoTo
<1>2. \A r : PassiveTypes /\ PassiveSide!Give(r) => PassiveTypes'
  BY DEF PassiveTypes, PassiveSide!Give, PassiveSide!Steps
<1>3. PassiveTypes /\ PassiveSide!Breaks => PassiveTypes'
  BY DEF PassiveTypes, PassiveSide!Breaks, PassiveSide!Steps
<1> QED
  BY <1>1, <1>2, <1>3

LEMMA PortsStay == PortTypes /\ UNCHANGED PassiveSide!portVars => PortTypes'
BY DEF PortTypes, PassiveSide!portVars

LEMMA ListenIsTyped ==
  ASSUME ExchangeTypeOK, PassiveTypes, PassiveSide!Listen
  PROVE  ExchangeTypeOK' /\ PassiveTypes'
<1> DEFINE p == Head(toDevice)
<1>1. toDevice # <<>> /\ p \in HostPackets
  BY TailOf DEF ExchangeTypeOK, PassiveSide!Listen
<1>2. {"ack", "error"} \subseteq AnswerKinds /\ {"listen", "decide", "idle"} \subseteq PassiveSide!Steps
  BY DEF AnswerKinds, PassiveSide!Steps
<1>3. CASE PassiveSide!TakeAndAnswer("ack") /\ PassiveSide!GoTo("listen")
  BY <1>1, <1>2, <1>3, PassiveWireIsTyped, WireIsTyped, StepsStay DEF ExchangeTypeOK
<1>4. CASE PassiveSide!TakeAndAnswer("error") /\ PassiveSide!GoTo("listen")
  BY <1>1, <1>2, <1>4, PassiveWireIsTyped, WireIsTyped, StepsStay DEF ExchangeTypeOK
<1>5. CASE /\ PassiveSide!TakeAndAnswer("ack") /\ terminated' = TRUE /\ step' = "idle"
           /\ UNCHANGED <<command, size, receptions, received, broken>>
  <2>1. ExchangeTypeOK'
    BY <1>1, <1>2, <1>5, PassiveWireIsTyped, WireIsTyped DEF ExchangeTypeOK
  <2>2. PassiveTypes'
    BY <1>2, <1>5 DEF PassiveTypes
  <2> QED
    BY <2>1, <2>2
<1>6. CASE /\ PassiveSide!Take /\ step' = "decide" /\ received' = <<>>
           /\ \E c \in PassiveSide!Commands, n \in 0 .. MaxPackets :
                p.id = PassiveSide!Number(c, n) /\ command' = c /\ size' = n
           /\ UNCHANGED <<receptions, terminated, broken>>
  <2>1. ExchangeTypeOK'
    BY <1>1, <1>6, PassiveWireIsTyped, WireIsTyped DEF ExchangeTypeOK
  <2>2. PassiveTypes'
    BY <1>2, <1>6 DEF PassiveTypes
  <2> QED
    BY <2>1, <2>2
<1> QED
  BY <1>3, <1>4, <1>5, <1>6 DEF PassiveSide!Listen

LEMMA PassiveIsTyped ==
  ASSUME ExchangeTypeOK, PassiveTypes, PortTypes, PassiveSide!Passive
  PROVE  ExchangeTypeOK' /\ PassiveTypes' /\ PortTypes'
<1> USE DEF PassiveSide!Steps
<1>1. CASE PassiveSide!Listen
  BY <1>1, ListenIsTyped, PortsStay DEF PassiveSide!Listen
<1>2. CASE PassiveSide!ReceiveIllegible
  <2>1. ExchangeTypeOK'
    BY <1>2, PassiveWireIsTyped, WireIsTyped DEF ExchangeTypeOK, PassiveSide!ReceiveIllegible
  <2>2. step \in PassiveSide!Steps
    BY DEF PassiveTypes
  <2>3. PassiveTypes'
    BY <1>2, <2>2, StepsStay DEF PassiveSide!ReceiveIllegible
  <2> QED
    BY <1>2, <2>1, <2>3, PortsStay DEF PassiveSide!ReceiveIllegible
<1>3. CASE PassiveSide!Decide
  <2>1. {"ack", "ack_extended", "error"} \subseteq AnswerKinds
    BY DEF AnswerKinds
  <2>2. ExchangeTypeOK'
    BY <1>3, <2>1, PassiveWireIsTyped, WireIsTyped DEF ExchangeTypeOK, PassiveSide!Decide,
       PassiveSide!exchangeVars, exchangeVars, PassiveSide!wireVars, wireVars, PassiveSide!hostVars, hostVars
  <2>3. PassiveTypes'
    BY <1>3, StepsStay DEF PassiveSide!Decide
  <2> QED
    BY <1>3, <2>2, <2>3, PortsStay DEF PassiveSide!Decide
<1>4. CASE PassiveSide!SetParams
  <2>1. /\ UNCHANGED <<toDevice, toHost, lost, damaged, late, phase, packet, flags, attempts, outcome, answer, gone>>
    BY <1>4 DEF PassiveSide!SetParams, PassiveSide!wireVars
  <2>2. CASE speed' = [speed EXCEPT !["passive"] = "new"] /\ PassiveSide!GoTo("listen")
             /\ UNCHANGED <<irrecoverable, waited>>
    BY <2>1, <2>2, StepsStay DEF ExchangeTypeOK, PortTypes
  <2>3. CASE PassiveSide!SetFails("passive") /\ step' = "idle"
             /\ UNCHANGED <<command, size, receptions, received, terminated>>
    <3>1. irrecoverable' \in BOOLEAN /\ broken' \in BOOLEAN
      BY <2>3 DEF PassiveSide!SetFails, ExchangeTypeOK, PassiveTypes
    <3>2. ExchangeTypeOK'
      BY <2>1, <3>1 DEF ExchangeTypeOK
    <3>3. PassiveTypes'
      BY <2>3, <3>1 DEF PassiveTypes
    <3> QED
      BY <2>3, <3>2, <3>3, PortsStay DEF PassiveSide!SetFails
  <2>4. CASE waited' = FALSE /\ PassiveSide!Give("UNKNOWN") /\ UNCHANGED <<irrecoverable, speed>>
    <3>1. waited' \in BOOLEAN
      BY <2>4, Zenon
    <3> QED
      BY <2>1, <2>4, <3>1, StepsStay DEF ExchangeTypeOK, PortTypes
  <2> QED
    BY <1>4, <2>2, <2>3, <2>4 DEF PassiveSide!SetParams
<1>5. CASE PassiveSide!Request \/ PassiveSide!LastAck \/ PassiveSide!Decode
  <2>1. "ack" \in AnswerKinds
    BY DEF AnswerKinds
  <2>2. ExchangeTypeOK'
    BY <1>5, <2>1, PassiveWireIsTyped, WireIsTyped DEF ExchangeTypeOK, PassiveSide!Request,
       PassiveSide!LastAck, PassiveSide!Decode,
       PassiveSide!exchangeVars, exchangeVars, PassiveSide!wireVars, wireVars, PassiveSide!hostVars, hostVars
  <2>3. PassiveTypes'
    BY <1>5, StepsStay DEF PassiveSide!Request, PassiveSide!LastAck, PassiveSide!Decode
  <2> QED
    BY <1>5, <2>2, <2>3, PortsStay DEF PassiveSide!Request, PassiveSide!LastAck, PassiveSide!Decode
<1>6. CASE PassiveSide!ReceivePacket
  <2>1. ExchangeTypeOK' /\ Head(toDevice) \in HostPackets
    BY <1>6, TailOf, PassiveWireIsTyped, WireIsTyped DEF ExchangeTypeOK, PassiveSide!ReceivePacket
  <2>2. Append(received, Head(toDevice).id) \in Seq(Nat)
    BY <2>1, AppendOf DEF HostPackets, PassiveTypes
  <2>3. PassiveTypes'
    <3>1. CASE received' = Append(received, Head(toDevice).id) /\ step' = "request"
               /\ UNCHANGED <<command, size, receptions, terminated, broken>>
      BY <2>2, <3>1 DEF PassiveTypes
    <3>2. CASE PassiveSide!Give("UNKNOWN")
      BY <3>2, StepsStay
    <3> QED
      BY <1>6, <3>1, <3>2 DEF PassiveSide!ReceivePacket
  <2> QED
    BY <1>6, <2>1, <2>3, PortsStay DEF PassiveSide!ReceivePacket
<1>7. CASE PassiveSide!ReceiveAfterCheck
  BY <1>7, PassiveWireIsTyped, WireIsTyped, StepsStay, PortsStay DEF ExchangeTypeOK, PassiveSide!ReceiveAfterCheck
<1>8. CASE PassiveSide!PacketTimesOut
  <2>1. late' \in 0 .. MaxLate
    BY <1>8, FaultsAssumption DEF PassiveSide!PacketTimesOut, PassiveSide!PassiveTimeRunsOut, ExchangeTypeOK
  <2>2. "other" \in AnswerKinds
    BY DEF AnswerKinds
  <2>3. PassiveSide!Sent("other", timeout_check_packet) \in Seq(DevicePackets)
    BY <2>2, SentIs, PacketsAre
  <2>4. toHost' \in Seq(DevicePackets)
    BY <1>8, <2>3, PassiveExchanges DEF PassiveSide!PacketTimesOut, ExchangeTypeOK
  <2>5. ExchangeTypeOK'
    BY <1>8, <2>1, <2>4 DEF PassiveSide!PacketTimesOut, PassiveSide!hostVars, ExchangeTypeOK
  <2> QED
    BY <1>8, <2>5, StepsStay, PortsStay DEF PassiveSide!PacketTimesOut
<1> QED
  BY <1>1, <1>2, <1>3, <1>4, <1>5, <1>6, <1>7, <1>8 DEF PassiveSide!Passive

LEMMA ProgramIsTyped ==
  ASSUME ExchangeTypeOK, PassiveTypes, PortTypes, PassiveSide!Program \/ PassiveSide!ListenTimesOut
  PROVE  ExchangeTypeOK' /\ PassiveTypes' /\ PortTypes'
<1>1. CASE PassiveSide!ReceiveData
  BY <1>1, PassiveNumbers, PortsStay DEF PassiveSide!ReceiveData, PassiveSide!exchangeVars, PassiveSide!wireVars,
     PassiveSide!hostVars, ExchangeTypeOK, PassiveTypes, PassiveSide!Steps
<1>2. CASE PassiveSide!Closed
  <2>1. ExchangeTypeOK'
    BY <1>2 DEF PassiveSide!Closed, PassiveSide!hostVars, ExchangeTypeOK
  <2> QED
    BY <1>2, <2>1, PortsStay DEF PassiveSide!Closed, PassiveSide!passiveVars, PassiveTypes
<1>3. CASE PassiveSide!ListenTimesOut
  <2>1. ExchangeTypeOK'
    BY <1>3, FaultsAssumption DEF PassiveSide!ListenTimesOut, PassiveSide!hostVars, ExchangeTypeOK
  <2> QED
    BY <1>3, <2>1, StepsStay, PortsStay DEF PassiveSide!ListenTimesOut
<1> QED
  BY <1>1, <1>2, <1>3 DEF PassiveSide!Program

LEMMA PortsAre ==
  ASSUME PortTypes
  PROVE  /\ speed["active"] \in {"old", "new"} /\ speed["passive"] \in {"old", "new"}
         /\ PassiveSide!SameParams <=> (OldActive <=> ~NewPassive)
BY DEF PortTypes, PassiveSide!Ends, PassiveSide!SameParams, OldActive, NewPassive

LEMMA PassiveInvIs ==
  PassiveInv <=> ExchangeTypeOK /\ ActiveTypes /\ PassiveTypes /\ PortTypes /\ Calling /\ ParamsInv
BY PassiveTypesAre DEF PassiveInv

LEMMA WiresAre ==
  ASSUME ExchangeTypeOK
  PROVE  /\ toDevice \in Seq(HostPackets) /\ toHost \in Seq(DevicePackets)
         /\ Len(toDevice) \in Nat /\ Len(toHost) \in Nat
         /\ toDevice = <<>> <=> Len(toDevice) = 0
         /\ toHost = <<>> <=> Len(toHost) = 0
BY EmptyOf DEF ExchangeTypeOK

(* A packet more, or one less.                                             *)
LEMMA CleanAppended ==
  ASSUME ExchangeTypeOK, Clean
  PROVE  /\ \A p \in HostPackets : p.intact /\ toDevice' = Append(toDevice, p) /\ toHost' = toHost => Clean'
         /\ \A a \in DevicePackets : a.kind \in {"ack", "ack_extended", "error", "other"}
              /\ toHost' = Append(toHost, a) /\ toDevice' = toDevice => Clean'
<1>1. ASSUME NEW p \in HostPackets, p.intact, toDevice' = Append(toDevice, p), toHost' = toHost PROVE Clean'
  BY <1>1, AppendOf DEF ExchangeTypeOK, Clean, Sent, Answered
<1>2. ASSUME NEW a \in DevicePackets, a.kind \in {"ack", "ack_extended", "error", "other"},
             toHost' = Append(toHost, a), toDevice' = toDevice
      PROVE  Clean'
  BY <1>2, AppendOf DEF ExchangeTypeOK, Clean, Sent, Answered
<1> QED
  BY <1>1, <1>2

LEMMA CleanTaken ==
  ASSUME ExchangeTypeOK, Clean
  PROVE  /\ toDevice # <<>> /\ toDevice' = Tail(toDevice) /\ toHost' = toHost => Clean'
         /\ toHost # <<>> /\ toHost' = Tail(toHost) /\ toDevice' = toDevice => Clean'
<1>1. ASSUME toDevice # <<>>, toDevice' = Tail(toDevice), toHost' = toHost PROVE Clean'
  BY <1>1, TailOf DEF ExchangeTypeOK, Clean, Sent, Answered
<1>2. ASSUME toHost # <<>>, toHost' = Tail(toHost), toDevice' = toDevice PROVE Clean'
  BY <1>2, TailOf DEF ExchangeTypeOK, Clean, Sent, Answered
<1> QED
  BY <1>1, <1>2

LEMMA CleanExchanged ==
  ASSUME ExchangeTypeOK, Clean, toDevice # <<>>, toDevice' = Tail(toDevice),
         NEW a \in DevicePackets, a.kind \in {"ack", "ack_extended", "error", "other"}, toHost' = Append(toHost, a)
  PROVE  Clean'
BY AppendOf, TailOf DEF ExchangeTypeOK, Clean, Sent, Answered

(* What is the case in a state that trusts the link.                       *)
LEMMA TrustedIs ==
  ASSUME PassiveInv, Trusted
  PROVE  /\ Clean /\ Ports /\ (phase # "check" => Agreeing)
         /\ step \notin {"set", "idle", "listen"} => PassiveSide!SameParams
         /\ PassiveSide!SameParams <=> (OldActive <=> ~NewPassive)
         /\ ExchangeTypeOK /\ ActiveTypes /\ PassiveTypes /\ PortTypes /\ Calling
BY PassiveInvIs, PortsAre DEF ParamsInv, Ports

(* The active side sends a packet.                                         *)
LEMMA StartKeepsParams ==
  ASSUME PassiveInv, NEW p \in HostPackets, p.intact, StartExchange(p, {}), call # "set", call' \notin {"none", "set"},
         call' = "settings" <=> SettingsPacket(p), UNCHANGED <<step, command, broken, speed, waited>>
  PROVE  Calling' /\ ParamsInv'
<1>1. /\ phase = "idle" /\ phase' = "answer" /\ packet' = p /\ flags' = {} /\ toDevice' = Append(toDevice, p)
      /\ UNCHANGED <<toHost, damaged, irrecoverable, gone>>
  BY DEF StartExchange
<1>2. Calling'
  BY <1>1 DEF Calling
<1> SUFFICES ASSUME Trusted' PROVE Clean' /\ Ports' /\ Agreeing'
  BY <1>2 DEF ParamsInv
<1>3. Trusted
  BY <1>1 DEF Trusted
<1>4. Clean /\ Ports /\ Agreeing /\ ExchangeTypeOK
  BY <1>1, <1>3, TrustedIs
<1>5. Clean'
  BY <1>1, <1>4, CleanAppended
<1>6. Ports' /\ ~(OldActive' /\ (step' = "set" \/ NewPassive'))
  BY <1>1, <1>4 DEF Ports, OldActive, NewPassive, Agreeing, Acked, AckLost
<1>7. \A j \in Answered : toHost[j].kind # "ack"
  BY <1>1, <1>4, WiresAre DEF Agreeing, Lone, Quiet, Answered
<1>8. ~Acked'
  BY <1>1, <1>4, <1>7, WiresAre DEF Acked, Answered
<1>9. step # "check" => Lone'
  <2> SUFFICES ASSUME step # "check" PROVE Lone'
    OBVIOUS
  <2>1. toDevice = <<>> /\ toHost = <<>> /\ ~Pending
    BY <1>1, <1>4 DEF Agreeing, Lone, Quiet
  <2>2. toDevice' = <<p>> /\ toHost' = <<>>
    BY <1>1, <2>1
  <2> QED
    BY <1>1, <2>1, <2>2 DEF Lone, InFlight, Pending, Sent
<1>10. step' = "check" => \A j \in Answered' : toHost'[j].kind = "ack" => j = 1 /\ phase' = "answer"
  BY <1>1, <1>7 DEF Answered
<1> QED
  BY <1>5, <1>6, <1>8, <1>9, <1>10 DEF Agreeing

(* It goes on, or returns, once an exchange is over.                       *)
LEMMA GoingOnKeepsParams ==
  ASSUME PassiveInv, phase \in {"idle", "done"}, phase' = "idle", call' = "set" <=> Acked,
         UNCHANGED <<toDevice, toHost, flags, damaged, irrecoverable, gone, step, command, broken, speed, waited>>
  PROVE  Calling' /\ ParamsInv'
<1>1. Calling'
  BY PassiveInvIs DEF Calling
<1> SUFFICES ASSUME Trusted' PROVE Clean' /\ Ports' /\ Agreeing'
  BY <1>1 DEF ParamsInv
<1>2. Clean /\ Ports /\ Agreeing
  BY TrustedIs DEF Trusted
<1>3. Clean' /\ Ports'
  BY <1>2 DEF Clean, Ports, OldActive, NewPassive, Sent, Answered
<1>4. Acked' <=> Acked
  BY DEF Acked
<1>5. ~AckLost
  BY DEF AckLost
<1>6. step # "check" => Lone'
  BY <1>2 DEF Agreeing, Lone, Quiet, Pending
<1>7. step' = "check" => \A j \in Answered' : toHost'[j].kind = "ack" => j = 1 /\ phase' = "answer"
  BY <1>2 DEF Agreeing, Answered
<1>8. OldActive' = OldActive /\ NewPassive' = NewPassive
  BY DEF OldActive, NewPassive
<1> QED
  BY <1>2, <1>3, <1>4, <1>5, <1>6, <1>7, <1>8 DEF Agreeing

LEMMA BeginKeepsParams ==
  ASSUME PassiveInv, NEW c \in PassiveSide!Calls, PassiveSide!Begin(c)
  PROVE  Calling' /\ ParamsInv'
<1> DEFINE P == IF c \in PassiveSide!Commands THEN Packet("command", PassiveSide!Number(c, count')) ELSE Packet(c, 0)
<1>1. count' \in Nat /\ call = "none" /\ call' = c /\ StartExchange(P, {})
      /\ UNCHANGED <<step, command, broken, speed, waited>>
  BY PassiveExchanges, PassiveNumbers DEF PassiveSide!Begin, PassiveSide!passiveVars, PassiveSide!portVars
<1>2. P \in HostPackets /\ P.intact /\ (SettingsPacket(P) <=> c = "settings")
  <2>1. CASE c \in PassiveSide!Commands
    <3>1. /\ "command" \in PacketKinds /\ PassiveSide!Number(c, count') \in Nat
          /\ PassiveSide!Number(c, count') = 2 <=> c = "settings"
      BY <1>1, <2>1, CommandNumbers DEF PacketKinds
    <3> QED
      BY <2>1, <3>1, PacketsAre DEF SettingsPacket
  <2>2. CASE c \in {"check", "term"}
    BY <2>2, PacketsAre DEF SettingsPacket, PassiveSide!Commands, PacketKinds
  <2> QED
    BY <2>1, <2>2 DEF PassiveSide!Calls
<1> HIDE DEF P
<1>3. c \notin {"none", "set"}
  BY DEF PassiveSide!Calls, PassiveSide!Commands
<1> QED
  BY <1>1, <1>2, <1>3, StartKeepsParams

LEMMA ActiveKeepsParams ==
  ASSUME PassiveInv, PassiveSide!Active
  PROVE  Calling' /\ ParamsInv'
<1> USE DEF PassiveSide!passiveVars, PassiveSide!portVars
<1>1. CASE PassiveSide!CommandReturns
  <2>1. /\ phase = "done" /\ phase' = "idle" /\ call # "set"
        /\ UNCHANGED <<toDevice, toHost, flags, damaged, irrecoverable, gone, step, command, broken, speed, waited>>
    BY <1>1, PassiveExchanges, PassiveInvIs DEF PassiveSide!CommandReturns, ExchangeReturns, wireVars, Calling
  <2>2. Acked <=> call = "settings" /\ PassiveSide!CarriedOut
    BY <2>1 DEF Acked, PassiveSide!CarriedOut
  <2>3. call' = "set" <=> Acked
    BY <1>1, <2>1, <2>2 DEF PassiveSide!CommandReturns, PassiveSide!Return
  <2> QED
    BY <2>1, <2>3, GoingOnKeepsParams
<1>2. CASE PassiveSide!SendData
  <2> DEFINE P == PassiveSide!Data(calls, i)
  <2>1. P \in HostPackets /\ P.intact /\ P.kind = "data"
    BY PassiveInvIs, PacketsAre, PassiveExchanges, PassiveNumbers DEF PassiveSide!Data, ActiveTypes, PacketKinds
  <2>2. StartExchange(P, {}) /\ call = "data" /\ call' = call /\ UNCHANGED <<step, command, broken, speed, waited>>
    BY <1>2, PassiveExchanges DEF PassiveSide!SendData, PassiveSide!activeVars
  <2> HIDE DEF P
  <2> QED
    BY <2>1, <2>2, StartKeepsParams DEF SettingsPacket
<1>3. CASE PassiveSide!FileSent
  <2>1. /\ phase = "idle" /\ phase' = "idle" /\ call = "file" /\ call' # "set"
        /\ UNCHANGED <<toDevice, toHost, flags, damaged, irrecoverable, gone, step, command, broken, speed, waited>>
    BY <1>3 DEF PassiveSide!FileSent, PassiveSide!Return, PassiveSide!exchangeVars, PassiveSide!wireVars, PassiveSide!hostVars
  <2> QED
    BY <2>1, GoingOnKeepsParams DEF Acked
<1>4. CASE PassiveSide!SetOwnParams
  <2>1. /\ UNCHANGED <<toDevice, toHost, damaged, phase, flags, gone, step, command, outcome, answer>>
        /\ call = "set" /\ call' = "none"
    BY <1>4 DEF PassiveSide!SetOwnParams, PassiveSide!wireVars, PassiveSide!Return
  <2>2. phase = "idle" /\ Calling'
    BY <2>1, PassiveInvIs DEF Calling
  <2> SUFFICES ASSUME Trusted' PROVE Clean' /\ Ports' /\ Agreeing'
    BY <2>2 DEF ParamsInv
  <2>3. speed' = [speed EXCEPT !["active"] = "new"] /\ waited /\ UNCHANGED <<irrecoverable, broken>>
    BY <1>4 DEF PassiveSide!SetOwnParams, PassiveSide!SetFails, Trusted
  <2>4. Trusted
    BY <2>1, <2>3 DEF Trusted
  <2>5. Clean /\ Ports /\ Agreeing /\ PortTypes /\ Acked
    BY <2>1, <2>2, <2>4, TrustedIs DEF Acked
  <2>6. ~OldActive' /\ NewPassive' = NewPassive
    BY <2>3, <2>5 DEF PortTypes, PassiveSide!Ends, OldActive, NewPassive
  <2>7. step \in {"set", "listen", "idle"} /\ (step = "set" \/ NewPassive)
    BY <2>5 DEF Agreeing
  <2>8. Clean' /\ Ports' /\ ~Acked'
    BY <2>1, <2>2, <2>5, <2>6, <2>7 DEF Clean, Ports, Acked, Sent, Answered
  <2>9. Lone'
    BY <2>1, <2>2, <2>5, <2>7 DEF Agreeing, Lone, Quiet, Pending
  <2> QED
    BY <2>1, <2>6, <2>7, <2>8, <2>9 DEF Agreeing
<1> QED
  BY <1>1, <1>2, <1>3, <1>4 DEF PassiveSide!Active

(* The exchange goes on.                                                   *)
LEMMA AnswerKeepsParams ==
  ASSUME PassiveInv, ReceiveAnswer, UNCHANGED <<call, step, command, broken, speed, waited>>
  PROVE  Calling' /\ ParamsInv'
<1>1. /\ phase = "answer" /\ toHost # <<>> /\ toHost' = Tail(toHost) /\ answer' = Head(toHost)
      /\ phase' = "done" /\ outcome' = "OK"
      /\ UNCHANGED <<toDevice, flags, damaged, irrecoverable, gone>>
  BY PassiveInvIs DEF ReceiveAnswer, Receive, Finish, Calling
<1>2. Calling'
  BY <1>1, PassiveInvIs DEF Calling
<1> SUFFICES ASSUME Trusted' PROVE Clean' /\ Ports' /\ Agreeing'
  BY <1>2 DEF ParamsInv
<1>3. Clean /\ Ports /\ Agreeing /\ ExchangeTypeOK
  BY <1>1, TrustedIs DEF Trusted
<1>4. Clean' /\ Ports'
  BY <1>1, <1>3, CleanTaken DEF Ports, OldActive, NewPassive
<1>5. Head(toHost) = toHost[1] /\ \A k \in 1 .. Len(Tail(toHost)) : Tail(toHost)[k] = toHost[k + 1] /\ k + 1 \in 1 .. Len(toHost)
  BY <1>1, <1>3, TailOf DEF ExchangeTypeOK
<1>6. Acked' <=> Acked
  BY <1>1, <1>2, <1>5, PassiveInvIs DEF Acked, Calling
<1>7. ~AckLost
  BY <1>1 DEF AckLost
<1>8. step # "check" => Lone'
  <2> SUFFICES ASSUME step # "check" PROVE Lone'
    OBVIOUS
  <2>1. Lone
    BY <1>3 DEF Agreeing
  <2>2. InFlight <= 1 /\ (Pending => Quiet)
    BY <1>1, <2>1 DEF Lone
  <2>3. toDevice = <<>> /\ Len(toHost) = 1 /\ ~Pending
    <3>1. Len(toDevice) \in Nat /\ Len(toHost) \in Nat /\ Len(toHost) # 0
      BY <1>1, <1>3, WiresAre
    <3>4. Len(toDevice) + Len(toHost) <= 1
      BY <2>2 DEF InFlight
    <3>2. Len(toDevice) = 0 /\ Len(toHost) = 1
      BY ONLY <3>1, <3>4
    <3>3. ~Pending
      BY <1>1, <2>2 DEF Quiet
    <3> QED
      BY <1>3, <3>2, <3>3, WiresAre
  <2>4. toHost' = <<>>
    BY <1>1, <1>3, <2>3, TailOf, EmptyOf DEF ExchangeTypeOK
  <2> QED
    BY <1>1, <2>3, <2>4 DEF Lone, Quiet, Pending
<1>9. step' = "check" => \A j \in Answered' : toHost'[j].kind = "ack" => j = 1 /\ phase' = "answer"
  <2> SUFFICES ASSUME step = "check", NEW j \in Answered', toHost'[j].kind = "ack" PROVE FALSE
    OBVIOUS
  <2>1. j \in Nat \ {0} /\ toHost[j + 1].kind = "ack" /\ j + 1 \in Answered
    BY <1>1, <1>5 DEF Answered
  <2>2. j + 1 = 1
    BY <1>3, <2>1 DEF Agreeing
  <2> QED
    BY <2>1, <2>2
<1>10. OldActive' = OldActive /\ NewPassive' = NewPassive
  BY DEF OldActive, NewPassive
<1> QED
  BY <1>3, <1>4, <1>6, <1>7, <1>8, <1>9, <1>10 DEF Agreeing

LEMMA ExchangeKeepsParams ==
  ASSUME PassiveInv, ExchangeStep \/ Unplugged, UNCHANGED <<call, step, command, broken, speed, waited>>
  PROVE  Calling' /\ ParamsInv'
<1>1. CASE ReceiveAnswer
  BY <1>1, AnswerKeepsParams
<1>2. CASE ReceiveDamaged \/ ReceiveResend \/ ReceiveCheckAnswer \/ CheckTimesOut \/ Unplugged
  <2>1. phase # "idle" /\ phase \in {"answer", "check", "done"} /\ phase' \in {"answer", "check", "done"} /\ flags' = flags
    BY <1>2, PassiveInvIs DEF Calling, ReceiveDamaged, ReceiveResend, ReceiveCheckAnswer, CheckTimesOut, Unplugged,
       Receive, Finish, TryAgain
  <2>2. Calling'
    BY <2>1, PassiveInvIs DEF Calling
  <2>3. ~Trusted'
    <3> SUFFICES ASSUME Trusted' PROVE FALSE
      OBVIOUS
    <3>1. toHost # <<>> /\ Head(toHost).kind \in {"damaged", "resend"} /\ UNCHANGED <<irrecoverable, gone, damaged>>
      BY <1>2 DEF ReceiveDamaged, ReceiveResend, ReceiveCheckAnswer, CheckTimesOut, Unplugged, Receive, Trusted
    <3>2. Trusted
      BY <3>1 DEF Trusted
    <3>3. 1 \in Answered /\ Head(toHost) = toHost[1]
      BY <3>1, PassiveInvIs, TailOf, WiresAre DEF ExchangeTypeOK, Answered
    <3> QED
      BY <3>1, <3>2, <3>3, TrustedIs DEF Clean
  <2> QED
    BY <2>2, <2>3 DEF ParamsInv
<1>3. CASE AnswerTimesOut
  <2>1. /\ phase = "answer" /\ phase' = "check" /\ toDevice' = Append(toDevice, timeout_check_packet)
        /\ UNCHANGED <<toHost, damaged, flags, irrecoverable, gone>>
    BY <1>3, PassiveInvIs DEF AnswerTimesOut, Calling
  <2>2. Calling'
    BY <2>1, PassiveInvIs DEF Calling
  <2>3. ASSUME Trusted' PROVE Clean' /\ Ports'
    <3>1. Clean /\ Ports /\ ExchangeTypeOK
      BY <2>1, <2>3, TrustedIs DEF Trusted
    <3> QED
      BY <2>1, <3>1, CleanAppended, PacketsAre DEF Ports, OldActive, NewPassive
  <2> QED
    BY <2>1, <2>2, <2>3 DEF ParamsInv
<1> QED
  BY <1>1, <1>2, <1>3 DEF ExchangeStep

(* The wire loses a packet, or damages it.                                 *)
LEMMA WireKeepsParams ==
  ASSUME PassiveInv, Wire, UNCHANGED <<call, step, command, broken, speed, waited>>
  PROVE  Calling' /\ ParamsInv'
<1>1. UNCHANGED <<phase, packet, flags, outcome, answer, irrecoverable, gone>>
  BY DEF Wire, LosePacket, DamagePacket, hostVars
<1>2. Calling'
  BY <1>1, PassiveInvIs DEF Calling
<1> SUFFICES ASSUME Trusted' PROVE Clean' /\ Ports' /\ (phase # "check" => Agreeing')
  BY <1>1, <1>2 DEF ParamsInv
<1>3. ExchangeTypeOK /\ damaged \in Nat
  BY PassiveInvIs, FaultsAssumption DEF ExchangeTypeOK
<1>4. LosePacket
  BY <1>3 DEF Wire, DamagePacket, Trusted
<1>5. Trusted
  BY <1>1, <1>4 DEF Trusted, LosePacket
<1>6. Clean /\ Ports /\ (phase # "check" => Agreeing)
  BY <1>5, TrustedIs
<1>7. \/ toDevice # <<>> /\ toDevice' = Tail(toDevice) /\ toHost' = toHost
      \/ toHost # <<>> /\ toHost' = Tail(toHost) /\ toDevice' = toDevice
  BY <1>4 DEF LosePacket
<1>8. Clean' /\ Ports'
  BY <1>3, <1>6, <1>7, CleanTaken DEF Ports, OldActive, NewPassive
<1> SUFFICES ASSUME phase # "check" PROVE Agreeing'
  BY <1>8
<1>9. OldActive' = OldActive /\ NewPassive' = NewPassive
  BY DEF OldActive, NewPassive
<1>10. CASE step = "check"
  <2>1. \A j \in Answered' : toHost'[j].kind = "ack" => j = 1 /\ phase' = "answer" /\ toHost' = toHost
    <3>1. CASE toHost' = toHost
      BY <1>1, <1>6, <1>10, <3>1 DEF Agreeing, Answered
    <3>2. CASE toHost # <<>> /\ toHost' = Tail(toHost)
      <4>1. \A k \in 1 .. Len(Tail(toHost)) : Tail(toHost)[k] = toHost[k + 1] /\ k + 1 \in 1 .. Len(toHost)
        BY <1>3, <3>2, TailOf DEF ExchangeTypeOK
      <4>2. \A k \in Answered' : k \in Nat \ {0}
        BY <3>2 DEF Answered
      <4> QED
        BY <1>6, <1>10, <3>2, <4>1, <4>2 DEF Agreeing, Answered
    <3> QED
      BY <1>7, <3>1, <3>2
  <2>2. ~Acked
    BY <1>6, <1>10 DEF Agreeing
  <2>3. ~Acked'
    <3>1. toHost' # <<>> => 1 \in Answered'
      <4>1. toHost' \in Seq(DevicePackets)
        BY <1>3, <1>7, TailOf DEF ExchangeTypeOK
      <4> QED
        BY <4>1, EmptyOf DEF Answered
    <3> QED
      BY <1>1, <2>1, <2>2, <3>1 DEF Acked
  <2>4. ~(OldActive /\ NewPassive)
    BY <1>6, <1>10 DEF Ports
  <2> QED
    BY <1>9, <1>10, <2>1, <2>3, <2>4 DEF Agreeing
<1>11. CASE step # "check"
  <2>1. Lone
    BY <1>6, <1>11 DEF Agreeing
  <2>2. phase = "answer" /\ InFlight <= 1 /\ ~Pending
    BY <1>3, <1>7, <2>1, PassiveInvIs DEF Lone, Quiet, Calling
  <2>3. toDevice' = <<>> /\ toHost' = <<>>
    BY <1>3, <1>7, <2>2, WiresAre, TailOf, EmptyOf DEF InFlight, ExchangeTypeOK
  <2>4. Lone'
    BY <1>1, <2>1, <2>2, <2>3 DEF Lone, Quiet, InFlight, Sent, Pending
  <2>5. ~Acked' /\ (Acked \/ AckLost => AckLost')
    BY <1>1, <2>2, <2>3, PassiveInvIs DEF Acked, AckLost, Calling
  <2> QED
    BY <1>6, <1>9, <1>11, <2>4, <2>5 DEF Agreeing
<1> QED
  BY <1>10, <1>11

(* The steps of the passive side leave the active side alone, and most of  *)
(* them the ports.                                                         *)
Held == UNCHANGED <<call, phase, packet, flags, outcome, answer, damaged, gone>>
PortsHeld == UNCHANGED <<irrecoverable, broken, speed, waited>>

LEMMA HeldIs ==
  ASSUME PassiveInv, Held
  PROVE  /\ Calling'
         /\ PortsHeld => /\ Trusted' => Trusted
                         /\ OldActive' = OldActive /\ NewPassive' = NewPassive
<1>1. Calling'
  BY PassiveInvIs DEF Calling, Held
<1>2. ASSUME PortsHeld PROVE (Trusted' => Trusted) /\ OldActive' = OldActive /\ NewPassive' = NewPassive
  BY <1>2 DEF Held, PortsHeld, Trusted, OldActive, NewPassive
<1> QED
  BY <1>1, <1>2

LEMMA OneOf ==
  ASSUME NEW m \in Nat, NEW n \in Nat, m + n <= 1, m # 0 PROVE m = 1 /\ n = 0
OBVIOUS

(* It waits for the answer to a packet that is on its way, or taken.       *)
LEMMA AnswerAwaited ==
  ASSUME PassiveInv, Trusted, phase # "check", step # "check", toDevice # <<>> \/ Pending
  PROVE  /\ Lone /\ phase = "answer" /\ toHost = <<>> /\ (toDevice # <<>> => Len(toDevice) = 1 /\ ~Pending)
         /\ toDevice # <<>> => Head(toDevice) = packet
         /\ call \notin {"none", "set"} /\ (call = "settings" <=> SettingsPacket(packet))
<1>1. Lone /\ ExchangeTypeOK /\ Calling
  BY TrustedIs DEF Agreeing
<1>2. phase = "answer"
  BY <1>1 DEF Lone, Quiet, Calling
<1>3. Len(toDevice) + Len(toHost) <= 1 /\ (Pending => toDevice = <<>> /\ toHost = <<>>)
  BY <1>1, <1>2 DEF Lone, InFlight, Quiet
<1>4. /\ Len(toDevice) \in Nat /\ Len(toHost) \in Nat
      /\ toDevice = <<>> <=> Len(toDevice) = 0
      /\ toHost = <<>> <=> Len(toHost) = 0
  BY <1>1, WiresAre
<1>5. toDevice # <<>> => Len(toDevice) = 1 /\ toHost = <<>> /\ ~Pending
  <2> SUFFICES ASSUME toDevice # <<>> PROVE Len(toDevice) = 1 /\ Len(toHost) = 0
    BY <1>3, <1>4
  <2>1. Len(toDevice) + Len(toHost) <= 1
    BY <1>3
  <2>2. Len(toDevice) # 0 /\ Len(toDevice) \in Nat /\ Len(toHost) \in Nat
    BY <1>4
  <2> QED
    BY <2>1, <2>2, OneOf
<1>6. toDevice # <<>> => Head(toDevice) = packet
  BY <1>1, <1>2, <1>5, TailOf DEF Lone, Sent, ExchangeTypeOK
<1> QED
  BY <1>1, <1>2, <1>3, <1>5, <1>6 DEF Lone, Calling

(* The passive side answers.                                               *)
LEMMA AnsweringKeepsParams ==
  ASSUME PassiveInv, Held, PortsHeld, NEW a \in DevicePackets, a.kind \in {"ack", "ack_extended", "error"},
         PassiveSide!SameParams, step # "check", step' \notin {"check", "decide", "request", "last_ack"},
         toHost' = Append(toHost, a),
         \/ toDevice # <<>> /\ toDevice' = Tail(toDevice)
         \/ Pending /\ toDevice' = toDevice,
         Trusted /\ phase # "check" => (step' = "set" <=> call = "settings" /\ a.kind = "ack")
  PROVE  Calling' /\ ParamsInv'
<1> SUFFICES ASSUME Trusted' PROVE Clean' /\ Ports' /\ (phase' # "check" => Agreeing')
  BY HeldIs DEF ParamsInv
<1>1. Trusted /\ OldActive' = OldActive /\ NewPassive' = NewPassive
  BY HeldIs
<1>2. Clean /\ Ports /\ ExchangeTypeOK /\ (OldActive <=> ~NewPassive)
  BY <1>1, TrustedIs
<1>3. Clean'
  BY <1>2, CleanAppended, CleanExchanged
<1>4. Ports'
  BY <1>1, <1>2 DEF Ports
<1> SUFFICES ASSUME phase' # "check" PROVE Agreeing'
  BY <1>3, <1>4
<1>5. phase # "check" /\ phase' = phase /\ call' = call /\ packet' = packet
  BY DEF Held
<1>6. /\ Lone /\ phase = "answer" /\ toHost = <<>> /\ (toDevice # <<>> => Len(toDevice) = 1 /\ ~Pending)
      /\ call \notin {"none", "set"}
  BY <1>1, <1>5, AnswerAwaited
<1>7. toDevice' = <<>>
  <2>1. CASE toDevice # <<>> /\ toDevice' = Tail(toDevice)
    BY <1>2, <1>6, <2>1, TailOf, EmptyOf DEF ExchangeTypeOK
  <2>2. CASE Pending /\ toDevice' = toDevice
    BY <1>6, <2>2
  <2> QED
    BY <2>1, <2>2
<1>8. toHost' = <<a>> /\ toHost' # <<>> /\ toHost'[1] = a
  BY <1>6
<1>9. Acked' <=> step' = "set"
  BY <1>1, <1>5, <1>6, <1>8 DEF Acked
<1>10. Lone'
  <2>1. InFlight' = 1 /\ Sent' = {} /\ ~Pending'
    BY <1>7, <1>8 DEF InFlight, Sent, Pending
  <2> QED
    BY <1>5, <1>6, <2>1 DEF Lone
<1>11. Acked' => step' = "set"
  BY <1>9
<1> QED
  BY <1>1, <1>2, <1>9, <1>10, <1>11 DEF Agreeing

(* It takes a packet that it does not answer at once.                      *)
LEMMA TakingKeepsParams ==
  ASSUME PassiveInv, Held, PortsHeld, PassiveSide!SameParams,
         step # "check", step' \notin {"set", "check"},
         toDevice # <<>>, toDevice' = Tail(toDevice), toHost' = toHost,
         Trusted /\ phase # "check" /\ Pending' =>
           (call = "settings" <=> step' = "decide" /\ command' = "settings")
  PROVE  Calling' /\ ParamsInv'
<1> SUFFICES ASSUME Trusted' PROVE Clean' /\ Ports' /\ (phase' # "check" => Agreeing')
  BY HeldIs DEF ParamsInv
<1>1. Trusted /\ OldActive' = OldActive /\ NewPassive' = NewPassive
  BY HeldIs
<1>2. Clean /\ Ports /\ ExchangeTypeOK /\ (OldActive <=> ~NewPassive)
  BY <1>1, TrustedIs
<1>3. Clean' /\ Ports'
  BY <1>1, <1>2, CleanTaken DEF Ports
<1> SUFFICES ASSUME phase' # "check" PROVE Agreeing'
  BY <1>3
<1>4. phase # "check" /\ phase' = phase /\ call' = call /\ packet' = packet
  BY DEF Held
<1>5. /\ Lone /\ phase = "answer" /\ toHost = <<>> /\ Len(toDevice) = 1
      /\ call \notin {"none", "set"}
  BY <1>1, <1>4, AnswerAwaited
<1>6. toDevice' = <<>> /\ toHost' = <<>>
  BY <1>2, <1>5, TailOf, EmptyOf DEF ExchangeTypeOK
<1>7. ~Acked'
  BY <1>4, <1>5, <1>6 DEF Acked
<1>8. InFlight' <= 1 /\ Sent' = {} /\ Quiet'
  <2>1. Quiet'
    BY <1>6 DEF Quiet
  <2>3. Len(toDevice') = 0 /\ Len(toHost') = 0
    BY <1>6
  <2>2. InFlight' <= 1 /\ Sent' = {}
    BY ONLY <2>3 DEF InFlight, Sent
  <2> QED
    BY <2>1, <2>2
<1>9. Lone'
  BY <1>1, <1>4, <1>5, <1>8 DEF Lone
<1> QED
  BY <1>1, <1>2, <1>7, <1>9 DEF Agreeing

(* It goes from one step to the next, without a packet.                    *)
LEMMA MovingKeepsParams ==
  ASSUME PassiveInv, Held, PortsHeld, UNCHANGED <<toDevice, toHost>>,
         step \notin {"set", "check"}, step' \notin {"set", "check"},
         step \in {"idle", "listen"} => step' \in {"idle", "listen"},
         Pending' => Pending /\ step' # "decide" /\ ~(step = "decide" /\ command = "settings")
  PROVE  Calling' /\ ParamsInv'
<1> SUFFICES ASSUME Trusted' PROVE Clean' /\ Ports' /\ (phase' # "check" => Agreeing')
  BY HeldIs DEF ParamsInv
<1>1. Trusted /\ OldActive' = OldActive /\ NewPassive' = NewPassive
  BY HeldIs
<1>2. Clean /\ Ports /\ (phase # "check" => Agreeing)
  BY <1>1, TrustedIs
<1>3. Clean'
  BY <1>2 DEF Clean, Sent, Answered
<1>4. Ports'
  BY <1>1, <1>2 DEF Ports
<1> SUFFICES ASSUME phase' # "check" PROVE Agreeing'
  BY <1>3, <1>4
<1>5. Agreeing /\ UNCHANGED <<phase, call, packet, outcome, answer>>
  BY <1>2 DEF Held
<1>6. (Acked' <=> Acked) /\ (AckLost' <=> AckLost)
  BY <1>5 DEF Acked, AckLost
<1>7. Lone
  BY <1>5 DEF Agreeing
<1>8. Quiet' = Quiet /\ InFlight' = InFlight /\ Sent' = Sent
  BY DEF Quiet, InFlight, Sent
<1>9. Lone'
  BY <1>5, <1>7, <1>8 DEF Lone
<1>10. Acked => step' \in {"listen", "idle"} /\ NewPassive
  BY <1>5 DEF Agreeing
<1>11. OldActive /\ NewPassive => Acked \/ AckLost
  BY <1>5 DEF Agreeing
<1> QED
  BY <1>1, <1>6, <1>9, <1>10, <1>11 DEF Agreeing

LEMMA TakeIs ==
  /\ PassiveSide!Take => toDevice' = Tail(toDevice) /\ toHost' = toHost /\ UNCHANGED hostVars /\ damaged' = damaged
  /\ \A k : PassiveSide!TakeAndAnswer(k) =>
       /\ toDevice' = Tail(toDevice) /\ toHost' = PassiveSide!Sent(k, Head(toDevice))
       /\ UNCHANGED hostVars /\ damaged' = damaged
  /\ \A k : PassiveSide!SendAnswer(k) =>
       /\ toDevice' = toDevice /\ toHost' = PassiveSide!Sent(k, timeout_check_packet)
       /\ UNCHANGED hostVars /\ damaged' = damaged
BY PassiveExchanges DEF PassiveSide!Take, PassiveSide!TakeAndAnswer, PassiveSide!SendAnswer, PassiveSide!hostVars, hostVars

LEMMA StayHeld ==
  /\ UNCHANGED hostVars /\ damaged' = damaged /\ UNCHANGED PassiveSide!activeVars => Held
  /\ UNCHANGED hostVars /\ broken' = broken /\ UNCHANGED PassiveSide!portVars => PortsHeld
BY DEF hostVars, PassiveSide!activeVars, PassiveSide!portVars, Held, PortsHeld

LEMMA NextStepIs ==
  /\ \A s : PassiveSide!GoTo(s) => step' = s /\ command' = command /\ broken' = broken
  /\ \A r : PassiveSide!Give(r) => step' = "idle" /\ command' = command /\ broken' = broken
BY DEF PassiveSide!GoTo, PassiveSide!Give

LEMMA SentWell ==
  ASSUME PassiveInv, PassiveSide!SameParams, NEW k \in {"ack", "ack_extended", "error"}, NEW p \in HostPackets
  PROVE  \E a \in DevicePackets : a.kind = k /\ PassiveSide!Sent(k, p) = Append(toHost, a)
<1>1. k \in AnswerKinds
  BY DEF AnswerKinds
<1>2. PassiveSide!Sent(k, p) = Append(toHost, Answer(k, p))
  BY <1>1, SentIs, PassiveInvIs
<1> QED
  BY <1>1, <1>2, PacketsAre

(* A packet other than that of a command.                                  *)
LEMMA OtherAnsweredKeepsParams ==
  ASSUME PassiveInv, NEW k \in {"ack", "error"}, PassiveSide!TakeAndAnswer(k), toDevice # <<>>,
         PassiveSide!SameParams, Head(toDevice).kind # "command", step = "listen",
         step' \in {"idle", "listen"}, broken' = broken,
         UNCHANGED <<PassiveSide!activeVars, PassiveSide!portVars>>
  PROVE  Calling' /\ ParamsInv'
<1>1. Held /\ PortsHeld /\ toDevice' = Tail(toDevice) /\ toHost' = PassiveSide!Sent(k, Head(toDevice))
  BY TakeIs, StayHeld
<1>2. Head(toDevice) \in HostPackets
  BY TailOf, PassiveInvIs DEF ExchangeTypeOK
<1>3. PICK a \in DevicePackets : a.kind = k /\ PassiveSide!Sent(k, Head(toDevice)) = Append(toHost, a)
  BY <1>2, SentWell
<1>4. Trusted /\ phase # "check" => call # "settings"
  BY AnswerAwaited DEF SettingsPacket
<1> QED
  BY <1>1, <1>3, <1>4, AnsweringKeepsParams

LEMMA ListenKeepsParams ==
  ASSUME PassiveInv, PassiveSide!Listen
  PROVE  Calling' /\ ParamsInv'
<1> DEFINE p == Head(toDevice)
<1>1. /\ step = "listen" /\ toDevice # <<>> /\ PassiveSide!SameParams
      /\ UNCHANGED <<PassiveSide!activeVars, PassiveSide!portVars>>
  BY DEF PassiveSide!Listen, PassiveSide!Legible
<1>2. CASE p.kind = "check"
  <2>1. PassiveSide!TakeAndAnswer("ack") /\ PassiveSide!GoTo("listen")
    BY <1>2 DEF PassiveSide!Listen
  <2> QED
    BY <1>1, <1>2, <2>1, NextStepIs, OtherAnsweredKeepsParams
<1>3. CASE p.kind = "term"
  <2>1. PassiveSide!TakeAndAnswer("ack") /\ step' = "idle" /\ broken' = broken
    BY <1>3 DEF PassiveSide!Listen
  <2> QED
    BY <1>1, <1>3, <2>1, OtherAnsweredKeepsParams
<1>4. CASE p.kind \notin {"check", "term", "command"}
  <2>1. PassiveSide!TakeAndAnswer("error") /\ PassiveSide!GoTo("listen")
    BY <1>4 DEF PassiveSide!Listen
  <2> QED
    BY <1>1, <1>4, <2>1, NextStepIs, OtherAnsweredKeepsParams
<1>5. CASE p.kind = "command"
  <2>1. /\ PassiveSide!Take /\ step' = "decide" /\ broken' = broken
        /\ \E c \in PassiveSide!Commands, n \in 0 .. MaxPackets : p.id = PassiveSide!Number(c, n) /\ command' = c
    BY <1>5 DEF PassiveSide!Listen
  <2>2. PICK c \in PassiveSide!Commands, n \in 0 .. MaxPackets : p.id = PassiveSide!Number(c, n) /\ command' = c
    BY <2>1
  <2>3. command' = "settings" <=> SettingsPacket(p)
    BY <1>5, <2>2, CommandNumbers, PassiveNumbers DEF SettingsPacket
  <2>4. Held /\ PortsHeld /\ toDevice' = Tail(toDevice) /\ toHost' = toHost
    BY <1>1, <2>1, TakeIs, StayHeld
  <2>5. Trusted /\ phase # "check" => (call = "settings" <=> step' = "decide" /\ command' = "settings")
    BY <1>1, <2>1, <2>3, AnswerAwaited
  <2> QED
    BY <1>1, <2>1, <2>4, <2>5, TakingKeepsParams
<1> QED
  BY <1>2, <1>3, <1>4, <1>5

LEMMA IllegibleKeepsParams ==
  ASSUME PassiveInv, PassiveSide!ReceiveIllegible
  PROVE  Calling' /\ ParamsInv'
<1>1. /\ step \in {"listen", "answer", "check"} /\ toDevice # <<>> /\ ~PassiveSide!Legible
      /\ PassiveSide!Take /\ step' \in {step, "idle"} /\ broken' = broken
      /\ UNCHANGED <<PassiveSide!activeVars, PassiveSide!portVars>>
  BY NextStepIs DEF PassiveSide!ReceiveIllegible
<1>2. Held /\ PortsHeld /\ toDevice' = Tail(toDevice) /\ toHost' = toHost
  BY <1>1, TakeIs, StayHeld
<1> SUFFICES ASSUME Trusted' PROVE Clean' /\ Ports' /\ (phase' # "check" => Agreeing')
  BY <1>2, HeldIs DEF ParamsInv
<1>3. Trusted /\ OldActive' = OldActive /\ NewPassive' = NewPassive
  BY <1>2, HeldIs
<1>4. Clean /\ Ports /\ (phase # "check" => Agreeing) /\ ExchangeTypeOK
  BY <1>3, TrustedIs
<1>5. Head(toDevice).intact
  BY <1>1, <1>4, TailOf DEF Clean, Sent, ExchangeTypeOK
<1>6. step = "listen" /\ OldActive /\ NewPassive
  BY <1>1, <1>3, <1>4, <1>5, TrustedIs DEF PassiveSide!Legible, Ports
<1>7. Clean' /\ Ports'
  BY <1>1, <1>2, <1>3, <1>4, <1>6, CleanTaken DEF Ports
<1>8. phase = "check"
  <2> SUFFICES ASSUME phase # "check" PROVE FALSE
    OBVIOUS
  <2>1. toHost = <<>> /\ phase = "answer" /\ call # "set"
    BY <1>1, <1>3, <1>6, AnswerAwaited
  <2>2. Acked \/ AckLost
    BY <1>4, <1>6 DEF Agreeing
  <2> QED
    BY <1>1, <2>1, <2>2 DEF Acked, AckLost
<1> QED
  BY <1>2, <1>7, <1>8 DEF Held

LEMMA DecideKeepsParams ==
  ASSUME PassiveInv, PassiveSide!Decide
  PROVE  Calling' /\ ParamsInv'
<1>1. step = "decide" /\ Pending /\ UNCHANGED <<PassiveSide!activeVars, PassiveSide!portVars>>
  BY DEF PassiveSide!Decide, Pending
<1>2. Trusted => PassiveSide!SameParams
  BY <1>1, TrustedIs
<1>3. Trusted /\ phase # "check" => (call = "settings" <=> command = "settings")
  BY <1>1, AnswerAwaited DEF Lone
<1>4. ASSUME NEW k \in {"ack", "ack_extended", "error"}, NEW s \in {"listen", "set"}, PassiveSide!SendAnswer(k), PassiveSide!GoTo(s),
             s = "set" <=> command = "settings", command = "settings" => k = "ack"
      PROVE  Calling' /\ ParamsInv'
  <2>1. /\ Held /\ PortsHeld /\ toDevice' = toDevice /\ toHost' = PassiveSide!Sent(k, timeout_check_packet)
        /\ step' = s
    BY <1>1, <1>4, TakeIs, StayHeld, NextStepIs
  <2>2. CASE PassiveSide!SameParams
    <3>1. PICK a \in DevicePackets : a.kind = k /\ PassiveSide!Sent(k, timeout_check_packet) = Append(toHost, a)
      BY <2>2, SentWell, PacketsAre
    <3>2. Trusted /\ phase # "check" => (step' = "set" <=> call = "settings" /\ a.kind = "ack")
      BY <1>3, <1>4, <2>1, <3>1
    <3> QED
      BY <1>1, <1>4, <2>1, <2>2, <3>1, <3>2, AnsweringKeepsParams
  <2>3. CASE ~PassiveSide!SameParams
    BY <1>2, <2>1, <2>3, HeldIs DEF ParamsInv
  <2> QED
    BY <2>2, <2>3
<1>5. CASE command = "malformed"
  <2>1. step' = "idle" /\ broken' = broken /\ UNCHANGED PassiveSide!exchangeVars
    BY <1>1, <1>5, NextStepIs DEF PassiveSide!Decide
  <2>2. Held /\ PortsHeld /\ UNCHANGED <<toDevice, toHost>>
    BY <1>1, <2>1 DEF PassiveSide!exchangeVars, PassiveSide!wireVars, PassiveSide!hostVars,
       PassiveSide!activeVars, PassiveSide!portVars, Held, PortsHeld
  <2>3. ~Pending'
    BY <2>1 DEF Pending
  <2> QED
    BY <1>1, <2>1, <2>2, <2>3, MovingKeepsParams
<1>6. CASE command = "file"
  <2>1. step' = "request" /\ broken' = broken /\ UNCHANGED PassiveSide!exchangeVars
    BY <1>1, <1>6, NextStepIs DEF PassiveSide!Decide
  <2>2. Held /\ PortsHeld /\ UNCHANGED <<toDevice, toHost>>
    BY <1>1, <2>1 DEF PassiveSide!exchangeVars, PassiveSide!wireVars, PassiveSide!hostVars,
       PassiveSide!activeVars, PassiveSide!portVars, Held, PortsHeld
  <2> QED
    BY <1>1, <1>6, <2>1, <2>2, MovingKeepsParams
<1>7. CASE command = "info"
  <2>1. PassiveSide!SendAnswer("ack_extended") /\ PassiveSide!GoTo("listen")
    BY <1>7 DEF PassiveSide!Decide
  <2> QED
    BY <1>4, <1>7, <2>1
<1>8. CASE command = "verify"
  <2>1. PassiveSide!SendAnswer("ack") /\ PassiveSide!GoTo("listen")
    BY <1>8 DEF PassiveSide!Decide
  <2> QED
    BY <1>4, <1>8, <2>1
<1>9. CASE command = "settings"
  <2>1. PassiveSide!SendAnswer("ack") /\ PassiveSide!GoTo("set")
    BY <1>9 DEF PassiveSide!Decide
  <2> QED
    BY <1>4, <1>9, <2>1
<1>10. CASE command \notin {"malformed", "info", "verify", "settings", "file"}
  <2>1. PassiveSide!SendAnswer("error") /\ PassiveSide!GoTo("listen")
    BY <1>10 DEF PassiveSide!Decide
  <2> QED
    BY <1>4, <1>10, <2>1
<1> QED
  BY <1>5, <1>6, <1>7, <1>8, <1>9, <1>10

(* The passive side answers a packet of a file, or all of it.              *)
LEMMA PacketAnsweredKeepsParams ==
  ASSUME PassiveInv, step \in {"request", "last_ack"}, PassiveSide!SendAnswer("ack"),
         step' \in {"answer", "decode"}, broken' = broken,
         UNCHANGED <<PassiveSide!activeVars, PassiveSide!portVars>>
  PROVE  Calling' /\ ParamsInv'
<1>1. Held /\ PortsHeld /\ toDevice' = toDevice /\ toHost' = PassiveSide!Sent("ack", timeout_check_packet) /\ Pending
  BY TakeIs, StayHeld DEF Pending
<1>2. CASE PassiveSide!SameParams
  <2>1. PICK a \in DevicePackets : a.kind = "ack" /\ PassiveSide!Sent("ack", timeout_check_packet) = Append(toHost, a)
    BY <1>2, SentWell, PacketsAre
  <2>2. Trusted /\ phase # "check" => call # "settings"
    BY <1>1, AnswerAwaited DEF Lone
  <2> QED
    BY <1>1, <1>2, <2>1, <2>2, AnsweringKeepsParams
<1>3. CASE ~PassiveSide!SameParams
  <2>1. ~Trusted
    BY <1>3, TrustedIs
  <2> QED
    BY <1>1, <2>1, HeldIs DEF ParamsInv
<1> QED
  BY <1>2, <1>3

LEMMA StillnessHolds ==
  UNCHANGED PassiveSide!exchangeVars /\ broken' = broken /\ UNCHANGED <<PassiveSide!activeVars, PassiveSide!portVars>>
  => Held /\ PortsHeld /\ UNCHANGED <<toDevice, toHost>>
BY DEF PassiveSide!exchangeVars, PassiveSide!wireVars, PassiveSide!hostVars,
       PassiveSide!activeVars, PassiveSide!portVars, Held, PortsHeld

LEMMA FileKeepsParams ==
  ASSUME PassiveInv, PassiveSide!Request \/ PassiveSide!LastAck \/ PassiveSide!Decode
  PROVE  Calling' /\ ParamsInv'
<1>1. CASE PassiveSide!LastAck
  <2>1. step = "last_ack" /\ PassiveSide!SendAnswer("ack") /\ step' = "decode" /\ broken' = broken
        /\ UNCHANGED <<PassiveSide!activeVars, PassiveSide!portVars>>
    BY <1>1, NextStepIs DEF PassiveSide!LastAck
  <2> QED
    BY <2>1, PacketAnsweredKeepsParams
<1>2. CASE PassiveSide!Request
  <2>1. step = "request" /\ UNCHANGED <<PassiveSide!activeVars, PassiveSide!portVars>>
    BY <1>2 DEF PassiveSide!Request
  <2>2. CASE PassiveSide!Complete
    <3>1. step' = "last_ack" /\ broken' = broken /\ UNCHANGED PassiveSide!exchangeVars
      BY <1>2, <2>2, NextStepIs DEF PassiveSide!Request
    <3>2. Held /\ PortsHeld /\ UNCHANGED <<toDevice, toHost>>
      BY <2>1, <3>1, StillnessHolds
    <3> QED
      BY <2>1, <3>1, <3>2, MovingKeepsParams DEF Pending
  <2>3. CASE ~PassiveSide!Complete
    <3>1. step' = "answer" /\ broken' = broken /\ PassiveSide!SendAnswer("ack")
      BY <1>2, <2>3, NextStepIs DEF PassiveSide!Request
    <3> QED
      BY <2>1, <3>1, PacketAnsweredKeepsParams
  <2> QED
    BY <2>2, <2>3
<1>3. CASE PassiveSide!Decode
  <2>1. step = "decode" /\ step' \in {"idle", "listen"} /\ broken' = broken /\ UNCHANGED PassiveSide!exchangeVars
        /\ UNCHANGED <<PassiveSide!activeVars, PassiveSide!portVars>>
    BY <1>3, NextStepIs DEF PassiveSide!Decode
  <2>2. Held /\ PortsHeld /\ UNCHANGED <<toDevice, toHost>>
    BY <2>1, StillnessHolds
  <2> QED
    BY <2>1, <2>2, MovingKeepsParams DEF Pending
<1> QED
  BY <1>1, <1>2, <1>3

LEMMA PacketTakenKeepsParams ==
  ASSUME PassiveInv, PassiveSide!ReceivePacket
  PROVE  Calling' /\ ParamsInv'
<1>1. /\ step = "answer" /\ toDevice # <<>> /\ PassiveSide!SameParams /\ PassiveSide!Take
      /\ UNCHANGED <<PassiveSide!activeVars, PassiveSide!portVars>>
  BY DEF PassiveSide!ReceivePacket, PassiveSide!Legible
<1>2. step' \in {"idle", "request"} /\ broken' = broken /\ (step' = "request" => Head(toDevice).kind = "data")
  BY NextStepIs DEF PassiveSide!ReceivePacket
<1>3. Held /\ PortsHeld /\ toDevice' = Tail(toDevice) /\ toHost' = toHost
  BY <1>1, <1>2, TakeIs, StayHeld
<1>4. Trusted /\ phase # "check" /\ Pending' => (call = "settings" <=> step' = "decide" /\ command' = "settings")
  BY <1>1, <1>2, AnswerAwaited DEF Pending, SettingsPacket
<1> QED
  BY <1>1, <1>2, <1>3, <1>4, TakingKeepsParams

(* The call of the passive side that checks the link asks nothing that an  *)
(* answer to settings could be taken for.                                  *)
LEMMA PacketTimeoutKeepsParams ==
  ASSUME PassiveInv, PassiveSide!PacketTimesOut, step = "answer"
  PROVE  Calling' /\ ParamsInv'
<1>1. /\ toHost' = PassiveSide!Sent("other", timeout_check_packet) /\ step' = "check" /\ broken' = broken
      /\ toDevice' = toDevice /\ damaged' = damaged /\ UNCHANGED hostVars
      /\ UNCHANGED <<PassiveSide!activeVars, PassiveSide!portVars>>
  BY PassiveExchanges, NextStepIs DEF PassiveSide!PacketTimesOut, PassiveSide!hostVars, hostVars
<1>2. Held /\ PortsHeld
  BY <1>1, StayHeld
<1> SUFFICES ASSUME Trusted' PROVE Clean' /\ Ports' /\ (phase' # "check" => Agreeing')
  BY <1>2, HeldIs DEF ParamsInv
<1>3. Trusted /\ OldActive' = OldActive /\ NewPassive' = NewPassive
  BY <1>2, HeldIs
<1>4. Clean /\ Ports /\ (phase # "check" => Agreeing) /\ ExchangeTypeOK /\ PassiveSide!SameParams /\ (OldActive <=> ~NewPassive)
  BY <1>3, TrustedIs
<1> DEFINE a == Answer("other", timeout_check_packet)
<1>5. a \in DevicePackets /\ a.kind = "other" /\ toHost' = Append(toHost, a)
  <2>1. "other" \in AnswerKinds
    BY DEF AnswerKinds
  <2> QED
    BY <1>1, <1>4, <2>1, SentIs, PacketsAre
<1> HIDE DEF a
<1>6. Clean'
  BY <1>1, <1>4, <1>5, CleanAppended
<1>7. Ports'
  BY <1>3, <1>4 DEF Ports
<1> SUFFICES ASSUME phase' # "check" PROVE Agreeing'
  BY <1>6, <1>7
<1>8. Agreeing /\ UNCHANGED <<call, phase, packet, outcome, answer>>
  BY <1>2, <1>4 DEF Held
<1>9. ~Acked /\ Lone
  BY <1>8 DEF Agreeing
<1>10. Len(toHost) \in Nat /\ \A j \in Answered : toHost'[j] = toHost[j]
  BY <1>4, <1>5, AppendOf DEF ExchangeTypeOK, Answered
<1>11. toHost'[Len(toHost) + 1] = a /\ Len(toHost') = Len(toHost) + 1
  BY <1>4, <1>5, AppendOf DEF ExchangeTypeOK
<1>12. \A j \in Answered' : toHost'[j].kind = "ack" => j \in Answered
  BY <1>5, <1>10, <1>11 DEF Answered
<1>13. toHost # <<>> => 1 \in Answered
  BY <1>4, WiresAre DEF Answered
<1>14. ~Acked'
  <2>1. toHost'[1].kind = "ack" => toHost # <<>> /\ toHost[1].kind = "ack"
    <3>1. CASE toHost = <<>>
      BY <1>5, <1>11, <3>1
    <3>2. CASE toHost # <<>>
      BY <1>10, <1>13, <3>2
    <3> QED
      BY <3>1, <3>2
  <2> QED
    BY <1>8, <1>9, <2>1 DEF Acked
<1>15. \A j \in Answered : j = 1 /\ phase = "answer"
  <2> SUFFICES ASSUME NEW j \in Answered PROVE j = 1 /\ phase = "answer"
    OBVIOUS
  <2>1. toHost # <<>>
    BY <1>4, WiresAre DEF Answered
  <2>2. phase = "answer"
    BY <1>8, <1>9, <1>4, <2>1, TrustedIs, <1>3 DEF Lone, Quiet, Calling
  <2>3. Len(toDevice) + Len(toHost) <= 1
    BY <1>9, <2>2 DEF Lone, InFlight
  <2>4. Len(toDevice) \in Nat /\ j \in Nat /\ 1 <= j /\ j <= Len(toHost)
    BY <1>4, WiresAre DEF Answered
  <2>5. j = 1
    BY ONLY <1>10, <2>3, <2>4
  <2> QED
    BY <2>2, <2>5
<1>16. step' = "check" => \A j \in Answered' : toHost'[j].kind = "ack" => j = 1 /\ phase' = "answer"
  BY <1>8, <1>12, <1>15
<1> QED
  BY <1>1, <1>3, <1>4, <1>14, <1>16 DEF Agreeing

(* It gives up.                                                            *)
LEMMA BreakingKeepsParams ==
  ASSUME PassiveInv, PassiveSide!ReceiveAfterCheck \/ (PassiveSide!PacketTimesOut /\ step # "answer")
  PROVE  Calling' /\ ParamsInv'
<1>1. broken' /\ UNCHANGED <<phase, flags, call>>
  <2>1. broken' = TRUE
    BY DEF PassiveSide!ReceiveAfterCheck, PassiveSide!PacketTimesOut, PassiveSide!Breaks
  <2>2. UNCHANGED <<phase, flags, call>>
    BY DEF PassiveSide!ReceiveAfterCheck, PassiveSide!PacketTimesOut, PassiveSide!Take, PassiveSide!hostVars,
       PassiveSide!activeVars
  <2> QED
    BY <2>1, <2>2
<1>2. Calling'
  BY <1>1, PassiveInvIs DEF Calling
<1> QED
  BY <1>1, <1>2 DEF ParamsInv, Trusted

(* Its port takes the new parameters, or it gives up.                      *)
LEMMA SetKeepsParams ==
  ASSUME PassiveInv, PassiveSide!SetParams
  PROVE  Calling' /\ ParamsInv'
<1>1. step = "set" /\ UNCHANGED <<toDevice, toHost, damaged, phase, packet, flags, outcome, answer, gone, call>>
  BY DEF PassiveSide!SetParams, PassiveSide!wireVars, PassiveSide!activeVars
<1>2. Calling'
  BY <1>1, PassiveInvIs DEF Calling
<1> SUFFICES ASSUME Trusted' PROVE Clean' /\ Ports' /\ (phase' # "check" => Agreeing')
  BY <1>2 DEF ParamsInv
<1>3. speed' = [speed EXCEPT !["passive"] = "new"] /\ step' = "listen" /\ UNCHANGED <<irrecoverable, waited, broken>>
  BY NextStepIs DEF PassiveSide!SetParams, PassiveSide!SetFails, Trusted
<1>4. Trusted
  BY <1>1, <1>3 DEF Trusted
<1>5. Clean /\ Ports /\ (phase # "check" => Agreeing) /\ PortTypes
  BY <1>4, TrustedIs
<1>6. NewPassive' /\ OldActive' = OldActive
  BY <1>3, <1>5 DEF PortTypes, PassiveSide!Ends, OldActive, NewPassive
<1>7. Clean' /\ Ports'
  BY <1>1, <1>3, <1>5, <1>6 DEF Clean, Ports, Sent, Answered
<1> SUFFICES ASSUME phase' # "check" PROVE Agreeing'
  BY <1>7
<1>8. Agreeing
  BY <1>1, <1>5
<1>9. (Acked' <=> Acked) /\ (AckLost' <=> AckLost)
  BY <1>1 DEF Acked, AckLost
<1>10. Lone
  BY <1>1, <1>8 DEF Agreeing
<1>11. Quiet' = Quiet /\ InFlight' = InFlight /\ Sent' = Sent
  BY <1>1 DEF Quiet, InFlight, Sent
<1>12. Lone'
  BY <1>1, <1>3, <1>10, <1>11 DEF Lone, Pending
<1> QED
  BY <1>1, <1>3, <1>6, <1>8, <1>9, <1>12 DEF Agreeing

(* Its program goes on receiving, or closes the link.                      *)
LEMMA ProgramKeepsParams ==
  ASSUME PassiveInv, PassiveSide!Program \/ PassiveSide!ListenTimesOut
  PROVE  Calling' /\ ParamsInv'
<1>1. CASE PassiveSide!ReceiveData
  <2>1. step = "idle" /\ step' = "listen" /\ broken' = broken /\ UNCHANGED PassiveSide!exchangeVars
        /\ UNCHANGED <<PassiveSide!activeVars, PassiveSide!portVars>>
    BY <1>1 DEF PassiveSide!ReceiveData
  <2>2. Held /\ PortsHeld /\ UNCHANGED <<toDevice, toHost>>
    BY <2>1, StillnessHolds
  <2> QED
    BY <2>1, <2>2, MovingKeepsParams DEF Pending
<1>2. CASE PassiveSide!ListenTimesOut
  <2>1. /\ step = "listen" /\ step' = "idle" /\ broken' = broken /\ UNCHANGED <<toDevice, toHost>>
        /\ damaged' = damaged /\ UNCHANGED hostVars
        /\ UNCHANGED <<PassiveSide!activeVars, PassiveSide!portVars>>
    BY <1>2, NextStepIs DEF PassiveSide!ListenTimesOut, PassiveSide!hostVars, hostVars
  <2>2. Held /\ PortsHeld
    BY <2>1, StayHeld
  <2> QED
    BY <2>1, <2>2, MovingKeepsParams DEF Pending
<1>3. CASE PassiveSide!Closed
  <2>1. /\ step = "idle" /\ toDevice # <<>> /\ toDevice' = <<>> /\ toHost' = toHost /\ step' = step /\ broken' = broken
        /\ damaged' = damaged /\ UNCHANGED hostVars
        /\ UNCHANGED <<PassiveSide!activeVars, PassiveSide!portVars>>
    BY <1>3 DEF PassiveSide!Closed, PassiveSide!hostVars, hostVars, PassiveSide!passiveVars
  <2>2. Held /\ PortsHeld
    BY <2>1, StayHeld
  <2> SUFFICES ASSUME Trusted' PROVE Clean' /\ Ports' /\ (phase' # "check" => Agreeing')
    BY <2>2, HeldIs DEF ParamsInv
  <2>3. Trusted /\ OldActive' = OldActive /\ NewPassive' = NewPassive
    BY <2>2, HeldIs
  <2>4. Clean /\ Ports /\ (phase # "check" => Agreeing)
    BY <2>3, TrustedIs
  <2>5. Clean' /\ Ports'
    BY <2>1, <2>3, <2>4 DEF Clean, Ports, Sent, Answered
  <2> SUFFICES ASSUME phase' # "check" PROVE Agreeing'
    BY <2>5
  <2>6. Agreeing /\ UNCHANGED <<call, phase, packet, outcome, answer>>
    BY <2>2, <2>4 DEF Held
  <2>7. Lone /\ phase = "answer" /\ toHost = <<>>
    BY <2>1, <2>3, <2>6, AnswerAwaited
  <2>8. (Acked' <=> Acked) /\ ~AckLost
    BY <2>1, <2>6 DEF Acked, AckLost
  <2>9. InFlight' <= 1 /\ Sent' = {} /\ Quiet' /\ ~Pending'
    <3>1. toDevice' = <<>> /\ toHost' = <<>>
      BY <2>1, <2>7
    <3>2. Len(toDevice') = 0 /\ Len(toHost') = 0
      BY <3>1
    <3>3. InFlight' <= 1 /\ Sent' = {}
      BY ONLY <3>2 DEF InFlight, Sent
    <3> QED
      BY <2>1, <3>1, <3>3 DEF Quiet, Pending
  <2>10. Lone'
    BY <2>6, <2>7, <2>9 DEF Lone
  <2> QED
    BY <2>1, <2>3, <2>6, <2>8, <2>10 DEF Agreeing
<1> QED
  BY <1>1, <1>2, <1>3 DEF PassiveSide!Program

LEMMA PassiveTypesNext ==
  ASSUME ExchangeTypeOK', ActiveTypes', PassiveTypes', PortTypes', Calling', ParamsInv' PROVE PassiveInv'
<1>1. PassiveSide!TypeOK'
  BY DEF PassiveSide!TypeOK, ExchangeTypeOK, ActiveTypes, PassiveTypes, PortTypes,
         PassiveSide!ExchangeTypeOK, PassiveSide!HostPackets, HostPackets,
         PassiveSide!DevicePackets, DevicePackets, PassiveSide!PacketKinds, PacketKinds,
         PassiveSide!AnswerKinds, AnswerKinds, PassiveSide!Flags, Flags, PassiveSide!Outcomes, Outcomes,
         PassiveSide!DamageErrors, DamageErrors
<1> QED
  BY <1>1 DEF PassiveInv

LEMMA PassiveNextPreserves ==
  ASSUME PassiveInv, PassiveSide!Next
  PROVE  PassiveInv'
<1>0. ExchangeTypeOK /\ ActiveTypes /\ PassiveTypes /\ PortTypes
  BY PassiveInvIs
<1>1. ASSUME NEW c \in PassiveSide!Calls, PassiveSide!Begin(c) PROVE PassiveInv'
  <2>1. ExchangeTypeOK' /\ ActiveTypes'
    BY <1>0, <1>1, CallIsTyped
  <2>2. PassiveTypes' /\ PortTypes'
    BY <1>0, <1>1 DEF PassiveSide!Begin, PassiveSide!passiveVars, PassiveSide!portVars, PassiveTypes, PortTypes
  <2> QED
    BY <1>1, <2>1, <2>2, BeginKeepsParams, PassiveTypesNext
<1>2. CASE PassiveSide!Active
  BY <1>0, <1>2, ActiveIsTyped, ActiveKeepsParams, PassiveTypesNext
<1>3. CASE /\ PassiveSide!ExchangeStep \/ PassiveSide!Unplugged \/ PassiveSide!Wire
           /\ UNCHANGED <<PassiveSide!activeVars, PassiveSide!passiveVars, PassiveSide!portVars>>
  <2>1. ExchangeStep \/ Unplugged \/ Wire
    BY <1>3, PassiveGoesOn
  <2>2. ExchangeTypeOK'
    BY <1>0, <2>1, StepIsTyped, UnpluggingIsTyped, LossIsTyped, DamageIsTyped DEF Wire
  <2>3. ActiveTypes' /\ PassiveTypes' /\ PortTypes' /\ UNCHANGED <<call, step, command, broken, speed, waited>>
    BY <1>0, <1>3 DEF PassiveSide!activeVars, PassiveSide!passiveVars, PassiveSide!portVars, ActiveTypes,
       PassiveTypes, PortTypes
  <2>4. Calling' /\ ParamsInv'
    BY <2>1, <2>3, ExchangeKeepsParams, WireKeepsParams
  <2> QED
    BY <2>2, <2>3, <2>4, PassiveTypesNext
<1>4. CASE PassiveSide!Program \/ PassiveSide!ListenTimesOut
  <2>1. ExchangeTypeOK' /\ PassiveTypes' /\ PortTypes'
    BY <1>0, <1>4, ProgramIsTyped
  <2>2. UNCHANGED PassiveSide!activeVars
    BY <1>4 DEF PassiveSide!Program, PassiveSide!ReceiveData, PassiveSide!Closed, PassiveSide!ListenTimesOut
  <2>3. ActiveTypes'
    BY <1>0, <2>2 DEF PassiveSide!activeVars, ActiveTypes
  <2> QED
    BY <1>4, <2>1, <2>3, ProgramKeepsParams, PassiveTypesNext
<1>5. CASE PassiveSide!Passive
  <2>1. ExchangeTypeOK' /\ PassiveTypes' /\ PortTypes'
    BY <1>0, <1>5, PassiveIsTyped
  <2>2. UNCHANGED PassiveSide!activeVars
    BY <1>5 DEF PassiveSide!Passive, PassiveSide!Listen, PassiveSide!ReceiveIllegible, PassiveSide!Decide,
       PassiveSide!SetParams, PassiveSide!Request, PassiveSide!ReceivePacket, PassiveSide!ReceiveAfterCheck,
       PassiveSide!PacketTimesOut, PassiveSide!LastAck, PassiveSide!Decode
  <2>3. ActiveTypes'
    BY <1>0, <2>2 DEF PassiveSide!activeVars, ActiveTypes
  <2>4. Calling' /\ ParamsInv'
    BY <1>5, ListenKeepsParams, IllegibleKeepsParams, DecideKeepsParams, SetKeepsParams, FileKeepsParams,
       PacketTakenKeepsParams, BreakingKeepsParams, PacketTimeoutKeepsParams DEF PassiveSide!Passive
  <2> QED
    BY <2>1, <2>3, <2>4, PassiveTypesNext
<1> QED
  BY <1>1, <1>2, <1>3, <1>4, <1>5 DEF PassiveSide!Next, PassiveSide!Exchange

LEMMA PassiveStutters ==
  ASSUME PassiveInv, UNCHANGED <<exchangeVars, callVars, moveVars, sendVars, receiveVars, passiveVars>>
  PROVE  PassiveInv'
<1>1. UNCHANGED <<toDevice, toHost, lost, damaged, late, phase, packet, flags, attempts, outcome, answer,
                  irrecoverable, gone, call, step, i, count, calls, terminated, received, size, command,
                  receptions, given, broken, speed, waited>>
  BY DEF exchangeVars, wireVars, hostVars, callVars, moveVars, sendVars, receiveVars, passiveVars
<1>2. ExchangeTypeOK' /\ ActiveTypes' /\ PassiveTypes' /\ PortTypes'
  BY <1>1, PassiveInvIs DEF ExchangeTypeOK, ActiveTypes, PassiveTypes, PortTypes
<1>3. Calling' <=> Calling
  BY <1>1 DEF Calling
<1>4. (Trusted' <=> Trusted) /\ (Clean' <=> Clean) /\ (Ports' <=> Ports)
  BY <1>1 DEF Trusted, Clean, Ports, OldActive, NewPassive, Sent, Answered
<1>5. Agreeing' <=> Agreeing
  BY <1>1 DEF Agreeing, Acked, AckLost, Lone, Quiet, InFlight, Pending, OldActive, NewPassive, Sent, Answered
<1>6. ParamsInv' <=> ParamsInv
  BY <1>1, <1>4, <1>5 DEF ParamsInv
<1> QED
  BY <1>2, <1>3, <1>6, PassiveTypesNext, PassiveInvIs

LEMMA PassiveBegins ==
  ASSUME Init PROVE PassiveInv
<1>1. /\ ExchangeInit /\ call = "none" /\ i = 0 /\ count = 0 /\ calls = 0
      /\ step = "idle" /\ command = "none" /\ size = 0 /\ receptions = 0 /\ received = <<>>
      /\ terminated = FALSE /\ broken = FALSE /\ speed = [e \in PassiveSide!Ends |-> "old"] /\ waited = TRUE
  BY PassiveExchanges DEF Init, PassiveSide!Init
<1>2. ExchangeTypeOK
  BY <1>1, InitialIsTyped
<1>3. ActiveTypes /\ PassiveTypes
  <2>1. ActiveTypes
    BY <1>1, PassiveNumbers DEF ActiveTypes
  <2>2. receptions \in 0 .. MaxCalls /\ size \in 0 .. MaxPackets /\ received \in Seq(Nat) /\ step \in PassiveSide!Steps
    BY <1>1, PassiveNumbers DEF PassiveSide!Steps
  <2>3. terminated \in BOOLEAN /\ broken \in BOOLEAN
    BY <1>1, Zenon
  <2> QED
    BY <1>1, <2>1, <2>2, <2>3 DEF PassiveTypes
<1>4. PortTypes /\ OldActive /\ ~NewPassive
  BY <1>1 DEF PortTypes, PassiveSide!Ends, OldActive, NewPassive
<1>5. toDevice = <<>> /\ toHost = <<>> /\ phase = "idle" /\ flags = {}
  BY <1>1 DEF ExchangeInit
<1>6. Calling /\ Clean /\ Ports /\ ~Acked /\ Lone
  BY <1>1, <1>4, <1>5 DEF Calling, Clean, Ports, Acked, Lone, Quiet, Pending, Sent, Answered
<1> QED
  BY <1>1, <1>2, <1>3, <1>4, <1>6, PassiveTypesAre DEF PassiveInv, ParamsInv, Agreeing

(* The invariant of the passive side: as long as nothing has told either   *)
(* end that the other does not follow, the active side waits for the       *)
(* answer to the only packet that is on its way or being answered, and the *)
(* ports differ only between the two ends' setting of what both have       *)
(* agreed on (cahute_receive_data of seven and                             *)
(* cahute_negotiate_serial_params), for any numbers of calls, packets,     *)
(* losses and late answers.                                                *)
THEOREM PassiveSideKeepsInv == Spec => [](operation = "passive" => PassiveInv)
<1>1. Init => (operation = "passive" => PassiveInv)
  BY PassiveBegins
<1>2. (operation = "passive" => PassiveInv) /\ [Next]_vars => (operation = "passive" => PassiveInv)'
  <2> SUFFICES ASSUME operation = "passive" => PassiveInv, [Next]_vars, operation' = "passive" PROVE PassiveInv'
    OBVIOUS
  <2>1. operation' = operation
    BY DEF Next, vars, TransferOnly, ReceiveOnly, ListingOnly, FlashOnly, PassiveOnly
  <2>2. CASE PassiveSide!Next
    BY <2>1, <2>2, PassiveNextPreserves
  <2>3. CASE UNCHANGED vars
    <3>1. UNCHANGED <<exchangeVars, callVars, moveVars, sendVars, receiveVars, passiveVars>>
      BY <2>3 DEF vars
    <3> QED
      BY <2>1, <3>1, PassiveStutters
  <2> QED
    BY <2>1, <2>2, <2>3 DEF Next
<1> QED
  BY <1>1, <1>2, PTL DEF Spec

(* The two ends of a serial link have the same parameters whenever either  *)
(* could use it, or one of them knows that it cannot                       *)
(* (cahute_negotiate_serial_params, and the passive side's answer to the   *)
(* command it sends), whatever is lost or late and whichever end fails.    *)
THEOREM ParamsStayAgreed == Spec => []ParamsAgree
<1>1. (operation = "passive" => PassiveInv) => ParamsAgree
  <2> SUFFICES ASSUME PassiveInv, call = "none", step \in {"idle", "listen"}, toDevice = <<>>, toHost = <<>>,
                      ~irrecoverable, ~broken, ~gone, waited, damaged = 0
               PROVE  PassiveSide!SameParams
    BY DEF ParamsAgree, PassiveSide!ParamsAgree
  <2>1. Trusted
    BY DEF Trusted
  <2>2. phase = "idle" /\ Agreeing /\ Ports /\ (PassiveSide!SameParams <=> (OldActive <=> ~NewPassive))
    BY <2>1, TrustedIs DEF Calling
  <2>3. ~Acked /\ ~AckLost
    BY <2>2 DEF Acked, AckLost
  <2>4. OldActive \/ NewPassive
    BY <2>2 DEF Ports
  <2>5. ~(OldActive /\ NewPassive)
    BY <2>2, <2>3 DEF Agreeing
  <2> QED
    BY <2>2, <2>4, <2>5
<1> QED
  BY <1>1, PassiveSideKeepsInv, PTL

(* Types, in every operation (seven and flash_system_using_fxremote_       *)
(* method.c): in particular what is sent, answered, received and flashed   *)
(* stays within what the code can hold.                                    *)
THEOREM OperationStateIsWellFormed == Spec => []TypeOK
<1>1. OperationInv /\ (operation = "passive" => PassiveInv) => TypeOK
  BY TransferIsRight, ReceiveIsRight, ListingIsRight, FlashIsRight DEF OperationInv, PassiveInv, TypeOK
<1> QED
  BY <1>1, OperationsKeepInv, PassiveSideKeepsInv, PTL

=============================================================================
