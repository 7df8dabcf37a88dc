------------------------------ MODULE Casiolink ------------------------------
(***************************************************************************)
(* A CASIOLINK session in its variants CAS40, CAS50 and CAS100             *)
(* (lib/link/casiolink/, cas40/, cas50/ and cas100/): the sender starts    *)
(* the communication, and sends headers, each followed by the data parts   *)
(* it describes and acknowledged one by one by the receiver, until a       *)
(* header that ends the session.                                           *)
(*                                                                         *)
(* The receiver is the library.  The sender is a calculator, which is      *)
(* external, or the library, which only opens and closes such a link.      *)
(***************************************************************************)
EXTENDS Integers, Sequences, FiniteSets

CONSTANTS
  Variants,      (* the variants the sender may use                        *)
  InitAttempts,  (* attempts of cahute_casiolink_initiate_as_sender        *)
  MaxParts,      (* bound on the data parts of a header                    *)
  MaxItems, MaxCalls, MaxStarts,     (* headers, receptions, initiations   *)
  MaxLost, MaxDamaged, MaxLate       (* bounds on the faults of the wire   *)

VARIABLES
  variant,       (* the variant the sender uses                            *)
  protocol,      (* link->protocol of the receiver: a variant or "CAS"     *)
  sender,        (* "calculator" or "library"                              *)
  toReceiver, toSender,  (* packets on their way                           *)
  lost, damaged, late,   (* faults so far                                  *)
  pc,            (* where the receiver is: see Places                      *)
  header,        (* the header being received                              *)
  got, whole,    (* its parts received so far, and whether they are its own *)
  al,            (* CASIOLINK_FLAG_DEVICE_INFO_CAS40_AL                    *)
  terminated,    (* CAHUTE_LINK_FLAG_TERMINATED                            *)
  irrecoverable, (* CAHUTE_LINK_FLAG_IRRECOVERABLE                         *)
  call,          (* "data" or "screen": the call being made                *)
  calls,         (* calls so far                                           *)
  result,        (* what the last call returned                            *)
  received,      (* items whose parts were all received                    *)
  s_pc,          (* where the sender is: see SenderPlaces                  *)
  s_al,          (* the sender is in AL mode                               *)
  last,          (* the last header sent                                   *)
  s_parts,       (* parts of it left to send                               *)
  starts,        (* initiations made by a calculator, or attempts left     *)
  items,         (* items so far                                           *)
  accepted       (* items the sender takes for received                    *)

fixed == <<variant, protocol, sender>>
faults == <<lost, damaged, late>>
wires == <<toReceiver, toSender, faults>>
session == <<al, terminated, irrecoverable>>
data == <<header, got, whole, received>>
receiverVars == <<pc, data, session, call, calls, result>>
senderVars == <<s_pc, s_al, last, s_parts, starts, items, accepted>>
vars == <<fixed, wires, receiverVars, senderVars>>

Places == {"closed", "start", "model", "model_ack", "idle", "any", "header", "part", "decode"}
SenderPlaces == {"off", "start", "model", "model_ack", "next", "answer", "open", "ended"}
Kinds == {"data", "empty", "final", "screen", "end", "al", "al_end", "mdl", "large", "unknown"}
Types == {"start", "established", "ack", "invalid", "corrupted", "header", "part"}
Packets == [type : Types, kind : Kinds, item : 0 .. MaxItems, part : 0 .. MaxParts, intact : BOOLEAN]

Header(kind, item, parts) ==
  [type |-> "header", kind |-> kind, item |-> item, part |-> parts, intact |-> TRUE]
Part(item, n) == [type |-> "part", kind |-> "data", item |-> item, part |-> n, intact |-> TRUE]
Byte(b) == [Header("data", 0, 0) EXCEPT !.type = b]

Init ==
  /\ variant \in Variants /\ protocol \in {variant, "CAS"}
  /\ sender \in {"calculator", "library"}
  /\ toReceiver = <<>> /\ toSender = <<>> /\ lost = 0 /\ damaged = 0 /\ late = 0
  /\ pc = "closed" /\ header = Header("end", 0, 0) /\ got = 0 /\ whole = TRUE
  /\ al = FALSE /\ terminated = FALSE /\ irrecoverable = FALSE
  /\ call = "data" /\ calls = 0 /\ result = "none" /\ received = {}
  /\ s_pc = "off" /\ s_al = FALSE /\ last = Header("mdl", 0, 0) /\ s_parts = 0
  /\ starts = 0 /\ items = 0 /\ accepted = {}

-----------------------------------------------------------------------------
(* The wire.                                                               *)

Listening == pc # "closed" /\ ~(pc = "idle" /\ (terminated \/ irrecoverable))

ToReceiver(ps) == toReceiver' = IF Listening THEN toReceiver \o ps ELSE toReceiver

(* The receiver takes its first packet, and sends the packets ps.          *)
TakeAndSend(ps) ==
  /\ toReceiver' = Tail(toReceiver)
  /\ toSender' = IF s_pc = "ended" THEN toSender ELSE toSender \o ps
  /\ UNCHANGED faults
Take == TakeAndSend(<<>>)

(* The sender takes its first packet, and sends the packets ps.            *)
SenderTakes(ps) == toSender' = Tail(toSender) /\ ToReceiver(ps) /\ UNCHANGED faults
SenderSends(ps) == ToReceiver(ps) /\ UNCHANGED <<toSender, faults>>

Lose ==
  /\ lost < MaxLost /\ lost' = lost + 1
  /\ \/ toReceiver # <<>> /\ toReceiver' = Tail(toReceiver) /\ UNCHANGED toSender
     \/ toSender # <<>> /\ toSender' = Tail(toSender) /\ UNCHANGED toReceiver
  /\ UNCHANGED <<fixed, damaged, late, receiverVars, senderVars>>

Damage ==
  /\ damaged < MaxDamaged /\ damaged' = damaged + 1
  /\ toReceiver # <<>> /\ Head(toReceiver).type \in {"header", "part"}
  /\ toReceiver' = [toReceiver EXCEPT ![1].intact = FALSE]
  /\ UNCHANGED <<fixed, toSender, lost, late, receiverVars, senderVars>>

SenderIsSilent == s_pc \in {"off", "open", "ended"} \/ (s_pc # "next" /\ toSender = <<>>)

(* Nothing comes to the receiver in time.                                  *)
TimeRunsOut ==
  /\ toReceiver = <<>> /\ UNCHANGED <<toReceiver, toSender, lost, damaged>>
  /\ \/ SenderIsSilent /\ UNCHANGED late
     \/ late < MaxLate /\ late' = late + 1

-----------------------------------------------------------------------------
(* Opening, as the receiver.                                               *)

GoTo(place, r) == pc' = place /\ result' = r

OpenReceiver ==
  /\ pc = "closed" /\ result = "none"
  /\ GoTo("start", "none")
  /\ UNCHANGED <<fixed, wires, data, session, call, calls, senderVars>>

(* cahute_casiolink_initiate_as_receiver; a receiver that knows the variant *)
(* to be CAS100 expects the model information next.                        *)
Initiated ==
  /\ pc = "start" /\ toReceiver # <<>>
  /\ IF Head(toReceiver).type = "start"
     THEN /\ TakeAndSend(<<Byte("established")>>)
          /\ IF protocol = "CAS100" THEN GoTo("model", "none") ELSE GoTo("idle", "OK")
     ELSE Take /\ GoTo("closed", "UNKNOWN")
  /\ UNCHANGED <<fixed, data, session, call, calls, senderVars>>

(* The functions of the variants: a failed opening closes the link, a      *)
(* failed reception may be called again.                                   *)
Returns(r) == GoTo(IF pc \in {"start", "model"} \/ (pc = "model_ack" /\ calls = 0)
                   THEN "closed" ELSE "idle", r)

-----------------------------------------------------------------------------
(* cahute_receive_data: "any" is the wait of cahute_casiolink_receive_data *)
(* for the first header, "header" that of a variant.                       *)

Call(function, place) ==
  /\ pc = "idle" /\ calls < MaxCalls /\ ~terminated /\ ~irrecoverable
  /\ call' = function /\ calls' = calls + 1
  /\ GoTo(place, "none")

ReceiveData ==
  /\ Call("data", IF protocol = "CAS" THEN "any" ELSE "header")
  /\ UNCHANGED <<fixed, wires, data, session, senderVars>>

(* cahute_receive_screen, which takes any sender for one of CAS40.         *)
ReceiveScreen ==
  /\ variant = "CAS40"
  /\ Call("screen", "header")
  /\ UNCHANGED <<fixed, wires, data, session, senderVars>>

Receiving(places) == pc \in places /\ toReceiver # <<>>

(* cahute_casiolink_receive_first_byte: a start is answered anywhere.      *)
AnswerStart ==
  /\ Receiving({"model", "any", "header", "part"}) /\ Head(toReceiver).type = "start"
  /\ TakeAndSend(<<Byte("established")>>)
  /\ terminated' = FALSE
  /\ UNCHANGED <<fixed, pc, data, al, irrecoverable, call, calls, result, senderVars>>

(* A byte that introduces no header nor data.                              *)
ReceiveOther ==
  /\ Receiving({"model", "any", "header", "part"})
  /\ Head(toReceiver).type \in {"established", "ack", "invalid", "corrupted"}
  /\ Take /\ Returns("UNKNOWN")
  /\ UNCHANGED <<fixed, data, session, call, calls, senderVars>>

(* With the caller's timeout, or without once the first header is known.   *)
HasTimeout == pc \in {"model", "part", "any"} \/ (pc = "header" /\ (protocol # "CAS" \/ call = "screen"))

ReceiveTimesOut ==
  /\ HasTimeout /\ TimeRunsOut
  /\ Returns(IF pc = "any" THEN "TIMEOUT_START" ELSE "TIMEOUT")
  /\ UNCHANGED <<fixed, data, session, call, calls, senderVars>>

(* A header that is damaged, or a data part left over in its place.  The   *)
(* checksum of the first header is not looked at.                          *)
ReceiveBadHeader ==
  /\ Receiving({"model", "any", "header"})
  /\ LET p == Head(toReceiver) IN
     \/ p.type = "part"
     \/ p.type = "header" /\ ~p.intact
  /\ Take
  /\ \E r \in {"CORRUPT", "TIMEOUT", "UNKNOWN"} : Returns(r)
  /\ UNCHANGED <<fixed, data, session, call, calls, senderVars>>

(* Mutant of NoParts: the parts of the header before are still counted.    *)
PartsKept == UNCHANGED got /\ whole' = TRUE

NoParts == got' = 0 /\ whole' = TRUE

(* A header that gets through.                                             *)
GoodHeader(kinds) ==
  /\ Receiving({"any", "header"})
  /\ Head(toReceiver).type = "header" /\ Head(toReceiver).kind \in kinds
  /\ Head(toReceiver).intact \/ pc = "any"
  /\ header' = Head(toReceiver) /\ NoParts
  /\ UNCHANGED received

(* The acknowledgements of a header that has data, or has not: CAS40 sends *)
(* one before looking at what the header says.                             *)
HeaderAcks == IF variant = "CAS40" THEN <<Byte("ack")>> ELSE <<>>

(* No data description can be determined.                                  *)
HeaderUnknown ==
  /\ GoodHeader({"unknown"})
  /\ Take /\ Returns("UNKNOWN")
  /\ UNCHANGED <<fixed, session, call, calls, senderVars>>

(* Too large for the data buffer.                                          *)
HeaderTooLarge ==
  /\ GoodHeader({"large"})
  /\ TakeAndSend(HeaderAcks \o <<Byte("invalid")>>) /\ Returns("SIZE")
  /\ UNCHANGED <<fixed, session, call, calls, senderVars>>

(* In AL mode, neither an end nor a final header ends the session.         *)
Ends(kind) == kind \in {"end", "final", "screen"} /\ ~al

HeaderEnd ==
  /\ GoodHeader({"end"}) /\ Ends("end")
  /\ TakeAndSend(HeaderAcks) /\ Returns("TERMINATED")
  /\ terminated' = TRUE
  /\ UNCHANGED <<fixed, al, irrecoverable, call, calls, senderVars>>

HeaderAl ==
  /\ GoodHeader({"al"})
  /\ TakeAndSend(HeaderAcks) /\ al' = TRUE
  /\ IF al THEN Returns("UNKNOWN") ELSE GoTo("header", result)
  /\ UNCHANGED <<fixed, terminated, irrecoverable, call, calls, senderVars>>

HeaderAlEnd ==
  /\ GoodHeader({"al_end"})
  /\ TakeAndSend(HeaderAcks)
  /\ terminated' = (terminated \/ al)
  /\ Returns(IF al THEN "TERMINATED" ELSE "UNKNOWN")
  /\ UNCHANGED <<fixed, al, irrecoverable, call, calls, senderVars>>

(* No data follows: nothing is acknowledged but by CAS40.                  *)
HeaderEmpty ==
  /\ GoodHeader({"empty", "end"}) /\ ~Ends(Head(toReceiver).kind)
  /\ TakeAndSend(HeaderAcks) /\ GoTo("decode", result)
  /\ UNCHANGED <<fixed, session, call, calls, senderVars>>

(* Data follows: cahute_casiolink_receive_raw_data acknowledges the header. *)
HeaderData ==
  /\ GoodHeader({"data", "final", "screen"})
  /\ TakeAndSend(HeaderAcks \o <<Byte("ack")>>)
  /\ GoTo(IF header'.part = 0 THEN "decode" ELSE "part", result)
  /\ terminated' = (terminated \/ Ends(Head(toReceiver).kind))
  /\ UNCHANGED <<fixed, al, irrecoverable, call, calls, senderVars>>

-----------------------------------------------------------------------------
(* The parts, in cahute_casiolink_receive_raw_data.                        *)

(* Mutant of PartAnswer: a part is acknowledged before it is checked.      *)
AnswerUnchecked(intact) == "ack"

PartAnswer(intact) == IF intact THEN "ack" ELSE "invalid"

ReceivePart ==
  /\ Receiving({"part"}) /\ Head(toReceiver).type = "part"
  /\ LET p == Head(toReceiver)
         own == whole /\ p.item = header.item /\ p.part = got + 1 IN
     /\ TakeAndSend(<<Byte(PartAnswer(p.intact))>>)
     /\ IF p.intact
        THEN /\ got' = got + 1 /\ whole' = own
             /\ IF got + 1 < header.part THEN UNCHANGED <<pc, result, received>>
                ELSE /\ GoTo("decode", result)
                     /\ received' = IF own THEN received \cup {header.item} ELSE received
             /\ UNCHANGED irrecoverable
        ELSE /\ Returns("CORRUPT") /\ irrecoverable' = TRUE
             /\ UNCHANGED <<got, whole, received>>
  /\ UNCHANGED <<fixed, header, al, terminated, call, calls, senderVars>>

(* A header in the place of a part is longer, or shorter.                  *)
HeaderForPart ==
  /\ Receiving({"part"}) /\ Head(toReceiver).type = "header"
  /\ \/ Take /\ Returns("TIMEOUT") /\ UNCHANGED irrecoverable
     \/ TakeAndSend(<<Byte("invalid")>>) /\ Returns("CORRUPT") /\ irrecoverable' = TRUE
  /\ UNCHANGED <<fixed, data, al, terminated, call, calls, senderVars>>

(* The loops of cahute_cas40_receive_data and cahute_cas50_receive_data.   *)
InLoop(r) ==
  IF r = "CORRUPT" THEN Returns(r)
  ELSE IF terminated THEN Returns("TERMINATED") ELSE GoTo("header", result)

(* cahute_cas100_receive_data returns, and only what cannot be decoded has *)
(* cahute_casiolink_receive_data wait for another header.                  *)
AfterDecode(r) ==
  IF variant # "CAS100" THEN InLoop(r)
  ELSE IF r = "IMPL" /\ protocol = "CAS" THEN GoTo("any", result) ELSE Returns(r)

Decode ==
  /\ pc = "decode" /\ call = "data"
  /\ \E r \in IF header.part = 0 THEN {"IMPL"} ELSE {"OK", "IMPL", "CORRUPT"} : AfterDecode(r)
  /\ UNCHANGED <<fixed, wires, data, session, call, calls, senderVars>>

(* A screen that can be shown ends cahute_cas40_receive_screen, and is a   *)
(* session of its own; other data is skipped.                              *)
ScreenReceived ==
  /\ pc = "decode" /\ call = "screen"
  /\ \/ header.kind = "screen" /\ Returns("OK") /\ terminated' = FALSE
     \/ GoTo("header", result) /\ UNCHANGED terminated
  /\ UNCHANGED <<fixed, wires, data, al, irrecoverable, call, calls, senderVars>>

-----------------------------------------------------------------------------
(* cahute_cas100_handle_mdl1: the model information is sent back.          *)

ReceiveModel ==
  /\ Receiving({"model", "any", "header"})
  /\ LET p == Head(toReceiver) IN
     /\ p.type = "header" /\ p.kind = "mdl" /\ (p.intact \/ pc = "any")
     /\ TakeAndSend(<<[p EXCEPT !.intact = TRUE]>>)
  /\ GoTo("model_ack", result)
  /\ UNCHANGED <<fixed, data, session, call, calls, senderVars>>

NoModel ==
  /\ Receiving({"model"})
  /\ Head(toReceiver).type = "header" /\ Head(toReceiver).kind # "mdl"
  /\ Take /\ Returns("UNKNOWN")
  /\ UNCHANGED <<fixed, data, session, call, calls, senderVars>>

ModelAcknowledged ==
  /\ Receiving({"model_ack"})
  /\ IF Head(toReceiver).type = "ack"
     THEN /\ TakeAndSend(<<Byte("ack")>>)
          /\ IF calls = 0 THEN GoTo("idle", "OK") ELSE GoTo("header", result)
     ELSE TakeAndSend(<<Byte("corrupted")>>) /\ Returns("UNKNOWN")
  /\ UNCHANGED <<fixed, data, session, call, calls, senderVars>>

-----------------------------------------------------------------------------
(* The sender: a calculator, but where it says that it is the library.     *)

SenderUnchanged == UNCHANGED <<fixed, receiverVars>>

(* Nothing comes to the sender in time.                                    *)
SenderTimeRunsOut ==
  /\ toSender = <<>>
  /\ \/ UNCHANGED late /\ toReceiver = <<>> /\ pc # "decode"
     \/ late < MaxLate /\ late' = late + 1

(* cahute_casiolink_initiate_as_sender; a calculator may start again.      *)
SenderStarts ==
  /\ pc # "closed" /\ starts < IF sender = "library" THEN InitAttempts ELSE MaxStarts
  /\ \/ s_pc = "off" /\ UNCHANGED late
     \/ s_pc = "ended" /\ sender = "calculator" /\ UNCHANGED late
     \/ s_pc = "start" /\ SenderTimeRunsOut
  /\ s_pc' = "start" /\ starts' = starts + 1
  /\ ToReceiver(<<Byte("start")>>) /\ toSender' = <<>>
  /\ UNCHANGED <<lost, damaged, s_al, last, s_parts, items, accepted>> /\ SenderUnchanged

(* No timeout ends the library's wait for the last acknowledgement of the  *)
(* exchange of model information.                                          *)
SenderGivesUp ==
  /\ \/ s_pc = "start" /\ (sender = "library" => starts = InitAttempts)
     \/ s_pc = "model"
     \/ s_pc \in {"model_ack", "answer"} /\ sender = "calculator"
  /\ SenderTimeRunsOut
  /\ s_pc' = "ended"
  /\ UNCHANGED <<toReceiver, toSender, lost, damaged, s_al, last, s_parts, starts, items, accepted>>
  /\ SenderUnchanged

Ready == IF sender = "library" THEN "open" ELSE "next"

(* Established; the CAS100 variant sends its model information.            *)
SenderEstablished ==
  /\ s_pc = "start" /\ toSender # <<>>
  /\ IF Head(toSender).type = "established"
     THEN /\ s_al' = FALSE /\ s_parts' = 0
          /\ IF variant = "CAS100"
             THEN last' = Header("mdl", 0, 0) /\ s_pc' = "model" /\ SenderTakes(<<last'>>)
             ELSE s_pc' = Ready /\ SenderTakes(<<>>) /\ UNCHANGED last
     ELSE /\ SenderTakes(<<>>) /\ UNCHANGED <<s_al, last, s_parts>>
          /\ s_pc' = IF sender = "library" THEN "ended" ELSE s_pc
  /\ UNCHANGED <<starts, items, accepted>> /\ SenderUnchanged

(* cahute_cas100_exchange_model_information.                               *)
SenderModel ==
  /\ s_pc = "model" /\ toSender # <<>>
  /\ CASE Head(toSender).kind = "mdl" -> SenderTakes(<<Byte("ack")>>) /\ s_pc' = "model_ack"
       [] Head(toSender).kind # "mdl" -> SenderTakes(<<>>) /\ s_pc' = "ended"
  /\ UNCHANGED <<s_al, last, s_parts, starts, items, accepted>> /\ SenderUnchanged

SenderModelAcknowledged ==
  /\ s_pc = "model_ack" /\ toSender # <<>>
  /\ s_pc' = IF Head(toSender).type = "ack" THEN Ready ELSE "ended"
  /\ SenderTakes(<<>>)
  /\ UNCHANGED <<s_al, last, s_parts, starts, items, accepted>> /\ SenderUnchanged

(* cahute_close_link: cahute_cas40_terminate, cahute_cas50_terminate and   *)
(* cahute_cas100_terminate.                                                *)
CloseSender ==
  /\ s_pc = "open" /\ s_pc' = "ended"
  /\ last' = Header("end", 0, 0)
  /\ SenderSends(<<last'>>)
  /\ UNCHANGED <<s_al, s_parts, starts, items, accepted>> /\ SenderUnchanged

(* What the headers of each variant may describe: data, in no part, one or *)
(* several; nothing at all; too much; or the end of something.             *)
Cas40Kinds == {"data", "large", "final", "screen", "al", "al_end", "end", "unknown"}
Cas50Kinds == {"data", "large", "final", "empty", "end"}
Cas100Kinds == {"data", "large", "empty", "end", "mdl", "unknown"}

(* The headers a calculator may send.                                      *)
Sendable ==
  CASE variant = "CAS40"  -> Cas40Kinds \ {IF s_al THEN "al" ELSE "al_end"}
    [] variant = "CAS50"  -> Cas50Kinds
    [] variant = "CAS100" -> Cas100Kinds \ {"mdl"}

SendHeader ==
  /\ s_pc = "next" /\ items < MaxItems
  /\ items' = items + 1
  /\ \E kind \in Sendable :
       /\ \E n \in IF kind \in {"data", "final", "screen"} THEN 0 .. MaxParts ELSE {0} :
            last' = Header(kind, items', n) /\ s_parts' = n
       /\ s_al' = (s_al \/ kind = "al")
       /\ s_pc' = IF kind = "al_end" \/ (kind = "end" /\ ~s_al) THEN "ended" ELSE "answer"
  /\ SenderSends(<<last'>>)
  /\ UNCHANGED <<starts, accepted>> /\ SenderUnchanged

SenderAnswered ==
  /\ s_pc = "answer" /\ toSender # <<>>
  /\ \/ /\ Head(toSender).type = "ack" /\ s_parts > 0
        /\ SenderTakes(<<Part(last.item, last.part - s_parts + 1)>>)
        /\ s_parts' = s_parts - 1
        /\ UNCHANGED <<s_pc, accepted>>
     \/ /\ Head(toSender).type = "ack" /\ s_parts = 0
        /\ SenderTakes(<<>>)
        /\ accepted' = IF last.part > 0 THEN accepted \cup {last.item} ELSE accepted
        /\ s_pc' = IF last.kind \in {"final", "screen"} /\ ~s_al THEN "ended" ELSE "next"
        /\ UNCHANGED s_parts
     \/ /\ Head(toSender).type # "ack"
        /\ SenderTakes(<<>>)
        /\ s_pc' = "ended"
        /\ UNCHANGED <<s_parts, accepted>>
  /\ UNCHANGED <<s_al, last, starts, items>> /\ SenderUnchanged

-----------------------------------------------------------------------------
Receiver == Initiated \/ AnswerStart \/ ReceiveOther \/ ReceiveTimesOut \/ ReceiveBadHeader
  \/ HeaderUnknown \/ HeaderTooLarge \/ HeaderEnd \/ HeaderAl \/ HeaderAlEnd \/ HeaderEmpty
  \/ HeaderData \/ ReceivePart \/ HeaderForPart \/ Decode \/ ScreenReceived \/ ReceiveModel \/ NoModel
  \/ ModelAcknowledged

Sender == SenderGivesUp \/ SenderEstablished \/ SenderModel \/ SenderModelAcknowledged
            \/ SenderAnswered

Program == OpenReceiver \/ ReceiveData \/ ReceiveScreen \/ SenderStarts \/ CloseSender \/ SendHeader

Next == Receiver \/ Sender \/ Program \/ Lose \/ Damage

(* A function that was called runs, and the sender takes what comes.       *)
Spec == Init /\ [][Next]_vars /\ WF_vars(Receiver) /\ WF_vars(Sender)

-----------------------------------------------------------------------------
TypeOK ==
  /\ toReceiver \in Seq(Packets) /\ toSender \in Seq(Packets)
  /\ lost \in 0 .. MaxLost /\ damaged \in 0 .. MaxDamaged /\ late \in 0 .. MaxLate
  /\ pc \in Places /\ header \in Packets /\ got \in 0 .. header.part /\ whole \in BOOLEAN
  /\ {al, terminated, irrecoverable} \subseteq BOOLEAN
  /\ calls \in 0 .. MaxCalls
  /\ received \subseteq 1 .. MaxItems
  /\ s_pc \in SenderPlaces /\ s_al \in BOOLEAN /\ last \in Packets
  /\ s_parts \in 0 .. last.part /\ items \in 0 .. MaxItems /\ accepted \subseteq 1 .. MaxItems

(* What the sender takes for received was: an acknowledgement of one part  *)
(* never passes for that of another, whatever is lost or damaged           *)
(* (docs/topics/communication/cas40/flows.rst:45-54).                      *)
Accepted == accepted \subseteq received

(* No packet of a session is left on its way to the receiver of another:   *)
(* the sender has not started over, or has never given up early.           *)
OneAtATime == late = 0 \/ starts <= 1

(* With CAS50 and CAS100; CAS40 acknowledges headers twice                 *)
(* (cas40/receive_raw_data.c:80 and casiolink/receive_raw_data.c:86).  A   *)
(* sender that gives up while its packets are on their way and starts over *)
(* may take their acknowledgements for those of the new session's.         *)
AcceptedIsReceived == variant # "CAS40" /\ OneAtATime => Accepted

Ended == IF s_al THEN last.kind = "al_end" ELSE last.kind \in {"end", "final", "screen"}

(* A session is only terminated by the header that ends it: in AL mode     *)
(* final data and ends do not (cas40/receive_raw_data.c:116), and a session *)
(* that starts over is not terminated by what the one before it left.  With *)
(* CAS40 the second acknowledgement of a header passes for that of an AL   *)
(* header that was lost or damaged.                                        *)
TerminatedByTheEnd ==
  terminated /\ OneAtATime /\ (variant = "CAS40" => lost + damaged = 0) => Ended

=============================================================================
