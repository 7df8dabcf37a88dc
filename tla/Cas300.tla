------------------------------- MODULE Cas300 -------------------------------
(***************************************************************************)
(* A session of the CAS300 protocol (lib/link/cas300/): the active end     *)
(* starts the communication, discovers the device and terminates; the      *)
(* passive end answers.  Packets are numbered by each end, acknowledged,   *)
(* and sent again while they are not.                                      *)
(*                                                                         *)
(* Either end, or both, is run by the library.  An end that is not is a    *)
(* ClassPad 300, which is external: it refuses packets that are not the    *)
(* one it expects, and terminates rather than identify itself twice.       *)
(***************************************************************************)
EXTENDS Integers, Sequences

CONSTANTS
  Ids,           (* number of packet identifiers (256)                     *)
  InitAttempts,  (* INIT_ATTEMPTS                                          *)
  MaxLost, MaxDamaged, MaxLate,  (* bounds on the faults of the wire       *)
  MaxCalls       (* bound on the receptions, and on a ClassPad's commands  *)

Ends == {"active", "passive"}
Other(e) == IF e = "active" THEN "passive" ELSE "active"

VARIABLES
  library,       (* the ends run by the library                            *)
  discover,      (* FALSE with PROTOCOL_FLAG_NODISC                        *)
  wire,          (* packets on their way to each end                       *)
  lost, damaged, late,   (* faults so far                                  *)
  pc,            (* where each end is: see Places                          *)
  next_id,       (* cas300.next_id of each end                             *)
  sending,       (* the packet cahute_cas300_send_command is sending       *)
  terminated,    (* CAHUTE_LINK_FLAG_TERMINATED of each end                *)
  irrecoverable, (* CAHUTE_LINK_FLAG_IRRECOVERABLE of each end             *)
  attempts,      (* attempts left in cahute_cas300_initiate_as_sender      *)
  calls,         (* receptions or ClassPad commands so far, for each end   *)
  result,        (* what the last call of each end returned                *)
  expected,      (* ClassPad: the identifier it expects                    *)
  identified     (* ClassPad: it has identified itself                     *)

fixed == <<library, discover>>
wireVars == <<wire, lost, damaged, late>>
endVars == <<pc, next_id, sending, terminated, irrecoverable, attempts, calls, result>>
classPadVars == <<expected, identified>>
vars == <<fixed, wireVars, endVars, classPadVars>>

Places == {"closed", "start", "start_nul", "ack", "reply", "receive", "idle",
           "open", "terminate", "ended"}
Bytes == {"start", "established", "nul", "notice"}
Types == Bytes \cup {"command", "data", "ack", "order", "term", "damaged"}
Subtypes == {"none", "discover", "information", "settings", "other"}
Packets == [type : Types, id : 0 .. Ids - 1, subtype : Subtypes, size : {0, 41, 49}]

Packet(type, id) == [type |-> type, id |-> id, subtype |-> "none", size |-> 0]
Byte(b) == Packet(b, 0)
Command(id, subtype, size) ==
  [type |-> "command", id |-> id, subtype |-> subtype, size |-> size]

Init ==
  /\ library \in {{"active"}, {"passive"}, Ends}
  /\ discover \in BOOLEAN
  /\ wire = [e \in Ends |-> <<>>] /\ lost = 0 /\ damaged = 0 /\ late = 0
  /\ pc = [e \in Ends |-> "closed"] /\ next_id = [e \in Ends |-> 0]
  /\ sending = [e \in Ends |-> Byte("notice")]
  /\ terminated = [e \in Ends |-> FALSE] /\ irrecoverable = [e \in Ends |-> FALSE]
  /\ attempts = 0 /\ calls = [e \in Ends |-> 0]
  /\ result = [e \in Ends |-> "none"]
  /\ expected = 0 /\ identified = FALSE

-----------------------------------------------------------------------------
(* The wire.                                                               *)

(* What the wire to end e holds once the packets ps were sent to it; nobody *)
(* reads what comes to an end that is closed.                              *)
Sent(e, ps) == IF pc[e] = "ended" THEN wire[e] ELSE wire[e] \o ps

(* End e takes its first packet and sends the packets ps.                  *)
TakeAndSend(e, ps) ==
  /\ wire' = [wire EXCEPT ![e] = Tail(@), ![Other(e)] = Sent(Other(e), ps)]
  /\ UNCHANGED <<lost, damaged, late>>

Take(e) == TakeAndSend(e, <<>>)

Send(e, ps) ==
  /\ wire' = [wire EXCEPT ![Other(e)] = Sent(Other(e), ps)]
  /\ UNCHANGED <<lost, damaged>>

Lose ==
  /\ lost < MaxLost /\ lost' = lost + 1
  /\ \E e \in Ends : wire[e] # <<>> /\ wire' = [wire EXCEPT ![e] = Tail(@)]
  /\ UNCHANGED <<fixed, damaged, late, endVars, classPadVars>>

Damage ==
  /\ damaged < MaxDamaged /\ damaged' = damaged + 1
  /\ \E e \in Ends :
       /\ wire[e] # <<>> /\ Head(wire[e]).type \notin Bytes \cup {"damaged"}
       /\ wire' = [wire EXCEPT ![e][1] = Byte("damaged")]
  /\ UNCHANGED <<fixed, lost, late, endVars, classPadVars>>

(* Nothing comes to end e before its timeout: nothing is on its way any    *)
(* more, or the other end is late.                                         *)
TimeRunsOut(e) ==
  /\ wire[e] = <<>>
  /\ \/ wire[Other(e)] = <<>> /\ UNCHANGED late
     \/ wire[Other(e)] # <<>> /\ late < MaxLate /\ late' = late + 1

GoTo(e, place, r) ==
  /\ pc' = [pc EXCEPT ![e] = place]
  /\ result' = [result EXCEPT ![e] = r]

-----------------------------------------------------------------------------
(* cahute_cas300_initiate_as_sender, and the discovery that follows.       *)

After(id) == (id + 1) % Ids

(* cahute_cas300_send_command, up to the first transmission, for end e with *)
(* the identifier id.                                                      *)
SendNumbered(e, id, subtype, size) ==
  LET p == Command(id, subtype, size) IN
  /\ next_id' = [next_id EXCEPT ![e] = After(id)]
  /\ sending' = [sending EXCEPT ![e] = p]

BeginInitiate ==
  /\ pc["active"] = "closed" /\ pc["passive"] # "closed"
  /\ GoTo("active", "start", "none")
  /\ attempts' = InitAttempts
  /\ Send("active", <<Byte("start")>>) /\ UNCHANGED late
  /\ UNCHANGED <<fixed, next_id, sending, terminated, irrecoverable, calls, classPadVars>>

(* Mutant of NextAttempt: the attempts are not counted.                    *)
AlwaysAnAttempt == GoTo("active", "start", "none") /\ UNCHANGED attempts

(* The next attempt, or TIMEOUT_START once they are all made.              *)
NextAttempt ==
  /\ attempts' = attempts - 1
  /\ IF attempts > 1 THEN GoTo("active", "start", "none") ELSE GoTo("active", "ended", "TIMEOUT_START")

InitTimesOut ==
  /\ pc["active"] \in {"start", "start_nul"}
  /\ TimeRunsOut("active")
  /\ NextAttempt
  /\ Send("active", IF attempts > 1 THEN <<Byte("start")>> ELSE <<>>)
  /\ UNCHANGED <<fixed, next_id, sending, terminated, irrecoverable, calls, classPadVars>>

(* A byte that does not say that the communication is established takes an *)
(* attempt.                                                                *)
InitNotice ==
  /\ pc["active"] \in {"start", "start_nul"} /\ wire["active"] # <<>>
  /\ LET byte == Head(wire["active"]).type IN
       /\ byte # "nul"
       /\ pc["active"] = "start" => byte # "established"
  /\ NextAttempt
  /\ TakeAndSend("active", IF attempts > 1 THEN <<Byte("start")>> ELSE <<>>)
  /\ UNCHANGED <<fixed, next_id, sending, terminated, irrecoverable, calls, classPadVars>>

InitNul ==
  /\ pc["active"] = "start" /\ wire["active"] # <<>>
  /\ Head(wire["active"]).type = "nul"
  /\ GoTo("active", "start_nul", "none")
  /\ Take("active")
  /\ UNCHANGED <<fixed, next_id, sending, terminated, irrecoverable, attempts, calls, classPadVars>>

(* Established: cahute_cas300_discover sends its command.                  *)
Initiated ==
  /\ wire["active"] # <<>>
  /\ \/ pc["active"] = "start" /\ Head(wire["active"]).type = "established"
     \/ pc["active"] = "start_nul" /\ Head(wire["active"]).type = "nul"
  /\ IF discover /\ "active" \in library
     THEN /\ SendNumbered("active", next_id["active"], "discover", 0)
          /\ TakeAndSend("active", <<sending'["active"]>>)
          /\ GoTo("active", "ack", "none")
     ELSE /\ Take("active") /\ GoTo("active", "open", "OK")
          /\ UNCHANGED <<next_id, sending>>
  /\ UNCHANGED <<fixed, terminated, irrecoverable, attempts, calls, classPadVars>>

(* The protocol was detected by a ClassPad that had been used before: it   *)
(* answered the detection's command 0 that it expected another identifier, *)
(* and the session starts from there.                                      *)
Detected ==
  /\ library = {"active"} /\ pc = [e \in Ends |-> "closed"] /\ discover
  /\ \E id \in 1 .. Ids - 1 :
       /\ expected' = id
       /\ SendNumbered("active", id, "discover", 0)
  /\ pc' = [pc EXCEPT !["active"] = "ack", !["passive"] = "receive"]
  /\ Send("active", <<sending'["active"]>>) /\ UNCHANGED late
  /\ UNCHANGED <<fixed, terminated, irrecoverable, attempts, calls, result, identified>>

-----------------------------------------------------------------------------
(* cahute_cas300_receive_packet, in cahute_cas300_send_command ("ack"), in *)
(* cahute_cas300_discover ("reply") and in cahute_cas300_receive_data      *)
(* ("receive").                                                            *)

Receiving(e, types) ==
  /\ e \in library /\ pc[e] \in {"ack", "reply", "receive"}
  /\ wire[e] # <<>> /\ Head(wire[e]).type \in types

(* A call that fails: opening fails with it, a reception can be called     *)
(* again, and a ClassPad goes on.                                          *)
Fails(e, r) ==
  GoTo(e, IF e = "passive" THEN "idle" ELSE IF e \in library THEN "ended" ELSE "open", r)

(* The command was acknowledged.                                           *)
CommandSent(e) ==
  IF e = "passive" THEN GoTo(e, "receive", result[e])
  ELSE IF e \in library THEN GoTo(e, "reply", "none")
  ELSE GoTo(e, "open", "OK")

(* cahute_casiolink_receive_first_byte: the start is answered anywhere.    *)
AnswerStart(e) ==
  /\ Receiving(e, {"start"})
  /\ TakeAndSend(e, <<Byte("established")>>)
  /\ terminated' = [terminated EXCEPT ![e] = FALSE]
  /\ UNCHANGED <<fixed, pc, next_id, sending, irrecoverable, attempts, calls, result, classPadVars>>

(* A packet that is damaged is read whole, or its end is left to be read.  *)
ReceiveDamaged(e) ==
  /\ Receiving(e, {"damaged", "established", "nul", "notice"})
  /\ Take(e) \/ (Head(wire[e]).type = "damaged" /\ UNCHANGED wireVars)
  /\ \E r \in {"UNKNOWN", "CORRUPT", "TIMEOUT"} : Fails(e, r)
  /\ UNCHANGED <<fixed, next_id, sending, terminated, irrecoverable, attempts, calls, classPadVars>>

ReceiveTerm(e) ==
  /\ Receiving(e, {"term"})
  /\ TakeAndSend(e, <<Packet("ack", Head(wire[e]).id)>>)
  /\ terminated' = [terminated EXCEPT ![e] = TRUE]
  /\ Fails(e, "TERMINATED")
  /\ UNCHANGED <<fixed, next_id, sending, irrecoverable, attempts, calls, classPadVars>>

(* Mutant of ReceiveOrder: the identifier that is expected is not counted  *)
(* as used.                                                                *)
ReceiveOrderUncounted(e) ==
  /\ Receiving(e, {"order"})
  /\ pc[e] = "ack"
  /\ LET id == Head(wire[e]).id IN
       /\ next_id' = [next_id EXCEPT ![e] = id]
       /\ sending' = [sending EXCEPT ![e].id = id]
       /\ TakeAndSend(e, <<sending'[e]>>)
  /\ UNCHANGED <<fixed, pc, result, terminated, irrecoverable, attempts, calls, classPadVars>>

(* Out of order: the command goes out with the identifier that is expected. *)
ReceiveOrder(e) ==
  /\ Receiving(e, {"order"})
  /\ LET id == Head(wire[e]).id IN
     IF pc[e] = "ack"
     THEN /\ SendNumbered(e, id, sending[e].subtype, sending[e].size)
          /\ TakeAndSend(e, <<sending'[e]>>)
          /\ UNCHANGED <<pc, result>>
     ELSE /\ next_id' = [next_id EXCEPT ![e] = id]
          /\ Take(e) /\ Fails(e, "UNKNOWN") /\ UNCHANGED sending
  /\ UNCHANGED <<fixed, terminated, irrecoverable, attempts, calls, classPadVars>>

(* Only the acknowledgement of the very packet ends the wait.              *)
ReceiveAck(e) ==
  /\ Receiving(e, {"ack"})
  /\ Take(e)
  /\ CASE pc[e] = "ack" /\ Head(wire[e]).id = sending[e].id -> CommandSent(e)
       [] pc[e] = "ack" /\ Head(wire[e]).id # sending[e].id -> UNCHANGED <<pc, result>>
       [] pc[e] # "ack" -> Fails(e, "UNKNOWN")
  /\ UNCHANGED <<fixed, next_id, sending, terminated, irrecoverable, attempts, calls, classPadVars>>

AckTimesOut(e) ==
  /\ pc[e] = "ack" /\ TimeRunsOut(e)
  /\ Send(e, <<sending[e]>>)
  /\ UNCHANGED <<fixed, pc, next_id, sending, terminated, irrecoverable, attempts, calls, result, classPadVars>>

(* A command that comes while the acknowledgement of another is waited for *)
(* is acknowledged, and forgotten.                                         *)
ForgetCommand(e) ==
  /\ pc[e] = "ack" /\ Receiving(e, {"command", "data"})
  /\ TakeAndSend(e, <<Packet("ack", Head(wire[e]).id)>>)
  /\ UNCHANGED <<fixed, endVars, classPadVars>>

(* The rest of cahute_cas300_discover.                                     *)
ReceiveReply ==
  /\ pc["active"] = "reply" /\ Receiving("active", {"command", "data"})
  /\ TakeAndSend("active", <<Packet("ack", Head(wire["active"]).id)>>)
  /\ IF Head(wire["active"]).subtype = "information" /\ Head(wire["active"]).size = 49
     THEN GoTo("active", "open", "OK") ELSE Fails("active", "UNKNOWN")
  /\ UNCHANGED <<fixed, next_id, sending, terminated, irrecoverable, attempts, calls, classPadVars>>

-----------------------------------------------------------------------------
(* The passive end, run by the library: cahute_cas300_initiate_as_receiver *)
(* and cahute_cas300_receive_data.                                         *)

BeginReceive ==
  /\ pc["passive"] = "closed"
  /\ GoTo("passive", "start", "none")
  /\ UNCHANGED <<fixed, wireVars, next_id, sending, terminated, irrecoverable, attempts, calls, classPadVars>>

ReceiverInitiated ==
  /\ pc["passive"] = "start" /\ "passive" \in library /\ wire["passive"] # <<>>
  /\ IF Head(wire["passive"]).type = "start"
     THEN TakeAndSend("passive", <<Byte("established")>>) /\ GoTo("passive", "idle", "OK")
     ELSE Take("passive") /\ UNCHANGED <<pc, result>>
  /\ UNCHANGED <<fixed, next_id, sending, terminated, irrecoverable, attempts, calls, classPadVars>>

(* cahute_check_link, then cahute_cas300_receive_data.                     *)
CallReceive ==
  /\ pc["passive"] = "idle" /\ calls["passive"] < MaxCalls
  /\ ~terminated["passive"] /\ ~irrecoverable["passive"]
  /\ calls' = [calls EXCEPT !["passive"] = @ + 1]
  /\ GoTo("passive", "receive", "none")
  /\ UNCHANGED <<fixed, wireVars, next_id, sending, terminated, irrecoverable, attempts, classPadVars>>

HandleCommand ==
  /\ pc["passive"] = "receive" /\ Receiving("passive", {"command", "data"})
  /\ LET p == Head(wire["passive"])
         ack == Packet("ack", p.id) IN
     IF p.subtype = "discover"
     THEN /\ SendNumbered("passive", next_id["passive"], "information", 41)
          /\ TakeAndSend("passive", <<ack, sending'["passive"]>>)
          /\ GoTo("passive", "ack", "none") /\ UNCHANGED irrecoverable
     ELSE /\ TakeAndSend("passive", <<ack>>)
          /\ IF p.subtype = "settings"
             THEN irrecoverable' = [irrecoverable EXCEPT !["passive"] = TRUE]
                    /\ Fails("passive", "IRRECOV")
             ELSE UNCHANGED irrecoverable
                    /\ Fails("passive", IF p.type = "data" THEN "UNKNOWN" ELSE "IMPL")
          /\ UNCHANGED <<next_id, sending>>
  /\ UNCHANGED <<fixed, terminated, attempts, calls, classPadVars>>

(* cahute_close_link, by the program of the passive end.                   *)
ClosePassive ==
  /\ pc["passive"] = "idle"
  /\ pc' = [pc EXCEPT !["passive"] = "ended"]
  /\ UNCHANGED <<fixed, wireVars, next_id, sending, terminated, irrecoverable, attempts,
                 calls, result, classPadVars>>

-----------------------------------------------------------------------------
(* cahute_close_link and cahute_cas300_terminate, at the active end.       *)

CloseActive ==
  /\ pc["active"] = "open"
  /\ IF terminated["active"] \/ irrecoverable["active"]
     THEN GoTo("active", "ended", result["active"]) /\ UNCHANGED wireVars
     ELSE /\ GoTo("active", "terminate", "none")
          /\ Send("active", <<Packet("term", next_id["active"])>>) /\ UNCHANGED late
  /\ UNCHANGED <<fixed, next_id, sending, terminated, irrecoverable, attempts, calls, classPadVars>>

(* Three bytes are there to be read.                                       *)
ThreeBytes(w) == \E n \in 1 .. Len(w) : n = 3 \/ w[n].type \notin Bytes

(* Mutant of Terminates: any acknowledgement does.                         *)
TerminatesOnAnyAck(p) == p.type = "ack"

Terminates(p) == p.type = "ack" /\ p.id = next_id["active"]

(* Three bytes are read, whatever they are.                                *)
TerminationAnswered ==
  /\ pc["active"] = "terminate" /\ ThreeBytes(wire["active"])
  /\ IF Terminates(Head(wire["active"]))
     THEN GoTo("active", "ended", "OK") /\ terminated' = [terminated EXCEPT !["active"] = TRUE]
     ELSE GoTo("active", "ended", "UNKNOWN") /\ UNCHANGED terminated
  /\ Take("active")
  /\ UNCHANGED <<fixed, next_id, sending, irrecoverable, attempts, calls, classPadVars>>

-----------------------------------------------------------------------------
(* A ClassPad, at either end.                                              *)

(* It is started, as the passive end.                                      *)
ClassPadStarted ==
  /\ pc["passive"] = "start" /\ "passive" \notin library /\ wire["passive"] # <<>>
  /\ \/ /\ Head(wire["passive"]).type = "start"
        /\ GoTo("passive", "receive", "none")
        /\ \E answer \in {<<Byte("established")>>, <<Byte("nul"), Byte("nul")>>} :
             TakeAndSend("passive", answer)
     \/ /\ TakeAndSend("passive", <<Byte("notice")>>)
        /\ UNCHANGED <<pc, result>>
  /\ UNCHANGED <<fixed, next_id, sending, terminated, irrecoverable, attempts, calls, classPadVars>>

(* It takes a command.  The one it took last may be acknowledged again.    *)
ClassPadCommand(e) ==
  /\ e \notin library /\ pc[e] \in {"ack", "open", "receive"} /\ wire[e] # <<>>
  /\ LET p == Head(wire[e])
         ack == Packet("ack", p.id)
         reply == IF identified THEN Packet("term", next_id[e])
                  ELSE Command(next_id[e], "information", 49) IN
     /\ p.type = "command"
     /\ \/ p.id = expected /\ p.subtype # "discover" /\ TakeAndSend(e, <<ack>>)
           /\ expected' = After(expected) /\ UNCHANGED <<identified, next_id>>
        \/ p.id = expected /\ p.subtype = "discover" /\ TakeAndSend(e, <<ack, reply>>)
           /\ expected' = After(expected) /\ identified' = TRUE
           /\ next_id' = [next_id EXCEPT ![e] = After(@)]
        \/ p.id # expected /\ TakeAndSend(e, <<Packet("order", expected)>>)
           /\ UNCHANGED <<classPadVars, next_id>>
        \/ After(p.id) = expected /\ TakeAndSend(e, <<ack>>)
           /\ UNCHANGED <<classPadVars, next_id>>
  /\ UNCHANGED <<fixed, pc, sending, terminated, irrecoverable, attempts, calls, result>>

(* It takes anything else.                                                 *)
ClassPadTakes(e) ==
  /\ e \notin library /\ pc[e] \in {"ack", "open", "receive"} /\ wire[e] # <<>>
  /\ LET p == Head(wire[e]) IN
     /\ p.type # "command"
     /\ TakeAndSend(e, CASE p.type = "start" -> <<Byte("established")>>
                         [] p.type = "term"  -> <<Packet("ack", p.id)>>
                         [] OTHER            -> <<>>)
     /\ terminated' = [terminated EXCEPT ![e] = @ \/ p.type = "term"]
     /\ IF pc[e] = "ack" /\ p.type = "ack" /\ p.id = sending[e].id
        THEN CommandSent(e) ELSE UNCHANGED <<pc, result>>
  /\ UNCHANGED <<fixed, next_id, sending, irrecoverable, attempts, calls, classPadVars>>

(* It gives a command or sends data, as the active end.                    *)
ClassPadGives ==
  /\ pc["active"] = "open" /\ "active" \notin library /\ calls["active"] < MaxCalls
  /\ calls' = [calls EXCEPT !["active"] = @ + 1]
  /\ \E subtype \in {"discover", "settings", "other"}, type \in {"command", "data"} :
       /\ next_id' = [next_id EXCEPT !["active"] = After(@)]
       /\ sending' = [sending EXCEPT !["active"] =
            IF type = "data" THEN Packet("data", next_id["active"])
            ELSE Command(next_id["active"], subtype, 0)]
  /\ Send("active", <<sending'["active"]>>) /\ UNCHANGED late
  /\ GoTo("active", "ack", "none")
  /\ UNCHANGED <<fixed, terminated, irrecoverable, attempts, classPadVars>>

ClassPad(e) == ClassPadCommand(e) \/ ClassPadTakes(e)

-----------------------------------------------------------------------------
Receive(e) == AnswerStart(e) \/ ReceiveDamaged(e) \/ ReceiveTerm(e) \/ ReceiveOrder(e)
                \/ ReceiveAck(e) \/ AckTimesOut(e) \/ ForgetCommand(e)

Active == InitTimesOut \/ InitNotice \/ InitNul \/ Initiated \/ Receive("active")
            \/ ReceiveReply \/ TerminationAnswered

Passive == ReceiverInitiated \/ Receive("passive") \/ HandleCommand

Device == ClassPadStarted \/ \E e \in Ends : ClassPad(e)

Program == BeginInitiate \/ Detected \/ BeginReceive \/ CallReceive \/ ClosePassive \/ CloseActive

Next == Active \/ Passive \/ Device \/ ClassPadGives \/ Program \/ Lose \/ Damage

(* A function that was called runs, and a ClassPad takes what comes.       *)
Spec == Init /\ [][Next]_vars /\ WF_vars(Active) /\ WF_vars(Passive) /\ WF_vars(Device)

-----------------------------------------------------------------------------
TypeOK ==
  /\ library \in SUBSET Ends /\ discover \in BOOLEAN
  /\ wire \in [Ends -> Seq(Packets)]
  /\ lost \in 0 .. MaxLost /\ damaged \in 0 .. MaxDamaged /\ late \in 0 .. MaxLate
  /\ pc \in [Ends -> Places] /\ next_id \in [Ends -> 0 .. Ids - 1]
  /\ sending \in [Ends -> Packets]
  /\ terminated \in [Ends -> BOOLEAN] /\ irrecoverable \in [Ends -> BOOLEAN]
  /\ attempts \in 0 .. InitAttempts /\ calls \in [Ends -> 0 .. MaxCalls]
  /\ expected \in 0 .. Ids - 1 /\ identified \in BOOLEAN

(* At rest the next packet of the library has the identifier the ClassPad  *)
(* expects, whatever was lost, repeated or late: neither a copy sent again *)
(* (send_command.c:84-94) nor one refused as out of order (112-116) leaves *)
(* the two ends apart.  A damaged acknowledgement may.                     *)
InStep ==
  \A e \in Ends :
    /\ library = {e} /\ damaged = 0
    /\ pc[e] \in {"open", "receive"} /\ terminated[e] = FALSE
    => next_id[e] = expected

(* An active end that reports having terminated has terminated the other:  *)
(* no acknowledgement of an earlier packet passes for that of the          *)
(* termination (terminate.c:64-75).                                        *)
TerminationIsAgreed ==
  "active" \in library /\ pc["active"] = "ended" /\ result["active"] = "OK"
    => terminated["passive"]

=============================================================================
