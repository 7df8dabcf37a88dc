---------------------------- MODULE SevenCommand ----------------------------
(***************************************************************************)
(* A Protocol 7.00 session on the active side: the link is opened with the *)
(* initial checks and the discovery, carries commands that only expect an  *)
(* acknowledgement (delete, copy, reset, optimise...), and is closed.      *)
(*                                                                         *)
(* The calculator is external: it answers every packet, and carries a      *)
(* command out before it acknowledges it.                                  *)
(***************************************************************************)
EXTENDS SevenExchange

CONSTANTS
  InitAttempts,  (* attempts of cahute_seven_initiate                      *)
  MaxCalls,      (* bound on the commands of a session                     *)
  Discover,      (* FALSE with PROTOCOL_FLAG_NODISC                        *)
  Terminate      (* FALSE with PROTOCOL_FLAG_NOTERM                        *)

ASSUME InitAttemptsAssumption == InitAttempts \in Nat \ {0}
ASSUME MaxCallsAssumption == MaxCalls \in Nat
ASSUME FlagsAssumption == Discover \in BOOLEAN /\ Terminate \in BOOLEAN

VARIABLES
  session,       (* where the program is: see Sessions                     *)
  tries,         (* attempts left in cahute_seven_initiate                 *)
  calls,         (* commands given so far                                  *)
  result,        (* what the last command returned                         *)
  executed       (* history: how often the device carried each command out *)

sessionVars == <<session, tries, calls, result, executed>>
vars == <<exchangeVars, sessionVars>>

Sessions == {"closed", "initiating", "discovering", "open", "command",
             "terminating", "ended"}

initial_check_packet == Packet("init", 0)
discovery_packet == Packet("command", 0)
terminate_packet == Packet("term", 0)

Init ==
  /\ ExchangeInit
  /\ session = "closed" /\ tries = 0 /\ calls = 0 /\ result = "none"
  /\ executed = [c \in 1 .. MaxCalls |-> 0]

(* Mutant of Expect: any answer does.                                      *)
ExpectAny(kind) == outcome = "OK"

(* The answer EXPECT_PACKET requires.                                      *)
Expect(kind) == outcome = "OK" /\ answer.kind = kind

-----------------------------------------------------------------------------
(* Opening: cahute_seven_initiate, then cahute_seven_discover.             *)

OpenLink ==
  /\ session = "closed"
  /\ session' = "initiating" /\ tries' = InitAttempts
  /\ StartExchange(initial_check_packet, {"no_timeout"})
  /\ UNCHANGED <<calls, result, executed>>

(* Only a missing answer is tried again.                                   *)
InitiateAgain ==
  /\ session = "initiating" /\ phase = "done"
  /\ outcome = "TIMEOUT_START" /\ tries > 1
  /\ tries' = tries - 1
  /\ phase' = "answer" /\ attempts' = InitialAttempts(flags)
  /\ toDevice' = Append(toDevice, initial_check_packet)
  /\ UNCHANGED <<toHost, lost, damaged, late, packet, flags, outcome, answer,
                 irrecoverable, gone, session, calls, result, executed>>

(* Mutant of Initiated: the discovery is skipped.                          *)
InitiatedAndOpen ==
  /\ session = "initiating" /\ phase = "done"
  /\ ~(outcome = "TIMEOUT_START" /\ tries > 1)
  /\ session' = IF Expect("ack") THEN "open" ELSE "ended"
  /\ ExchangeReturns
  /\ UNCHANGED <<tries, calls, result, executed>>

Initiated ==
  /\ session = "initiating" /\ phase = "done"
  /\ ~(outcome = "TIMEOUT_START" /\ tries > 1)
  /\ session' = IF ~Expect("ack") THEN "ended"
                ELSE IF Discover THEN "discovering" ELSE "open"
  /\ ExchangeReturns
  /\ UNCHANGED <<tries, calls, result, executed>>

DiscoverDevice ==
  /\ session = "discovering"
  /\ StartExchange(discovery_packet, {})
  /\ UNCHANGED sessionVars

Discovered ==
  /\ session = "discovering" /\ phase = "done"
  /\ session' = IF Expect("ack_extended") THEN "open" ELSE "ended"
  /\ ExchangeReturns
  /\ UNCHANGED <<tries, calls, result, executed>>

-----------------------------------------------------------------------------
(* Commands: cahute_check_link, cahute_seven_send_command, EXPECT_BASIC_ACK *)

(* cahute_check_link.                                                      *)
Usable == ~irrecoverable /\ ~gone

(* Mutant of GiveCommand: the answer is left unread.                       *)
GiveCommandOnly ==
  /\ session = "open" /\ calls < MaxCalls
  /\ Usable
  /\ session' = "command" /\ calls' = calls + 1
  /\ StartExchange(Packet("command", calls + 1), {"no_receive"})
  /\ UNCHANGED <<tries, result, executed>>

GiveCommand ==
  /\ session = "open" /\ calls < MaxCalls
  /\ Usable
  /\ session' = "command" /\ calls' = calls + 1
  /\ StartExchange(Packet("command", calls + 1), {})
  /\ UNCHANGED <<tries, result, executed>>

(* The commands that only expect an acknowledgement differ by their code   *)
(* and by the time the device is given.                                    *)
DeleteFile == GiveCommand
CopyFile == GiveCommand
ResetStorage == GiveCommand
OptimizeStorage == GiveCommand

CommandReturns ==
  /\ session = "command" /\ phase = "done"
  /\ session' = "open"
  /\ result' = IF outcome = "OK" /\ ~Expect("ack") THEN "UNKNOWN" ELSE outcome
  /\ ExchangeReturns
  /\ UNCHANGED <<tries, calls, executed>>

-----------------------------------------------------------------------------
(* cahute_close_link, with cahute_seven_terminate.                         *)

(* Mutant of CloseLink: an irrecoverable link is terminated too.           *)
CloseAnyLink ==
  /\ session = "open"
  /\ session' = "terminating" /\ StartExchange(terminate_packet, {})
  /\ UNCHANGED <<tries, calls, result, executed>>

CloseLink ==
  /\ session = "open"
  /\ IF Terminate /\ Usable
     THEN session' = "terminating" /\ StartExchange(terminate_packet, {})
     ELSE session' = "ended" /\ UNCHANGED exchangeVars
  /\ UNCHANGED <<tries, calls, result, executed>>

Terminated ==
  /\ session = "terminating" /\ phase = "done"
  /\ session' = "ended"
  /\ ExchangeReturns
  /\ UNCHANGED <<tries, calls, result, executed>>

-----------------------------------------------------------------------------
(* The device.                                                             *)

Replies(p) ==
  IF ~p.intact \/ p.kind = "check" THEN {"resend"}
  ELSE IF p = discovery_packet THEN {"ack_extended"}
  ELSE IF p.kind = "command" THEN {"ack", "error"}
  ELSE {"ack"}

DeviceStep ==
  /\ toDevice # <<>>
  /\ LET p == Head(toDevice) IN \E k \in Replies(p) :
       /\ DeviceAnswers(k)
       /\ executed' = IF p.kind = "command" /\ k = "ack"
                      THEN [executed EXCEPT ![p.id] = @ + 1] ELSE executed
  /\ UNCHANGED <<session, tries, calls, result>>

-----------------------------------------------------------------------------
(* A late answer to a damaged packet can be taken for the answer to the    *)
(* check that followed; from there on every answer is one packet late.  A  *)
(* wire has faults of one of the two kinds.                                *)
Orderly == damaged = 0 \/ late = 0

Step == ExchangeStep /\ Orderly' /\ UNCHANGED sessionVars

Exchange == Step \/ ((Unplugged \/ Wire) /\ Orderly' /\ UNCHANGED sessionVars)

Caller == InitiateAgain \/ Initiated \/ DiscoverDevice \/ Discovered
            \/ CommandReturns \/ Terminated

Next == OpenLink \/ DeleteFile \/ CopyFile \/ ResetStorage \/ OptimizeStorage \/ CloseLink \/ Caller \/ Exchange \/ DeviceStep

(* A function that was called runs, and the device answers what reaches it: *)
(* a device that stays silent is one whose packets the wire loses.         *)
Fairness ==
  /\ WF_vars(Caller)
  /\ WF_vars(Step)
  /\ WF_vars(DeviceStep)

Spec == Init /\ [][Next]_vars /\ Fairness

-----------------------------------------------------------------------------
TypeOK ==
  /\ ExchangeTypeOK
  /\ session \in Sessions /\ tries \in 0 .. InitAttempts
  /\ calls \in 0 .. MaxCalls /\ result \in Outcomes
  /\ executed \in [1 .. MaxCalls -> Nat]

(* The answer a command or the termination goes by was given to that very  *)
(* packet: no answer to an earlier packet, or to an earlier copy that was  *)
(* asked for again, is left for the next call to take as its own.  Late    *)
(* answers to repeated initial checks (initialize.c:67-77) would be, were  *)
(* they not caught by the discovery.                                       *)
AnswersMatch ==
  session \in {"command", "terminating"} /\ phase = "done" /\ outcome = "OK"
    => answer.to.kind = packet.kind /\ answer.to.id = packet.id

(* A link at rest is quiet: an open link that is not given up has nothing  *)
(* on its way in either direction, whatever the last call returned.        *)
QuietAtRest ==
  session = "open" /\ ~irrecoverable /\ ~gone => toDevice = <<>> /\ toHost = <<>>

(* A single packet lost or damaged never costs the link: either the call   *)
(* recovers, or it fails and the next one works (send_packet.c:88-147).    *)
OneFaultIsSurvived == lost + damaged <= 1 /\ late = 0 => ~irrecoverable

(* A command is carried out again only for a lost packet: neither damage   *)
(* nor a late answer makes the host repeat what was already done.          *)
CarriedOutOncePerLoss == \A c \in 1 .. MaxCalls : executed[c] <= 1 + lost

(* Once the link is irrecoverable or gone, nothing more is sent on it, by  *)
(* later commands (check.c:39-42) or by closing it (close.c:42-47).        *)
NothingSentOnceBroken ==
  [][irrecoverable \/ gone => Len(toDevice') <= Len(toDevice)]_vars

(* Every call of the library returns, whatever is lost, damaged or late.   *)
CallsReturn ==
  session \in {"initiating", "discovering", "command", "terminating"}
    ~> session \in {"open", "ended"}

(* The session keeps the promise of CommandService.                        *)
Service == INSTANCE CommandService WITH
  busy <- session = "command",
  done <- {c \in 1 .. MaxCalls : executed[c] > 0}

ServiceSpec == Service!Spec

=============================================================================
