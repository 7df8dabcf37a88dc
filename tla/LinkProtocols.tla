--------------------------- MODULE LinkProtocols ----------------------------
(***************************************************************************)
(* The opening of links, and their protocols other than 7.00: what an      *)
(* opening takes from the system (LinkOpening), the parameters of its port *)
(* (SerialSettings), how its protocol is found (LinkDetection), a link     *)
(* with a ClassPad 300 (Cas300), and one that speaks CASIOLINK             *)
(* (Casiolink).  A link is for one of these uses; it is not followed from  *)
(* one to the next.                                                        *)
(***************************************************************************)
EXTENDS Integers, Sequences, FiniteSets

CONSTANTS
  Ids, Variants,                             (* see Cas300, Casiolink           *)
  Attempts, InitAttempts, NoticedAttempts,   (* see LinkDetection, the others   *)
  BufferSize, MaxNotices,
  MaxParts, MaxItems, MaxCalls, MaxStarts,   (* bounds of the sessions          *)
  MaxLost, MaxDamaged, MaxFaults, MaxLate,   (* bounds on the faults of wires   *)
  Systems, Speeds, SerialDevices, UmsDevices, SearchAttempts,  (* see LinkOpening  *)
  MaxPlugs, MaxOpenings, MaxSettings         (* and SerialSettings              *)

ASSUME IdsAssumption == Ids \in Nat /\ Ids >= 2
ASSUME VariantsAssumption == Variants \subseteq {"CAS40", "CAS50", "CAS100"}
ASSUME AttemptsAssumption ==
  {Attempts, InitAttempts, NoticedAttempts, BufferSize, MaxParts} \subseteq Nat \ {0}
ASSUME BoundsAssumption ==
  {MaxNotices, MaxItems, MaxCalls, MaxStarts,
   MaxLost, MaxDamaged, MaxFaults, MaxLate, MaxPlugs, MaxOpenings, MaxSettings} \subseteq Nat
ASSUME SystemsAssumption == Systems \subseteq {"posix", "amigaos", "win32", "win16"}
ASSUME DevicesAssumption ==
  SerialDevices \intersect UmsDevices = {} /\ "nowhere" \notin SerialDevices \union UmsDevices
ASSUME SearchAssumption == SearchAttempts \in Nat \ {0}
ASSUME SpeedsAssumption ==
  Speeds \subseteq {"300", "600", "1200", "2400", "4800", "9600", "19200", "38400",
                   "57600", "115200"}

VARIABLES
  use,           (* "opening", "settings", "detection", "cas300" or        *)
                 (* "casiolink"                                            *)
  wire, lost, damaged, faults, late, pc, calls, result,
  attempts, next_id, expected, buf, protocol, terminated, irrecoverable, received,
  kind, asked, notices, discovered,
  library, discover, sending, identified,
  variant, sender, toReceiver, toSender, header, got, whole, al, call,
  s_pc, s_al, last, s_parts, starts, items, accepted,
  system, opening, step, held, linkp, bus, plugs, filter, found, failed, twice,
  settings, port, halfway

Opening == INSTANCE LinkOpening
Settings == INSTANCE SerialSettings WITH MaxCalls <- MaxSettings
Detection == INSTANCE LinkDetection WITH InitAttempts <- NoticedAttempts
ClassPad == INSTANCE Cas300
Casio == INSTANCE Casiolink

(* The variables of each use that are not of all.                          *)
openingVars == <<opening, step, held, linkp, bus, plugs, filter, found, failed, twice>>
settingsVars == <<settings, port, halfway>>
detectionVars == <<kind, asked, notices, discovered>>
classPadVars == <<library, discover, sending, identified>>
casioVars == <<variant, sender, toReceiver, toSender, header, got, whole, al, call,
               s_pc, s_al, last, s_parts, items, accepted>>
sharedVars == <<wire, lost, damaged, faults, late, pc, calls, result, attempts, next_id,
                expected, buf, protocol, terminated, irrecoverable, received, starts>>
vars == <<use, system, sharedVars, openingVars, settingsVars, detectionVars, classPadVars,
          casioVars>>

(* A variable the use of the link has no use for.                          *)
NoOpening ==
  /\ opening = 0 /\ step = 0 /\ held = 0 /\ linkp = 0 /\ bus = 0 /\ plugs = 0
  /\ filter = 0 /\ found = 0 /\ failed = 0 /\ twice = 0
NoSettings == settings = 0 /\ port = 0 /\ halfway = 0
NoSystem == system = 0 /\ NoOpening /\ NoSettings
NoWire ==
  /\ wire = 0 /\ lost = 0 /\ damaged = 0 /\ faults = 0 /\ late = 0 /\ next_id = 0
  /\ expected = 0 /\ buf = 0 /\ protocol = 0 /\ terminated = 0 /\ irrecoverable = 0
  /\ received = 0 /\ starts = 0
NoDetection == kind = 0 /\ asked = 0 /\ notices = 0 /\ discovered = 0
NoClassPad == library = 0 /\ discover = 0 /\ sending = 0 /\ identified = 0
NoCasio ==
  /\ variant = 0 /\ sender = 0 /\ toReceiver = 0 /\ toSender = 0 /\ header = 0 /\ got = 0
  /\ whole = 0 /\ al = 0 /\ call = 0 /\ s_pc = 0 /\ s_al = 0 /\ last = 0 /\ s_parts = 0
  /\ items = 0 /\ accepted = 0

Init ==
  \/ /\ use = "opening" /\ Opening!Init
     /\ NoWire /\ NoSettings /\ NoDetection /\ NoClassPad /\ NoCasio
  \/ /\ use = "settings" /\ Settings!Init
     /\ NoWire /\ NoOpening /\ NoDetection /\ NoClassPad /\ NoCasio
     /\ pc = 0 /\ attempts = 0
  \/ /\ use = "detection" /\ Detection!Init /\ NoSystem /\ NoClassPad /\ NoCasio
     /\ lost = 0 /\ damaged = 0 /\ calls = 0 /\ terminated = 0 /\ irrecoverable = 0
     /\ received = 0 /\ starts = 0
  \/ /\ use = "cas300" /\ ClassPad!Init /\ NoSystem /\ NoDetection /\ NoCasio
     /\ faults = 0 /\ buf = 0 /\ protocol = 0 /\ received = 0 /\ starts = 0
  \/ /\ use = "casiolink" /\ Casio!Init /\ NoSystem /\ NoDetection /\ NoClassPad
     /\ wire = 0 /\ faults = 0 /\ attempts = 0 /\ next_id = 0 /\ expected = 0 /\ buf = 0

(* What a step of each use leaves alone.                                   *)
SystemAlone == UNCHANGED <<use, system, openingVars, settingsVars>>
SessionsAlone ==
  UNCHANGED <<use, wire, lost, damaged, faults, late, next_id, expected, buf, protocol,
              terminated, irrecoverable, received, starts, detectionVars, classPadVars,
              casioVars>>

OpeningOnly == use = "opening" /\ SessionsAlone /\ UNCHANGED settingsVars
SettingsOnly ==
  use = "settings" /\ SessionsAlone /\ UNCHANGED <<openingVars, pc, attempts>>
DetectionOnly ==
  /\ use = "detection" /\ SystemAlone
  /\ UNCHANGED <<lost, damaged, calls, terminated, irrecoverable, received, starts,
                 classPadVars, casioVars>>
ClassPadOnly ==
  /\ use = "cas300" /\ SystemAlone
  /\ UNCHANGED <<faults, buf, protocol, received, starts, detectionVars, casioVars>>
CasioOnly ==
  /\ use = "casiolink" /\ SystemAlone
  /\ UNCHANGED <<wire, faults, attempts, next_id, expected, buf, detectionVars,
                 classPadVars>>

Next ==
  \/ OpeningOnly /\ Opening!Next
  \/ SettingsOnly /\ Settings!Next
  \/ DetectionOnly /\ Detection!Next
  \/ ClassPadOnly /\ ClassPad!Next
  \/ CasioOnly /\ Casio!Next

(* The fairness of the modules.                                            *)
Host ==
  \/ OpeningOnly /\ Opening!Opens
  \/ DetectionOnly /\ Detection!Active
  \/ ClassPadOnly /\ ClassPad!Active
  \/ CasioOnly /\ Casio!Receiver

Peer ==
  \/ DetectionOnly /\ Detection!Passive
  \/ ClassPadOnly /\ ClassPad!Passive
  \/ CasioOnly /\ Casio!Sender

Calculator ==
  \/ DetectionOnly /\ Detection!Device
  \/ ClassPadOnly /\ ClassPad!Device

Spec ==
  /\ Init /\ [][Next]_vars
  /\ WF_vars(Host) /\ WF_vars(Peer) /\ WF_vars(Calculator)

-----------------------------------------------------------------------------
TypeOK ==
  CASE use = "opening"   -> Opening!TypeOK
    [] use = "settings"  -> Settings!TypeOK
    [] use = "detection" -> Detection!TypeOK
    [] use = "cas300"    -> ClassPad!TypeOK
    [] use = "casiolink" -> Casio!TypeOK

(* Nothing an opening has taken is lost, nor given back twice but where    *)
(* two functions free the same memory of Windows (win32/usb/devices.c:552, *)
(* win32/usb/open.c:349), and a successful one gives a link: see           *)
(* LinkOpening.                                                            *)
NothingLeaks == use = "opening" => Opening!NothingLeaks /\ Opening!SuccessIsALink

(* The port is what its platform makes of what the calls that have         *)
(* succeeded ask: see SerialSettings.                                      *)
LineIsAsAsked == use = "settings" => Settings!LineIsAsAsked

(* The protocol found is the one that is spoken, by both ends, and its     *)
(* detection leaves no byte to the session: see LinkDetection.             *)
ProtocolIsSpoken ==
  use = "detection" => Detection!ProtocolIsSpoken /\ Detection!NothingLeftOver

(* The two ends agree on the identifier of the next packet: see Cas300.    *)
InStep == use = "cas300" => ClassPad!InStep

(* An end that reports having terminated the other has, and a CASIOLINK    *)
(* session is only terminated by its end: see Cas300 and Casiolink.        *)
TerminationIsAgreed ==
  /\ use = "cas300" => ClassPad!TerminationIsAgreed
  /\ use = "casiolink" => Casio!TerminatedByTheEnd

(* What a CASIOLINK sender takes for received was: see Casiolink.          *)
AcceptedIsReceived == use = "casiolink" => Casio!AcceptedIsReceived

Called ==
  CASE use = "opening"   -> pc \in {"calls", "init"}
    [] use = "settings"  -> FALSE
    [] use = "detection" -> pc["active"] = "check"
    [] use = "cas300"    -> pc["active"] \in {"start", "start_nul", "ack"}
    [] use = "casiolink" -> s_pc = "ended" /\ Casio!Ended

Deaf == damaged > 0 \/ pc["passive"] \in {"idle", "ended"}

Returned ==
  CASE use = "opening"   -> pc \in {"idle", "given", "stopped"}
    [] use = "settings"  -> TRUE
    [] use = "detection" -> pc["active"] = "over" \/ faults > 0
    [] use = "cas300"    -> Deaf \/ pc["active"] \in {"reply", "open", "ended"}
    [] use = "casiolink" -> pc \in {"idle", "closed"} \/ lost + damaged + late > 0
                              \/ (variant = "CAS40" /\ starts > 1)

(* What is called returns, whatever is lost or late: an opening, with its  *)
(* search and its initialization, unless memory given back twice stops the *)
(* program; a detection, unless a read fails; the start of a CAS300        *)
(* session and its commands, unless nobody listens at the other end; and   *)
(* the reception of a CASIOLINK session that the sender has ended, if      *)
(* nothing was lost, damaged or late (cas40/receive_data.c:75-76).  A      *)
(* CAS40 session that starts over finds the AL mode of the one before:     *)
(* nothing leaves it but the end of the link (cas40/receive_raw_data.c:97). *)
CallsReturn == Called ~> Returned

Looked ==
  CASE use = "opening"   -> Opening!Searching /\ Cardinality(Opening!Candidates) = 1
    [] use = "settings"  -> FALSE
    [] use = "detection" -> pc["active"] = "check" /\ wire["passive"] = Detection!Check
                              /\ Detection!Looked /\ Detection!Hears
    [] use = "cas300"    -> pc["active"] \in {"reply", "terminate"}
    [] use = "casiolink" -> FALSE

Found ==
  CASE use = "opening"   -> pc = "given" \/ failed
    [] use = "settings"  -> TRUE
    [] use = "detection" -> result["active"] = "OK" \/ faults + late > 0
    [] use = "cas300"    -> Deaf \/ pc["active"] \in {"open", "ended"} \/ lost > 0
    [] use = "casiolink" -> TRUE

(* A USB device that stays alone on the bus is opened, unless a call       *)
(* fails; a device that hears the check at its settings, and whose answer  *)
(* is looked for, is found, unless a read fails or an answer is late       *)
(* (open/init.c:290-515); and a ClassPad whose discovery or termination    *)
(* is waited for without a timeout (discover.c:50, terminate.c:64)         *)
(* answers, if nothing is lost.                                            *)
DeviceIsFound == Looked ~> Found

=============================================================================
