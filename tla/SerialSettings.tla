--------------------------- MODULE SerialSettings ---------------------------
(***************************************************************************)
(* The parameters of a serial port: what a program asks of a link, what    *)
(* the link takes them to be (transport_serial_flags and _speed), and what *)
(* the port of the system is set to, on the four platforms that have one.  *)
(* An opening completes the parameters it is given by those of its         *)
(* protocol; later calls by those the link has.  A call that asks for what *)
(* the link already has does not reach the port.                           *)
(***************************************************************************)
EXTENDS Integers, Sequences

CONSTANTS
  Systems,       (* platforms                                              *)
  Speeds,        (* speeds asked for, in bauds                             *)
  MaxCalls       (* bound on the calls of the program                      *)

VARIABLES
  system,        (* the platform                                           *)
  calls,
  result,        (* of the last call                                       *)
  settings,      (* the parameters the link takes its port to have         *)
  port,          (* those it has; "as_before" for a line nobody has set    *)
  halfway        (* a call has failed after it had changed the port        *)

vars == <<system, calls, result, settings, port, halfway>>

Unset == "as_before"
Keep == "keep"                     (* a parameter that is not given        *)

Values ==
  [speed |-> Speeds \union {"4800", "9600", "38400"}, stop |-> {"one", "two"}, parity |-> {"off", "odd", "even"},
   xonxoff |-> {"disable", "enable"}, dtr |-> {"ignore", "disable", "enable"},
   rts |-> {"ignore", "disable", "enable", "handshake"}]

Parameters == DOMAIN Values

(* cahute_open_serial_link(): the default parameters of a protocol.        *)
Default(protocol) ==
  [speed |-> CASE protocol = "CAS40" -> "4800"
               [] protocol \in {"CAS100", "CAS300"} -> "38400"
               [] OTHER -> "9600",
   stop |-> "two",
   parity |-> IF protocol = "CAS40" THEN "even" ELSE "off",
   xonxoff |-> IF protocol = "CAS300" THEN "enable" ELSE "disable",
   dtr |-> "ignore", rts |-> "ignore"]

(* The parameters given, completed by others.                              *)
Completed(given, others) ==
  [p \in Parameters |-> IF given[p] = Keep THEN others[p] ELSE given[p]]

(* A line that is driven by hand, or left as it is.                        *)
Driven(line, old) == IF line \in {"disable", "enable"} THEN line ELSE old

-----------------------------------------------------------------------------
(* What a platform does not do: AmigaOS drives no line, Windows 3 has no   *)
(* handshake and other speeds.                                             *)
Refused(asked) ==
  \/ system = "amigaos" /\ (asked.dtr # "ignore" \/ asked.rts # "ignore")
  \/ system = "win16" /\ (asked.rts = "handshake" \/ asked.speed \in {"57600", "115200"})

(* tcsetattr(): everything but the lines, the handshake excepted.          *)
PosixAttributes(asked) ==
  [asked EXCEPT !.dtr = port.dtr,
                !.rts = IF asked.rts = "handshake" THEN asked.rts
                        ELSE IF port.rts = "handshake" THEN Unset ELSE port.rts]

(* ioctl(TIOCMSET): the lines, when one is to be driven.                   *)
PosixLines(asked, before) ==
  [before EXCEPT !.dtr = Driven(asked.dtr, @), !.rts = Driven(asked.rts, @)]

DrivesALine(asked) == {asked.dtr, asked.rts} \intersect {"disable", "enable"} # {}

(* SDCMD_SETPARAMS: the first two bytes of io_CtlChar, which are XON and   *)
(* XOFF in devices/serial.h of the system, are null.                       *)
AmigaosParams(asked) ==
  [asked EXCEPT !.xonxoff = IF asked.xonxoff = "enable" THEN "null" ELSE asked.xonxoff,
                !.dtr = port.dtr, !.rts = port.rts]

(* SetCommState(): no parity leaves the kind of parity of the port, and    *)
(* XonChar and XoffChar are each other.                                    *)
Win32State(asked) ==
  [asked EXCEPT !.parity = IF asked.parity = "off" THEN port.parity ELSE asked.parity,
                !.xonxoff = IF asked.xonxoff = "enable" THEN "exchanged" ELSE asked.xonxoff,
                !.dtr = Driven(asked.dtr, port.dtr),
                !.rts = IF asked.rts = "ignore" THEN port.rts ELSE asked.rts]

(* SetCommState() of Windows 3: what is to be disabled is enabled and      *)
(* conversely, and XonChar and XoffChar are each other.                    *)
Win16State(asked) ==
  [asked EXCEPT !.xonxoff = IF asked.xonxoff = "disable" THEN "exchanged" ELSE "disable",
                !.dtr = Driven(asked.dtr, port.dtr),
                !.rts = Driven(asked.rts, port.rts)]

(* The port as successive calls of the system change it: any but the first *)
(* may fail and leave it as the one before did.                            *)
Changes(asked) ==
  CASE system = "posix" ->
         <<port, PosixAttributes(asked)>> \o
           (IF DrivesALine(asked) THEN <<PosixLines(asked, PosixAttributes(asked))>>
            ELSE << >>)
    [] system = "amigaos" -> <<port, AmigaosParams(asked), AmigaosParams(asked)>>
    [] system = "win32"   -> <<port, Win32State(asked)>>
    [] system = "win16"   -> <<port, Win16State(asked), Win16State(asked)>>

-----------------------------------------------------------------------------
(* cahute_set_serial_params_on_link_transport()                            *)
SkipsTheCall(asked) ==
  /\ asked = settings
  /\ result' = "OK"
  /\ UNCHANGED <<settings, port, halfway>>

RefusesTheCall(asked) ==
  /\ asked # settings /\ Refused(asked)
  /\ result' = "error"
  /\ UNCHANGED <<settings, port, halfway>>

(* Mutant: the link takes the parameters for set before they are.          *)
FailsTooLate(asked) ==
  /\ asked # settings /\ ~Refused(asked)
  /\ \E done \in 1 .. Len(Changes(asked)) - 1 :
       /\ port' = Changes(asked)[done]
       /\ halfway' = (halfway \/ port' # port)
  /\ result' = "error" /\ settings' = asked

FailsTheCall(asked) ==
  /\ asked # settings /\ ~Refused(asked)
  /\ \E done \in 1 .. Len(Changes(asked)) - 1 :
       /\ port' = Changes(asked)[done]
       /\ halfway' = (halfway \/ port' # port)
  /\ result' = "error"
  /\ UNCHANGED settings

MakesTheCall(asked) ==
  /\ asked # settings /\ ~Refused(asked)
  /\ port' = Changes(asked)[Len(Changes(asked))]
  /\ settings' = asked /\ result' = "OK" /\ halfway' = FALSE

SetOnTransport(asked) ==
  \/ SkipsTheCall(asked) \/ RefusesTheCall(asked)
  \/ FailsTheCall(asked) \/ MakesTheCall(asked)

Nowhere == [p \in Parameters |-> Unset]

Init ==
  /\ system \in Systems /\ calls = 0 /\ result = "none"
  /\ settings = Nowhere /\ port = Nowhere /\ halfway = FALSE

Calls ==
  /\ calls < MaxCalls
  /\ calls' = calls + 1
  /\ UNCHANGED system

(* A call that gives one parameter.                                        *)
Giving(p, v) == [[q \in Parameters |-> Keep] EXCEPT ![p] = v]

(* cahute_open_serial_link(), on a port others may have used before.       *)
Open(protocol) ==
  /\ Calls /\ settings = Nowhere
  /\ \E p \in Parameters : \E v \in Values[p] :
       SetOnTransport(Completed(Giving(p, v), Default(protocol)))

(* cahute_set_serial_params_to_link(), on a link without a protocol.       *)
SetParams ==
  /\ Calls /\ settings # Nowhere
  /\ \E p \in Parameters : \E v \in Values[p] :
       SetOnTransport(Completed(Giving(p, v), settings))

(* cahute_close_link(): the port stays as it is.                           *)
Close ==
  /\ Calls /\ settings # Nowhere
  /\ settings' = Nowhere /\ result' = "none" /\ halfway' = FALSE
  /\ UNCHANGED port

Next == (\E protocol \in {"CAS40", "CAS300", "SEVEN"} : Open(protocol)) \/ SetParams \/ Close

Spec == Init /\ [][Next]_vars

-----------------------------------------------------------------------------
(* XON/XOFF, once enabled, is obeyed with the usual characters, with each  *)
(* in the place of the other, or with null ones.                           *)
Known ==
  [p \in Parameters |-> Values[p] \union {Unset} \union
                          IF p = "xonxoff" THEN {"exchanged", "null"} ELSE {}]

TypeOK ==
  /\ system \in Systems /\ calls \in 0 .. MaxCalls /\ halfway \in BOOLEAN
  /\ result \in {"none", "OK", "error"}
  /\ \A p \in Parameters : settings[p] \in Known[p] /\ port[p] \in Known[p]

(* What the port of each platform may be, once a parameter was asked to    *)
(* have this value: that value, with the exceptions a reader of the        *)
(* functions would not expect.  Windows is never told not to use parity    *)
(* (win32/serial/link.c:305), it obeys XOFF as XON (win32/serial/          *)
(* link.c:321, win16/serial/link.c:247), Windows 3 when it should not, and *)
(* AmigaOS takes null bytes for them (amigaos/serial/link.c:270).  A line  *)
(* that is to be ignored may be anything.                                  *)
MadeOf(on, p, v) ==
  CASE v = "ignore" -> Known[p]
    [] <<on, p, v>> = <<"win32", "parity", "off">>       -> Known[p] \ {"off"}
    [] <<on, p, v>> = <<"win32", "xonxoff", "enable">>   -> {"exchanged"}
    [] <<on, p, v>> = <<"win16", "xonxoff", "enable">>   -> {"disable"}
    [] <<on, p, v>> = <<"win16", "xonxoff", "disable">>  -> {"exchanged"}
    [] <<on, p, v>> = <<"amigaos", "xonxoff", "enable">> -> {"null"}
    [] OTHER -> {v}

(* When a call has reported success, and none has failed half way since    *)
(* the last one that reached the port, every parameter of the port is what *)
(* its platform makes of what the calls together have asked, those that    *)
(* found nothing to do included: the comparison with the parameters of the *)
(* link (transport/set_serial_params.c:55) never leaves it with what an    *)
(* earlier or a failing call has set.                                      *)
LineIsAsAsked ==
  result = "OK" /\ ~halfway => \A p \in Parameters : port[p] \in MadeOf(system, p, settings[p])

=============================================================================
