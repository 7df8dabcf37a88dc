--------------------------- MODULE LinkTransport ---------------------------
(***************************************************************************)
(* The byte-stream transport of a link: lib/link/transport/receive.c and   *)
(* send.c.  Every protocol reads and writes through these two functions.   *)
(*                                                                         *)
(* The peer's output is the stream of bytes 1, 2, 3, ...: a byte is its    *)
(* position in the stream, so that a lost, repeated, reordered or stale    *)
(* byte is visible in whatever buffer it ends up in.  C's 0-based array    *)
(* index k is index k + 1 here.                                            *)
(***************************************************************************)
EXTENDS Integers

CONSTANTS
  BufferSize,    (* CAHUTE_LINK_RECEIVE_BUFFER_SIZE                        *)
  Sizes,         (* sizes the protocols ask for, or send                   *)
  Timeouts,      (* timeouts the protocols pass; 0 is "unlimited"          *)
  StreamLength,  (* bound on the bytes the peer ever sends                 *)
  Earliness      (* how long before its timeout a stream may give up       *)

ASSUME BufferSizeAssumption == BufferSize \in Nat \ {0}
ASSUME SizesAssumption == Sizes \subseteq Nat
ASSUME TimeoutsAssumption == Timeouts \subseteq Nat
ASSUME StreamLengthAssumption == StreamLength \in Nat
ASSUME EarlinessAssumption == Earliness \in Nat

VARIABLES
  arrived,       (* bytes the peer has sent so far                         *)
  fetched,       (* bytes the system's receive function has returned       *)
  buffer,        (* link->transport_receive_buffer                         *)
  start,         (* link->transport_receive_start                          *)
  size,          (* link->transport_receive_size                           *)
  unplugged,     (* the device is no longer there                          *)
  gone,          (* CAHUTE_LINK_FLAG_GONE                                  *)
  pc,            (* "idle", "receiving" or "sending"                       *)
  result,        (* what the last reception returned                       *)
  wanted,        (* original_size: the bytes this reception must return    *)
  missing,       (* size: the bytes it still has to find                   *)
  out,           (* the part of the caller's buffer filled so far          *)
  base,          (* history: stream position before the first of them      *)
  first_timeout, next_timeout,
  timeout,       (* what is left of the timeout in force                   *)
  timeout_error, (* what a timeout would be reported as                    *)
  quiet,         (* history: time without a byte since timeout was set     *)
  message,       (* history: size of the message being sent                *)
  cursor,        (* buf: how far into the message the next write starts    *)
  unsent,        (* size: the bytes still to be written                    *)
  wire           (* history: what the system has taken of the message      *)

receiveVars == <<wanted, missing, out, base, first_timeout, next_timeout,
                 timeout, timeout_error, quiet, result>>
bufferVars == <<buffer, start, size, fetched>>
sendVars == <<message, cursor, unsent, wire>>
vars == <<arrived, bufferVars, unplugged, gone, pc, receiveVars, sendVars>>

TimeoutErrors == {"TIMEOUT_START", "TIMEOUT"}
Results == {"none", "OK", "GONE", "UNKNOWN"} \cup TimeoutErrors

Empty == [i \in 1 .. 0 |-> 0]

(* Mutant of Filled: the destination is not moved past what it holds.      *)
FilledFromTheStart(array, n, from, k) ==
  [i \in 1 .. n + k |-> IF i <= k THEN from[i] ELSE IF i <= n THEN array[i] ELSE 0]

(* An array extended by the next k bytes of the receive buffer.            *)
Filled(array, n, from, k) ==
  [i \in 1 .. n + k |-> IF i <= n THEN array[i] ELSE from[i - n]]

(* Mutant of Left: the start of the receive buffer is forgotten.           *)
LeftFromTheStart == size

Left == size - start

(* The stream position up to which bytes have been given to callers.       *)
Position == fetched - Left

(* The timeout the caller asked for at this point of the reception.        *)
Limit == IF timeout_error = "TIMEOUT_START" THEN first_timeout ELSE next_timeout

Init ==
  /\ arrived = 0 /\ fetched = 0
  /\ buffer = [i \in 1 .. BufferSize |-> 0] /\ start = 0 /\ size = 0
  /\ unplugged = FALSE /\ gone = FALSE
  /\ pc = "idle" /\ result = "none"
  /\ wanted = 0 /\ missing = 0 /\ out = Empty /\ base = 0
  /\ first_timeout = 0 /\ next_timeout = 0
  /\ timeout = 0 /\ timeout_error = "TIMEOUT_START" /\ quiet = 0
  /\ message = 0 /\ cursor = 0 /\ unsent = 0 /\ wire = Empty

-----------------------------------------------------------------------------
(* The peer.                                                               *)

PeerSends ==
  /\ ~unplugged
  /\ arrived < StreamLength
  /\ arrived' = arrived + 1
  /\ UNCHANGED <<bufferVars, unplugged, gone, pc, receiveVars, sendVars>>

Unplug ==
  /\ ~unplugged
  /\ unplugged' = TRUE
  /\ UNCHANGED <<arrived, bufferVars, gone, pc, receiveVars, sendVars>>

-----------------------------------------------------------------------------
(* cahute_receive_on_link_transport.                                       *)

(* A call that the receive buffer satisfies, size 0 included.              *)
ReceiveFromBuffer(n, ft, nt) ==
  /\ pc = "idle"
  /\ n <= Left
  /\ start' = start + n
  /\ out' = [i \in 1 .. n |-> buffer[start + i]]
  /\ wanted' = n /\ missing' = 0 /\ base' = Position
  /\ first_timeout' = ft /\ next_timeout' = nt
  /\ timeout' = ft /\ timeout_error' = "TIMEOUT_START" /\ quiet' = 0
  /\ result' = "OK"
  /\ UNCHANGED <<arrived, fetched, buffer, size, unplugged, gone, pc, sendVars>>

(* A call that needs the transport: what the buffer holds is copied out,   *)
(* the buffer is reset, and polling starts with the first timeout.         *)
StartPolling(n, ft, nt) ==
  /\ pc = "idle"
  /\ n > Left
  /\ pc' = "receiving"
  /\ out' = [i \in 1 .. Left |-> buffer[start + i]]
  /\ wanted' = n /\ missing' = n - Left /\ base' = Position
  /\ start' = 0 /\ size' = 0
  /\ first_timeout' = ft /\ next_timeout' = nt
  /\ timeout' = ft /\ timeout_error' = "TIMEOUT_START" /\ quiet' = 0
  /\ result' = "none"
  /\ UNCHANGED <<arrived, fetched, buffer, unplugged, gone, sendVars>>

(* One turn of the loop: the transport has returned n > 0 bytes, and the   *)
(* receive buffer is then filled.  What the caller does not need stays in  *)
(* the receive buffer.                                                     *)
Got(n, filled) ==
  LET taken == IF n >= missing THEN missing ELSE n
  IN /\ pc = "receiving"
     /\ fetched' = fetched + n
     /\ buffer' = filled
     /\ out' = Filled(out, wanted - missing, filled, taken)
     /\ missing' = missing - taken
     /\ timeout' = next_timeout /\ timeout_error' = "TIMEOUT" /\ quiet' = 0
     /\ IF n >= missing
        THEN start' = missing /\ size' = n /\ pc' = "idle" /\ result' = "OK"
        ELSE UNCHANGED <<start, size, pc, result>>
     /\ UNCHANGED <<arrived, unplugged, gone, wanted, base, first_timeout,
                    next_timeout, sendVars>>

(* The transport returns the next n bytes of the stream.                   *)
PollBytes(n) ==
  /\ n <= arrived - fetched
  /\ Got(n, [i \in 1 .. BufferSize |-> IF i <= n THEN fetched + i ELSE buffer[i]])

(* The reception gives up; what it has copied out so far is lost.          *)
Fail(error) ==
  /\ pc' = "idle"
  /\ result' = error
  /\ UNCHANGED <<arrived, bufferVars, unplugged, wanted, missing, out, base,
                 first_timeout, next_timeout, timeout_error, sendVars>>

(* Mutants of PollNothing: a turn that leaves one millisecond is taken for *)
(* the last, and one that leaves none starts the timeout again.            *)
PollNothingEarly(d) ==
  /\ pc = "receiving"
  /\ timeout > 0
  /\ quiet' = quiet + d
  /\ Fail(timeout_error)
  /\ d + 1 >= timeout
  /\ UNCHANGED <<timeout, gone>>

PollNothingAgain(d) ==
  /\ pc = "receiving"
  /\ timeout > 0
  /\ IF d >= timeout THEN timeout' = Limit /\ quiet' = 0
     ELSE timeout' = timeout - d /\ quiet' = quiet + d
  /\ UNCHANGED <<arrived, bufferVars, unplugged, gone, pc, result, wanted,
                 missing, out, base, first_timeout, next_timeout,
                 timeout_error, sendVars>>

(* One turn in which the transport returns no byte after d milliseconds:   *)
(* the next turn takes d from a limited timeout.  (With an unlimited one   *)
(* nothing changes.)                                                       *)
PollNothing(d) ==
  /\ pc = "receiving"
  /\ timeout > 0
  /\ quiet' = quiet + d
  /\ IF d >= timeout
     THEN Fail(timeout_error) /\ UNCHANGED <<timeout, gone>>
     ELSE /\ timeout' = timeout - d
          /\ UNCHANGED <<arrived, bufferVars, unplugged, gone, pc, result,
                         wanted, missing, out, base, first_timeout,
                         next_timeout, timeout_error, sendVars>>

(* The transport reports after w milliseconds that its own timeout ran     *)
(* out, or that it would have run out by the time it looked again.         *)
PollTimesOut(w) ==
  /\ pc = "receiving"
  /\ timeout > 0
  /\ fetched = arrived
  /\ w + Earliness >= timeout
  /\ quiet' = quiet + w
  /\ Fail(timeout_error)
  /\ UNCHANGED <<timeout, gone>>

(* The transport reports that the device is gone, or any other error.      *)
PollFails ==
  /\ pc = "receiving"
  /\ \/ unplugged /\ gone' = TRUE /\ Fail("GONE")
     \/ gone' = gone /\ Fail("UNKNOWN")
  /\ UNCHANGED <<timeout, quiet>>

Poll ==
  \/ \E n \in 1 .. BufferSize : PollBytes(n)
  \/ \E d \in 1 .. timeout + 1 : PollNothing(d)
  \/ \E w \in 0 .. timeout : PollTimesOut(w)
  \/ PollFails

-----------------------------------------------------------------------------
(* cahute_send_on_link_transport: the message is the bytes 1, 2, ..., n.   *)

StartSending(n) ==
  /\ pc = "idle"
  /\ n > 0
  /\ pc' = "sending"
  /\ message' = n /\ cursor' = 0 /\ unsent' = n /\ wire' = Empty
  /\ UNCHANGED <<arrived, bufferVars, unplugged, gone, receiveVars>>

(* Mutant of SendSome: the next write starts from the beginning again.     *)
SendSomeAgain(k) ==
  /\ pc = "sending"
  /\ k <= unsent
  /\ wire' = Filled(wire, message - unsent, [j \in 1 .. unsent |-> cursor + j], k)
  /\ unsent' = unsent - k
  /\ IF k >= unsent THEN pc' = "idle" ELSE UNCHANGED pc
  /\ UNCHANGED <<arrived, bufferVars, unplugged, gone, receiveVars, message, cursor>>

(* The system takes k of the bytes it is offered; the function goes on     *)
(* with the others, for as long as the system keeps taking none.           *)
SendSome(k) ==
  /\ pc = "sending"
  /\ k <= unsent
  /\ wire' = Filled(wire, message - unsent, [j \in 1 .. unsent |-> cursor + j], k)
  /\ IF k >= unsent
     THEN pc' = "idle" /\ unsent' = 0 /\ UNCHANGED cursor
     ELSE UNCHANGED pc /\ unsent' = unsent - k /\ cursor' = cursor + k
  /\ UNCHANGED <<arrived, bufferVars, unplugged, gone, receiveVars, message>>

SendFails ==
  /\ pc = "sending"
  /\ pc' = "idle"
  /\ \/ unplugged /\ gone' = TRUE
     \/ gone' = gone
  /\ UNCHANGED <<arrived, bufferVars, unplugged, receiveVars, sendVars>>

-----------------------------------------------------------------------------
Receive == \E n \in Sizes, ft, nt \in Timeouts :
             ReceiveFromBuffer(n, ft, nt) \/ StartPolling(n, ft, nt)

Send == \/ \E n \in Sizes : StartSending(n)
        \/ \E k \in 0 .. unsent : SendSome(k)
        \/ SendFails

Next == PeerSends \/ Unplug \/ Receive \/ Poll \/ Send

(* A system call that was made returns within its timeout, so a reception  *)
(* in progress keeps making turns.  Nothing is promised of the peer.       *)
Fairness == WF_vars(Poll)

Spec == Init /\ [][Next]_vars /\ Fairness

-----------------------------------------------------------------------------
TypeOK ==
  /\ arrived \in 0 .. StreamLength /\ fetched \in 0 .. arrived
  /\ buffer \in [1 .. BufferSize -> 0 .. StreamLength]
  /\ size \in 0 .. BufferSize /\ start \in 0 .. size
  /\ unplugged \in BOOLEAN /\ gone \in BOOLEAN
  /\ pc \in {"idle", "receiving", "sending"} /\ result \in Results
  /\ wanted \in Nat /\ missing \in 0 .. wanted /\ base \in Nat
  /\ out \in [1 .. wanted - missing -> 0 .. StreamLength]
  /\ first_timeout \in Nat /\ next_timeout \in Nat
  /\ timeout \in Nat /\ timeout_error \in TimeoutErrors /\ quiet \in Nat
  /\ message \in Nat /\ cursor \in Nat /\ unsent \in 0 .. message
  /\ wire \in [1 .. message - unsent -> Nat]

(* Whatever a reception has copied out is the peer's stream, in order,     *)
(* with no byte lost, repeated or stale; a reception that succeeds has     *)
(* copied all it was asked for, and the next one starts right after it:    *)
(* receive.c lines 72-105 and 196-211 move bytes between three buffers     *)
(* and two counters.                                                       *)
ReceivesTheStream ==
  /\ \A i \in 1 .. wanted - missing : out[i] = base + i
  /\ result = "OK" => missing = 0 /\ Position = base + wanted

(* The bytes left in the receive buffer are exactly those the next         *)
(* reception must start with, also after a failed reception or an          *)
(* interleaved transmission.                                               *)
BufferHoldsTheRest ==
  /\ size <= fetched
  /\ \A i \in start + 1 .. size : buffer[i] = fetched - size + i

TimeoutKept(early) ==
  /\ result \in TimeoutErrors => Limit > 0 /\ quiet + early >= Limit
  /\ pc = "receiving" /\ Limit > 0 => quiet < Limit

(* A timeout is reported only after the timeout the caller asked for has   *)
(* gone by without a byte, but for what the stream may give up before it,  *)
(* however the wait was cut into turns, and no turn is started past it     *)
(* (receive.c lines 129-143).                                              *)
TimeoutIsKept == TimeoutKept(Earliness)

(* What reaches the wire is the message from its first byte, in order and  *)
(* without repetition, whatever the partial writes (send.c lines 55-82).   *)
SendsTheMessage ==
  \A i \in 1 .. message - unsent : wire[i] = i

(* With limited timeouts a reception comes to an end, also when the        *)
(* transport keeps returning without a byte.                               *)
ReceptionEnds ==
  (pc = "receiving" /\ first_timeout > 0 /\ next_timeout > 0) ~> (pc # "receiving")

-----------------------------------------------------------------------------
(* The inductive invariant behind the safety properties.                   *)

(* While polling, the receive buffer is empty, what is missing starts      *)
(* where the copied part ends, and the timeout left plus the silence so    *)
(* far is the timeout the caller gave.                                     *)
PollingState ==
  pc = "receiving" =>
    /\ start = 0 /\ size = 0 /\ missing > 0 /\ result = "none"
    /\ Position = base + wanted - missing
    /\ quiet + timeout = Limit
    /\ timeout = 0 => Limit = 0

(* While sending, the next write starts where the previous one stopped.    *)
SendingState ==
  pc = "sending" => unsent > 0 /\ cursor = message - unsent

IInv ==
  /\ TypeOK /\ ReceivesTheStream /\ BufferHoldsTheRest
  /\ PollingState /\ TimeoutIsKept /\ SendingState /\ SendsTheMessage

=============================================================================
