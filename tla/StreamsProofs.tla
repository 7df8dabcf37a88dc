--------------------------- MODULE StreamsProofs ----------------------------
(* Proofs that the streams do what LinkTransport expects of the system,    *)
(* and that the transport's guarantees hold over them, also when a failure *)
(* of a stream loses bytes.                                                *)
EXTENDS Streams, LinkTransportProofs

USE BufferSizeAssumption, SizesAssumption, TimeoutsAssumption,
    StreamLengthAssumption, KindsAssumption, DelayAssumption, MaxGivenAssumption,
    EarlinessAssumption, UmsEarliness

(* What the bounds of a request are, in the form the provers use.          *)
LEMMA Bounds ==
  ASSUME SInv
  PROVE  /\ arrived \in Nat /\ fetched \in Nat /\ Held \in Nat
         /\ fetched + Held = arrived
         /\ Smaller(Held, BufferSize) \in 0 .. BufferSize
         /\ Smaller(Held, BufferSize) <= Held
         /\ Held > 0 => Smaller(Held, BufferSize) > 0
         /\ timeout \in Nat /\ unsent \in Nat /\ taken \in Nat /\ waited \in Nat
BY DEF SInv, IInv, TypeOK, Held, Smaller, RequestState

(* A reception on Mass Storage has a limited timeout.                      *)
LEMMA LimitedTimeout ==
  ASSUME SInv, kind = "ums", pc = "receiving"
  PROVE  timeout > 0
<1>1. Limit > 0
  BY DEF SInv, LimitedOnUms, Limit
<1>2. timeout \in Nat /\ (timeout = 0 => Limit = 0)
  BY DEF SInv, IInv, TypeOK, PollingState
<1> QED
  BY <1>1, <1>2

(* The answer of a whole request is that of one poll.                      *)
LEMMA ReturnsImplement == SInv /\ UmsReturns => Poll
<1> SUFFICES ASSUME SInv, UmsReturns PROVE Poll
  OBVIOUS
<1>1. /\ avail \in 1 .. BufferSize /\ avail <= arrived - fetched
      /\ \A i \in 1 .. avail : transfer[i] = fetched + i
  BY DEF SInv, RequestState, UmsReturns, OnUms, Held
<1>2. [i \in 1 .. BufferSize |-> IF i <= avail THEN transfer[i] ELSE buffer[i]]
        = [i \in 1 .. BufferSize |-> IF i <= avail THEN fetched + i ELSE buffer[i]]
  BY <1>1
<1>3. PollBytes(avail)
  BY <1>1, <1>2 DEF UmsReturns, PollBytes
<1> QED
  BY <1>1, <1>3 DEF Poll

(* Every step of a stream in a reception is a poll, loses what it had      *)
(* taken, or is not seen by the transport.                                 *)
LEMMA ReceivesImplement == SInv /\ StreamReceives => Poll \/ Drops \/ UNCHANGED vars
<1> SUFFICES ASSUME SInv, StreamReceives PROVE Poll \/ Drops \/ UNCHANGED vars
  OBVIOUS
<1>1. CASE SerialReceives
  <2>1. Held > 0 => Smaller(Held, BufferSize) \in 1 .. BufferSize
    BY Bounds
  <2>2. timeout \in 0 .. timeout
    BY Bounds
  <2> QED
    BY <1>1, <2>1, <2>2 DEF SerialReceives, Poll
<1>2. CASE BulkReceives
  <2>1. \A n \in 1 .. Smaller(Held, BufferSize) : n \in 1 .. BufferSize
    BY Bounds
  <2>2. timeout \in 0 .. timeout
    BY Bounds
  <2> QED
    BY <1>2, <2>1, <2>2 DEF BulkReceives, Poll
<1>3. CASE UmsReceives
  <2>1. CASE UmsAsksForData
    BY <2>1 DEF UmsAsksForData
  <2>2. ASSUME NEW d \in 0 .. 1, UmsWaits(d)
        PROVE  UNCHANGED vars
    BY <2>2 DEF UmsWaits
  <2>3. ASSUME NEW d \in 0 .. 1, UmsTimesOut(d)
        PROVE  waited + d \in 0 .. timeout /\ PollTimesOut(waited + d)
    <3>1. timeout > 0 /\ fetched = arrived /\ pc = "receiving"
      BY <2>3, LimitedTimeout, Bounds DEF UmsTimesOut, OnUms
    <3>2. /\ waited + d \in 0 .. timeout /\ waited + d + Earliness >= timeout
          /\ quiet + waited + d = quiet + (waited + d)
      <4>1. waited \in Nat /\ timeout \in Nat /\ (waited > 0 => waited < timeout)
        BY DEF SInv, IInv, TypeOK, RequestState
      <4>2. waited + d + UMSSTATUSDELAY >= timeout
        BY <2>3 DEF UmsTimesOut
      <4>3. quiet \in Nat
        BY DEF SInv, IInv, TypeOK
      <4> QED
        BY <3>1, <4>1, <4>2, <4>3
    <3>3. quiet' = quiet + (waited + d)
      BY <2>3, <3>2 DEF UmsTimesOut
    <3> QED
      BY <2>3, <3>1, <3>2, <3>3 DEF UmsTimesOut, PollTimesOut
  <2>4. ASSUME NEW k \in 1 .. BufferSize, UmsTakes(k)
        PROVE  UNCHANGED vars
    BY <2>4 DEF UmsTakes
  <2>5. CASE UmsReturns
    BY <2>5, ReturnsImplement
  <2>6. CASE UmsFails
    <3>1. CASE taken > 0
      BY <2>6, <3>1 DEF Drops
    <3>2. CASE taken = 0
      <4>1. fetched' = fetched
        BY <2>6, <3>2, Bounds DEF UmsFails
      <4>2. PollFails
        BY <2>6, <4>1 DEF UmsFails, PollFails, Fail, bufferVars
      <4> QED
        BY <4>2 DEF Poll
    <3> QED
      BY <3>1, <3>2, Bounds
  <2> QED
    BY <1>3, <2>1, <2>2, <2>3, <2>4, <2>5, <2>6 DEF UmsReceives, RequestTimes, Poll
<1> QED
  BY <1>1, <1>2, <1>3 DEF StreamReceives

(* Every write of a stream is a write of the transport.                    *)
LEMMA SendsImplement == SInv /\ StreamSends => Send \/ UNCHANGED vars
<1> SUFFICES ASSUME SInv, StreamSends PROVE Send \/ UNCHANGED vars
  OBVIOUS
<1>1. Smaller(unsent, MaxGiven) \in 0 .. unsent
  BY Bounds DEF Smaller
<1> QED
  BY <1>1 DEF StreamSends, Send

(* Every step of the streams is one of the transport, a loss, or nothing.  *)
LEMMA StepImplements ==
  SInv /\ [StreamsNext]_<<vars, streamVars>> => [Next \/ Drops]_vars
<1> SUFFICES ASSUME SInv, [StreamsNext]_<<vars, streamVars>>
             PROVE  Next \/ Drops \/ UNCHANGED vars
  OBVIOUS
<1>1. CASE Device
  BY <1>1 DEF Device, Next
<1>2. CASE Calls
  BY <1>2 DEF Calls, Next, Send, Receive
<1>3. CASE StreamReceives
  BY <1>3, ReceivesImplement DEF Next
<1>4. CASE BulkDrops
  BY <1>4 DEF Drops
<1>5. CASE StreamSends
  BY <1>5, SendsImplement DEF Next
<1> QED
  BY <1>1, <1>2, <1>3, <1>4, <1>5 DEF StreamsNext

-----------------------------------------------------------------------------
(* A loss ends the reception, and leaves the receive buffer empty.         *)
LEMMA DropsPreserve == SInv /\ Drops => IInv'
<1> SUFFICES ASSUME SInv, Drops PROVE IInv'
  OBVIOUS
<1>0. TypeOK /\ ReceivesTheStream /\ PollingState /\ TimeoutIsKept /\ SendsTheMessage
  BY DEF SInv, IInv
<1>1. /\ pc = "receiving" /\ pc' = "idle" /\ size = 0 /\ start = 0
      /\ UNCHANGED <<arrived, buffer, start, size, unplugged, wanted, missing, out,
                     base, first_timeout, next_timeout, timeout, timeout_error, sendVars>>
  BY <1>0 DEF Drops, BulkDrops, UmsFails, PollingState
<1>2. fetched' \in 0 .. arrived
  <2>1. CASE BulkDrops
    BY <2>1, Bounds DEF BulkDrops
  <2>2. CASE UmsFails
    <3>1. taken <= Held
      BY Bounds DEF SInv, RequestState, IInv, TypeOK
    <3>2. fetched' = fetched + taken
      BY <2>2 DEF UmsFails
    <3> QED
      BY <3>1, <3>2, Bounds
  <2> QED
    BY <2>1, <2>2 DEF Drops
<1>3. /\ gone' \in BOOLEAN /\ result' \in Results \ {"OK", "none"} /\ quiet' \in Nat
      /\ result' \in TimeoutErrors => Limit > 0 /\ quiet' + Earliness >= Limit
  <2>1. CASE BulkDrops
    <3>1. /\ timeout > 0 /\ quiet' = quiet + timeout /\ gone' = gone
          /\ result' = timeout_error /\ pc = "receiving"
      BY <2>1 DEF BulkDrops
    <3>2. quiet + timeout = Limit /\ quiet \in Nat /\ timeout \in Nat /\ gone \in BOOLEAN
          /\ timeout_error \in TimeoutErrors
      BY <1>0, <3>1 DEF PollingState, TypeOK
    <3> QED
      BY <3>1, <3>2 DEF TimeoutErrors, Results
  <2>2. CASE UmsFails
    BY <1>0, <2>2 DEF UmsFails, TypeOK, Results, TimeoutErrors
  <2> QED
    BY <2>1, <2>2 DEF Drops
<1>4. TypeOK'
  BY <1>0, <1>1, <1>2, <1>3 DEF TypeOK, sendVars, Results, TimeoutErrors
<1>5. ReceivesTheStream' /\ BufferHoldsTheRest'
  BY <1>0, <1>1, <1>2, <1>3 DEF ReceivesTheStream, BufferHoldsTheRest, TypeOK
<1>6. PollingState' /\ TimeoutIsKept'
  BY <1>1, <1>3 DEF PollingState, TimeoutIsKept, TimeoutKept, Limit
<1>7. SendingState' /\ SendsTheMessage'
  BY <1>0, <1>1 DEF SendingState, SendsTheMessage, sendVars
<1> QED
  BY <1>4, <1>5, <1>6, <1>7 DEF IInv

(* Arithmetic for the bytes the device holds.                              *)
LEMMA DifferenceIsNat ==
  ASSUME NEW a \in Nat, NEW b \in 0 .. a
  PROVE  a - b \in Nat
OBVIOUS

LEMMA LaterDifference ==
  ASSUME NEW a \in Nat, NEW b \in Nat, NEW n \in Nat, n <= a - b,
         NEW c, c = a \/ c = a + 1
  PROVE  n <= c - b
OBVIOUS

(* No request is in progress once one has ended.                           *)
LEMMA NoneInProgress == SInv /\ IInv' /\ RequestEnds => RequestState'
<1> SUFFICES ASSUME SInv, IInv', RequestEnds PROVE RequestState'
  OBVIOUS
<1>1. Held' \in Nat
  <2>1. arrived' \in Nat /\ fetched' \in 0 .. arrived'
    BY DEF IInv, TypeOK
  <2> QED
    BY <2>1, DifferenceIsNat DEF Held
<1>2. /\ kind' = kind /\ phase' = "none" /\ waited' = 0 /\ avail' = 0 /\ taken' = 0
      /\ transfer' = [i \in 1 .. 0 |-> 0]
  BY DEF RequestEnds, Empty
<1>3. transfer' = [i \in 1 .. taken' |-> fetched' + i]
  BY <1>2
<1> QED
  BY <1>1, <1>2, <1>3 DEF RequestState

(* Nor does one disturb the others: a step that only makes the device send *)
(* more, or that is not the system's, leaves the request as it is.         *)
LEMMA RequestUntouched ==
  ASSUME SInv, UNCHANGED streamVars, fetched' = fetched, avail <= Held',
         phase # "none" => pc' = pc,
         waited > 0 => pc' = pc /\ timeout' = timeout
  PROVE  RequestState'
<1>1. UNCHANGED <<kind, phase, avail, taken, transfer, waited>>
  BY DEF streamVars, requestVars
<1> QED
  BY <1>1 DEF SInv, RequestState

(* Bytes are added after those a transfer has brought.                     *)
LEMMA TakesPreserve ==
  ASSUME SInv, NEW k \in 1 .. BufferSize, UmsTakes(k)
  PROVE  RequestState'
<1>1. /\ kind = "ums" /\ pc = "receiving" /\ k <= avail - taken
      /\ transfer' = Filled(transfer, taken, [j \in 1 .. k |-> fetched + taken + j], k)
      /\ taken' = taken + k /\ kind' = kind /\ avail' = avail /\ waited' = waited
      /\ phase' = IF taken + k = avail THEN "status" ELSE "data"
  BY DEF UmsTakes, OnUms
<1>2. UNCHANGED <<arrived, fetched, pc>>
  BY DEF UmsTakes, vars, bufferVars
<1>3. /\ avail \in 1 .. BufferSize /\ taken \in 0 .. avail /\ avail <= Held
      /\ transfer = [i \in 1 .. taken |-> fetched + i] /\ waited \in Nat
      /\ fetched \in Nat
  BY <1>1, Bounds DEF SInv, RequestState, UmsTakes, OnUms
<1>4. transfer' = [i \in 1 .. taken + k |-> fetched + i]
  <2>1. \A i \in 1 .. taken + k :
          (IF i <= taken THEN transfer[i]
           ELSE [j \in 1 .. k |-> fetched + taken + j][i - taken]) = fetched + i
    BY <1>3
  <2> QED
    BY <1>1, <2>1 DEF Filled
<1>5. avail' <= Held'
  BY <1>1, <1>2, <1>3 DEF Held
<1>6. transfer' = [i \in 1 .. taken' |-> fetched' + i]
  BY <1>1, <1>2, <1>4
<1>7. /\ taken' \in 0 .. avail' /\ avail' \in 1 .. BufferSize
      /\ phase' = "status" => taken' = avail'
      /\ phase' = "data" => taken' < avail'
      /\ phase' \in {"data", "status"} /\ pc' = "receiving" /\ kind' = "ums"
      /\ waited' \in Nat
  BY <1>1, <1>2, <1>3
<1>8. waited' > 0 => waited' < timeout'
  <2>1. timeout' = timeout
    BY DEF UmsTakes, vars, receiveVars
  <2> QED
    BY <1>1, <2>1 DEF SInv, RequestState
<1> QED
  BY <1>5, <1>6, <1>7, <1>8 DEF RequestState

(* Every step leaves the request in a state it can be in.                  *)
LEMMA RequestPreserved ==
  SInv /\ IInv' /\ [StreamsNext]_<<vars, streamVars>> => RequestState'
<1> SUFFICES ASSUME SInv, IInv', [StreamsNext]_<<vars, streamVars>>
             PROVE  RequestState'
  OBVIOUS
<1>0. /\ arrived \in Nat /\ fetched \in Nat /\ arrived' \in Nat
      /\ fetched' \in 0 .. arrived'
  BY Bounds DEF IInv, TypeOK
<1>1. CASE Device
  <2>1. fetched' = fetched /\ pc' = pc /\ (arrived' = arrived \/ arrived' = arrived + 1)
    BY <1>0, <1>1 DEF Device, PeerSends, Unplug, bufferVars
  <2>2. avail <= arrived - fetched /\ avail \in Nat
    BY DEF SInv, RequestState, Held
  <2>3. avail <= Held'
    <3>1. avail <= arrived' - fetched
      BY <1>0, <2>1, <2>2, LaterDifference
    <3> QED
      BY <2>1, <3>1 DEF Held
  <2>4. timeout' = timeout
    BY <1>1 DEF Device, PeerSends, Unplug, receiveVars
  <2> QED
    BY <1>1, <2>1, <2>3, <2>4, RequestUntouched DEF Device
<1>2. CASE Calls
  <2>1. fetched' = fetched /\ arrived' = arrived /\ pc = "idle"
    BY <1>2 DEF Calls, StartSending, ReceiveFromBuffer, StartPolling, bufferVars
  <2>2. phase = "none"
    BY <2>1 DEF SInv, RequestState
  <2>3. avail <= Held' /\ ~(waited > 0)
    BY <2>1 DEF SInv, RequestState, Held
  <2> QED
    BY <1>2, <2>1, <2>2, <2>3, RequestUntouched DEF Calls
<1>3. CASE SerialReceives \/ BulkReceives \/ BulkDrops
  <2>1. UNCHANGED streamVars /\ kind \in {"serial", "bulk"} /\ pc = "receiving"
    BY <1>3 DEF SerialReceives, BulkReceives, BulkDrops, PollBytes, Got, PollNothing,
                PollTimesOut, PollFails
  <2>2. phase = "none" /\ avail = 0 /\ taken = 0 /\ ~(waited > 0)
    BY <2>1 DEF SInv, RequestState
  <2>3. transfer = [i \in 1 .. 0 |-> fetched' + i]
    <3>1. [i \in 1 .. 0 |-> fetched + i] = [i \in 1 .. 0 |-> fetched' + i]
      OBVIOUS
    <3> QED
      BY <2>2, <3>1 DEF SInv, RequestState
  <2>4. Held' \in Nat
    BY <1>0, DifferenceIsNat DEF Held
  <2> QED
    BY <2>1, <2>2, <2>3, <2>4 DEF streamVars, requestVars, SInv, RequestState
<1>4. CASE UmsReceives
  <2>1. CASE UmsAsksForData
    <3>1. /\ kind = "ums" /\ pc = "receiving" /\ Held > 0 /\ phase = "none"
          /\ phase' = "data" /\ avail' = Smaller(Held, BufferSize)
          /\ UNCHANGED <<kind, taken, transfer, waited>>
      BY <2>1 DEF UmsAsksForData, OnUms
    <3>2. UNCHANGED <<arrived, fetched, pc, timeout>>
      BY <2>1 DEF UmsAsksForData, vars, bufferVars, receiveVars
    <3>3. /\ taken = 0 /\ transfer = [i \in 1 .. taken |-> fetched + i]
          /\ waited \in Nat /\ (waited > 0 => waited < timeout)
      BY <3>1 DEF SInv, RequestState
    <3> QED
      BY <3>1, <3>2, <3>3, Bounds DEF RequestState, Held
  <2>2. ASSUME NEW d \in 0 .. 1, UmsWaits(d)
        PROVE  RequestState'
    <3>1. UNCHANGED <<arrived, fetched, pc, kind, phase, avail, taken, transfer>>
      BY <2>2 DEF UmsWaits, vars, bufferVars
    <3>2. waited' \in Nat /\ waited' < timeout /\ kind = "ums" /\ pc = "receiving"
      BY <2>2, Bounds DEF UmsWaits, OnUms
    <3>3. timeout' = timeout
      BY <2>2 DEF UmsWaits, vars, receiveVars
    <3> QED
      BY <3>1, <3>2, <3>3 DEF SInv, RequestState, Held
  <2>3. ASSUME NEW d \in 0 .. 1, UmsTimesOut(d)
        PROVE  RequestState'
    BY <2>3, NoneInProgress DEF UmsTimesOut
  <2>4. ASSUME NEW k \in 1 .. BufferSize, UmsTakes(k)
        PROVE  RequestState'
    BY <2>4, TakesPreserve
  <2>5. CASE UmsReturns
    BY <2>5, NoneInProgress DEF UmsReturns
  <2>6. CASE UmsFails
    BY <2>6, NoneInProgress DEF UmsFails
  <2> QED
    BY <1>4, <2>1, <2>2, <2>3, <2>4, <2>5, <2>6 DEF UmsReceives, RequestTimes
<1>5. CASE StreamSends
  <2>1. CASE kind # "ums" /\ (\E k \in 0 .. unsent : SendSome(k)) /\ UNCHANGED streamVars
    <3>1. UNCHANGED <<arrived, fetched>> /\ phase # "give" /\ pc = "sending"
      BY <2>1 DEF SendSome, bufferVars, SInv, RequestState
    <3>2. phase = "none"
      BY <3>1 DEF SInv, RequestState
    <3>3. avail <= Held' /\ ~(waited > 0)
      BY <3>1 DEF SInv, RequestState, Held
    <3> QED
      BY <2>1, <3>1, <3>2, <3>3, RequestUntouched
  <2>2. CASE /\ kind = "ums" /\ pc = "sending" /\ phase = "none" /\ phase' = "give"
             /\ UNCHANGED <<vars, kind, avail, taken, transfer, waited>>
    <3>1. UNCHANGED <<arrived, fetched, pc>>
      BY <2>2 DEF vars, bufferVars
    <3> QED
      BY <2>2, <3>1 DEF SInv, RequestState, Held
  <2>3. CASE RequestEnds
    BY <2>3, NoneInProgress
  <2> QED
    BY <1>5, <2>1, <2>2, <2>3 DEF StreamSends
<1>6. CASE UNCHANGED <<vars, streamVars>>
  <2>1. UNCHANGED <<arrived, fetched, pc, kind, phase, avail, taken, transfer, waited, timeout>>
    BY <1>6 DEF vars, bufferVars, receiveVars, streamVars, requestVars
  <2> QED
    BY <2>1 DEF SInv, RequestState, Held
<1> QED
  BY <1>1, <1>2, <1>3, <1>4, <1>5, <1>6 DEF StreamsNext, StreamReceives

(* The timeouts of a reception do not change while it is in progress.      *)
LEMMA LimitsPreserved ==
  ASSUME SInv, UnlimitedOnUms = FALSE, [StreamsNext]_<<vars, streamVars>>
  PROVE  LimitedOnUms'
<1>1. CASE UNCHANGED <<kind, first_timeout, next_timeout>> /\ pc = "receiving"
  BY <1>1 DEF SInv, LimitedOnUms
<1>2. CASE pc' # "receiving"
  BY <1>2 DEF LimitedOnUms
<1>3. CASE Calls
  <2>1. kind' = kind
    BY <1>3 DEF Calls, streamVars
  <2>2. CASE \E n \in Sizes, ft, nt \in Timeouts :
               /\ kind = "ums" => UnlimitedOnUms \/ (ft > 0 /\ nt > 0)
               /\ StartPolling(n, ft, nt)
    BY <2>1, <2>2 DEF StartPolling, LimitedOnUms
  <2>3. CASE \E n \in Sizes : StartSending(n)
    BY <2>3, <1>2 DEF StartSending
  <2>4. CASE \E n \in Sizes, ft, nt \in Timeouts : ReceiveFromBuffer(n, ft, nt)
    BY <2>4, <1>2 DEF ReceiveFromBuffer
  <2> QED
    BY <1>3, <2>2, <2>3, <2>4 DEF Calls
<1>4. CASE Device \/ UNCHANGED <<vars, streamVars>>
  <2>1. UNCHANGED <<kind, pc, first_timeout, next_timeout>>
    BY <1>4 DEF Device, PeerSends, Unplug, vars, receiveVars, streamVars
  <2> QED
    BY <2>1 DEF SInv, LimitedOnUms
<1>5. CASE StreamReceives \/ BulkDrops
  <2>1. \/ UNCHANGED <<kind, first_timeout, next_timeout>> /\ pc = "receiving"
        \/ pc' # "receiving"
    BY <1>5 DEF StreamReceives, SerialReceives, BulkReceives, UmsReceives, BulkDrops,
       UmsAsksForData, UmsWaits, UmsTimesOut, UmsTakes, UmsReturns, UmsFails, OnUms,
       PollBytes, Got, PollNothing, PollTimesOut, PollFails, Fail, RequestEnds,
       vars, receiveVars, streamVars
  <2> QED
    BY <1>1, <1>2, <2>1
<1>6. CASE StreamSends
  <2>1. pc = "sending" /\ pc' \in {"idle", "sending"}
    BY <1>6 DEF StreamSends, SendSome, SendFails, vars, SInv, IInv, RequestState
  <2> QED
    BY <1>2, <2>1
<1> QED
  BY <1>3, <1>4, <1>5, <1>6 DEF StreamsNext

(* The inductive invariant of the transport over the streams.              *)
THEOREM StreamsInvariance ==
  ASSUME UnlimitedOnUms = FALSE
  PROVE  StreamsSpec => []SInv
<1>1. StreamsInit => SInv
  <2> SUFFICES ASSUME StreamsInit PROVE SInv
    OBVIOUS
  <2>1. IInv
    BY InitEstablishes DEF StreamsInit
  <2>2. fetched = 0 /\ arrived = 0 /\ pc = "idle"
    BY DEF StreamsInit, Init
  <2>3. Empty = [i \in 1 .. 0 |-> fetched + i]
    BY DEF Empty
  <2>4. RequestState
    BY <2>2, <2>3 DEF StreamsInit, NoRequest, RequestState, Held
  <2> QED
    BY <2>1, <2>2, <2>4 DEF SInv, LimitedOnUms
<1>2. SInv /\ [StreamsNext]_<<vars, streamVars>> => SInv'
  <2> SUFFICES ASSUME SInv, [StreamsNext]_<<vars, streamVars>> PROVE SInv'
    OBVIOUS
  <2>1. IInv'
    BY StepImplements, StepPreserves, DropsPreserve DEF SInv
  <2> QED
    BY <2>1, RequestPreserved, LimitsPreserved DEF SInv
<1> QED
  BY <1>1, <1>2, PTL DEF StreamsSpec

(* Over each of the streams the transport sees what LinkTransport says the *)
(* system may do, or the failure of a stream that loses bytes.             *)
THEOREM StreamsImplement ==
  ASSUME UnlimitedOnUms = FALSE
  PROVE  StreamsSpec => ImplementsLinkTransport
<1>1. StreamsInit => Init
  BY DEF StreamsInit
<1> QED
  BY <1>1, StepImplements, StreamsInvariance, PTL DEF StreamsSpec, ImplementsLinkTransport

-----------------------------------------------------------------------------
(* A reception that ends with the last of its timeout has waited for all   *)
(* of it.                                                                  *)
LEMMA WholeTimeout ==
  ASSUME IInv, IInv', NEW early \in Nat, pc = "receiving", timeout > 0,
         UNCHANGED <<first_timeout, next_timeout, timeout_error>>,
         quiet' + early >= quiet + timeout
  PROVE  TimeoutKept(early)'
<1>1. /\ quiet + timeout = Limit /\ quiet \in Nat /\ timeout \in Nat /\ Limit \in Nat
      /\ quiet' \in Nat /\ Limit' = Limit
  <2>1. /\ quiet \in Nat /\ timeout \in Nat /\ quiet' \in Nat
        /\ first_timeout \in Nat /\ next_timeout \in Nat
    BY DEF IInv, TypeOK
  <2>2. quiet + timeout = Limit
    BY DEF IInv, PollingState
  <2> QED
    BY <2>1, <2>2 DEF Limit
<1>2. Limit' > 0 /\ quiet' + early >= Limit'
  <2>1. quiet' + early >= quiet + timeout /\ timeout > 0
    OBVIOUS
  <2>2. Limit > 0 /\ quiet' + early >= Limit
    <3>1. quiet \in Nat /\ timeout \in Nat /\ Limit \in Nat /\ quiet' \in Nat
      BY <1>1
    <3>2. quiet + timeout = Limit
      BY <1>1
    <3>3. Limit > 0
      BY <2>1, <3>1, <3>2
    <3>4. quiet' + early >= Limit
      BY <2>1, <3>1, <3>2
    <3> QED
      BY <3>3, <3>4
  <2> QED
    BY <1>1, <2>2
<1> QED
  BY <1>2 DEF IInv, TimeoutIsKept, TimeoutKept

(* Nor does a step that reports no timeout make one wrong.                 *)
LEMMA NoTimeout ==
  ASSUME IInv', NEW early \in Nat, TimeoutKept(early),
         result' \notin TimeoutErrors \/ UNCHANGED receiveVars
  PROVE  TimeoutKept(early)'
BY DEF IInv, TimeoutIsKept, TimeoutKept, receiveVars, Limit

(* Turns without a byte report the whole timeout.                          *)
LEMMA NothingKeepsTime ==
  ASSUME IInv, IInv', NEW early \in Nat, TimeoutKept(early),
         \/ \E d \in 1 .. timeout + 1 : PollNothing(d)
         \/ PollTimesOut(timeout)
         \/ PollFails
  PROVE  TimeoutKept(early)'
<1>0. timeout \in Nat /\ quiet \in Nat
  BY DEF IInv, TypeOK
<1>1. ASSUME NEW d \in 1 .. timeout + 1, PollNothing(d)
      PROVE  TimeoutKept(early)'
  <2>1. CASE d >= timeout
    <3>1. /\ pc = "receiving" /\ timeout > 0 /\ quiet' = quiet + d
          /\ UNCHANGED <<first_timeout, next_timeout, timeout_error>>
      BY <1>1, <2>1 DEF PollNothing, Fail
    <3>2. quiet' + early >= quiet + timeout
      BY <1>0, <2>1, <3>1
    <3> QED
      BY <3>1, <3>2, WholeTimeout
  <2>2. CASE ~(d >= timeout)
    <3>1. result' = "none"
      BY <1>1, <2>2 DEF PollNothing, IInv, PollingState
    <3> QED
      BY <3>1, NoTimeout DEF TimeoutErrors
  <2> QED
    BY <2>1, <2>2
<1>2. CASE PollTimesOut(timeout)
  <2>1. /\ pc = "receiving" /\ timeout > 0 /\ quiet' = quiet + timeout
        /\ UNCHANGED <<first_timeout, next_timeout, timeout_error>>
    BY <1>2 DEF PollTimesOut, Fail
  <2>2. quiet' + early >= quiet + timeout
    BY <1>0, <2>1
  <2> QED
    BY <2>1, <2>2, WholeTimeout
<1>3. CASE PollFails
  <2>1. result' \notin TimeoutErrors
    BY <1>3 DEF PollFails, Fail, TimeoutErrors
  <2> QED
    BY <2>1, NoTimeout
<1> QED
  BY <1>1, <1>2, <1>3

(* Nor do bytes that come.                                                 *)
LEMMA BytesKeepTime ==
  ASSUME IInv, IInv', NEW early \in Nat, TimeoutKept(early),
         NEW n, NEW filled, Got(n, filled)
  PROVE  TimeoutKept(early)'
<1>1. result' \in {"OK", "none"}
  BY DEF Got, IInv, PollingState
<1> QED
  BY <1>1, NoTimeout DEF TimeoutErrors

(* Every stream but Mass Storage, which gives up before its last pause,    *)
(* waits for the whole timeout.                                            *)
LEMMA StreamsKeepTime ==
  ASSUME SInv, IInv', NEW early \in Nat, kind = "ums" => early = UMSSTATUSDELAY,
         TimeoutKept(early), [StreamsNext]_<<vars, streamVars>>
  PROVE  TimeoutKept(early)'
<1>0. IInv /\ timeout \in Nat /\ quiet \in Nat /\ waited \in Nat
  BY Bounds DEF SInv, IInv, TypeOK
<1>1. CASE UNCHANGED receiveVars
  BY <1>1, NoTimeout
<1>2. CASE Device \/ UNCHANGED <<vars, streamVars>>
  <2>1. UNCHANGED receiveVars
    BY <1>2 DEF Device, PeerSends, Unplug, vars
  <2> QED
    BY <1>1, <2>1
<1>3. CASE Calls
  <2>1. result' \in {"OK", "none"} \/ UNCHANGED receiveVars
    BY <1>3 DEF Calls, StartSending, ReceiveFromBuffer, StartPolling
  <2> QED
    BY <2>1, NoTimeout DEF TimeoutErrors
<1>4. CASE SerialReceives \/ BulkReceives
  <2>1. \/ \E n \in Nat : PollBytes(n)
        \/ \E d \in 1 .. timeout + 1 : PollNothing(d)
        \/ PollTimesOut(timeout)
        \/ PollFails
    BY <1>4, Bounds DEF SerialReceives, BulkReceives
  <2> QED
    BY <1>0, <2>1, NothingKeepsTime, BytesKeepTime DEF PollBytes
<1>5. CASE BulkDrops
  <2>1. /\ pc = "receiving" /\ timeout > 0 /\ quiet' = quiet + timeout
        /\ UNCHANGED <<first_timeout, next_timeout, timeout_error>>
    BY <1>5 DEF BulkDrops
  <2>2. quiet' + early >= quiet + timeout
    BY <1>0, <2>1
  <2> QED
    BY <1>0, <2>1, <2>2, WholeTimeout
<1>6. CASE UmsReceives
  <2>1. CASE UmsAsksForData \/ (\E d \in 0 .. 1 : UmsWaits(d))
             \/ (\E k \in 1 .. BufferSize : UmsTakes(k))
    <3>1. UNCHANGED receiveVars
      BY <2>1 DEF UmsAsksForData, UmsWaits, UmsTakes, vars
    <3> QED
      BY <1>1, <3>1
  <2>2. ASSUME NEW d \in 0 .. 1, UmsTimesOut(d)
        PROVE  TimeoutKept(early)'
    <3>1. /\ pc = "receiving" /\ kind = "ums" /\ quiet' = quiet + waited + d
          /\ waited + d + UMSSTATUSDELAY >= timeout
          /\ UNCHANGED <<first_timeout, next_timeout, timeout_error>>
      BY <2>2 DEF UmsTimesOut, OnUms, Fail
    <3>2. timeout > 0
      BY <3>1, LimitedTimeout
    <3>3. quiet' + early >= quiet + timeout
      BY <1>0, <3>1
    <3> QED
      BY <1>0, <3>1, <3>2, <3>3, WholeTimeout
  <2>3. CASE UmsReturns
    BY <1>0, <2>3, BytesKeepTime DEF UmsReturns
  <2>4. CASE UmsFails
    <3>1. result' \notin TimeoutErrors
      BY <2>4 DEF UmsFails, TimeoutErrors
    <3> QED
      BY <3>1, NoTimeout
  <2> QED
    BY <1>6, <2>1, <2>2, <2>3, <2>4 DEF UmsReceives, RequestTimes
<1>7. CASE StreamSends
  <2>1. UNCHANGED receiveVars
    BY <1>7 DEF StreamSends, SendSome, SendFails, vars
  <2> QED
    BY <1>1, <2>1
<1> QED
  BY <1>2, <1>3, <1>4, <1>5, <1>6, <1>7 DEF StreamsNext, StreamReceives

(* The stream of a link stays the same.                                    *)
LEMMA KindIsKept == [StreamsNext]_<<vars, streamVars>> => kind' = kind
BY DEF StreamsNext, Device, Calls, StreamReceives, SerialReceives, BulkReceives,
   UmsReceives, BulkDrops, StreamSends, UmsAsksForData, UmsWaits, UmsTimesOut,
   UmsTakes, UmsReturns, UmsFails, RequestEnds, streamVars

(* Nothing waits past the timeout.                                         *)
LEMMA WaitsWithinLimit == SInv => (waited > 0 => quiet + waited < Limit)
<1> SUFFICES ASSUME SInv, waited > 0 PROVE quiet + waited < Limit
  OBVIOUS
<1>1. pc = "receiving" /\ waited < timeout /\ waited \in Nat
  BY DEF SInv, RequestState
<1>2. quiet + timeout = Limit /\ quiet \in Nat /\ timeout \in Nat
  BY <1>1 DEF SInv, IInv, TypeOK, PollingState
<1> QED
  BY <1>1, <1>2

(* What LinkTransport promises the protocols, it promises over each of the *)
(* streams, also when they lose bytes; and a timeout is reported once it   *)
(* has gone by, but for the last pause on Mass Storage.                    *)
THEOREM StreamsKeepThePromises ==
  ASSUME UnlimitedOnUms = FALSE
  PROVE  StreamsSpec =>
           [](ReceivesTheStream /\ StreamTimeoutIsKept /\ SendsTheMessage)
<1>1. StreamsInit => TimeoutKept(Early)
  BY DEF StreamsInit, Init, TimeoutKept, TimeoutErrors
<1>2. SInv /\ SInv' /\ TimeoutKept(Early) /\ [StreamsNext]_<<vars, streamVars>>
        => TimeoutKept(Early)'
  <2> SUFFICES ASSUME SInv, SInv', TimeoutKept(Early), [StreamsNext]_<<vars, streamVars>>
               PROVE  TimeoutKept(Early)'
    OBVIOUS
  <2>1. PICK early \in Nat : early = Early
    BY DEF Early
  <2>2. kind = "ums" => early = UMSSTATUSDELAY
    BY <2>1 DEF Early
  <2>3. TimeoutKept(early)
    BY <2>1 DEF TimeoutKept
  <2>4. TimeoutKept(early)'
    BY <2>2, <2>3, StreamsKeepTime DEF SInv
  <2>5. kind' = kind
    BY KindIsKept
  <2>6. Early' = early
    BY <2>1, <2>5 DEF Early
  <2> QED
    BY <2>4, <2>6 DEF TimeoutKept
<1>3. SInv /\ TimeoutKept(Early) => ReceivesTheStream /\ StreamTimeoutIsKept /\ SendsTheMessage
  BY WaitsWithinLimit DEF SInv, IInv, StreamTimeoutIsKept
<1> QED
  BY <1>1, <1>2, <1>3, StreamsInvariance, PTL DEF StreamsSpec

=============================================================================
