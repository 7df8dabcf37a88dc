----------------------- MODULE PlatformStreamsProofs ------------------------
(* Proofs that the streams of Windows keep what LinkTransport promises the *)
(* protocols, although the driver may write into the receive buffer while  *)
(* nothing is being received.                                              *)
EXTENDS PlatformStreams, StreamsProofs

USE BufferSizeAssumption, SizesAssumption, TimeoutsAssumption,
    StreamLengthAssumption, PlatformKindsAssumption, CheckDelayAssumption,
    EarlinessAssumption, Win16Earliness

LEMMA NothingAfter ==
  ASSUME NEW b, NEW e \in Nat, b = e
  PROVE  \A i \in b + 1 .. e : FALSE
OBVIOUS

(* The driver writes while nothing is left in the receive buffer.          *)
LEMMA DriverWritesBehind ==
  ASSUME PInv, NEW n \in 0 .. BufferSize, DriverReads(n)
  PROVE  WritesBehind /\ IInv'
<1>1. /\ read_in_progress = "pending" /\ start = size /\ n <= Held /\ n \in Nat
      /\ buffer' = [i \in 1 .. BufferSize |-> IF i <= n THEN fetched + i ELSE buffer[i]]
      /\ UNCHANGED <<arrived, fetched, start, size, unplugged, gone, pc,
                     receiveVars, sendVars>>
  BY DEF PInv, ReadState, DriverReads
<1>2. /\ UNCHANGED <<wanted, missing, out, base, first_timeout, next_timeout,
                     timeout, timeout_error, quiet, result>>
      /\ UNCHANGED <<message, cursor, unsent, wire>>
  BY <1>1 DEF receiveVars, sendVars
<1>3. IInv
  BY DEF PInv, SInv
<1>4. buffer' \in [1 .. BufferSize -> 0 .. StreamLength]
  <2>1. /\ arrived \in Nat /\ fetched \in Nat /\ fetched + n <= arrived
        /\ arrived <= StreamLength
    BY <1>1, <1>3, Bounds DEF IInv, TypeOK, PInv, Held
  <2>2. \A i \in 1 .. BufferSize : i <= n => fetched + i \in 0 .. StreamLength
    BY <2>1
  <2> QED
    BY <1>1, <1>3, <2>2 DEF IInv, TypeOK
<1>5. TypeOK'
  BY <1>1, <1>2, <1>3, <1>4 DEF IInv, TypeOK
<1>6. BufferHoldsTheRest'
  <2>1. size' <= fetched'
    BY <1>1, <1>3 DEF IInv, BufferHoldsTheRest
  <2>2. start' = size' /\ size' \in Nat
    BY <1>1, <1>3 DEF IInv, TypeOK
  <2>3. \A i \in start' + 1 .. size' : FALSE
    BY <2>2, NothingAfter
  <2> QED
    BY <2>1, <2>3 DEF BufferHoldsTheRest
<1>7. (ReceivesTheStream /\ PollingState /\ TimeoutIsKept /\ SendingState /\ SendsTheMessage)'
  BY <1>1, <1>2, <1>3
     DEF IInv, ReceivesTheStream, PollingState, TimeoutIsKept, TimeoutKept, SendingState,
         SendsTheMessage, Position, Left, Limit
<1> QED
  BY <1>1, <1>5, <1>6, <1>7 DEF WritesBehind, IInv

(* Every step of a reception is a poll, or is not seen by the transport.   *)
LEMMA PlatformReceivesImplement ==
  PInv /\ PlatformReceives => (Poll \/ UNCHANGED vars) /\ UNCHANGED <<kind, phase, avail, taken, transfer>>
<1> SUFFICES ASSUME PInv, PlatformReceives
             PROVE  (Poll \/ UNCHANGED vars) /\ UNCHANGED <<kind, phase, avail, taken, transfer>>
  OBVIOUS
<1>1. CASE StartRead
  BY <1>1 DEF StartRead, streamVars, requestVars
<1>2. CASE ReadIsOver
  <2>1. UNCHANGED <<kind, phase, avail, taken, transfer>>
    BY <1>2 DEF ReadIsOver, streamVars, requestVars
  <2>2. CASE received > 0 /\ Got(received, buffer)
    <3>1. /\ received \in 1 .. BufferSize /\ received <= arrived - fetched
          /\ \A i \in 1 .. received : buffer[i] = fetched + i
          /\ buffer \in [1 .. BufferSize -> 0 .. StreamLength]
      BY <2>2 DEF PInv, ReadState, Held, SInv, IInv, TypeOK
    <3>2. buffer = [i \in 1 .. BufferSize |-> IF i <= received THEN fetched + i ELSE buffer[i]]
      BY <3>1
    <3>3. PollBytes(received)
      BY <2>2, <3>1, <3>2 DEF PollBytes
    <3> QED
      BY <2>1, <3>1, <3>3 DEF Poll
  <2>3. CASE \E d \in 1 .. timeout + 1 : PollNothing(d)
    BY <2>1, <2>3 DEF Poll
  <2>4. CASE UNCHANGED vars
    BY <2>1, <2>4
  <2> QED
    BY <1>2, <2>2, <2>3, <2>4 DEF ReadIsOver
<1>3. CASE WaitTimesOut
  <2>1. timeout \in 0 .. timeout
    BY Bounds DEF PInv
  <2> QED
    BY <1>3, <2>1 DEF WaitTimesOut, Poll, streamVars, requestVars
<1>4. CASE WaitFails
  <2>1. PollFails
    BY <1>4 DEF WaitFails, Receiving, PollFails
  <2> QED
    BY <1>4, <2>1 DEF WaitFails, Poll, streamVars, requestVars
<1>5. CASE ReadFails
  BY <1>5 DEF ReadFails, Poll, streamVars, requestVars
<1>6. CASE Win16Reads
  <2>1. Smaller(Held, BufferSize) \in 1 .. BufferSize
    BY <1>6, Bounds DEF Win16Reads, PInv
  <2> QED
    BY <1>6, <2>1 DEF Win16Reads, Rested, Poll
<1>7. ASSUME NEW d \in 0 .. 1, Win16Waits(d)
      PROVE  (Poll \/ UNCHANGED vars) /\ UNCHANGED <<kind, phase, avail, taken, transfer>>
  BY <1>7 DEF Win16Waits
<1>8. ASSUME NEW d \in 0 .. 1, Win16TimesOut(d)
      PROVE  (Poll \/ UNCHANGED vars) /\ UNCHANGED <<kind, phase, avail, taken, transfer>>
  <2>1. waited \in Nat /\ timeout \in Nat /\ (waited > 0 => waited < timeout)
    BY DEF PInv, SInv, IInv, TypeOK, RequestState
  <2>2. timeout > 0
    BY <1>8 DEF Win16TimesOut, PollTimesOut
  <2>3. waited + d \in 0 .. timeout
    BY <2>1, <2>2
  <2> QED
    BY <1>8, <2>3 DEF Win16TimesOut, Rested, Poll
<1>9. CASE Win16Fails
  BY <1>9 DEF Win16Fails, Rested, Poll
<1> QED
  BY <1>1, <1>2, <1>3, <1>4, <1>5, <1>6, <1>7, <1>8, <1>9
     DEF PlatformReceives, OverlappedReceives, Win16Receives, RequestTimes

(* Every step is one of the transport, a loss, the driver's, or nothing.   *)
LEMMA PlatformStepImplements ==
  PInv /\ [PlatformNext]_platformVars => [Next \/ Drops \/ WritesBehind]_vars
<1> SUFFICES ASSUME PInv, [PlatformNext]_platformVars
             PROVE  Next \/ Drops \/ WritesBehind \/ UNCHANGED vars
  OBVIOUS
<1>1. CASE StreamsNext
  BY <1>1, StepImplements DEF PInv
<1>2. CASE \E n \in 0 .. BufferSize : DriverReads(n)
  BY <1>2, DriverWritesBehind
<1>3. CASE PlatformReceives
  BY <1>3, PlatformReceivesImplement DEF Next
<1>4. CASE UNCHANGED platformVars
  BY <1>4 DEF platformVars
<1> QED
  BY <1>1, <1>2, <1>3, <1>4 DEF PlatformNext

-----------------------------------------------------------------------------
(* The invariant of the transport, over these streams too.                 *)
LEMMA TransportPreserved == PInv /\ [PlatformNext]_platformVars => IInv'
<1> SUFFICES ASSUME PInv, [PlatformNext]_platformVars PROVE IInv'
  OBVIOUS
<1>1. CASE StreamsNext \/ UNCHANGED platformVars
  <2>1. [StreamsNext]_<<vars, streamVars>>
    BY <1>1 DEF platformVars
  <2> QED
    BY <2>1, StepImplements, StepPreserves, DropsPreserve DEF PInv, SInv
<1>2. CASE \E n \in 0 .. BufferSize : DriverReads(n)
  BY <1>2, DriverWritesBehind
<1>3. CASE PlatformReceives
  <2>1. [Next]_vars
    BY <1>3, PlatformReceivesImplement DEF Next
  <2> QED
    BY <2>1, StepPreserves DEF PInv, SInv
<1> QED
  BY <1>1, <1>2, <1>3 DEF PlatformNext

(* These streams make no request of a device, and are not Mass Storage.    *)
LEMMA NoRequestOfThem ==
  ASSUME PInv, IInv', UNCHANGED <<kind, phase, avail, taken, transfer>>,
         waited' \in Nat, kind # "ums",
         waited' > 0 => kind = "win16" /\ pc' = "receiving" /\ waited' < timeout'
  PROVE  RequestState' /\ LimitedOnUms'
<1>1. phase = "none" /\ avail = 0 /\ taken = 0
  BY DEF PInv, SInv, RequestState
<1>2. transfer' = [i \in 1 .. taken' |-> fetched' + i]
  <2>1. [i \in 1 .. 0 |-> fetched + i] = [i \in 1 .. 0 |-> fetched' + i]
    OBVIOUS
  <2> QED
    BY <1>1, <2>1 DEF PInv, SInv, RequestState
<1>3. Held' \in Nat
  <2>1. arrived' \in Nat /\ fetched' \in 0 .. arrived'
    BY DEF IInv, TypeOK
  <2> QED
    BY <2>1, DifferenceIsNat DEF Held
<1>4. RequestState'
  BY <1>1, <1>2, <1>3 DEF RequestState
<1> QED
  BY <1>4 DEF LimitedOnUms

LEMMA RequestsPreserved ==
  ASSUME UnlimitedOnUms = FALSE, PInv, [PlatformNext]_platformVars, IInv'
  PROVE  RequestState' /\ LimitedOnUms'
<1>1. CASE StreamsNext \/ UNCHANGED platformVars
  <2>1. [StreamsNext]_<<vars, streamVars>>
    BY <1>1 DEF platformVars
  <2> QED
    BY <2>1, RequestPreserved, LimitsPreserved DEF PInv
<1>2. CASE \E n \in 0 .. BufferSize : DriverReads(n)
  <2>1. kind # "ums" /\ UNCHANGED streamVars
    BY <1>2 DEF DriverReads, PInv, ReadState, IsOverlapped
  <2>2. UNCHANGED <<kind, phase, avail, taken, transfer, waited>>
    BY <2>1 DEF streamVars, requestVars
  <2>3. waited \in Nat /\ ~(waited > 0)
    BY <2>1, <1>2 DEF PInv, SInv, RequestState, DriverReads, ReadState, IsOverlapped
  <2> QED
    BY <2>1, <2>2, <2>3, NoRequestOfThem
<1>3. CASE PlatformReceives
  <2>1. UNCHANGED <<kind, phase, avail, taken, transfer>>
    BY <1>3, PlatformReceivesImplement
  <2>2. waited \in Nat
    BY DEF PInv, SInv, RequestState
  <2>3. kind # "ums"
    BY <1>3 DEF PlatformReceives, OverlappedReceives, Win16Receives, StartRead, ReadIsOver,
                WaitTimesOut, WaitFails, ReadFails, Win16Reads, Win16Waits, Win16TimesOut,
                Win16Fails, Receiving, IsOverlapped, OnWin16
  <2>4. /\ waited' \in Nat
        /\ waited' > 0 => kind = "win16" /\ pc' = "receiving" /\ waited' < timeout'
    <3>1. CASE OverlappedReceives
      <4>1. IsOverlapped /\ waited' = waited
        BY <3>1 DEF OverlappedReceives, StartRead, ReadIsOver, WaitTimesOut, WaitFails,
                    ReadFails, Receiving, streamVars, requestVars
      <4>2. ~(waited > 0)
        BY <4>1 DEF PInv, SInv, RequestState, IsOverlapped
      <4> QED
        BY <2>2, <4>1, <4>2
    <3>2. CASE Win16Receives
      <4>1. ASSUME NEW d \in 0 .. 1, Win16Waits(d)
            PROVE  /\ waited' \in Nat /\ kind = "win16" /\ pc' = "receiving"
                   /\ waited' < timeout'
        <5>1. /\ kind = "win16" /\ pc = "receiving" /\ UNCHANGED <<pc, timeout>>
              /\ waited' = waited + d + READ_CHECK_DELAY_MS
              /\ waited + d + READ_CHECK_DELAY_MS < timeout
          BY <4>1 DEF Win16Waits, OnWin16, vars, receiveVars
        <5> QED
          BY <2>2, <5>1
      <4>2. ASSUME ~(\E d \in 0 .. 1 : Win16Waits(d))
            PROVE  waited' = 0
        BY <3>2, <4>2 DEF Win16Receives, RequestTimes, Win16Reads, Win16TimesOut,
                          Win16Fails, Rested
      <4> QED
        BY <4>1, <4>2
    <3> QED
      BY <1>3, <3>1, <3>2 DEF PlatformReceives
  <2> QED
    BY <2>1, <2>3, <2>4, NoRequestOfThem
<1> QED
  BY <1>1, <1>2, <1>3 DEF PlatformNext

(* Nothing is in progress: ReadState says nothing more.                    *)
LEMMA NothingInProgress ==
  ASSUME IInv', read_in_progress' = "no", received' = 0
  PROVE  ReadState'
<1>1. Held' \in Nat
  <2>1. arrived' \in Nat /\ fetched' \in 0 .. arrived'
    BY DEF IInv, TypeOK
  <2> QED
    BY <2>1, DifferenceIsNat DEF Held
<1> QED
  BY <1>1 DEF ReadState

(* An operation in progress stays one over an empty receive buffer.        *)
LEMMA ReadsPreserved ==
  ASSUME PInv, [PlatformNext]_platformVars, IInv'
  PROVE  ReadState'
<1>1. CASE read_in_progress = "no" /\ UNCHANGED readVars
  BY <1>1, NothingInProgress DEF readVars, PInv, ReadState
<1>2. CASE /\ read_in_progress # "no" /\ start' = size'
           /\ UNCHANGED <<readVars, kind, buffer, fetched>>
           /\ arrived' = arrived \/ arrived' = arrived + 1
  <2>1. received \in Nat /\ received <= arrived - fetched /\ arrived \in Nat /\ fetched \in Nat
    BY Bounds DEF PInv, ReadState, Held
  <2>2. received <= arrived' - fetched
    BY <1>2, <2>1, LaterDifference
  <2> QED
    BY <1>2, <2>2 DEF PInv, ReadState, Held, readVars, IsOverlapped
<1>3. CASE StreamsNext /\ UNCHANGED readVars
  <2>1. CASE read_in_progress # "no"
    <3>0. IsOverlapped /\ start = size /\ start \in Nat
      BY <2>1 DEF PInv, ReadState, SInv, IInv, TypeOK
    <3>1. CASE Device
      BY <1>2, <1>3, <2>1, <3>0, <3>1
         DEF Device, PeerSends, Unplug, bufferVars, streamVars
    <3>2. CASE Calls
      <4>1. /\ UNCHANGED <<kind, buffer, fetched, arrived>>
            /\ \/ UNCHANGED <<start, size>>
               \/ start' = size'
               \/ \E n \in Sizes : n <= Left /\ start' = start + n /\ size' = size
        BY <3>2 DEF Calls, StartSending, ReceiveFromBuffer, StartPolling, bufferVars, streamVars
      <4>2. start' = size'
        BY <3>0, <4>1 DEF Left
      <4> QED
        BY <1>2, <1>3, <2>1, <4>1, <4>2
    <3>3. CASE StreamReceives \/ BulkDrops
      BY <3>0, <3>3 DEF StreamReceives, SerialReceives, BulkReceives, BulkDrops, UmsReceives,
         UmsAsksForData, UmsWaits, UmsTimesOut, UmsTakes, UmsReturns, UmsFails, OnUms,
         IsOverlapped
    <3>4. CASE StreamSends
      <4>1. kind' = kind /\ UNCHANGED <<buffer, fetched, arrived, start, size>>
        BY <3>0, <3>4 DEF StreamSends, SendSome, SendFails, RequestEnds, IsOverlapped,
           bufferVars, streamVars, vars
      <4> QED
        BY <1>2, <1>3, <2>1, <3>0, <4>1
    <3> QED
      BY <1>3, <3>1, <3>2, <3>3, <3>4 DEF StreamsNext
  <2> QED
    BY <1>1, <1>3, <2>1
<1>4. ASSUME NEW n \in 0 .. BufferSize, DriverReads(n)
      PROVE  ReadState'
  <2>1. /\ read_in_progress' = "over" /\ received' = n /\ n <= Held
        /\ UNCHANGED <<arrived, fetched, start, size, kind>>
        /\ buffer' = [i \in 1 .. BufferSize |-> IF i <= n THEN fetched + i ELSE buffer[i]]
    BY <1>4 DEF DriverReads, streamVars
  <2>2. IsOverlapped /\ start = size
    BY <1>4 DEF DriverReads, PInv, ReadState
  <2>3. \A i \in 1 .. n : buffer'[i] = fetched' + i
    BY <2>1
  <2> QED
    BY <2>1, <2>2, <2>3 DEF ReadState, Held, IsOverlapped
<1>5. CASE PlatformReceives
  <2>1. CASE StartRead
    <3>1. /\ read_in_progress' = "pending" /\ received' = 0 /\ IsOverlapped
          /\ pc = "receiving" /\ UNCHANGED <<arrived, fetched, start, size, kind>>
      BY <2>1 DEF StartRead, Receiving, vars, bufferVars, streamVars
    <3>2. start = size
      BY <3>1 DEF PInv, SInv, IInv, PollingState
    <3>3. Held \in Nat
      BY Bounds DEF PInv
    <3> QED
      BY <3>1, <3>2, <3>3 DEF ReadState, Held, IsOverlapped
  <2>2. CASE ReadIsOver
    BY <2>2, NothingInProgress DEF ReadIsOver
  <2>3. CASE WaitTimesOut \/ WaitFails
    <3>1. UNCHANGED <<readVars, kind, buffer, fetched, arrived, start, size>>
      BY <2>3 DEF WaitTimesOut, WaitFails, PollTimesOut, Fail, bufferVars, streamVars
    <3> QED
      BY <3>1 DEF PInv, ReadState, Held, readVars, IsOverlapped
  <2>4. CASE ReadFails
    BY <2>4, NothingInProgress DEF ReadFails, PInv, ReadState
  <2>5. CASE Win16Receives
    <3>1. kind = "win16" /\ UNCHANGED readVars
      BY <2>5 DEF Win16Receives, Win16Reads, Win16Waits, Win16TimesOut, Win16Fails, Rested,
                  OnWin16, readVars
    <3>2. read_in_progress = "no"
      BY <3>1 DEF PInv, ReadState, IsOverlapped
    <3> QED
      BY <1>1, <3>1, <3>2
  <2> QED
    BY <1>5, <2>1, <2>2, <2>3, <2>4, <2>5 DEF PlatformReceives, OverlappedReceives
<1>6. CASE UNCHANGED platformVars
  <2>1. UNCHANGED <<readVars, kind, buffer, fetched, arrived, start, size>>
    BY <1>6 DEF platformVars, vars, bufferVars, streamVars
  <2> QED
    BY <2>1 DEF PInv, ReadState, Held, readVars, IsOverlapped
<1> QED
  BY <1>3, <1>4, <1>5, <1>6 DEF PlatformNext

(* The invariant behind what follows: the driver never has a read in       *)
(* progress over bytes that the link still holds.                          *)
THEOREM PlatformInvariance ==
  ASSUME UnlimitedOnUms = FALSE
  PROVE  PlatformSpec => []PInv
<1>1. PlatformInit => PInv
  <2> SUFFICES ASSUME PlatformInit PROVE PInv
    OBVIOUS
  <2>1. IInv
    BY InitEstablishes DEF PlatformInit
  <2>2. fetched = 0 /\ arrived = 0 /\ pc = "idle"
    BY DEF PlatformInit, Init
  <2>3. Empty = [i \in 1 .. 0 |-> fetched + i]
    BY DEF Empty
  <2>4. RequestState
    BY <2>2, <2>3 DEF PlatformInit, NoRequest, RequestState, Held
  <2>5. ReadState
    BY <2>2 DEF PlatformInit, NoRead, ReadState, Held
  <2> QED
    BY <2>1, <2>2, <2>4, <2>5 DEF PInv, SInv, LimitedOnUms
<1>2. PInv /\ [PlatformNext]_platformVars => PInv'
  <2> SUFFICES ASSUME PInv, [PlatformNext]_platformVars PROVE PInv'
    OBVIOUS
  <2>1. IInv'
    BY TransportPreserved
  <2> QED
    BY <2>1, RequestsPreserved, ReadsPreserved DEF PInv, SInv
<1> QED
  BY <1>1, <1>2, PTL DEF PlatformSpec

(* Over the streams of Windows too, the transport sees what LinkTransport  *)
(* says the system may do, a failure that loses bytes, or the driver       *)
(* writing where nothing is kept.                                          *)
THEOREM PlatformsKeepTheTransport ==
  ASSUME UnlimitedOnUms = FALSE
  PROVE  PlatformSpec => PlatformsImplement
<1>1. PlatformInit => Init
  BY DEF PlatformInit
<1> QED
  BY <1>1, PlatformStepImplements, PlatformInvariance, PTL DEF PlatformSpec, PlatformsImplement

-----------------------------------------------------------------------------
(* Windows 3 gives up before its last pause; a read that is left in        *)
(* progress has been waited for.                                           *)
LEMMA PlatformReceivesKeepTime ==
  ASSUME PInv, IInv', NEW early \in Nat, kind = "win16" => early = READ_CHECK_DELAY_MS,
         TimeoutKept(early), PlatformReceives
  PROVE  TimeoutKept(early)'
<1>0. IInv /\ timeout \in Nat /\ quiet \in Nat /\ waited \in Nat
  BY Bounds DEF PInv, SInv, IInv, TypeOK
<1>1. CASE StartRead \/ ReadIsOver
  <2>1. \/ UNCHANGED receiveVars
        \/ Got(received, buffer)
        \/ \E d \in 1 .. timeout + 1 : PollNothing(d)
    BY <1>1 DEF StartRead, ReadIsOver, vars
  <2> QED
    BY <1>0, <2>1, NoTimeout, BytesKeepTime, NothingKeepsTime
<1>2. CASE WaitTimesOut \/ ReadFails \/ Win16Fails
  BY <1>0, <1>2, NothingKeepsTime DEF WaitTimesOut, ReadFails, Win16Fails
<1>3. CASE WaitFails
  <2>1. result' \notin TimeoutErrors
    BY <1>3 DEF WaitFails, Fail, TimeoutErrors
  <2> QED
    BY <2>1, NoTimeout
<1>4. CASE Win16Reads
  BY <1>0, <1>4, BytesKeepTime DEF Win16Reads, PollBytes
<1>5. ASSUME NEW d \in 0 .. 1, Win16Waits(d)
      PROVE  TimeoutKept(early)'
  <2>1. UNCHANGED receiveVars
    BY <1>5 DEF Win16Waits, vars
  <2> QED
    BY <2>1, NoTimeout
<1>6. ASSUME NEW d \in 0 .. 1, Win16TimesOut(d)
      PROVE  TimeoutKept(early)'
  <2>1. /\ pc = "receiving" /\ kind = "win16" /\ timeout > 0
        /\ quiet' = quiet + (waited + d)
        /\ waited + d + READ_CHECK_DELAY_MS >= timeout
        /\ UNCHANGED <<first_timeout, next_timeout, timeout_error>>
    BY <1>6 DEF Win16TimesOut, PollTimesOut, OnWin16, Fail
  <2>2. quiet' + early >= quiet + timeout
    BY <1>0, <2>1
  <2> QED
    BY <1>0, <2>1, <2>2, WholeTimeout
<1> QED
  BY <1>1, <1>2, <1>3, <1>4, <1>5, <1>6
     DEF PlatformReceives, OverlappedReceives, Win16Receives, RequestTimes

(* The stream of a link stays the same on these platforms too.             *)
LEMMA PlatformKindIsKept == [PlatformNext]_platformVars => kind' = kind
<1>1. \/ UNCHANGED <<vars, streamVars>>
      \/ StreamsNext
      => kind' = kind
  BY KindIsKept
<1>2. (\E n \in 0 .. BufferSize : DriverReads(n)) => kind' = kind
  BY DEF DriverReads, streamVars
<1>3. PlatformReceives => kind' = kind
  BY DEF PlatformReceives, OverlappedReceives, Win16Receives, StartRead, ReadIsOver,
     WaitTimesOut, WaitFails, ReadFails, Win16Reads, Win16Waits, Win16TimesOut,
     Win16Fails, Rested, streamVars
<1> QED
  BY <1>1, <1>2, <1>3 DEF PlatformNext, platformVars

(* And the protocols are given what they are promised, the time they ask   *)
(* for included, but for the last pause on Mass Storage and on Windows 3.  *)
THEOREM PlatformsKeepThePromises ==
  ASSUME UnlimitedOnUms = FALSE
  PROVE  PlatformSpec =>
           [](ReceivesTheStream /\ PlatformTimeoutIsKept /\ SendsTheMessage)
<1>1. PlatformInit => TimeoutKept(EarlyHere)
  BY DEF PlatformInit, Init, TimeoutKept, TimeoutErrors
<1>2. PInv /\ PInv' /\ TimeoutKept(EarlyHere) /\ [PlatformNext]_platformVars
        => TimeoutKept(EarlyHere)'
  <2> SUFFICES ASSUME PInv, PInv', TimeoutKept(EarlyHere), [PlatformNext]_platformVars
               PROVE  TimeoutKept(EarlyHere)'
    OBVIOUS
  <2>1. PICK early \in Nat : early = EarlyHere
    BY DelayAssumption DEF EarlyHere, Early
  <2>2. /\ kind = "ums" => early = UMSSTATUSDELAY
        /\ kind = "win16" => early = READ_CHECK_DELAY_MS
    BY <2>1 DEF EarlyHere, Early
  <2>3. TimeoutKept(early) /\ SInv /\ IInv'
    BY <2>1 DEF TimeoutKept, PInv, SInv
  <2>4. TimeoutKept(early)'
    <3>1. CASE StreamsNext
      BY <2>2, <2>3, <3>1, StreamsKeepTime
    <3>2. CASE (\E n \in 0 .. BufferSize : DriverReads(n)) \/ UNCHANGED platformVars
      <4>1. UNCHANGED receiveVars
        BY <3>2 DEF DriverReads, platformVars, vars
      <4> QED
        BY <2>3, <4>1, NoTimeout
    <3>3. CASE PlatformReceives
      BY <2>2, <2>3, <3>3, PlatformReceivesKeepTime
    <3> QED
      BY <3>1, <3>2, <3>3 DEF PlatformNext
  <2>5. EarlyHere' = early
    BY <2>1, PlatformKindIsKept DEF EarlyHere, Early
  <2> QED
    BY <2>4, <2>5 DEF TimeoutKept
<1>3. PInv /\ TimeoutKept(EarlyHere)
        => ReceivesTheStream /\ PlatformTimeoutIsKept /\ SendsTheMessage
  BY WaitsWithinLimit DEF PInv, SInv, IInv, PlatformTimeoutIsKept
<1> QED
  BY <1>1, <1>2, <1>3, PlatformInvariance, PTL DEF PlatformSpec

=============================================================================
