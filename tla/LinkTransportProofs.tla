------------------------ MODULE LinkTransportProofs ------------------------
(* Proofs that the transport's receive and send loops are correct for any  *)
(* buffer size, any requested sizes and timeouts and any length of stream. *)
EXTENDS LinkTransport, TLAPS

USE BufferSizeAssumption, SizesAssumption, TimeoutsAssumption,
    StreamLengthAssumption, EarlinessAssumption

(* Initially nothing has been received or sent.                            *)
LEMMA InitEstablishes == Init => IInv
<1> SUFFICES ASSUME Init PROVE IInv
  OBVIOUS
<1>1. TypeOK
  <2>1. buffer \in [1 .. BufferSize -> 0 .. StreamLength]
    BY DEF Init
  <2>2. wanted - missing = 0 /\ message - unsent = 0
    BY DEF Init
  <2>3. /\ out \in [1 .. wanted - missing -> 0 .. StreamLength]
        /\ wire \in [1 .. message - unsent -> Nat]
    BY <2>2 DEF Init, Empty
  <2>4. /\ arrived \in 0 .. StreamLength /\ fetched \in 0 .. arrived
        /\ size \in 0 .. BufferSize /\ start \in 0 .. size
        /\ wanted \in Nat /\ missing \in 0 .. wanted /\ base \in Nat
        /\ first_timeout \in Nat /\ next_timeout \in Nat
        /\ timeout \in Nat /\ quiet \in Nat
        /\ message \in Nat /\ cursor \in Nat /\ unsent \in 0 .. message
    BY DEF Init
  <2>5. /\ unplugged \in BOOLEAN /\ gone \in BOOLEAN
        /\ pc \in {"idle", "receiving", "sending"} /\ result \in Results
        /\ timeout_error \in TimeoutErrors
    BY DEF Init, Results, TimeoutErrors
  <2> QED
    BY <2>1, <2>3, <2>4, <2>5 DEF TypeOK
<1>2. ReceivesTheStream /\ BufferHoldsTheRest /\ PollingState /\ TimeoutIsKept
  BY DEF Init, ReceivesTheStream, BufferHoldsTheRest, PollingState,
         TimeoutIsKept, TimeoutKept, TimeoutErrors
<1>3. SendingState /\ SendsTheMessage
  BY DEF Init, SendingState, SendsTheMessage
<1> QED
  BY <1>1, <1>2, <1>3 DEF IInv

(* The peer changes only what a reception has not looked at yet.           *)
LEMMA PeerPreserves == IInv /\ (PeerSends \/ Unplug) => IInv'
<1> SUFFICES ASSUME IInv, PeerSends \/ Unplug PROVE IInv'
  OBVIOUS
<1>1. /\ UNCHANGED <<bufferVars, gone, pc, receiveVars, sendVars>>
      /\ arrived' \in arrived .. StreamLength /\ unplugged' \in BOOLEAN
  <2>1. arrived \in 0 .. StreamLength /\ unplugged \in BOOLEAN
    BY DEF IInv, TypeOK
  <2>2. CASE PeerSends
    BY <2>1, <2>2 DEF PeerSends
  <2>3. CASE Unplug
    BY <2>1, <2>3 DEF Unplug
  <2> QED
    BY <2>2, <2>3
<1>2. TypeOK'
  BY <1>1 DEF IInv, TypeOK, bufferVars, receiveVars, sendVars
<1>3. /\ ReceivesTheStream' /\ BufferHoldsTheRest' /\ PollingState'
      /\ TimeoutIsKept' /\ SendingState' /\ SendsTheMessage'
  BY <1>1 DEF IInv, ReceivesTheStream, BufferHoldsTheRest, PollingState,
     TimeoutIsKept, TimeoutKept, SendingState, SendsTheMessage, Left, Position, Limit,
     bufferVars, receiveVars, sendVars
<1> QED
  BY <1>2, <1>3 DEF IInv

(* A reception served from the buffer takes the next bytes of the stream.  *)
LEMMA BufferPreserves ==
  ASSUME IInv, NEW n \in Sizes, NEW ft \in Timeouts, NEW nt \in Timeouts,
         ReceiveFromBuffer(n, ft, nt)
  PROVE  IInv'
<1> USE DEF IInv
<1>1. n \in Nat /\ ft \in Nat /\ nt \in Nat /\ n <= size - start
  BY DEF ReceiveFromBuffer, Left
<1>2. /\ out' = [i \in 1 .. n |-> buffer[start + i]]
      /\ wanted' = n /\ missing' = 0 /\ wanted' - missing' = n
  BY <1>1 DEF ReceiveFromBuffer
<1>3. \A i \in 1 .. n : /\ buffer[start + i] = Position + i
                        /\ buffer[start + i] \in 0 .. StreamLength
  BY <1>1 DEF TypeOK, BufferHoldsTheRest, Position, Left
<1>4. TypeOK'
  <2>1. out' \in [1 .. wanted' - missing' -> 0 .. StreamLength]
    BY <1>2, <1>3
  <2>2. /\ wanted' \in Nat /\ missing' \in 0 .. wanted' /\ base' \in Nat
        /\ start' \in 0 .. size' /\ size' \in 0 .. BufferSize
    BY <1>1 DEF ReceiveFromBuffer, TypeOK, BufferHoldsTheRest, Left, Position
  <2>3. result' \in Results /\ timeout_error' \in TimeoutErrors
    BY DEF ReceiveFromBuffer, Results, TimeoutErrors
  <2>4. /\ UNCHANGED <<arrived, fetched, buffer, unplugged, gone, pc, message,
                       cursor, unsent, wire>>
        /\ first_timeout' = ft /\ next_timeout' = nt /\ timeout' = ft
        /\ quiet' = 0
    BY DEF ReceiveFromBuffer, sendVars
  <2> QED
    BY <1>1, <2>1, <2>2, <2>3, <2>4 DEF TypeOK
<1>5. ReceivesTheStream'
  <2>1. \A i \in 1 .. wanted' - missing' : out'[i] = base' + i
    BY <1>2, <1>3 DEF ReceiveFromBuffer
  <2>2. missing' = 0 /\ Position' = base' + wanted'
    BY <1>1 DEF ReceiveFromBuffer, Position, Left, TypeOK
  <2> QED
    BY <2>1, <2>2 DEF ReceivesTheStream
<1>6. BufferHoldsTheRest'
  BY <1>1 DEF ReceiveFromBuffer, BufferHoldsTheRest, TypeOK
<1>7. PollingState' /\ TimeoutIsKept' /\ SendingState' /\ SendsTheMessage'
  BY DEF ReceiveFromBuffer, PollingState, TimeoutIsKept, TimeoutKept, TimeoutErrors,
         SendingState, SendsTheMessage, sendVars
<1> QED
  BY <1>4, <1>5, <1>6, <1>7

(* A reception that starts polling has taken all the buffer held.          *)
LEMMA StartPreserves ==
  ASSUME IInv, NEW n \in Sizes, NEW ft \in Timeouts, NEW nt \in Timeouts,
         StartPolling(n, ft, nt)
  PROVE  IInv'
<1> USE DEF IInv
<1>1. /\ n \in Nat /\ ft \in Nat /\ nt \in Nat
      /\ Left \in Nat /\ Left < n
  BY DEF StartPolling, Left, TypeOK
<1>2. /\ out' = [i \in 1 .. Left |-> buffer[start + i]]
      /\ wanted' = n /\ missing' = n - Left /\ wanted' - missing' = Left
  BY <1>1 DEF StartPolling
<1>3. \A i \in 1 .. Left : /\ buffer[start + i] = Position + i
                           /\ buffer[start + i] \in 0 .. StreamLength
  BY <1>1 DEF TypeOK, BufferHoldsTheRest, Position, Left
<1>4. TypeOK'
  <2>1. out' \in [1 .. wanted' - missing' -> 0 .. StreamLength]
    BY <1>2, <1>3
  <2>2. missing' \in 0 .. wanted' /\ wanted' \in Nat
    BY <1>1, <1>2
  <2>3. base' \in Nat /\ 0 \in 0 .. BufferSize /\ 0 \in 0 .. 0
    <3>1. fetched \in Nat /\ base' = fetched - Left
      BY DEF StartPolling, TypeOK, Position
    <3>2. Left <= fetched
      BY <1>1 DEF TypeOK, BufferHoldsTheRest, Left
    <3> QED
      BY <1>1, <3>1, <3>2
  <2>4. result' \in Results /\ timeout_error' \in TimeoutErrors
    BY DEF StartPolling, Results, TimeoutErrors
  <2>5. /\ UNCHANGED <<arrived, fetched, buffer, unplugged, gone, message,
                       cursor, unsent, wire>>
        /\ first_timeout' = ft /\ next_timeout' = nt /\ timeout' = ft
        /\ quiet' = 0 /\ start' = 0 /\ size' = 0 /\ pc' = "receiving"
    BY DEF StartPolling, sendVars
  <2> QED
    BY <1>1, <2>1, <2>2, <2>3, <2>4, <2>5 DEF TypeOK
<1>5. ReceivesTheStream' /\ BufferHoldsTheRest'
  <2>1. \A i \in 1 .. wanted' - missing' : out'[i] = base' + i
    BY <1>2, <1>3 DEF StartPolling
  <2> QED
    BY <1>1, <2>1 DEF StartPolling, ReceivesTheStream, BufferHoldsTheRest, TypeOK
<1>6. PollingState' /\ TimeoutIsKept'
  BY <1>1 DEF StartPolling, PollingState, TimeoutIsKept, TimeoutKept, TimeoutErrors, Limit,
              Position, Left, TypeOK
<1>7. SendingState' /\ SendsTheMessage'
  BY DEF StartPolling, SendingState, SendsTheMessage, sendVars
<1> QED
  BY <1>4, <1>5, <1>6, <1>7

(* Bytes from the transport continue what was copied out, and those in     *)
(* excess stay in the buffer.                                              *)
LEMMA BytesPreserve ==
  ASSUME IInv, NEW n \in 1 .. BufferSize, PollBytes(n)
  PROVE  IInv'
<1> DEFINE taken == IF n >= missing THEN missing ELSE n
<1> USE DEF IInv
<1>1. /\ pc = "receiving" /\ n \in Nat \ {0} /\ missing \in Nat \ {0}
      /\ taken \in 1 .. missing /\ taken <= n
  BY DEF PollBytes, Got, TypeOK, PollingState
<1>2. buffer' \in [1 .. BufferSize -> 0 .. StreamLength]
  BY <1>1 DEF PollBytes, Got, TypeOK
<1>3. \A i \in 1 .. n : buffer'[i] = fetched + i
  BY <1>1 DEF PollBytes, Got, TypeOK
<1>4. out' = Filled(out, wanted - missing, buffer', taken)
  BY DEF PollBytes, Got
<1>5. fetched = base + wanted - missing
  BY <1>1 DEF PollingState, Position, Left, TypeOK
<1>6. /\ out' \in [1 .. wanted' - missing' -> 0 .. StreamLength]
      /\ \A i \in 1 .. wanted' - missing' : out'[i] = base' + i
  <2>1. wanted' - missing' = wanted - missing + taken
    BY <1>1 DEF PollBytes, Got, TypeOK
  <2>2. /\ \A i \in 1 .. wanted - missing : out[i] = base + i
        /\ base' = base
    BY DEF PollBytes, Got, ReceivesTheStream
  <2>3. \A i \in 1 .. wanted - missing + taken :
          (IF i <= wanted - missing THEN out[i] ELSE buffer'[i - (wanted - missing)])
            = base + i
    BY <1>1, <1>3, <1>5, <2>2 DEF TypeOK
  <2>4. \A i \in 1 .. wanted - missing + taken : base + i \in 0 .. StreamLength
    BY <1>1, <1>5 DEF TypeOK, PollBytes, Got
  <2> QED
    BY <1>4, <2>1, <2>2, <2>3, <2>4 DEF Filled
<1>7. TypeOK'
  <2>1. /\ missing' \in 0 .. wanted' /\ wanted' \in Nat /\ base' \in Nat
        /\ fetched' \in 0 .. arrived' /\ arrived' \in 0 .. StreamLength
        /\ size' \in 0 .. BufferSize /\ start' \in 0 .. size'
    BY <1>1 DEF PollBytes, Got, TypeOK
  <2> QED
    BY <1>2, <1>6, <2>1 DEF PollBytes, Got, TypeOK, sendVars, Results, TimeoutErrors
<1>8. BufferHoldsTheRest'
  <2>1. fetched \in Nat /\ fetched' = fetched + n
    BY <1>1 DEF PollBytes, Got, TypeOK
  <2>2. \/ size' = n /\ start' = missing
        \/ size' = 0 /\ start' = 0
    BY <1>1 DEF PollBytes, Got, PollingState
  <2> QED
    BY <1>1, <1>3, <2>1, <2>2 DEF BufferHoldsTheRest
<1>9. ReceivesTheStream' /\ PollingState'
  <2>0. /\ fetched \in Nat /\ wanted \in Nat /\ base \in Nat
        /\ fetched' = fetched + n /\ wanted' = wanted /\ base' = base
        /\ missing' = missing - taken
    BY <1>1 DEF PollBytes, Got, TypeOK
  <2>1. CASE n >= missing
    <3>1. start' = missing /\ size' = n /\ pc' = "idle" /\ missing' = 0
      BY <1>1, <2>0, <2>1 DEF PollBytes, Got
    <3>2. Position' = base' + wanted'
      BY <1>1, <1>5, <2>0, <3>1 DEF Position, Left
    <3> QED
      BY <1>6, <3>1, <3>2 DEF ReceivesTheStream, PollingState
  <2>2. CASE ~(n >= missing)
    <3>1. /\ start' = 0 /\ size' = 0 /\ pc' = "receiving" /\ result' = "none"
          /\ missing' = missing - n /\ missing' > 0
      BY <1>1, <2>0, <2>2 DEF PollBytes, Got, PollingState
    <3>2. Position' = base' + wanted' - missing'
      BY <1>1, <1>5, <2>0, <3>1 DEF Position, Left
    <3>3. /\ quiet' = 0 /\ timeout' = next_timeout' /\ timeout_error' = "TIMEOUT"
          /\ next_timeout' \in Nat
      BY DEF PollBytes, Got, TypeOK
    <3>4. quiet' + timeout' = Limit' /\ (timeout' = 0 => Limit' = 0)
      <4>1. quiet' = 0 /\ timeout' = next_timeout /\ next_timeout \in Nat
        BY DEF PollBytes, Got, TypeOK
      <4>2. Limit' = next_timeout
        BY <3>3 DEF Limit, PollBytes, Got
      <4> QED
        BY <4>1, <4>2
    <3> QED
      BY <1>6, <3>1, <3>2, <3>4 DEF ReceivesTheStream, PollingState
  <2> QED
    BY <2>1, <2>2
<1>10. TimeoutIsKept'
  BY <1>1 DEF PollBytes, Got, TimeoutIsKept, TimeoutKept, TimeoutErrors, Limit, PollingState, TypeOK
<1>11. SendingState' /\ SendsTheMessage'
  BY <1>1 DEF PollBytes, Got, SendingState, SendsTheMessage, sendVars
<1> QED
  BY <1>7, <1>6, <1>8, <1>9, <1>10, <1>11

(* A turn without a byte only uses up the timeout.                         *)
LEMMA SilencePreserves ==
  ASSUME IInv,
         \/ \E d \in 1 .. timeout + 1 : PollNothing(d)
         \/ \E w \in 0 .. timeout : PollTimesOut(w)
         \/ PollFails
  PROVE  IInv'
<1> USE DEF IInv
<1> DEFINE Kept == UNCHANGED <<arrived, bufferVars, unplugged, wanted, missing,
                               out, base, first_timeout, next_timeout,
                               timeout_error, sendVars>>
<1>0. /\ timeout \in Nat /\ quiet \in Nat /\ gone \in BOOLEAN
      /\ timeout_error \in TimeoutErrors /\ first_timeout \in Nat
      /\ next_timeout \in Nat /\ Limit \in Nat
  BY DEF TypeOK, Limit
<1> HIDE DEF IInv
<1>1. /\ Kept /\ pc = "receiving" /\ gone' \in BOOLEAN /\ timeout' \in Nat
      /\ quiet' \in Nat
      /\ \/ pc' = "idle" /\ result' \in {"GONE", "UNKNOWN"}
         \/ /\ pc' = "idle" /\ result' = timeout_error /\ timeout > 0
            /\ \E d \in Nat : d + Earliness >= timeout /\ quiet' = quiet + d
         \/ /\ pc' = "receiving" /\ result' = result
            /\ \E d \in Nat : /\ d < timeout /\ timeout' = timeout - d
                             /\ quiet' = quiet + d
  <2>1. ASSUME NEW d \in 1 .. timeout + 1, PollNothing(d), d >= timeout
        PROVE  /\ Kept /\ pc = "receiving" /\ gone' = gone /\ timeout' = timeout
               /\ pc' = "idle" /\ result' = timeout_error /\ timeout > 0
               /\ quiet' = quiet + d
    BY <2>1 DEF PollNothing, Fail
  <2>2. ASSUME NEW d \in 1 .. timeout + 1, PollNothing(d), ~(d >= timeout)
        PROVE  /\ Kept /\ pc = "receiving" /\ gone' = gone
               /\ timeout' = timeout - d /\ pc' = "receiving" /\ result' = result
               /\ quiet' = quiet + d
    BY <2>2 DEF PollNothing
  <2>3. ASSUME NEW w \in 0 .. timeout, PollTimesOut(w)
        PROVE  /\ Kept /\ pc = "receiving" /\ gone' = gone /\ timeout' = timeout
               /\ pc' = "idle" /\ result' = timeout_error /\ timeout > 0
               /\ quiet' = quiet + w /\ w + Earliness >= timeout
    BY <2>3 DEF PollTimesOut, Fail
  <2>4. ASSUME PollFails
        PROVE  /\ Kept /\ pc = "receiving" /\ gone' \in {TRUE, gone}
               /\ timeout' = timeout /\ quiet' = quiet /\ pc' = "idle"
               /\ result' \in {"GONE", "UNKNOWN"}
    BY <2>4 DEF PollFails, Fail
  <2> HIDE DEF Kept
  <2>5. CASE \E d \in 1 .. timeout + 1 : PollNothing(d)
    <3>1. PICK d \in 1 .. timeout + 1 : PollNothing(d)
      BY <2>5
    <3>2. CASE d >= timeout
      BY <1>0, <2>1, <3>1, <3>2
    <3>3. CASE ~(d >= timeout)
      BY <1>0, <2>2, <3>1, <3>3
    <3> QED
      BY <3>2, <3>3
  <2>6. CASE \E w \in 0 .. timeout : PollTimesOut(w)
    <3>1. PICK w \in 0 .. timeout : PollTimesOut(w)
      BY <2>6
    <3> QED
      BY <1>0, <2>3, <3>1
  <2>7. CASE PollFails
    BY <1>0, <2>4, <2>7
  <2> QED
    BY <2>5, <2>6, <2>7
<1> USE DEF IInv
<1>2. TypeOK'
  <2>1. result' \in Results
    BY <1>0, <1>1 DEF Results, TypeOK
  <2>2. pc' \in {"idle", "receiving", "sending"}
    BY <1>1
  <2> QED
    BY <1>1, <2>1, <2>2 DEF TypeOK, bufferVars, sendVars
<1>3. ReceivesTheStream' /\ BufferHoldsTheRest' /\ SendingState' /\ SendsTheMessage'
  <2>1. result' # "OK" /\ pc' # "sending"
    BY <1>0, <1>1 DEF TimeoutErrors, PollingState
  <2> QED
    BY <1>1, <2>1 DEF ReceivesTheStream, BufferHoldsTheRest, SendingState,
       SendsTheMessage, bufferVars, sendVars
<1>4. PollingState' /\ TimeoutIsKept'
  <2>1. /\ start = 0 /\ size = 0 /\ missing > 0 /\ result = "none"
        /\ Position = base + wanted - missing /\ quiet + timeout = Limit
    BY <1>1 DEF PollingState
  <2>2. /\ start' = start /\ size' = size /\ missing' = missing
        /\ Position' = Position /\ base' = base /\ wanted' = wanted
        /\ Limit' = Limit
    BY <1>1 DEF bufferVars, Position, Left, Limit
  <2> HIDE DEF Kept, IInv
  <2>3. CASE pc' = "receiving"
    <3>1. PICK d \in Nat : d < timeout /\ timeout' = timeout - d /\ quiet' = quiet + d
      BY <1>1, <2>3
    <3>2. /\ result' = "none" /\ timeout' > 0 /\ quiet' + timeout' = Limit
          /\ quiet' < Limit
      BY <1>0, <1>1, <2>1, <2>3, <3>1
    <3> QED
      BY <1>1, <2>1, <2>2, <2>3, <3>2 DEF PollingState, TimeoutIsKept, TimeoutKept, TimeoutErrors
  <2>4. CASE pc' = "idle" /\ result' \in {"GONE", "UNKNOWN"}
    BY <2>4 DEF PollingState, TimeoutIsKept, TimeoutKept, TimeoutErrors
  <2>5. CASE /\ pc' = "idle" /\ timeout > 0
             /\ \E d \in Nat : d + Earliness >= timeout /\ quiet' = quiet + d
    <3>1. PICK d \in Nat : d + Earliness >= timeout /\ quiet' = quiet + d
      BY <2>5
    <3>2. Limit > 0 /\ quiet' + Earliness >= Limit
      BY <1>0, <2>1, <2>5, <3>1
    <3> QED
      BY <2>2, <2>5, <3>2 DEF PollingState, TimeoutIsKept, TimeoutKept
  <2> QED
    BY <1>1, <2>3, <2>4, <2>5
<1> QED
  BY <1>2, <1>3, <1>4

(* A write hands over the bytes that follow those handed over before.      *)
LEMMA SendPreserves == IInv /\ Send => IInv'
<1> SUFFICES ASSUME IInv, Send PROVE IInv'
  OBVIOUS
<1> USE DEF IInv
<1>1. /\ UNCHANGED <<arrived, bufferVars, unplugged, receiveVars>>
      /\ gone' \in BOOLEAN
  BY DEF Send, StartSending, SendSome, SendFails, TypeOK
<1>2. TypeOK' /\ SendingState' /\ SendsTheMessage' /\ pc \in {"idle", "sending"}
      /\ pc' \in {"idle", "sending"}
  <2>1. ASSUME NEW n \in Sizes, StartSending(n)
        PROVE  TypeOK' /\ SendingState' /\ SendsTheMessage'
               /\ pc = "idle" /\ pc' = "sending"
    BY <1>1, <2>1 DEF StartSending, TypeOK, SendingState, SendsTheMessage, Empty,
                      bufferVars, receiveVars
  <2>2. ASSUME NEW k \in 0 .. unsent, SendSome(k)
        PROVE  TypeOK' /\ SendingState' /\ SendsTheMessage'
               /\ pc = "sending" /\ pc' \in {"idle", "sending"}
    <3>1. \A i \in 1 .. message - unsent + k :
            (IF i <= message - unsent THEN wire[i]
             ELSE [j \in 1 .. unsent |-> cursor + j][i - (message - unsent)]) = i
      BY <2>2 DEF SendSome, TypeOK, SendingState, SendsTheMessage
    <3>2. wire' = [i \in 1 .. message - unsent + k |-> i]
      BY <2>2, <3>1 DEF SendSome, Filled
    <3>3. /\ unsent' = unsent - k /\ message' = message
          /\ pc = "sending" /\ pc' \in {"idle", "sending"}
          /\ SendingState' /\ cursor' \in Nat
      BY <2>2 DEF SendSome, TypeOK, SendingState
    <3>4. message' - unsent' = message - unsent + k
      BY <3>3 DEF TypeOK
    <3> QED
      BY <1>1, <2>2, <3>2, <3>3, <3>4
         DEF TypeOK, SendsTheMessage, bufferVars, receiveVars
  <2>3. ASSUME SendFails
        PROVE  TypeOK' /\ SendingState' /\ SendsTheMessage'
               /\ pc = "sending" /\ pc' = "idle"
    BY <1>1, <2>3 DEF SendFails, TypeOK, SendingState, SendsTheMessage,
                      bufferVars, receiveVars, sendVars
  <2> QED
    BY <2>1, <2>2, <2>3 DEF Send
<1> QED
  BY <1>1, <1>2 DEF ReceivesTheStream, BufferHoldsTheRest, PollingState,
     TimeoutIsKept, TimeoutKept, Left, Position, Limit, bufferVars, receiveVars

(* Every step of the transport preserves the inductive invariant.          *)
LEMMA StepPreserves == IInv /\ [Next]_vars => IInv'
<1> SUFFICES ASSUME IInv, [Next]_vars PROVE IInv'
  OBVIOUS
<1>1. CASE PeerSends \/ Unplug
  BY <1>1, PeerPreserves
<1>2. CASE Receive
  BY <1>2, BufferPreserves, StartPreserves DEF Receive
<1>3. CASE Poll
  BY <1>3, BytesPreserve, SilencePreserves DEF Poll
<1>4. CASE Send
  BY <1>4, SendPreserves
<1>5. CASE UNCHANGED vars
  <2> USE <1>5 DEF vars, IInv, bufferVars, receiveVars, sendVars
  <2>1. TypeOK'
    BY DEF TypeOK
  <2>2. ReceivesTheStream' /\ BufferHoldsTheRest'
    BY DEF ReceivesTheStream, BufferHoldsTheRest, Left, Position
  <2>3. PollingState' /\ TimeoutIsKept'
    BY DEF PollingState, TimeoutIsKept, TimeoutKept, Left, Position, Limit
  <2>4. SendingState' /\ SendsTheMessage'
    BY DEF SendingState, SendsTheMessage
  <2> QED
    BY <2>1, <2>2, <2>3, <2>4
<1> QED
  BY <1>1, <1>2, <1>3, <1>4, <1>5 DEF Next

(* The inductive invariant holds throughout.                               *)
THEOREM Invariance == Spec => []IInv
BY InitEstablishes, StepPreserves, PTL DEF Spec

(* Every variable keeps its type.                                          *)
THEOREM TypeCorrect == Spec => []TypeOK
<1>1. IInv => TypeOK
  BY DEF IInv
<1> QED
  BY <1>1, Invariance, PTL

(* A reception returns the peer's stream in order, without loss or         *)
(* repetition, and leaves the rest of it in the receive buffer.            *)
THEOREM StreamIsPreserved == Spec => [](ReceivesTheStream /\ BufferHoldsTheRest)
<1>1. IInv => ReceivesTheStream /\ BufferHoldsTheRest
  BY DEF IInv
<1> QED
  BY <1>1, Invariance, PTL

(* No reception gives up before the caller's timeout, or waits beyond it.  *)
THEOREM TimeoutsAreKept == Spec => []TimeoutIsKept
<1>1. IInv => TimeoutIsKept
  BY DEF IInv
<1> QED
  BY <1>1, Invariance, PTL

(* Partial writes put the message on the wire in order.                    *)
THEOREM MessagesAreSent == Spec => []SendsTheMessage
<1>1. IInv => SendsTheMessage
  BY DEF IInv
<1> QED
  BY <1>1, Invariance, PTL

=============================================================================
