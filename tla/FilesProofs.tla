----------------------------- MODULE FilesProofs -----------------------------
(***************************************************************************)
(* Proofs about the files, and the programs that use them: the buffer      *)
(* files are read through stays coherent and reads in sequence are exact,  *)
(* alone and in a process that also writes; writes in sequence put every   *)
(* byte in place; and the programs close what they open and say how they   *)
(* ended, for any sizes of the buffers, of the files and of the requests.  *)
(***************************************************************************)
EXTENDS Files, TLAPS

-----------------------------------------------------------------------------
(* Reading a file through its buffer.                                      *)

(* A file in memory is never moved in, and is never read again.            *)
MemoryStays ==
  kind = "memory" =>
    /\ pc = "idle" /\ position = 0 /\ offset = 0
    /\ read_offset = 0 /\ read_size = FileSize

(* While an aligned read goes on, what the caller has is right, and the    *)
(* cursor is where what is left of the request starts.                     *)
RightSoFar ==
  kind = "system" /\ aligned =>
    /\ pc = "reading" => position = off + (size - left)
    /\ pc = "reading" \/ result = "OK"
         => \A i \in 1 .. size - left : out[i] = off + i - 1

(* Success is reported with nothing left, and not before the end.          *)
LeftOver ==
  /\ pc = "reading" => result = "none"
  /\ result = "OK" => left = 0

(* The bookkeeping of the buffer has the type of numbers it needs.         *)
Numbers ==
  /\ position \in Nat /\ position <= FileSize
  /\ offset \in Nat /\ offset <= FileSize
  /\ read_offset \in Nat /\ read_offset <= FileSize
  /\ read_size \in Nat /\ read_size <= FileSize
  /\ off \in Nat /\ size \in Nat /\ left \in Nat /\ left <= size

Arrays ==
  /\ buffer \in [Indices -> Bytes]
  /\ out \in [1 .. size - left -> Bytes]

Names ==
  /\ kind \in Kinds /\ pc \in {"idle", "reading"}
  /\ result \in Results /\ aligned \in BOOLEAN

IInv ==
  /\ Numbers /\ Arrays /\ Names
  /\ BufferIsCoherent /\ MemoryStays /\ RightSoFar /\ LeftOver

(* The parts of the invariant make the type invariant.                     *)
LEMMA TypeFromParts == Numbers /\ Arrays /\ Names => TypeOK
BY DEF Numbers, Arrays, Names, TypeOK

(* A file that was just opened has nothing in its buffer.                  *)
LEMMA InitEstablishes == Init => IInv
<1> SUFFICES ASSUME Init PROVE IInv
  OBVIOUS
<1>1. Numbers /\ Names /\ LeftOver
  BY KindsAssumption, SizeAssumption DEF Init, Numbers, Names, LeftOver, Results, InitialReadSize
<1>2. Arrays
  BY DEF Init, Arrays, Indices, Bytes, Garbage
<1>3. BufferIsCoherent /\ MemoryStays /\ RightSoFar
  BY SizeAssumption DEF Init, BufferIsCoherent, MemoryStays, RightSoFar, InitialReadSize
<1> QED
  BY <1>1, <1>2, <1>3 DEF IInv

(* A byte of the buffer, or from outside it, is a byte.                    *)
LEMMA ByteAtType ==
  ASSUME Arrays, NEW i \in Int PROVE ByteAt(i) \in Bytes
BY DEF Arrays, ByteAt, Bytes, Garbage

(* What a request makes of its history: its first copied bytes come from   *)
(* the buffer.                                                             *)
LEMMA RequestMade ==
  ASSUME IInv, NEW o \in Offsets, NEW n \in Sizes,
         NEW copied \in Nat, copied <= n, Request(o, n, copied)
  PROVE  /\ off' = o /\ size' = n /\ left' = n - copied
         /\ size' - left' = copied
         /\ o \in Nat /\ n \in Nat /\ n > 0
         /\ left' \in Nat /\ left' <= size'
         /\ out' = [i \in 1 .. copied |-> ByteAt(o - read_offset + i - 1)]
         /\ out' \in [1 .. size' - left' -> Bytes]
<1>1. /\ off' = o /\ size' = n /\ left' = n - copied
      /\ out' = [i \in 1 .. copied |-> ByteAt(o - read_offset + i - 1)]
  BY DEF Request
<1>2. o \in Nat /\ n \in Nat /\ n > 0
  BY RequestAssumption
<1>3. size' - left' = copied /\ left' \in Nat /\ left' <= size'
  BY <1>1, <1>2
<1>4. read_offset \in Nat /\ Arrays
  BY DEF IInv, Numbers
<1>5. ASSUME NEW i \in 1 .. copied PROVE ByteAt(o - read_offset + i - 1) \in Bytes
  <2>1. o - read_offset + i - 1 \in Int
    BY <1>2, <1>4
  <2> QED
    BY <1>4, <2>1, ByteAtType
<1>6. out' \in [1 .. copied -> Bytes]
  BY <1>1, <1>5
<1> QED
  BY <1>1, <1>2, <1>3, <1>6

(* Where the buffer of a system file is coherent, bytes taken from it are  *)
(* those of the file.                                                      *)
LEMMA BufferedBytes ==
  ASSUME IInv, kind = "system",
         NEW o \in Nat, NEW copied \in Nat, read_offset <= o,
         o + copied <= read_offset + read_size,
         NEW i \in 1 .. copied
  PROVE  ByteAt(o - read_offset + i - 1) = o + i - 1
<1> DEFINE j == o - read_offset + i - 1
<1>1. read_offset \in Nat /\ read_size \in Nat /\ BufferSize \in Nat
  BY SizeAssumption DEF IInv, Numbers
<1>2. /\ read_size <= BufferSize
      /\ \A k \in 0 .. read_size - 1 : buffer[k] = read_offset + k
  BY DEF IInv, BufferIsCoherent
<1>3. j \in 0 .. read_size - 1 /\ j \in 0 .. BufferSize - 1 /\ read_offset + j = o + i - 1
  BY <1>1, <1>2
<1>4. buffer[j] = read_offset + j
  BY <1>2, <1>3
<1> QED
  BY <1>3, <1>4 DEF ByteAt, Indices

(* A read that the buffer serves leaves the file alone.                    *)
LEMMA FromBufferPreserves ==
  ASSUME IInv, NEW o \in Offsets, NEW n \in Sizes, ReadFromBuffer(o, n)
  PROVE  IInv'
<1>1. /\ pc = "idle" /\ InBuffer(o) /\ n <= read_size
      /\ Request(o, n, n) /\ result' = "OK"
      /\ aligned' = (o + n <= read_offset + read_size)
      /\ UNCHANGED <<kind, position, offset, read_offset, read_size, buffer, pc>>
  BY DEF ReadFromBuffer, fileVars
<1>2. n \in Nat /\ n <= n
  BY RequestAssumption
<1>3. /\ off' = o /\ size' = n /\ left' = n - n /\ size' - left' = n
      /\ o \in Nat /\ left' \in Nat /\ left' <= size'
      /\ out' = [i \in 1 .. n |-> ByteAt(o - read_offset + i - 1)]
      /\ out' \in [1 .. size' - left' -> Bytes]
  BY <1>1, <1>2, RequestMade
<1>4. left' = 0
  BY <1>2, <1>3
<1>5. Numbers'
  BY <1>1, <1>2, <1>3 DEF IInv, Numbers
<1>6. Arrays'
  BY <1>1, <1>3 DEF IInv, Arrays
<1>7. Names' /\ LeftOver'
  BY <1>1, <1>4 DEF IInv, Names, LeftOver, Results
<1>8. BufferIsCoherent' /\ MemoryStays'
  BY <1>1 DEF IInv, BufferIsCoherent, MemoryStays
<1>9. RightSoFar'
  <2>1. SUFFICES ASSUME kind = "system", o + n <= read_offset + read_size,
                        NEW i \in 1 .. n
                 PROVE  out'[i] = o + i - 1
    BY <1>1, <1>3 DEF RightSoFar
  <2>2. read_offset <= o
    BY <1>1 DEF InBuffer
  <2>3. ByteAt(o - read_offset + i - 1) = o + i - 1
    BY <1>2, <1>3, <2>1, <2>2, BufferedBytes
  <2> QED
    BY <1>3, <2>1, <2>3
<1> QED
  BY <1>5, <1>6, <1>7, <1>8, <1>9 DEF IInv

(* What is available of a read is no more than what was read.              *)
LEMMA AvailableType ==
  ASSUME IInv, NEW o \in Offsets
  PROVE  Available(o) \in Nat /\ (Available(o) = 0 \/ Available(o) = read_size)
BY DEF IInv, Numbers, Available

(* A read that cannot move leaves the file alone, and does not succeed.    *)
LEMMA CannotMovePreserves ==
  ASSUME IInv, NEW o \in Offsets, NEW n \in Sizes, CannotMove(o, n)
  PROVE  IInv'
<1> DEFINE copied == Available(o)
<1>1. /\ pc = "idle" /\ n > copied /\ result' \in {"TRUNC", "IMPL", "UNKNOWN"}
      /\ Request(o, n, copied) /\ aligned' = FALSE
      /\ UNCHANGED <<kind, position, offset, read_offset, read_size, buffer, pc>>
  BY DEF CannotMove, fileVars
<1>2. copied \in Nat
  BY AvailableType
<1>3. n \in Nat /\ copied <= n
  BY <1>1, <1>2, RequestAssumption
<1> HIDE DEF copied
<1>4. /\ off' = o /\ size' = n /\ o \in Nat
      /\ left' \in Nat /\ left' <= size'
      /\ out' \in [1 .. size' - left' -> Bytes]
  BY <1>1, <1>2, <1>3, RequestMade
<1>5. Numbers' /\ Arrays'
  BY <1>1, <1>3, <1>4 DEF IInv, Numbers, Arrays
<1>6. Names' /\ LeftOver'
  BY <1>1 DEF IInv, Names, LeftOver, Results
<1>7. BufferIsCoherent' /\ MemoryStays' /\ RightSoFar'
  BY <1>1 DEF IInv, BufferIsCoherent, MemoryStays, RightSoFar
<1> QED
  BY <1>5, <1>6, <1>7 DEF IInv

(* A file in memory is in the buffer, but for what is past its end.        *)
LEMMA MemoryNotStarted ==
  ASSUME IInv, NEW o \in Offsets, NEW n \in Sizes, StartReading(o, n)
  PROVE  kind = "system"
<1> SUFFICES ASSUME kind = "memory" PROVE FALSE
  BY KindsAssumption DEF IInv, Names
<1>1. /\ n > Available(o) /\ ~PastTheEnd(o + Available(o), n - Available(o))
      /\ o + Available(o) = offset
  BY DEF StartReading
<1>2. offset = 0 /\ read_offset = 0 /\ read_size = FileSize
  BY DEF IInv, MemoryStays
<1>3. Available(o) = IF 0 <= o /\ o < 0 + FileSize THEN FileSize ELSE 0
  BY <1>2 DEF Available, InBuffer
<1> QED
  BY <1>1, <1>2, <1>3, SizeAssumption, RequestAssumption DEF PastTheEnd

(* The bytes of the buffer come first, and the cursor is where they end if *)
(* the read is aligned.                                                    *)
LEMMA StartPreserves ==
  ASSUME IInv, NEW o \in Offsets, NEW n \in Sizes, StartReading(o, n)
  PROVE  IInv'
<1> DEFINE copied == Available(o)
<1>1. /\ pc = "idle" /\ n > copied
      /\ IF o + copied = offset THEN position' = position
         ELSE kind = "system" /\ position' = offset
      /\ pc' = "reading" /\ Request(o, n, copied)
      /\ read_offset' = offset /\ read_size' = 0
      /\ result' = "none" /\ aligned' = (o \in {read_offset, offset})
      /\ kind' = kind /\ offset' = offset /\ buffer' = buffer
  BY DEF StartReading, DiscardBuffer
<1>2. copied \in Nat /\ (copied = 0 \/ copied = read_size)
  BY AvailableType
<1>3. n \in Nat /\ copied <= n
  BY <1>1, <1>2, RequestAssumption
<1>4. o \in Nat /\ offset \in Nat /\ offset <= FileSize /\ position \in Nat
      /\ position <= FileSize /\ read_offset \in Nat /\ read_size \in Nat
  BY SizeAssumption, RequestAssumption DEF IInv, Numbers
<1>5. kind = "system" => position = offset /\ read_offset + read_size = offset
  BY DEF IInv, BufferIsCoherent
<1>6. kind = "system" /\ o \in {read_offset, offset} => o + copied = offset /\ read_offset <= o
  BY <1>4, <1>5 DEF Available, InBuffer
<1> HIDE DEF copied
<1>7. /\ off' = o /\ size' = n /\ left' \in Nat /\ left' <= size'
      /\ size' - left' = copied
      /\ out' = [i \in 1 .. copied |-> ByteAt(o - read_offset + i - 1)]
      /\ out' \in [1 .. size' - left' -> Bytes]
  BY <1>1, <1>2, <1>3, RequestMade
<1>8. position' \in Nat /\ position' <= FileSize
  BY <1>1, <1>4
<1>9. Numbers' /\ Arrays'
  <2>1. Numbers'
    BY <1>1, <1>3, <1>4, <1>7, <1>8, SizeAssumption DEF Numbers
  <2>2. Arrays'
    BY <1>1, <1>7 DEF IInv, Arrays
  <2> QED
    BY <2>1, <2>2
<1>10. Names' /\ LeftOver'
  BY <1>1 DEF IInv, Names, LeftOver, Results
<1>11. BufferIsCoherent' /\ MemoryStays'
  BY <1>1, <1>4, <1>5, MemoryNotStarted, SizeAssumption DEF IInv, BufferIsCoherent, MemoryStays
<1>12. RightSoFar'
  <2>1. SUFFICES ASSUME kind = "system", o \in {read_offset, offset}
                 PROVE  /\ position' = o + copied
                        /\ \A i \in 1 .. copied : out'[i] = o + i - 1
    BY <1>1, <1>7 DEF RightSoFar
  <2>2. position' = o + copied
    BY <1>1, <1>5, <1>6, <2>1
  <2>3. ASSUME NEW i \in 1 .. copied PROVE out'[i] = o + i - 1
    <3>1. read_offset <= o /\ o + copied <= read_offset + read_size
      BY <1>4, <1>5, <1>6, <2>1
    <3>2. ByteAt(o - read_offset + i - 1) = o + i - 1
      BY <1>2, <1>4, <2>1, <3>1, BufferedBytes
    <3> QED
      BY <1>7, <3>2
  <2> QED
    BY <2>2, <2>3
<1> QED
  BY <1>9, <1>10, <1>11, <1>12 DEF IInv

-----------------------------------------------------------------------------
(* A piece extends what the caller has by it, or by what of it is needed.  *)
LEMMA ReadSomePreserves ==
  ASSUME IInv, NEW k \in 1 .. BufferSize, ReadSome(k)
  PROVE  IInv'
<1> DEFINE filled == [i \in Indices |-> IF i < k THEN position + i ELSE buffer[i]]
           copied == Smaller(k, left)
           had == size - left
<1>1. /\ pc = "reading" /\ kind = "system" /\ k <= FileSize - position
      /\ position' = position + k /\ offset' = offset + k
      /\ read_offset' = read_offset + read_size /\ read_size' = k
      /\ buffer' = filled
      /\ out' = [i \in 1 .. had + copied |->
                   IF i <= had THEN out[i] ELSE filled[i - had - 1]]
      /\ left' = left - copied
      /\ IF k >= left THEN pc' = "idle" /\ result' = "OK"
         ELSE pc' = pc /\ result' = result
      /\ kind' = kind /\ off' = off /\ size' = size /\ aligned' = aligned
  BY DEF ReadSome
<1>2. k \in Nat /\ k > 0 /\ k <= BufferSize
  OBVIOUS
<1>3. /\ position \in Nat /\ position <= FileSize /\ offset \in Nat
      /\ read_offset \in Nat /\ read_size \in Nat
      /\ off \in Nat /\ size \in Nat /\ left \in Nat /\ left <= size
      /\ buffer \in [Indices -> Bytes] /\ out \in [1 .. size - left -> Bytes]
  BY DEF IInv, Numbers, Arrays
<1>4. position = offset /\ read_offset + read_size = offset
  BY <1>1 DEF IInv, BufferIsCoherent
<1>5. copied \in Nat /\ copied <= k /\ copied <= left /\ (k >= left => copied = left)
  BY <1>2, <1>3 DEF Smaller
<1>6. had \in Nat
  BY <1>3
<1>7. \A i \in 0 .. k - 1 : i \in Indices /\ filled[i] = position + i
                            /\ position + i \in Bytes
  BY <1>1, <1>2, <1>3, SizeAssumption DEF Indices, Bytes
<1>8. filled \in [Indices -> Bytes]
  <2>1. ASSUME NEW i \in Indices
        PROVE  (IF i < k THEN position + i ELSE buffer[i]) \in Bytes
    <3>1. CASE i < k
      BY <1>1, <1>2, <1>3, <3>1, SizeAssumption DEF Bytes, Indices
    <3>2. CASE ~(i < k)
      BY <1>3, <3>2
    <3> QED
      BY <3>1, <3>2
  <2> QED
    BY <2>1
<1> HIDE DEF filled, copied
<1>9. size' - left' = had + copied /\ left' \in Nat /\ left' <= size'
  BY <1>1, <1>3, <1>5
<1> HIDE DEF had
<1>10. had = size - left
  BY DEF had
<1>11. \A i \in 1 .. had + copied :
         /\ i <= had => i \in 1 .. had /\ out'[i] = out[i]
         /\ i > had => i - had - 1 \in 0 .. k - 1
                       /\ out'[i] = position + (i - had - 1)
  <2>1. SUFFICES ASSUME NEW i \in 1 .. had + copied
                 PROVE  /\ i <= had => i \in 1 .. had /\ out'[i] = out[i]
                        /\ i > had => i - had - 1 \in 0 .. k - 1
                                      /\ out'[i] = position + (i - had - 1)
    OBVIOUS
  <2>2. out'[i] = IF i <= had THEN out[i] ELSE filled[i - had - 1]
    BY <1>1, <2>1
  <2>3. CASE i <= had
    BY <1>5, <1>6, <2>1, <2>2, <2>3
  <2>4. CASE i > had
    <3>1. i - had - 1 \in 0 .. k - 1
      BY <1>2, <1>5, <1>6, <2>1, <2>4
    <3> QED
      BY <1>6, <1>7, <2>2, <2>4, <3>1
  <2> QED
    BY <1>6, <2>3, <2>4
<1>12. Numbers'
  <2>1. position' \in Nat /\ position' <= FileSize
    BY <1>1, <1>2, <1>3, SizeAssumption
  <2>2. offset' \in Nat /\ offset' <= FileSize
    BY <1>1, <1>4, <2>1
  <2>3. read_offset' \in Nat /\ read_offset' <= FileSize
    BY <1>1, <1>3, <1>4
  <2>4. read_size' \in Nat /\ read_size' <= FileSize
    BY <1>1, <1>2, <1>3, SizeAssumption
  <2> QED
    BY <1>1, <1>3, <1>9, <2>1, <2>2, <2>3, <2>4 DEF Numbers
<1>13. Arrays'
  <2>1. ASSUME NEW i \in 1 .. had + copied PROVE out'[i] \in Bytes
    <3>1. CASE i <= had
      BY <1>3, <1>10, <1>11, <2>1, <3>1
    <3>2. CASE i > had
      <4>1. i - had - 1 \in 0 .. k - 1 /\ out'[i] = position + (i - had - 1)
        BY <1>11, <2>1, <3>2
      <4> QED
        BY <1>7, <4>1
    <3> QED
      BY <1>6, <3>1, <3>2
  <2>2. out' = [i \in 1 .. had + copied |-> out'[i]]
    BY <1>1
  <2>3. out' \in [1 .. size' - left' -> Bytes]
    BY <1>9, <2>1, <2>2
  <2> QED
    BY <1>1, <1>8, <2>3 DEF Arrays
<1>14. Names' /\ LeftOver'
  <2>1. Names'
    BY <1>1 DEF IInv, Names, Results
  <2>2. LeftOver'
    <3>1. pc = "reading" /\ result = "none"
      BY <1>1 DEF IInv, LeftOver
    <3>2. CASE k >= left
      BY <1>1, <1>3, <1>5, <3>2 DEF LeftOver
    <3>3. CASE ~(k >= left)
      BY <1>1, <3>1, <3>3 DEF LeftOver
    <3> QED
      BY <3>2, <3>3
  <2> QED
    BY <2>1, <2>2
<1>15. BufferIsCoherent'
  <2>1. position' = offset' /\ read_offset' + read_size' = offset' /\ read_size' <= BufferSize
    BY <1>1, <1>2, <1>3, <1>4
  <2>2. ASSUME NEW i \in 0 .. k - 1 PROVE buffer'[i] = read_offset' + i
    BY <1>1, <1>4, <1>7, <2>2
  <2> QED
    BY <1>1, <2>1, <2>2 DEF BufferIsCoherent
<1>16. MemoryStays'
  BY <1>1 DEF MemoryStays
<1>17. RightSoFar'
  <2>1. SUFFICES ASSUME aligned
                 PROVE  /\ position' = off' + (size' - left') \/ pc' = "idle"
                        /\ \A i \in 1 .. had + copied : out'[i] = off + i - 1
    BY <1>1, <1>9 DEF RightSoFar
  <2>2. /\ position = off + had
        /\ \A i \in 1 .. had : out[i] = off + i - 1
    BY <1>1, <1>10, <2>1 DEF IInv, RightSoFar
  <2>3. ASSUME NEW i \in 1 .. had + copied PROVE out'[i] = off + i - 1
    <3>1. CASE i <= had
      BY <1>11, <2>2, <2>3, <3>1
    <3>2. CASE i > had
      <4>1. out'[i] = position + (i - had - 1)
        BY <1>11, <2>3, <3>2
      <4> QED
        BY <1>3, <1>6, <2>2, <4>1
    <3> QED
      BY <1>6, <3>1, <3>2
  <2>4. CASE k >= left
    BY <1>1, <2>3, <2>4
  <2>5. CASE ~(k >= left)
    <3>1. copied = k
      BY <1>2, <1>3, <2>5 DEF copied, Smaller
    <3>2. position' = off' + (size' - left')
      BY <1>1, <1>2, <1>3, <1>6, <1>9, <2>2, <3>1
    <3> QED
      BY <2>3, <3>2
  <2> QED
    BY <2>4, <2>5
<1> QED
  BY <1>12, <1>13, <1>14, <1>15, <1>16, <1>17 DEF IInv

(* An empty piece leaves the cursor where it is, and the read fails.       *)
LEMMA ReadNothingPreserves ==
  ASSUME IInv, ReadNothing
  PROVE  IInv'
<1>1. /\ pc = "reading" /\ pc' = "idle" /\ result' = "UNKNOWN"
      /\ read_offset' = read_offset + read_size /\ read_size' = 0
      /\ UNCHANGED <<kind, position, offset, buffer, off, size, left, out, aligned>>
  BY DEF ReadNothing
<1>2. kind = "system"
  BY <1>1, KindsAssumption DEF IInv, Names, MemoryStays
<1>3. position = offset /\ read_offset + read_size = offset
  BY <1>2 DEF IInv, BufferIsCoherent
<1>4. Numbers'
  BY <1>1, <1>3, SizeAssumption DEF IInv, Numbers
<1>5. Arrays' /\ Names' /\ LeftOver'
  BY <1>1 DEF IInv, Arrays, Names, LeftOver, Results
<1>6. BufferIsCoherent'
  <2>1. offset \in Nat /\ BufferSize \in Nat
    BY SizeAssumption DEF IInv, Numbers
  <2> QED
    BY <1>1, <1>3, <2>1 DEF BufferIsCoherent
<1>7. MemoryStays' /\ RightSoFar'
  BY <1>1, <1>2 DEF MemoryStays, RightSoFar
<1> QED
  BY <1>4, <1>5, <1>6, <1>7 DEF IInv

(* A read that fails leaves the file and its buffer alone.                 *)
LEMMA ReadFailsPreserves ==
  ASSUME IInv, ReadFails
  PROVE  IInv'
<1>1. /\ kind = "system" /\ pc' = "idle" /\ result' = "UNKNOWN"
      /\ UNCHANGED <<kind, position, offset, read_offset, read_size, buffer,
                     off, size, left, out, aligned>>
  BY DEF ReadFails, fileVars
<1>2. Numbers' /\ Arrays' /\ Names' /\ LeftOver'
  BY <1>1 DEF IInv, Numbers, Arrays, Names, LeftOver, Results
<1>3. BufferIsCoherent' /\ MemoryStays' /\ RightSoFar'
  BY <1>1 DEF IInv, BufferIsCoherent, MemoryStays, RightSoFar
<1> QED
  BY <1>2, <1>3 DEF IInv

(* Nothing happens.                                                        *)
LEMMA StutterPreserves ==
  ASSUME IInv, UNCHANGED vars
  PROVE  IInv'
BY DEF vars, fileVars, requestVars, IInv, Numbers, Arrays, Names, LeftOver,
       BufferIsCoherent, MemoryStays, RightSoFar

-----------------------------------------------------------------------------
(* The invariant is inductive.                                             *)
LEMMA ReadStepPreserves ==
  ASSUME IInv, Next
  PROVE  IInv'
<1>1. CASE Call
  <2>1. PICK o \in Offsets, n \in Sizes :
          ReadFromBuffer(o, n) \/ CannotMove(o, n) \/ StartReading(o, n)
    BY <1>1 DEF Call
  <2> QED
    BY <2>1, FromBufferPreserves, CannotMovePreserves, StartPreserves
<1>2. CASE Turn
  BY <1>2, ReadSomePreserves, ReadNothingPreserves DEF Turn
<1>3. CASE ReadFails
  BY <1>3, ReadFailsPreserves
<1> QED
  BY <1>1, <1>2, <1>3 DEF Next

LEMMA Invariance == Spec => []IInv
<1>1. IInv /\ [Next]_vars => IInv'
  BY ReadStepPreserves, StutterPreserves
<1> QED
  BY <1>1, InitEstablishes, PTL DEF Spec

(* What the invariant says of a read that has just succeeded.              *)
LEMMA ExactWhenRead == IInv => AlignedReadsAreExact
<1> SUFFICES ASSUME IInv, kind = "system", result = "OK", aligned
             PROVE  left = 0 /\ \A i \in 1 .. size : out[i] = off + i - 1
  BY DEF AlignedReadsAreExact
<1>1. left = 0 /\ size \in Nat
  BY DEF IInv, LeftOver, Numbers
<1>2. size - left = size
  BY <1>1
<1>3. \A i \in 1 .. size - left : out[i] = off + i - 1
  BY DEF IInv, RightSoFar
<1> QED
  BY <1>1, <1>2, <1>3

(* The cursors stay within the file, the buffer and what the caller gets   *)
(* hold bytes of the file or garbage, whatever sequence of reads (lines    *)
(* 186-259 of read.c) is made and however short the system cuts them.      *)
THEOREM TypeCorrect == Spec => []TypeOK
<1>1. IInv => TypeOK
  BY TypeFromParts DEF IInv
<1> QED
  BY <1>1, Invariance, PTL

(* The buffer of a system file holds the bytes that read_offset and        *)
(* read_size say it does, after any sequence of reads, skips and errors.   *)
THEOREM BufferCoherent == Spec => []BufferIsCoherent
<1>1. IInv => BufferIsCoherent
  BY DEF IInv
<1> QED
  BY <1>1, Invariance, PTL

(* Reading a system file in sequence gets its bytes, for any size of the   *)
(* buffer, of the file and of the pieces.                                  *)
THEOREM AlignedReadsExact == Spec => []AlignedReadsAreExact
BY ExactWhenRead, Invariance, PTL

-----------------------------------------------------------------------------
(* Writing a file, and the programs.                                       *)

(* What the proofs ask of the constants.                                   *)
WriteConstants ==
  /\ ChunkSize \in Nat \ {0} /\ NullSize \in Nat \ {0} /\ FileSize \in Nat
  /\ Offsets \subseteq Nat /\ Sizes \subseteq Nat

(* Where a request that goes on stands: what is written of it, and that    *)
(* the system's cursor is the file's.                                      *)
WriteUnderway ==
  /\ cursor = woffset
  /\ wpc # "idle" => wresult = "none" /\ woff + wsize <= FileSize
  /\ wpc = "skipping" => woffset < woff /\ wleft = wsize
  /\ wpc = "writing" /\ sequential =>
       /\ woffset = woff + (wsize - wleft)
       /\ \A k \in woff .. woffset - 1 : contents[k] = k

WInv == Write!TypeOK /\ WriteUnderway /\ Write!BytesAreInPlace /\ Write!WritesAreComplete

-----------------------------------------------------------------------------
LEMMA WriteInitEstablishes ==
  ASSUME WriteConstants
  PROVE  Write!Init => WInv
BY SMT DEF WriteConstants, Write!Init, WInv, Write!TypeOK, WriteUnderway, Write!BytesAreInPlace, Write!WritesAreComplete,
           Write!None, Write!Null, Write!Results

(* A request that is refused writes nothing.                               *)
LEMMA WriteRefusePreserves ==
  ASSUME WriteConstants, WInv, NEW o \in Offsets, NEW n \in Sizes, Write!Refuse(o, n)
  PROVE  WInv'
<1>1. o \in Nat /\ n \in Nat
  BY DEF WriteConstants
<1>2. Write!TypeOK'
  BY <1>1 DEF Write!Refuse, Write!Request, WInv, Write!TypeOK, Write!Results
<1>3. WriteUnderway'
  BY DEF Write!Refuse, Write!Request, WInv, WriteUnderway
<1>4. Write!BytesAreInPlace'
  BY DEF Write!Refuse, WInv, Write!BytesAreInPlace
<1>5. Write!WritesAreComplete'
  BY DEF Write!Refuse, Write!WritesAreComplete
<1> QED
  BY <1>2, <1>3, <1>4, <1>5 DEF WInv

(* A request that starts in sequence starts where the file is.             *)
LEMMA StartCreatedPreserves ==
  ASSUME WriteConstants, WInv, NEW o \in Offsets, NEW n \in Sizes, Write!StartCreated(o, n)
  PROVE  WInv'
<1>1. o \in Nat /\ n \in Nat
  BY DEF WriteConstants
<1>2. Write!TypeOK'
  BY <1>1 DEF Write!StartCreated, Write!Request, WInv, Write!TypeOK, Write!Results
<1>3. WriteUnderway'
  <2>1. wpc' # "idle" => wresult' = "none" /\ woff' + wsize' <= FileSize /\ wpc' = "writing"
    BY DEF Write!StartCreated, Write!Request, WInv, WriteUnderway
  <2>2. sequential' => woff' = woffset
    BY DEF Write!StartCreated, Write!Request
  <2>3. cursor' = woffset /\ woffset' = woffset /\ wleft' = wsize' /\ wsize' = n /\ woffset \in Nat
    BY DEF Write!StartCreated, Write!Request, WInv, WriteUnderway, Write!TypeOK
  <2> QED
    BY <1>1, <2>1, <2>2, <2>3 DEF WriteUnderway
<1>4. Write!BytesAreInPlace'
  BY DEF Write!StartCreated, WInv, Write!TypeOK, Write!BytesAreInPlace
<1>5. Write!WritesAreComplete'
  BY DEF Write!StartCreated, Write!WritesAreComplete
<1> QED
  BY <1>2, <1>3, <1>4, <1>5 DEF WInv

LEMMA StartStdoutPreserves ==
  ASSUME WriteConstants, WInv, NEW o \in Offsets, NEW n \in Sizes, Write!StartStdout(o, n)
  PROVE  WInv'
<1>1. o \in Nat /\ n \in Nat
  BY DEF WriteConstants
<1>2. Write!TypeOK'
  BY <1>1 DEF Write!StartStdout, Write!Request, WInv, Write!TypeOK, Write!Results
<1>3. WriteUnderway'
  BY <1>1 DEF Write!StartStdout, Write!Request, WInv, Write!TypeOK, WriteUnderway
<1>4. Write!BytesAreInPlace'
  BY DEF Write!StartStdout, WInv, Write!BytesAreInPlace
<1>5. Write!WritesAreComplete'
  BY DEF Write!StartStdout, Write!WritesAreComplete
<1> QED
  BY <1>2, <1>3, <1>4, <1>5 DEF WInv

(* Null bytes go on from what is written, up to the requested offset.      *)
LEMMA SkipSomePreserves ==
  ASSUME WriteConstants, WInv, NEW k \in 1 .. ChunkSize, Write!SkipSome(k)
  PROVE  WInv'
<1>1. /\ wpc = "skipping" /\ woffset < woff /\ wleft = wsize /\ cursor = woffset
      /\ woffset + k <= woff /\ k \in Nat \ {0} /\ woff + wsize <= FileSize
      /\ woffset \in Nat /\ woff \in Nat /\ wsize \in Nat /\ FileSize \in Nat
  BY DEF Write!SkipSome, Write!Smaller, WInv, WriteUnderway, Write!TypeOK, WriteConstants
<1>2. /\ contents' = [j \in DOMAIN contents |->
                        IF woffset <= j /\ j < woffset + k THEN Write!Null ELSE contents[j]]
      /\ cursor' = woffset + k /\ woffset' = woffset + k
      /\ wpc' = IF woffset + k = woff THEN "writing" ELSE "skipping"
      /\ UNCHANGED <<target, woff, wsize, wleft, wresult, sequential>>
  <2>1. contents' = [j \in DOMAIN contents |->
                       IF woffset <= j /\ j < woffset + k
                       THEN [i \in 0 .. k - 1 |-> Write!Null][j - woffset] ELSE contents[j]]
    BY <1>1 DEF Write!SkipSome, Write!Write
  <2>2. ASSUME NEW j \in DOMAIN contents, woffset <= j, j < woffset + k
        PROVE  [i \in 0 .. k - 1 |-> Write!Null][j - woffset] = Write!Null
    <3>1. j \in Int
      BY DEF WInv, Write!TypeOK
    <3> QED
      BY <1>1, <2>2, <3>1
  <2> QED
    BY <1>1, <2>1, <2>2 DEF Write!SkipSome, Write!Write
<1>3. contents \in [0 .. FileSize - 1 -> 0 .. FileSize - 1 \cup {Write!None, Write!Null}]
  BY DEF WInv, Write!TypeOK
<1>4. Write!TypeOK'
  BY <1>1, <1>2, <1>3 DEF WInv, Write!TypeOK, Write!Null
<1>5. WriteUnderway'
  BY <1>1, <1>2, <1>3 DEF WInv, WriteUnderway
<1>6. Write!BytesAreInPlace'
  BY <1>1, <1>2, <1>3 DEF WInv, Write!BytesAreInPlace, Write!Null, Write!None
<1>7. Write!WritesAreComplete'
  BY <1>1, <1>2 DEF WInv, WriteUnderway, Write!WritesAreComplete
<1> QED
  BY <1>4, <1>5, <1>6, <1>7 DEF WInv

(* The caller's bytes go on from what is written, from the first that is   *)
(* left.                                                                   *)
LEMMA WriteSomePreserves ==
  ASSUME WriteConstants, WInv, NEW k \in 1 .. ChunkSize, Write!WriteSome(k)
  PROVE  WInv'
<1>1. /\ wpc = "writing" /\ wresult = "none" /\ cursor = woffset /\ woff + wsize <= FileSize
      /\ k <= wleft /\ k \in Nat \ {0} /\ wleft \in 0 .. wsize
      /\ woffset \in Nat /\ woff \in Nat /\ wsize \in Nat /\ FileSize \in Nat
  BY DEF Write!WriteSome, Write!Smaller, WInv, WriteUnderway, Write!TypeOK, WriteConstants
<1>2. /\ contents' = [j \in DOMAIN contents |->
                        IF woffset <= j /\ j < woffset + k
                        THEN woff + (wsize - wleft) + (j - woffset) ELSE contents[j]]
      /\ cursor' = woffset + k /\ woffset' = woffset + k /\ wleft' = wleft - k
      /\ IF k = wleft THEN wpc' = "idle" /\ wresult' = "OK" ELSE wpc' = "writing" /\ wresult' = "none"
      /\ UNCHANGED <<target, woff, wsize, sequential>>
  <2>1. contents' = [j \in DOMAIN contents |->
                       IF woffset <= j /\ j < woffset + k
                       THEN [i \in 0 .. k - 1 |-> Write!Data(i)][j - woffset] ELSE contents[j]]
    BY <1>1 DEF Write!WriteSome, Write!Write
  <2>2. ASSUME NEW j \in DOMAIN contents, woffset <= j, j < woffset + k
        PROVE  [i \in 0 .. k - 1 |-> Write!Data(i)][j - woffset] = woff + (wsize - wleft) + (j - woffset)
    <3>1. j \in Int
      BY DEF WInv, Write!TypeOK
    <3> QED
      BY <1>1, <2>2, <3>1 DEF Write!Data
  <2> QED
    BY <1>1, <2>1, <2>2 DEF Write!WriteSome, Write!Write, Write!AllWritten
<1>3. contents \in [0 .. FileSize - 1 -> 0 .. FileSize - 1 \cup {Write!None, Write!Null}]
  BY DEF WInv, Write!TypeOK
<1>4. Write!TypeOK'
  BY <1>1, <1>2, <1>3 DEF WInv, Write!TypeOK, Write!Results
<1>5. sequential => woffset = woff + (wsize - wleft) /\ \A i \in woff .. woffset - 1 : contents[i] = i
  BY <1>1 DEF WInv, WriteUnderway
<1>6. sequential => \A i \in woff .. woffset + k - 1 : contents'[i] = i
  BY <1>1, <1>2, <1>3, <1>5
<1>7. WriteUnderway'
  BY <1>1, <1>2, <1>5, <1>6 DEF WriteUnderway
<1>8. Write!BytesAreInPlace'
  BY <1>1, <1>2, <1>3, <1>5 DEF WInv, Write!BytesAreInPlace
<1>9. Write!WritesAreComplete'
  BY <1>1, <1>2, <1>5, <1>6 DEF Write!WritesAreComplete
<1> QED
  BY <1>4, <1>7, <1>8, <1>9 DEF WInv

(* A write that fails leaves what it has written, which is in its place.   *)
LEMMA WriteFailsPreserves ==
  ASSUME WInv, Write!WriteFails
  PROVE  WInv'
BY DEF Write!WriteFails, WInv, Write!TypeOK, WriteUnderway, Write!BytesAreInPlace, Write!WritesAreComplete, Write!Results

LEMMA WriteStepPreserves ==
  ASSUME WriteConstants, WInv, Write!Next
  PROVE  WInv'
<1>1. CASE Write!Call
  BY <1>1, WriteRefusePreserves, StartCreatedPreserves, StartStdoutPreserves DEF Write!Call
<1>2. CASE Write!Turn
  BY <1>2, SkipSomePreserves, WriteSomePreserves DEF Write!Turn
<1>3. CASE Write!WriteFails
  BY <1>3, WriteFailsPreserves
<1> QED
  BY <1>1, <1>2, <1>3 DEF Write!Next

(* Nothing is written by the other parts.                                  *)
LEMMA WriteStutterPreserves ==
  ASSUME WInv, UNCHANGED writeVars
  PROVE  WInv'
BY DEF writeVars, WInv, Write!TypeOK, WriteUnderway, Write!BytesAreInPlace,
       Write!WritesAreComplete

LEMMA WriteConstantsHold == WriteConstants
BY ChunkAssumption, SizeAssumption, RequestAssumption DEF WriteConstants

-----------------------------------------------------------------------------
(* Where the main() of each program can be.                                *)
Places(p) ==
  {"parse", "context", "end", "fail", "exited"} \union
  CASE p = "p7"       -> {"detect", "open", "negotiate", "file", "call"}
    [] p = "p7os"     -> {"open_update", "property", "upload", "confirm", "open", "call"}
    [] p = "xfer9860" -> {"open", "file", "call"}
    [] p = "cas"      -> {"read", "decode", "receive", "list"}
    [] p = "p7screen" -> {"open", "start", "watch", "display"}

Outputs == IF tool = "p7os" /\ command = "get" THEN {"output"} ELSE {}

Window == {"video", "window", "renderer", "texture"}

(* What may be open where main() is.                                       *)
MayHold ==
  CASE place = "parse" -> {}
    [] place = "context" -> Outputs
    [] place \in {"detect", "open_update", "confirm", "open", "read", "list"} ->
         {"context"} \union Outputs
    [] place \in {"negotiate", "file", "property", "upload", "receive", "start"} ->
         {"context", "link"} \union Outputs
    [] place = "decode" -> {"context", "file"}
    [] place = "call" ->
         {"context", "link"} \union IF tool = "p7os" THEN Outputs ELSE {"file"}
    [] place \in {"watch", "display"} -> {"context", "link"} \union Window
    [] place \in {"end", "fail"} ->
         {"context", "link"} \union CASE tool = "p7os" -> {"rom"} \union Outputs
                                      [] tool = "p7screen" -> Window
                                      [] OTHER -> {}
    [] place = "exited" -> Tools!Left

(* No link is left open when cas ends.                                     *)
CasHolds == tool = "cas" /\ place \in {"end", "fail"} => held \subseteq {"context"}

(* What the program is to say of what it did, if it ends with 0.           *)
Accounted == (done /\ stopped = "nowhere") \/ (~done /\ Tools!Excused)

(* Nothing goes wrong but on the way to the end, and what was asked is     *)
(* only done there, where p7os looks at its last call and the others at    *)
(* where they are.                                                         *)
DoneAtTheEnd ==
  /\ place \notin {"end", "exited"} => ~done
  /\ place \notin {"end", "fail", "exited"} =>
       stopped = "nowhere" /\ (tool = "p7os" => err = "OK")
  /\ place = "fail" => stopped # "nowhere" /\ (tool = "p7os" => err # "OK")
  /\ place = "end" =>
       IF tool = "p7os" /\ err # "OK" THEN ~done /\ stopped # "nowhere" ELSE Accounted
  /\ status = "success" => Accounted
  /\ status = "failure" => ~done /\ stopped # "nowhere"

(* Where a download stopped halfway, its file is about to be removed.      *)
PartIsRemoved == tool = "p7" /\ local = "part" => command = "get" /\ place = "fail"

(* main() only detects or asks when it was asked to.                       *)
DetectsAsAsked ==
  /\ place = "detect" => command = "list-serial"
  /\ place = "confirm" => command = "flash"
  /\ place \in {"open_update", "property", "upload"} => command \in {"none", "flash"}

PInv ==
  /\ Tools!TypeOK /\ received <= rounds + 1
  /\ tool \in {"p7", "p7os", "xfer9860", "cas", "p7screen"} /\ place \in Places(tool)
  /\ held \subseteq MayHold /\ CasHolds /\ DoneAtTheEnd /\ PartIsRemoved
  /\ DetectsAsAsked

LEMMA RoundsAreCounted == MaxRounds \in Nat
BY ProgramsAssumption

(* The listing of serial ports, when it succeeds, exits with the context.  *)
LEMMA P7DetectsPreserves ==
  ASSUME PInv, Tools!P7Detects
  PROVE  PInv'
<1>1. /\ tool = "p7" /\ place = "detect" /\ command = "list-serial" /\ status = "none"
      /\ UNCHANGED <<tool, command, held, local, received, rounds>>
      /\ err' \in {"OK", "OTHER"} /\ done' = (err' = "OK") /\ stopped = "nowhere"
      /\ stopped' = IF err' = "OK" THEN "nowhere" ELSE "detect"
      /\ IF err' = "OK" THEN place' = "exited" /\ status' = "success"
                       ELSE place' = "fail" /\ status' = "none"
  BY DEF PInv, DoneAtTheEnd, DetectsAsAsked, Tools!TypeOK, Tools!At, Tools!Stops, Tools!Calls,
       Tools!GoTo, Tools!Exits, Tools!P7Detects
<1>2. held \subseteq {"context"} /\ local # "part"
  BY <1>1 DEF PInv, MayHold, Outputs, PartIsRemoved
<1>3. CASE err' = "OK"
  BY <1>1, <1>2, <1>3 DEF PInv, Tools!TypeOK, Tools!Errors, Tools!Commands, Places,
       MayHold, Outputs, Window, CasHolds, DoneAtTheEnd, PartIsRemoved, DetectsAsAsked, Tools!Left,
       Accounted, Tools!Excused, Tools!Things, Tools!Calling
<1>4. CASE err' # "OK"
  BY <1>1, <1>2, <1>4 DEF PInv, Tools!TypeOK, Tools!Errors, Tools!Commands, Places, MayHold,
       Outputs, Window, CasHolds, DoneAtTheEnd, PartIsRemoved, DetectsAsAsked, Tools!Left,
       Accounted, Tools!Excused, Tools!Things, Tools!Calling
<1> QED
  BY <1>3, <1>4

(* A frame, nothing yet, or the end.                                       *)
LEMMA ReceiveScreenPreserves ==
  ASSUME PInv, Tools!ReceiveScreen
  PROVE  PInv'
<1>1. /\ tool = "p7screen" /\ place = "watch" /\ status = "none" /\ ~done
      /\ UNCHANGED <<tool, command, held, local, received>>
      /\ err' \in {"OK", "TIMEOUT_START", "TERMINATED", "OTHER"} /\ stopped = "nowhere"
      /\ stopped' = IF err' = "OTHER" THEN "watch" ELSE "nowhere"
  BY DEF PInv, DoneAtTheEnd, Tools!TypeOK, Tools!At, Tools!Stops, Tools!Calls, Tools!Screen,
         Tools!ReceiveScreen
<1>2. /\ status' = "none" /\ (rounds' = rounds \/ (rounds' = rounds + 1 /\ rounds < MaxRounds))
      /\ \/ place' \in {"display", "watch"} /\ done' = done /\ stopped' = "nowhere"
         \/ place' = "fail" /\ done' = done /\ stopped' = "watch"
         \/ place' = "end" /\ done' = TRUE /\ stopped' = "nowhere"
  <2>1. CASE err' = "OK"
    BY <1>1, <2>1 DEF Tools!GoTo, Tools!ReceiveScreen
  <2>2. CASE err' = "TIMEOUT_START"
    BY <1>1, <2>2 DEF Tools!GoTo, Tools!ReceiveScreen
  <2>3. CASE err' = "TERMINATED"
    BY <1>1, <2>3 DEF Tools!GoTo, Tools!ReceiveScreen
  <2>4. CASE err' = "OTHER"
    BY <1>1, <2>4 DEF Tools!GoTo, Tools!ReceiveScreen
  <2> QED
    BY <1>1, <2>1, <2>2, <2>3, <2>4
<1>3. rounds' \in 0 .. MaxRounds /\ received \in 0 .. MaxRounds + 1 /\ received <= rounds' + 1
  BY <1>2, RoundsAreCounted DEF PInv, Tools!TypeOK
<1>4. CASE place' = "end" /\ done'
  BY <1>1, <1>2, <1>3, <1>4 DEF PInv, Tools!TypeOK, Tools!Errors, Tools!Commands, Places,
       MayHold, Outputs, Window, CasHolds, DoneAtTheEnd, PartIsRemoved, DetectsAsAsked, Tools!Left,
       Accounted, Tools!Excused, Tools!Things, Tools!Calling
<1>5. CASE place' \in {"display", "watch", "fail"} /\ ~done'
  BY <1>1, <1>2, <1>3, <1>5 DEF PInv, Tools!TypeOK, Tools!Errors, Tools!Commands, Places,
       MayHold, Outputs, Window, CasHolds, DoneAtTheEnd, PartIsRemoved, DetectsAsAsked, Tools!Left,
       Accounted, Tools!Excused, Tools!Things, Tools!Calling
<1> QED
  BY <1>1, <1>2, <1>4, <1>5

(* What the steps of the programs are made of.                             *)
USE DEF PInv, Tools!TypeOK, Tools!Things, Tools!Errors, Tools!Commands, Places, MayHold,
        Outputs, Window, CasHolds, DoneAtTheEnd, PartIsRemoved, DetectsAsAsked, Tools!Left,
        Accounted, Tools!Excused, Tools!Calling, Tools!At, Tools!Stops, Tools!Calls,
        Tools!GoTo, Tools!Exits, Tools!Opens, Tools!Closes,
        Tools!screenVars, Tools!P7os, Tools!Cas, Tools!Screen

LEMMA ParsePreserves ==
  ASSUME PInv, Tools!Parse
  PROVE  PInv'
BY DEF Tools!Parse

LEMMA ContextPreserves ==
  ASSUME PInv, Tools!CreateContext
  PROVE  PInv'
BY DEF Tools!CreateContext, Tools!First

LEMMA OpenLinkPreserves ==
  ASSUME PInv, Tools!OpenLink
  PROVE  PInv'
BY DEF Tools!OpenLink

LEMMA P7NegotiatesPreserves ==
  ASSUME PInv, Tools!P7Negotiates
  PROVE  PInv'
BY DEF Tools!P7Negotiates

LEMMA OpenSourcePreserves ==
  ASSUME PInv, Tools!OpenSource
  PROVE  PInv'
BY DEF Tools!OpenSource

LEMMA OperatePreserves ==
  ASSUME PInv, Tools!Operate
  PROVE  PInv'
<1>1. /\ place = "call" /\ status = "none" /\ tool \in {"p7", "xfer9860"}
      /\ UNCHANGED <<tool, command, status, received, rounds>>
      /\ stopped = "nowhere" /\ stopped' = IF ~done' THEN "call" ELSE stopped
      /\ held' = held \ {"file"}
      /\ place' = IF tool = "p7" /\ err' = "OTHER" THEN "fail" ELSE "end"
  BY DEF Tools!Operate
<1>2. /\ err' \in {"OK", "NOOW", "OTHER"} /\ done' \in BOOLEAN /\ (done' => err' = "OK")
      /\ err' = "OTHER" => ~done'
      /\ err' = "NOOW" => command = "send"
      /\ ~done' => err' = "OTHER" \/ (tool = "p7" /\ (command = "info" \/ err' = "NOOW"))
  <2>1. PICK r \in Tools!Returned : err' = r[1] /\ done' = r[2]
    BY DEF Tools!Operate
  <2>2. command = "info" => tool = "p7"
    BY <1>1
  <2>3. CASE command = "info"
    <3>1. r = <<"OK", TRUE>> \/ r = <<"OK", FALSE>>
      <4> HIDE DEF PInv
      <4>1. Tools!Returned = {<<"OK", TRUE>>, <<"OK", FALSE>>}
        BY <2>3, Zenon DEF Tools!Returned
      <4> QED
        BY <2>1, <4>1, Zenon
    <3>2. err' = "OK" /\ (done' = TRUE \/ done' = FALSE)
      <4>1. CASE r = <<"OK", TRUE>>
        BY <2>1, <4>1
      <4>2. CASE r = <<"OK", FALSE>>
        BY <2>1, <4>2
      <4> QED
        BY <3>1, <4>1, <4>2
    <3> QED
      BY <2>2, <2>3, <3>2, Zenon
  <2>4. CASE command # "info"
    <3>1. \/ r = <<"OK", TRUE>> \/ r = <<"OTHER", FALSE>>
          \/ r = <<"NOOW", FALSE>> /\ tool = "p7" /\ command = "send"
      BY <2>1, <2>4 DEF Tools!Returned
    <3>2. CASE r = <<"OK", TRUE>>
      <4>1. err' = "OK" /\ done' = TRUE
        BY <2>1, <3>2
      <4> QED
        BY <4>1, Zenon
    <3>3. CASE r = <<"OTHER", FALSE>>
      <4>1. err' = "OTHER" /\ done' = FALSE
        BY <2>1, <3>3
      <4> QED
        BY <4>1, Zenon
    <3>4. CASE r = <<"NOOW", FALSE>> /\ tool = "p7" /\ command = "send"
      <4>1. err' = "NOOW" /\ done' = FALSE /\ tool = "p7" /\ command = "send"
        BY <2>1, <3>4
      <4> QED
        BY <4>1, Zenon
    <3> QED
      BY <3>1, <3>2, <3>3, <3>4
  <2> QED
    BY <2>3, <2>4
<1>3. /\ local' \in {"before", "whole", "part", "removed"}
      /\ command = "get" \/ local' = local
      /\ err' = "OK" /\ command = "get" => local' = "whole"
  BY DEF Tools!Operate, Tools!Downloaded
<1>4. place' = "end" => Accounted'
  BY <1>1, <1>2
<1>5. place' = "fail" => stopped' = "call"
  BY <1>1, <1>2
<1>6. DoneAtTheEnd'
  BY <1>1, <1>2, <1>4, <1>5
<1>7. held' \subseteq MayHold'
  BY <1>1
<1>8. Tools!TypeOK' /\ CasHolds' /\ DetectsAsAsked'
  BY <1>1, <1>2, <1>3
<1>9. PartIsRemoved'
  BY <1>1, <1>2, <1>3
<1>10. tool' \in {"p7", "p7os", "xfer9860", "cas", "p7screen"} /\ place' \in Places(tool)'
  BY <1>1
<1>11. received' <= rounds' + 1
  BY <1>1
<1> HIDE DEF DoneAtTheEnd, MayHold, Tools!TypeOK, CasHolds, DetectsAsAsked, PartIsRemoved, Places
<1> QED
  BY <1>6, <1>7, <1>8, <1>9, <1>10, <1>11

LEMMA EndsPreserves ==
  ASSUME PInv, Tools!Ends
  PROVE  PInv'
BY DEF Tools!Ends, Tools!RemovesTarget

LEMMA OpenForUploadPreserves ==
  ASSUME PInv, Tools!OpenForUpload
  PROVE  PInv'
BY DEF Tools!OpenForUpload

LEMMA GetPropertyPreserves ==
  ASSUME PInv, Tools!GetProperty
  PROVE  PInv'
<1>1. /\ place = "property" /\ tool = "p7os" /\ status = "none" /\ stopped = "nowhere" /\ ~done
      /\ UNCHANGED <<tool, command, status, held, done, local, received, rounds>>
      /\ err' \in {"OK", "OTHER"}
  BY DEF Tools!GetProperty
<1>2. \/ place' = "upload" /\ err' = "OK" /\ stopped' = "nowhere"
      \/ place' = "end" /\ stopped' = "property"
  BY <1>1 DEF Tools!GetProperty
<1> QED
  BY <1>1, <1>2

LEMMA UploadPreserves ==
  ASSUME PInv, Tools!Upload
  PROVE  PInv'
<1>1. /\ place = "upload" /\ tool = "p7os" /\ status = "none" /\ stopped = "nowhere" /\ ~done
      /\ UNCHANGED <<tool, command, status, local, received, rounds>>
      /\ err' \in {"OK", "OTHER"} /\ done' \in BOOLEAN /\ held' \subseteq held
      /\ stopped' = IF err' = "OTHER" THEN "upload" ELSE stopped
  BY DEF Tools!Upload
<1>2. CASE err' = "OK"
  BY <1>1, <1>2 DEF Tools!Upload
<1>3. CASE err' = "OTHER"
  BY <1>1, <1>3 DEF Tools!Upload
<1> QED
  BY <1>1, <1>2, <1>3

LEMMA ConfirmFlashPreserves ==
  ASSUME PInv, Tools!ConfirmFlash
  PROVE  PInv'
BY DEF Tools!ConfirmFlash

LEMMA P7osOpensPreserves ==
  ASSUME PInv, Tools!P7osOpens
  PROVE  PInv'
BY DEF Tools!P7osOpens

LEMMA BackupOrFlashPreserves ==
  ASSUME PInv, Tools!BackupOrFlash
  PROVE  PInv'
<1>1. /\ place = "call" /\ tool = "p7os" /\ status = "none" /\ stopped = "nowhere"
      /\ UNCHANGED <<tool, command, status, local, received, rounds>>
      /\ err' \in {"OK", "OTHER"} /\ place' = "end" /\ done' \in BOOLEAN
      /\ stopped' = IF ~done' THEN "call" ELSE stopped
  BY DEF Tools!BackupOrFlash
<1>2. \/ command = "get" /\ held' \subseteq held \union {"rom"}
      \/ command = "flash" /\ held' \subseteq held /\ (err' = "OK" => done')
  BY DEF Tools!BackupOrFlash
<1>3. done' => err' = "OK"
  BY DEF Tools!BackupOrFlash
<1> QED
  BY <1>1, <1>2, <1>3

LEMMA P7osEndsPreserves ==
  ASSUME PInv, Tools!P7osEnds
  PROVE  PInv'
BY DEF Tools!P7osEnds

LEMMA OpenInputPreserves ==
  ASSUME PInv, Tools!OpenInput
  PROVE  PInv'
BY DEF Tools!OpenInput

LEMMA DecodeInputPreserves ==
  ASSUME PInv, Tools!DecodeInput
  PROVE  PInv'
BY RoundsAreCounted DEF Tools!DecodeInput

LEMMA ReceiveInputPreserves ==
  ASSUME PInv, Tools!ReceiveInput
  PROVE  PInv'
BY RoundsAreCounted DEF Tools!ReceiveInput

LEMMA ListAndOutputPreserves ==
  ASSUME PInv, Tools!ListAndOutput
  PROVE  PInv'
BY DEF Tools!ListAndOutput

LEMMA CasEndsPreserves ==
  ASSUME PInv, Tools!CasEnds
  PROVE  PInv'
BY RoundsAreCounted DEF Tools!CasEnds

LEMMA OpenScreenLinkPreserves ==
  ASSUME PInv, Tools!OpenScreenLink
  PROVE  PInv'
BY DEF Tools!OpenScreenLink

LEMMA StartVideoPreserves ==
  ASSUME PInv, Tools!StartVideo
  PROVE  PInv'
BY DEF Tools!StartVideo

LEMMA UserQuitsPreserves ==
  ASSUME PInv, Tools!UserQuits
  PROVE  PInv'
BY DEF Tools!UserQuits

LEMMA DisplayFramePreserves ==
  ASSUME PInv, Tools!DisplayFrame
  PROVE  PInv'
BY DEF Tools!DisplayFrame, Tools!Prepared

LEMMA ScreenEndsPreserves ==
  ASSUME PInv, Tools!ScreenEnds
  PROVE  PInv'
BY DEF Tools!ScreenEnds

HIDE DEF PInv, Tools!TypeOK, Tools!Things, Tools!Errors, Tools!Commands, Places, MayHold,
         Outputs, Window, CasHolds, DoneAtTheEnd, PartIsRemoved, DetectsAsAsked, Tools!Left,
         Accounted, Tools!Excused, Tools!Calling, Tools!At, Tools!Stops, Tools!Calls,
        Tools!GoTo, Tools!Exits, Tools!Opens, Tools!Closes,
         Tools!screenVars, Tools!P7os, Tools!Cas, Tools!Screen


LEMMA ProgramStepPreserves ==
  ASSUME PInv, Tools!Next
  PROVE  PInv'
BY P7DetectsPreserves, ReceiveScreenPreserves, ParsePreserves, ContextPreserves,
   OpenLinkPreserves, P7NegotiatesPreserves, OpenSourcePreserves, OperatePreserves,
   EndsPreserves, OpenForUploadPreserves, GetPropertyPreserves, UploadPreserves,
   ConfirmFlashPreserves, P7osOpensPreserves, BackupOrFlashPreserves,
   P7osEndsPreserves, OpenInputPreserves, DecodeInputPreserves, ReceiveInputPreserves,
   ListAndOutputPreserves, CasEndsPreserves, OpenScreenLinkPreserves,
   StartVideoPreserves, UserQuitsPreserves, DisplayFramePreserves, ScreenEndsPreserves
DEF Tools!Next

-----------------------------------------------------------------------------
LEMMA ProgramInitEstablishes == Tools!Init => PInv
<1> SUFFICES ASSUME Tools!Init PROVE PInv
  OBVIOUS
<1>1. Tools!TypeOK /\ received <= rounds + 1
  <2>1. received = 0 /\ rounds = 0 /\ received \in 0 .. MaxRounds + 1 /\ rounds \in 0 .. MaxRounds
    BY RoundsAreCounted DEF Tools!Init
  <2>2. (place = "exited") = (status # "none")
    BY DEF Tools!Init
  <2>3. /\ command \in Tools!Commands(tool) /\ err \in Tools!Errors
        /\ held \subseteq Tools!Things /\ done \in BOOLEAN
        /\ status \in {"none", "told", "success", "failure"}
        /\ stopped = "nowhere" /\ local \in {"before", "whole", "part", "removed"}
    BY DEF Tools!Init, Tools!Errors
  <2> QED
    BY <2>1, <2>2, <2>3 DEF Tools!TypeOK
<1>2. /\ place = "parse" /\ held = {} /\ ~done /\ status = "none" /\ local = "before"
      /\ stopped = "nowhere" /\ err = "OK"
  BY DEF Tools!Init
<1>3. tool \in {"p7", "p7os", "xfer9860", "cas", "p7screen"} /\ place \in Places(tool)
  BY <1>2 DEF Tools!Init, Places
<1>4. CasHolds /\ DoneAtTheEnd /\ PartIsRemoved /\ DetectsAsAsked
  BY <1>2 DEF CasHolds, DoneAtTheEnd, PartIsRemoved, DetectsAsAsked
<1> QED
  BY <1>1, <1>2, <1>3, <1>4 DEF PInv

LEMMA ProgramStutterPreserves ==
  ASSUME PInv, UNCHANGED toolVars
  PROVE  PInv'
<1>1. UNCHANGED <<tool, command, place, err, status, held, done, stopped, local, received, rounds, zoom, saved, frame, pitch, texture>>
  BY DEF toolVars
<1>2. Tools!TypeOK'
  BY <1>1 DEF PInv, Tools!TypeOK, Tools!Commands, Tools!Errors, Tools!Things, Tools!Calling
<1>3. CasHolds' /\ DoneAtTheEnd' /\ PartIsRemoved' /\ DetectsAsAsked'
  BY <1>1 DEF PInv, CasHolds, DoneAtTheEnd, PartIsRemoved, DetectsAsAsked, Tools!Left, Accounted,
       Tools!Excused, MayHold, Outputs
<1>4. MayHold' = MayHold
  BY <1>1 DEF MayHold, Outputs, Window
<1>5. Places(tool)' = Places(tool)
  BY <1>1, Zenon DEF Places
<1> HIDE DEF Places, MayHold, Tools!TypeOK, CasHolds, DoneAtTheEnd, PartIsRemoved, DetectsAsAsked
<1>6. received' <= rounds' + 1
  BY <1>1 DEF PInv
<1> QED
  BY <1>1, <1>2, <1>3, <1>4, <1>5, <1>6 DEF PInv

(* A program that never lies about how it ended, from what it knows.       *)
LEMMA ProgramsTell == PInv => Tools!OutcomeIsTold
<1> SUFFICES ASSUME PInv PROVE Tools!OutcomeIsTold
  OBVIOUS
<1>1. place \in {"open", "open_update", "read"} => held \intersect {"link", "file"} = {}
  BY DEF PInv, MayHold, Outputs
<1>2. status # "none" => held \subseteq Tools!Left
  BY DEF PInv, Tools!TypeOK, MayHold
<1>3. tool = "p7" /\ status # "none" => local # "part"
  BY DEF PInv, Tools!TypeOK, PartIsRemoved
<1>4. status = "failure" => ~done /\ stopped # "nowhere"
  BY DEF PInv, DoneAtTheEnd
<1>5. status = "success" => Accounted
  BY DEF PInv, DoneAtTheEnd
<1> QED
  BY <1>1, <1>2, <1>3, <1>4, <1>5, Zenon DEF Accounted, Tools!OutcomeIsTold

-----------------------------------------------------------------------------
(* The parts together: a step is one of the part in use, and leaves the    *)
(* others as they are.                                                     *)
FInv == IInv /\ WInv /\ (use = "program" => PInv)

LEMMA FilesInvariance == FilesSpec => []FInv
<1>1. FilesInit => FInv
  BY InitEstablishes, WriteConstantsHold, WriteInitEstablishes, ProgramInitEstablishes
     DEF FilesInit, FInv
<1>2. FInv /\ [FilesNext]_allVars => FInv'
  <2> SUFFICES ASSUME FInv, [FilesNext]_allVars PROVE FInv'
    OBVIOUS
  <2> USE WriteConstantsHold DEF FInv
  <2>1. CASE use = "read" /\ Next /\ UNCHANGED <<use, writeVars, textVars, toolVars>>
    BY <2>1, ReadStepPreserves, WriteStutterPreserves
  <2>2. CASE use = "write" /\ Write!Next /\ UNCHANGED <<use, vars, textVars, toolVars>>
    BY <2>2, WriteStepPreserves, StutterPreserves
  <2>3. CASE use = "text" /\ Text!Next /\ UNCHANGED <<use, vars, writeVars, toolVars>>
    BY <2>3, WriteStutterPreserves, StutterPreserves
  <2>4. CASE use = "program" /\ Tools!Next /\ UNCHANGED <<use, vars, writeVars, textVars>>
    BY <2>4, ProgramStepPreserves, WriteStutterPreserves, StutterPreserves
  <2>5. CASE UNCHANGED allVars
    BY <2>5, StutterPreserves, WriteStutterPreserves, ProgramStutterPreserves DEF allVars
  <2> QED
    BY <2>1, <2>2, <2>3, <2>4, <2>5 DEF FilesNext
<1> QED
  BY <1>1, <1>2, PTL DEF FilesSpec

(* Writes in sequence put every byte at its offset, with null bytes in the *)
(* gaps, and a write that succeeds has written all of it (lib/file/        *)
(* write.c), whatever pieces the system takes and whichever calls fail.    *)
THEOREM WritesExact == FilesSpec => []WritesAreExact
<1>1. FInv => WritesAreExact
  BY DEF FInv, WInv, WritesAreExact
<1> QED
  BY <1>1, FilesInvariance, PTL

(* The files that are read next to those: their buffer stays coherent, and *)
(* reads in sequence get the bytes of the file (lib/file/read.c).          *)
THEOREM ReadsStayExact ==
  FilesSpec => [](TypeOK /\ BufferIsCoherent /\ AlignedReadsAreExact)
<1>1. FInv => TypeOK /\ BufferIsCoherent /\ AlignedReadsAreExact
  BY TypeFromParts, ExactWhenRead DEF FInv, IInv
<1> QED
  BY <1>1, FilesInvariance, PTL

(* However its calls fail and in whatever order, a program (cli/) closes   *)
(* what it opened before it exits, never opens a link over another, exits  *)
(* with a status that is true to what was done, but for what it is known   *)
(* to leave and to excuse, and p7 leaves no partial download.              *)
THEOREM ProgramsTellTheOutcome == FilesSpec => []OutcomeIsTold
<1>1. FInv => OutcomeIsTold
  BY ProgramsTell DEF FInv, PInv, OutcomeIsTold
<1> QED
  BY <1>1, FilesInvariance, PTL

=============================================================================
