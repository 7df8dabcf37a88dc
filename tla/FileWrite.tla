----------------------------- MODULE FileWrite -----------------------------
(***************************************************************************)
(* Writing to a file at an offset: lib/file/write.c, on the files of       *)
(* create.c (of a size given in advance, written in place) and             *)
(* open_stdout.c (written from start to end).                              *)
(*                                                                         *)
(* The byte to be written at offset k has the value k, and Null is one of  *)
(* null_buffer, so that a byte in the wrong place is visible.              *)
(***************************************************************************)
EXTENDS Integers

CONSTANTS
  Kinds,         (* {"created"}, {"stdout"} or both                        *)
  ChunkSize,     (* WRITE_CHUNK_SIZE                                       *)
  NullSize,      (* sizeof(null_buffer)                                    *)
  FileSize,      (* size a file is created with; stdout goes as far here   *)
  Offsets, Sizes, (* offsets and sizes the callers write                   *)
  MaxPosition    (* bound on the cursor, which may leave a created file    *)

VARIABLES
  kind,
  position,      (* where the system writes next                           *)
  contents,      (* what has been written, by offset                       *)
  offset,        (* file->offset                                           *)
  pc,            (* "idle", "skipping" or "writing"                        *)
  off, size,     (* history: the request                                   *)
  left,          (* size: bytes still to be written                        *)
  result,
  sequential     (* history: every request started where the file was      *)

vars == <<kind, position, contents, offset, pc, off, size, left, result, sequential>>

None == -1
Null == -2
Results == {"none", "OK", "SIZE", "UNKNOWN"}

Init ==
  /\ kind \in Kinds
  /\ position = 0 /\ offset = 0
  /\ contents = [k \in 0 .. FileSize - 1 |-> None]
  /\ pc = "idle" /\ off = 0 /\ size = 0 /\ left = 0
  /\ result = "none" /\ sequential = TRUE

-----------------------------------------------------------------------------
(* cahute_write_to_file and move_to_offset.                                *)

Request(o, n) == off' = o /\ size' = n /\ left' = n

(* A created file keeps its size, and stdout does not go back.             *)
Refuse(o, n) ==
  /\ pc = "idle"
  /\ \/ kind = "created" /\ o + n > FileSize /\ result' = "SIZE"
     \/ kind = "stdout" /\ o < offset /\ result' = "UNKNOWN"
  /\ Request(o, n)
  /\ UNCHANGED <<kind, position, contents, offset, pc, sequential>>

(* seek_func is given file->offset, where the cursor is already, and fails *)
(* or not.                                                                 *)
StartCreated(o, n) ==
  /\ pc = "idle" /\ kind = "created" /\ o + n <= FileSize
  /\ offset + n <= MaxPosition
  /\ Request(o, n)
  /\ sequential' = (sequential /\ o = offset)
  /\ \/ pc' = "writing" /\ result' = "none" /\ position' = offset
     \/ o # offset /\ result' = "UNKNOWN" /\ UNCHANGED <<pc, position>>
  /\ UNCHANGED <<kind, contents, offset>>

StartStdout(o, n) ==
  /\ pc = "idle" /\ kind = "stdout" /\ offset <= o /\ o + n <= FileSize
  /\ Request(o, n)
  /\ pc' = IF offset < o THEN "skipping" ELSE "writing"
  /\ result' = "none"
  /\ UNCHANGED <<kind, position, contents, offset, sequential>>

-----------------------------------------------------------------------------
(* write_to_current_offset: the system takes the k bytes bytes[0], ...,    *)
(* bytes[k - 1].                                                           *)
Write(k, bytes) ==
  /\ contents' = [j \in DOMAIN contents |->
                    IF position <= j /\ j < position + k
                    THEN bytes[j - position] ELSE contents[j]]
  /\ position' = position + k
  /\ offset' = offset + k

Smaller(a, b) == IF a <= b THEN a ELSE b

(* The gap before the requested offset is filled with null bytes.          *)
SkipSome(k) ==
  LET offered == Smaller(off - offset, NullSize)
  IN /\ pc = "skipping"
     /\ k <= Smaller(offered, ChunkSize)
     /\ Write(k, [j \in 0 .. k - 1 |-> Null])
     /\ pc' = IF offset + k = off THEN "writing" ELSE pc
     /\ UNCHANGED <<kind, off, size, left, result, sequential>>

(* Mutant of Data: the caller's data is not moved after a partial write.   *)
DataFromTheStart(j) == off + j

(* The next bytes of the caller's data.                                    *)
Data(j) == off + (size - left) + j

(* Mutant of AllWritten: the size is tested before it is reduced.          *)
AllWrittenBefore(k) == left = 0

AllWritten(k) == k = left

WriteSome(k) ==
  /\ pc = "writing"
  /\ k <= Smaller(left, ChunkSize)
  /\ Write(k, [j \in 0 .. k - 1 |-> Data(j)])
  /\ left' = left - k
  /\ IF AllWritten(k) THEN pc' = "idle" /\ result' = "OK" ELSE UNCHANGED <<pc, result>>
  /\ UNCHANGED <<kind, off, size, sequential>>

(* The system reports an error, or takes nothing.                          *)
WriteFails ==
  /\ pc \in {"skipping", "writing"}
  /\ pc' = "idle" /\ result' = "UNKNOWN"
  /\ UNCHANGED <<kind, position, contents, offset, off, size, left, sequential>>

-----------------------------------------------------------------------------
Call == \E o \in Offsets, n \in Sizes :
          Refuse(o, n) \/ StartCreated(o, n) \/ StartStdout(o, n)

Turn == \E k \in 1 .. ChunkSize : SkipSome(k) \/ WriteSome(k)

Next == Call \/ Turn \/ WriteFails

(* write() returns; no error is counted on.                                *)
Spec == Init /\ [][Next]_vars /\ WF_vars(Turn)

-----------------------------------------------------------------------------
TypeOK ==
  /\ kind \in Kinds
  /\ position \in Nat /\ offset \in Nat
  /\ contents \in [0 .. FileSize - 1 -> 0 .. FileSize - 1 \cup {None, Null}]
  /\ pc \in {"idle", "skipping", "writing"} /\ result \in Results
  /\ off \in Nat /\ size \in Nat /\ left \in 0 .. size
  /\ sequential \in BOOLEAN

(* A file written in sequence, as the received ones are                    *)
(* (receive_bytes_into_stream.c:164-176), and stdout at any offset it has  *)
(* not passed, hold every byte at the offset it was written for, with null *)
(* bytes in the gaps and nothing unwritten in between, also when the       *)
(* system takes the bytes in pieces or a write fails half way.             *)
BytesAreInPlace ==
  sequential =>
    \A k \in 0 .. FileSize - 1 :
      IF k < offset THEN contents[k] \in {k, Null} ELSE contents[k] = None

(* A write that succeeds has put all its bytes in the file.                *)
WritesAreComplete ==
  sequential /\ result = "OK" =>
    /\ offset = off + size
    /\ \A k \in off .. off + size - 1 : contents[k] = k

=============================================================================
