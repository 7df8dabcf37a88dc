------------------------------ MODULE FileRead ------------------------------
(***************************************************************************)
(* Reading from a file at an offset, through the read buffer:              *)
(* lib/file/read.c, on the files of open.c (a system file, read in pieces  *)
(* of whatever length the system returns) and open_memory.c.               *)
(*                                                                         *)
(* The byte at offset k of a file has the value k, and Garbage is a byte   *)
(* of no file: a byte from the wrong place, or from outside any buffer, is *)
(* visible in what the caller gets.                                        *)
(***************************************************************************)
EXTENDS Integers

CONSTANTS
  Kinds,         (* {"system"}, {"memory"} or both                         *)
  BufferSize,    (* CAHUTE_FILE_READ_BUFFER_SIZE                           *)
  FileSize,      (* file_size                                              *)
  Offsets,       (* offsets the callers read at                            *)
  Sizes          (* sizes they read                                        *)

ASSUME KindsAssumption == Kinds \subseteq {"system", "memory"}
ASSUME SizeAssumption == BufferSize \in Nat \ {0} /\ FileSize \in Nat
ASSUME RequestAssumption == Offsets \subseteq Nat /\ Sizes \subseteq Nat \ {0}

VARIABLES
  kind,
  position,      (* the cursor of the system file                          *)
  offset, read_offset, read_size,
  buffer,        (* read_buffer, from index 0                              *)
  pc,            (* "idle", or "reading" in the loop of lines 241-256      *)
  off, size,     (* history: the request                                   *)
  left,          (* size: bytes still to be read                           *)
  out,           (* the part of the caller's buffer filled so far          *)
  result,
  aligned        (* history: the request goes on where the buffer ends     *)

fileVars == <<kind, position, offset, read_offset, read_size, buffer>>
requestVars == <<off, size, left, out, result, aligned>>
vars == <<fileVars, pc, requestVars>>

Garbage == -1
Indices == 0 .. BufferSize - 1
Bytes == 0 .. FileSize \cup {Garbage}
Results == {"none", "OK", "TRUNC", "UNKNOWN", "IMPL"}

(* The byte the buffer holds at an index, which may be outside it.         *)
ByteAt(i) == IF i \in Indices THEN buffer[i] ELSE Garbage

(* Mutant of Smaller: a piece is copied whole, needed or not.              *)
TheFirst(a, b) == a

Smaller(a, b) == IF a <= b THEN a ELSE b

(* An in-memory file counts as read whole, with no buffer at all.          *)
InitialReadSize(k) == IF k = "memory" THEN FileSize ELSE 0

Init ==
  /\ kind \in Kinds
  /\ position = 0 /\ offset = 0 /\ read_offset = 0
  /\ read_size = InitialReadSize(kind)
  /\ buffer = [i \in Indices |-> Garbage]
  /\ pc = "idle" /\ off = 0 /\ size = 0 /\ left = 0
  /\ out = [i \in 1 .. 0 |-> 0] /\ result = "none" /\ aligned = TRUE

-----------------------------------------------------------------------------
(* cahute_read_from_file.                                                  *)

(* The offset is in the buffer; line 216 takes all that was read into it   *)
(* as being what is left from there.                                       *)
InBuffer(o) == read_offset <= o /\ o < read_offset + read_size

(* Mutant of Available: what the buffer holds of a longer read is skipped. *)
NothingAvailable(o) == 0

Available(o) == IF InBuffer(o) THEN read_size ELSE 0

Request(o, n, copied) ==
  /\ off' = o /\ size' = n /\ left' = n - copied
  /\ out' = [i \in 1 .. copied |-> ByteAt(o - read_offset + i - 1)]

ReadFromBuffer(o, n) ==
  /\ pc = "idle"
  /\ InBuffer(o) /\ n <= read_size
  /\ Request(o, n, n)
  /\ result' = "OK"
  /\ aligned' = (o + n <= read_offset + read_size)
  /\ UNCHANGED <<fileVars, pc>>

(* move_to_offset for what the buffer does not hold.                       *)
PastTheEnd(o, n) == o + n > FileSize

CannotMove(o, n) ==
  LET copied == Available(o) IN
  /\ pc = "idle"
  /\ n > copied
  /\ \/ PastTheEnd(o + copied, n - copied) /\ result' = "TRUNC"
     \/ /\ ~PastTheEnd(o + copied, n - copied) /\ o + copied # offset
        /\ result' = IF kind = "memory" THEN "IMPL" ELSE "UNKNOWN"
  /\ Request(o, n, copied)
  /\ aligned' = FALSE
  /\ UNCHANGED <<fileVars, pc>>

(* Mutant of DiscardBuffer: its size is not reset.                         *)
MoveBuffer == read_offset' = offset /\ read_size' = read_size

DiscardBuffer == read_offset' = offset /\ read_size' = 0

(* seek_func is given file->offset, where the cursor is already.           *)
StartReading(o, n) ==
  LET copied == Available(o) IN
  /\ pc = "idle"
  /\ n > copied
  /\ ~PastTheEnd(o + copied, n - copied)
  /\ IF o + copied = offset THEN UNCHANGED position
     ELSE kind = "system" /\ position' = offset
  /\ pc' = "reading"
  /\ Request(o, n, copied)
  /\ DiscardBuffer
  /\ result' = "none"
  /\ aligned' = (o \in {read_offset, offset})
  /\ UNCHANGED <<kind, offset, buffer>>

-----------------------------------------------------------------------------
(* read_from_current_offset, in the loop until the request is satisfied.   *)

(* The system returns k bytes.                                             *)
ReadSome(k) ==
  LET filled == [i \in Indices |-> IF i < k THEN position + i ELSE buffer[i]]
      copied == Smaller(k, left)
      had == size - left
  IN /\ pc = "reading" /\ kind = "system"
     /\ k <= FileSize - position
     /\ position' = position + k /\ offset' = offset + k
     /\ read_offset' = read_offset + read_size /\ read_size' = k
     /\ buffer' = filled
     /\ out' = [i \in 1 .. had + copied |->
                  IF i <= had THEN out[i] ELSE filled[i - had - 1]]
     /\ left' = left - copied
     /\ IF k >= left THEN pc' = "idle" /\ result' = "OK" ELSE UNCHANGED <<pc, result>>
     /\ UNCHANGED <<kind, off, size, aligned>>

(* There is nothing left to read, or no function to read with.             *)
ReadNothing ==
  /\ pc = "reading"
  /\ kind = "memory" \/ position = FileSize
  /\ read_offset' = read_offset + read_size /\ read_size' = 0
  /\ pc' = "idle" /\ result' = "UNKNOWN"
  /\ UNCHANGED <<kind, position, offset, buffer, off, size, left, out, aligned>>

ReadFails ==
  /\ pc = "reading" /\ kind = "system"
  /\ pc' = "idle" /\ result' = "UNKNOWN"
  /\ UNCHANGED <<fileVars, off, size, left, out, aligned>>

-----------------------------------------------------------------------------
Call == \E o \in Offsets, n \in Sizes :
          ReadFromBuffer(o, n) \/ CannotMove(o, n) \/ StartReading(o, n)

Turn == (\E k \in 1 .. BufferSize : ReadSome(k)) \/ ReadNothing

Next == Call \/ Turn \/ ReadFails

(* read() returns; no error is counted on.                                 *)
Spec == Init /\ [][Next]_vars /\ WF_vars(Turn)

-----------------------------------------------------------------------------
TypeOK ==
  /\ kind \in Kinds
  /\ position \in 0 .. FileSize /\ offset \in 0 .. FileSize
  /\ read_offset \in 0 .. FileSize /\ read_size \in 0 .. FileSize
  /\ buffer \in [Indices -> Bytes]
  /\ pc \in {"idle", "reading"} /\ result \in Results /\ aligned \in BOOLEAN
  /\ off \in Nat /\ size \in Nat /\ left \in 0 .. size
  /\ out \in [1 .. size - left -> Bytes]

(* Whatever was read, skipped, cut short or failed, the buffer of a system *)
(* file holds the bytes the bookkeeping of lines 74-76 and 237-238 says it *)
(* does, and the cursor is where the library believes it is.               *)
BufferIsCoherent ==
  kind = "system" =>
    /\ position = offset
    /\ read_offset + read_size = offset
    /\ read_size <= BufferSize
    /\ \A i \in 0 .. read_size - 1 : buffer[i] = read_offset + i

(* A read that stays within the buffer, or that goes on from the start of  *)
(* the buffer or from its end, gets the bytes of the file at the requested *)
(* offset, across all the pieces the system returns: this is how a file is *)
(* read in sequence.                                                       *)
AlignedReadsAreExact ==
  kind = "system" /\ result = "OK" /\ aligned
    => left = 0 /\ \A i \in 1 .. size : out[i] = off + i - 1

-----------------------------------------------------------------------------
(* "Read from the file starting at a given offset"                         *)
(* (docs/references/headers/cahute/file.rst:127): success means the bytes  *)
(* of the file from that offset on.                                        *)
ReadsFromTheOffset ==
  kind = "system" /\ result = "OK" => \A i \in 1 .. size : out[i] = off + i - 1

=============================================================================
