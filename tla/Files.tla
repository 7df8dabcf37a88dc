------------------------------- MODULE Files --------------------------------
(***************************************************************************)
(* The files of the library: those that are read (FileRead) and those that *)
(* are written (FileWrite), and the conversion of their text               *)
(* (TextConversion), and the command line programs that use them           *)
(* (Programs).  No system file is both readable and writable, so that a    *)
(* program that copies one to another uses two of them, each with its own  *)
(* cursor; here it uses one, or converts a text it already has.  The       *)
(* programs take whatever the calls of the library return.                 *)
(***************************************************************************)
EXTENDS FileRead

CONSTANTS
  Targets,       (* kinds of the files written                             *)
  ChunkSize, NullSize, MaxPosition,  (* see FileWrite                      *)
  Lengths, MaxCharacters, Windows, Rooms,    (* see TextConversion         *)
  MaxRounds, MaxSide, Zooms, Paddings        (* see Programs               *)

ASSUME TargetsAssumption == Targets \subseteq {"created", "stdout"}
ASSUME ChunkAssumption == {ChunkSize, NullSize} \subseteq Nat \ {0}
ASSUME PositionAssumption == MaxPosition \in Nat
ASSUME ProgramsAssumption ==
  /\ MaxRounds \in Nat /\ Zooms \union {MaxSide} \subseteq Nat \ {0}
  /\ Paddings \subseteq Nat
ASSUME TextAssumption ==
  Lengths \subseteq 1 .. 6 /\ MaxCharacters \in Nat /\ Windows \union Rooms \subseteq Nat \ {0}

VARIABLES
  use,           (* "read", "write", "text" or "program"                   *)
  target, cursor, contents, woffset, wpc, woff, wsize, wleft, wresult, sequential,
  program, text, cut, source, dest, window, space, tpc, tresult, data, fetched, taken,
  room, converted,
  tool, command, place, err, status, held, done, stopped, local, received, rounds, zoom,
  saved, frame, pitch, texture

writeVars == <<target, cursor, contents, woffset, wpc, woff, wsize, wleft, wresult,
               sequential>>

Write == INSTANCE FileWrite WITH
  Kinds <- Targets, kind <- target, position <- cursor, offset <- woffset,
  pc <- wpc, off <- woff, size <- wsize, left <- wleft, result <- wresult

Text == INSTANCE TextConversion WITH pc <- tpc, result <- tresult, out <- converted

textVars == <<program, text, cut, source, dest, window, space, tpc, tresult, data, fetched,
              taken, room, converted>>

Tools == INSTANCE Programs WITH program <- tool, pc <- place, data <- received

toolVars == <<tool, command, place, err, status, held, done, stopped, local, received, rounds,
              zoom, saved, frame, pitch, texture>>
allVars == <<use, vars, writeVars, textVars, toolVars>>

NoText ==
  /\ program = 0 /\ text = 0 /\ cut = 0 /\ source = 0 /\ dest = 0 /\ window = 0
  /\ space = 0 /\ tpc = "done" /\ tresult = 0 /\ data = 0 /\ fetched = 0 /\ taken = 0
  /\ room = 0 /\ converted = 0

NoTool ==
  /\ tool = 0 /\ command = 0 /\ place = 0 /\ err = 0 /\ status = 0 /\ held = 0 /\ done = 0
  /\ stopped = 0 /\ local = 0 /\ received = 0 /\ rounds = 0 /\ zoom = 0 /\ saved = 0
  /\ frame = 0 /\ pitch = 0 /\ texture = 0

FilesInit ==
  /\ Init /\ Write!Init
  /\ \/ use \in {"read", "write"} /\ NoText /\ NoTool
     \/ /\ \/ use = "text" /\ Text!Init /\ NoTool
           \/ use = "program" /\ Tools!Init /\ NoText
        /\ kind = (CHOOSE k \in Kinds : TRUE) /\ target = (CHOOSE t \in Targets : TRUE)

FilesNext ==
  \/ use = "read" /\ Next /\ UNCHANGED <<use, writeVars, textVars, toolVars>>
  \/ use = "write" /\ Write!Next /\ UNCHANGED <<use, vars, textVars, toolVars>>
  \/ use = "text" /\ Text!Next /\ UNCHANGED <<use, vars, writeVars, toolVars>>
  \/ use = "program" /\ Tools!Next /\ UNCHANGED <<use, vars, writeVars, textVars>>

(* A request goes on until it ends: no step of these waits for anything.   *)
GoesOn ==
  \/ use = "read" /\ Turn /\ UNCHANGED <<use, writeVars, textVars, toolVars>>
  \/ use = "write" /\ Write!Turn /\ UNCHANGED <<use, vars, textVars, toolVars>>
  \/ use = "text" /\ Text!Next /\ UNCHANGED <<use, vars, writeVars, toolVars>>

FilesSpec == FilesInit /\ [][FilesNext]_allVars /\ WF_allVars(GoesOn)

-----------------------------------------------------------------------------
(* Writes in sequence put every byte at its offset, and a write that       *)
(* succeeds has written all of it: see FileWrite.                          *)
WritesAreExact == Write!TypeOK /\ Write!BytesAreInPlace /\ Write!WritesAreComplete

(* A text converted piece by piece is what it is at once: see             *)
(* TextConversion.                                                         *)
SplitIsWhole == use = "text" => Text!TypeOK /\ Text!SplitIsWhole

(* A program closes what it opened and says how it ended; what p7screen    *)
(* shows is the frame it received: see Programs.                           *)
OutcomeIsTold == use = "program" => Tools!TypeOK /\ Tools!OutcomeIsTold
FrameIsShown == use = "program" => Tools!FrameIsShown

(* Every read, every write and every conversion ends, but for that of the  *)
(* guides' program on a text without an end: see FileRead, FileWrite and   *)
(* TextConversion.                                                         *)
RequestsEnd ==
  pc # "idle" \/ wpc # "idle" \/ tpc # "done"
    ~> pc = "idle" /\ wpc = "idle" /\ (tpc = "done" \/ Text!GoesRound)

=============================================================================
