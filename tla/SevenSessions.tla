--------------------------- MODULE SevenSessions ---------------------------
(***************************************************************************)
(* The sessions in which the library commands a calculator (SevenCommand), *)
(* and those in which it watches its screen (SevenOhp).  A link is opened  *)
(* for one of the two uses: cahute_receive_screen needs a link opened for  *)
(* screenstreaming, and the others refuse one.                             *)
(***************************************************************************)
EXTENDS SevenCommand, SequencesExt

CONSTANTS
  Modes, MaxFrames, MaxFaults, MaxPauses, MaxStarts     (* see SevenOhp    *)

ASSUME ModesAssumption == Modes \subseteq {"mono", "color", "parts"} /\ "mono" \in Modes
ASSUME FramesAssumption ==
  {MaxFrames, MaxFaults, MaxPauses, MaxStarts} \subseteq Nat /\ MaxFrames <= 6

VARIABLES
  use,           (* "commands" or "screens"                                *)
  mode, asking, starts, sent, screen, wire, answered, faults, pauses,
  pc, buf, data, picture, picture_size, picture_format, skip, verdict,
  given, reported

screenVars == <<mode, asking, starts, sent, screen, wire, answered, faults, pauses, pc, buf,
                data, picture, picture_size, picture_format, skip, verdict, given, reported>>
allVars == <<use, vars, screenVars>>

Screens == INSTANCE SevenOhp WITH late <- pauses, MaxLate <- MaxPauses, result <- given

SessionsInit ==
  /\ Init /\ Screens!Init
  /\ \/ use = "commands" /\ mode = "mono" /\ ~asking
     \/ use = "screens"

(* What a step of each use leaves alone.                                   *)
CommandsOnly == use = "commands" /\ UNCHANGED <<use, screenVars>>
ScreensOnly == use = "screens" /\ UNCHANGED <<use, vars>>

SessionsNext == (CommandsOnly /\ Next) \/ (ScreensOnly /\ Screens!Next)

(* The fairness of both modules: a function that was called runs, and the  *)
(* calculator answers, or goes on; the program watches until the end.      *)
SessionsSpec ==
  /\ SessionsInit /\ [][SessionsNext]_allVars
  /\ WF_allVars((CommandsOnly /\ Caller) \/ (ScreensOnly /\ Screens!Library))
  /\ WF_allVars((CommandsOnly /\ Step) \/ (ScreensOnly /\ Screens!Call))
  /\ WF_allVars((CommandsOnly /\ DeviceStep) \/ (ScreensOnly /\ (Screens!Ask \/ Screens!SendFrame)))
  /\ WF_allVars(ScreensOnly /\ Screens!TakeAnswer)

-----------------------------------------------------------------------------
SessionsTypeOK == TypeOK /\ Screens!TypeOK

(* A frame given to the program is one the calculator showed: see SevenOhp. *)
FramesAreWhole == Screens!FramesAreWhole

(* Every call that commands the calculator returns, whatever is lost,      *)
(* damaged or late; and a calculator that is watched is seen to the last   *)
(* of its frames (see SevenCommand and SevenOhp).                          *)
SessionsGoOn == CallsReturn /\ (use = "screens" => Screens!FramesArrive)

=============================================================================
