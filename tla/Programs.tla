------------------------------ MODULE Programs ------------------------------
(***************************************************************************)
(* The command line programs of Cahute (cli/): p7, p7os, xfer9860, cas and *)
(* p7screen, from their parsed command line to their                       *)
(* exit status.  Each makes calls of the library that may fail, and has to *)
(* close what it opened, to say how it ended and to leave the right files; *)
(* p7screen moreover shows the frames it receives in a window, scaled up.  *)
(***************************************************************************)
EXTENDS Integers, SequencesExt

CONSTANTS
  MaxRounds,     (* bound on the data cas receives, and frames of p7screen *)
  MaxSide,       (* bound on the sides of frames                           *)
  Zooms,         (* zooms of p7screen                                      *)
  Paddings       (* pixels the system adds to the lines of a texture       *)

VARIABLES
  program, command,
  pc,            (* where main() is                                        *)
  err,           (* result of the last call of the library                 *)
  status,        (* of the program, once it has exited                     *)
  held,          (* what is open                                           *)
  done,          (* whether the calls that do what was asked succeeded     *)
  stopped,       (* history: where something last went wrong, or "nowhere" *)
  local,         (* the file at the path of a download                     *)
  data,          (* what cas has received                                  *)
  rounds, zoom,
  saved,         (* saved_width and saved_height                           *)
  frame,         (* the last one received: its number, width and height    *)
  pitch,         (* from one line of the texture to the next               *)
  texture        (* its pixels, in memory                                  *)

screenVars == <<zoom, saved, frame, pitch, texture>>
vars ==
  <<program, command, pc, err, status, held, done, stopped, local, data, rounds, screenVars>>

Commands(p) ==
  CASE p = "p7"       -> {"list-serial", "info", "send", "get", "other"}
    [] p = "p7os"     -> {"none", "get", "flash"}
    [] p = "xfer9860" -> {"send", "get", "other"}
    [] p = "cas"      -> {"file", "com"}
    [] p = "p7screen" -> {"watch"}

(* Errors that some program tells from the others.                         *)
Errors == {"OK", "NOOW", "TERMINATED", "TIMEOUT_START", "OTHER"}

-----------------------------------------------------------------------------
GoTo(place) == pc' = place /\ UNCHANGED status
Exits(s) == pc' = "exited" /\ status' = s

(* Something goes wrong here.                                              *)
Stops(wrong) == stopped' = IF wrong THEN pc ELSE stopped

(* A call of the library is made, which returns any of the results, with   *)
(* what it opens and what the program closes.                              *)
At(p, place) == program = p /\ pc = place
Calls(p, place, results) ==
  At(p, place) /\ err' \in results /\ Stops(err' \in {"NOOW", "OTHER"})
Opens(what) == held' = IF err' = "OK" THEN held \union {what} ELSE held
Closes(what) == held' = held \ what

Init ==
  /\ program \in {"p7", "p7os", "xfer9860", "cas", "p7screen"}
  /\ command \in Commands(program)
  /\ pc = "parse" /\ err = "OK" /\ status = "none"
  /\ held = {} /\ done = FALSE /\ stopped = "nowhere" /\ local = "before" /\ data = 0 /\ rounds = 0
  /\ zoom \in Zooms /\ saved = <<>> /\ frame = <<>> /\ pitch = 0 /\ texture = <<>>

(* The command line is not understood, or only asks for help: main()       *)
(* returns 0.  p7os opens its output with it.                              *)
Parse ==
  /\ pc = "parse"
  /\ \/ GoTo("context") /\ held' = IF program = "p7os" /\ command = "get" THEN {"output"} ELSE {}
     \/ Exits("told") /\ UNCHANGED held
  /\ UNCHANGED <<program, command, err, done, stopped, local, data, rounds, screenVars>>

(* Where a program goes with a context, and without.                       *)
First ==
  CASE command = "list-serial" -> {"detect"}
    [] command = "none" -> {"open_update"}
    [] command = "flash" -> {"open_update", "confirm"}
    [] program = "cas" -> {"read"}
    [] OTHER -> {"open"}

CreateContext ==
  /\ Calls(program, "context", {"OK", "OTHER"}) /\ Opens("context")
  /\ IF err' = "OK" THEN \E place \in First : GoTo(place) ELSE GoTo("fail")
  /\ UNCHANGED <<program, command, done, local, data, rounds, screenVars>>

-----------------------------------------------------------------------------
(* p7 and xfer9860                                                         *)

(* The listing of serial ports leaves main() as it is.                     *)
P7Detects ==
  /\ Calls("p7", "detect", {"OK", "OTHER"})
  /\ IF err' = "OK" THEN Exits("success") ELSE GoTo("fail")
  /\ done' = (err' = "OK")
  /\ UNCHANGED <<program, command, held, local, data, rounds, screenVars>>

(* open_link()                                                             *)
OpenLink ==
  /\ \E p \in {"p7", "xfer9860"} : Calls(p, "open", {"OK", "OTHER"})
  /\ Opens("link")
  /\ IF err' = "OK"
     THEN \/ GoTo(IF command = "send" THEN "file" ELSE "call")
          \/ program = "p7" /\ GoTo("negotiate")
     ELSE GoTo("fail")
  /\ UNCHANGED <<program, command, done, local, data, rounds, screenVars>>

P7Negotiates ==
  /\ Calls("p7", "negotiate", {"OK", "OTHER"})
  /\ IF err' = "OK"
     THEN GoTo(IF command = "send" THEN "file" ELSE "call") /\ UNCHANGED held
     ELSE GoTo("fail") /\ Closes({"link"})
  /\ UNCHANGED <<program, command, done, local, data, rounds, screenVars>>

OpenSource ==
  /\ \E p \in {"p7", "xfer9860"} : Calls(p, "file", {"OK", "OTHER"})
  /\ Opens("file")
  /\ GoTo(IF err' = "OK" THEN "call" ELSE "fail")
  /\ UNCHANGED <<program, command, done, local, data, rounds, screenVars>>

(* What a download that fails leaves at the path it was given.             *)
Downloaded == IF err' = "OK" THEN {"whole"} ELSE {local, "part"}

(* What the operation returns, and whether it has succeeded: each property *)
(* p7 asks for is passed over when it cannot be had.                       *)
Returned ==
  IF command = "info" THEN {<<"OK", TRUE>>, <<"OK", FALSE>>}
  ELSE {<<"OK", TRUE>>, <<"OTHER", FALSE>>}
         \union IF program = "p7" /\ command = "send" THEN {<<"NOOW", FALSE>>} ELSE {}

(* The operation; p7 does not take a refused overwrite for an error, and   *)
(* xfer9860 leaves the same way whatever it returns.                       *)
Operate ==
  /\ At("p7", "call") \/ At("xfer9860", "call")
  /\ \E r \in Returned : err' = r[1] /\ done' = r[2]
  /\ Stops(~done')
  /\ Closes({"file"})
  /\ IF command = "get" THEN local' \in Downloaded ELSE UNCHANGED local
  /\ GoTo(IF program = "p7" /\ err' = "OTHER" THEN "fail" ELSE "end")
  /\ UNCHANGED <<program, command, data, rounds, screenVars>>

(* p7 removes the file at the path of its download when it fails, be it    *)
(* one that was there before.                                              *)
RemovesTarget ==
  IF program = "p7" /\ command = "get" THEN local' = "removed" ELSE UNCHANGED local

Ends ==
  /\ program \in {"p7", "xfer9860"} /\ pc \in {"end", "fail"}
  /\ Closes({"link", "context"})
  /\ IF pc = "end" THEN Exits("success") /\ UNCHANGED local
     ELSE Exits("failure") /\ RemovesTarget
  /\ UNCHANGED <<program, command, err, done, stopped, data, rounds, screenVars>>

-----------------------------------------------------------------------------
(* p7os                                                                    *)

P7os(place, results) == Calls("p7os", place, results)

(* The program to upload, fxRemote's by default, which only some devices   *)
(* accept: their property is then asked for.                               *)
OpenForUpload ==
  /\ P7os("open_update", {"OK", "OTHER"}) /\ Opens("link")
  /\ IF err' = "OK" THEN GoTo("property") \/ GoTo("upload") ELSE GoTo("end")
  /\ UNCHANGED <<program, command, done, local, data, rounds, screenVars>>

GetProperty ==
  /\ At("p7os", "property") /\ err' \in {"OK", "OTHER"}
  /\ IF err' = "OK" THEN GoTo("upload") \/ GoTo("end") ELSE GoTo("end")
  /\ Stops(pc' = "end")
  /\ UNCHANGED <<program, command, held, done, local, data, rounds, screenVars>>

Upload ==
  /\ P7os("upload", {"OK", "OTHER"})
  /\ IF err' = "OK"
     THEN /\ Closes({"link"}) /\ done' = (command = "none")
          /\ GoTo(IF command = "none" THEN "end" ELSE "confirm")
     ELSE GoTo("end") /\ UNCHANGED <<held, done>>
  /\ UNCHANGED <<program, command, local, data, rounds, screenVars>>

ConfirmFlash ==
  /\ At("p7os", "confirm")
  /\ GoTo("open") \/ GoTo("end")
  /\ Stops(pc' = "end")
  /\ UNCHANGED <<program, command, err, held, done, local, data, rounds, screenVars>>

P7osOpens ==
  /\ P7os("open", {"OK", "OTHER"}) /\ Opens("link")
  /\ GoTo(IF err' = "OK" THEN "call" ELSE "end")
  /\ UNCHANGED <<program, command, done, local, data, rounds, screenVars>>

(* Mutant of BackupOrFlash: what the flashing returns is not looked at.    *)
FlashesBlindly ==
  /\ At("p7os", "call")
  /\ err' \in IF command = "flash" THEN {"OK"} ELSE {"OK", "OTHER"}
  /\ done' \in IF err' = "OK" THEN BOOLEAN ELSE {FALSE}
  /\ IF command = "get" THEN Opens("rom") ELSE Closes({"link"})
  /\ Stops(~done') /\ GoTo("end")
  /\ UNCHANGED <<program, command, local, data, rounds, screenVars>>

(* The back-up, written to the output, or the flashing.                    *)
BackupOrFlash ==
  /\ At("p7os", "call") /\ err' \in {"OK", "OTHER"}
  /\ \/ /\ command = "get" /\ Opens("rom")
        /\ done' \in IF err' = "OK" THEN BOOLEAN ELSE {FALSE}
     \/ /\ command = "flash" /\ done' = (err' = "OK")
        /\ IF err' = "OK" THEN Closes({"link"}) ELSE UNCHANGED held
  /\ Stops(~done') /\ GoTo("end")
  /\ UNCHANGED <<program, command, local, data, rounds, screenVars>>

(* Every way out of p7os: its status only depends on the last call.        *)
P7osEnds ==
  /\ program = "p7os" /\ pc \in {"end", "fail"}
  /\ Closes({"rom", "link", "context", "output"})
  /\ Exits(IF err = "OK" THEN "success" ELSE "failure")
  /\ UNCHANGED <<program, command, err, done, stopped, local, data, rounds, screenVars>>

-----------------------------------------------------------------------------
(* cas                                                                     *)

Cas(place, results) == Calls("cas", place, results)

OpenInput ==
  /\ Cas("read", {"OK", "OTHER"})
  /\ Opens(IF command = "file" THEN "file" ELSE "link")
  /\ GoTo(IF err' # "OK" THEN "fail" ELSE IF command = "file" THEN "decode" ELSE "receive")
  /\ UNCHANGED <<program, command, done, local, data, rounds, screenVars>>

(* cahute_get_data_from_file(): the data it has when it fails are left.    *)
DecodeInput ==
  /\ Cas("decode", {"OK", "OTHER"}) /\ Closes({"file"})
  /\ data' \in IF err' = "OK" THEN {1} ELSE {0, 1}
  /\ GoTo(IF err' = "OK" THEN "list" ELSE "fail")
  /\ UNCHANGED <<program, command, done, local, rounds, screenVars>>

(* Every reception adds to the list, until the other end has no more.      *)
ReceiveInput ==
  /\ Cas("receive", {"OK", "TERMINATED", "OTHER"})
  /\ IF err' = "OK"
     THEN /\ rounds < MaxRounds /\ rounds' = rounds + 1 /\ data' = data + 1
          /\ UNCHANGED <<pc, status, held>>
     ELSE /\ Closes({"link"}) /\ GoTo(IF err' = "TERMINATED" THEN "list" ELSE "fail")
          /\ UNCHANGED <<rounds, data>>
  /\ UNCHANGED <<program, command, done, local, screenVars>>

(* The listings that were asked for, which never fail, then the output if  *)
(* there is one, which always does.                                        *)
ListAndOutput ==
  /\ At("cas", "list")
  /\ \/ GoTo("end") /\ done' = TRUE
     \/ GoTo("fail") /\ UNCHANGED done
  /\ Stops(pc' = "fail")
  /\ UNCHANGED <<program, command, err, held, local, data, rounds, screenVars>>

CasEnds ==
  /\ program = "cas" /\ pc \in {"end", "fail"}
  /\ Closes({"context"}) /\ data' = 0
  /\ Exits(IF pc = "end" THEN "success" ELSE "failure")
  /\ UNCHANGED <<program, command, err, done, stopped, local, rounds, screenVars>>

-----------------------------------------------------------------------------
(* p7screen                                                                *)

Screen(place, results) == Calls("p7screen", place, results)

(* A failure leaves main() as it is.                                       *)
OpenScreenLink ==
  /\ Screen("open", {"OK", "OTHER"}) /\ Opens("link")
  /\ IF err' = "OK" THEN GoTo("start") ELSE Exits("failure")
  /\ UNCHANGED <<program, command, done, local, data, rounds, screenVars>>

StartVideo ==
  /\ At("p7screen", "start")
  /\ \/ GoTo("watch") /\ held' = held \union {"video"}
     \/ Exits("failure") /\ Closes({"link"})
  /\ Stops(status' = "failure")
  /\ UNCHANGED <<program, command, err, done, local, data, rounds, screenVars>>

UserQuits ==
  /\ At("p7screen", "watch") /\ GoTo("end") /\ done' = TRUE
  /\ UNCHANGED <<program, command, err, held, stopped, local, data, rounds, screenVars>>

ReceiveScreen ==
  /\ Screen("watch", {"OK", "TIMEOUT_START", "TERMINATED", "OTHER"})
  /\ CASE err' = "OK" -> /\ rounds < MaxRounds /\ rounds' = rounds + 1
                         /\ GoTo("display") /\ UNCHANGED done
                         /\ frame' \in [n : {rounds'}, width : 1 .. MaxSide, height : 1 .. MaxSide]
       [] err' = "TIMEOUT_START" -> UNCHANGED <<pc, status, done, rounds, frame>>
       [] err' = "TERMINATED" -> GoTo("end") /\ done' = TRUE /\ UNCHANGED <<rounds, frame>>
       [] err' = "OTHER" -> GoTo("fail") /\ UNCHANGED <<done, rounds, frame>>
  /\ UNCHANGED <<program, command, held, local, data, zoom, saved, pitch, texture>>

(* Mutant of RowMoves: a row is scaled from its start.                     *)
RowMovesFromStart(y, w) ==
  LET line == w * zoom
      first == y * line * zoom
  IN [k \in 1 .. line |-> <<first + k - 1, y * w + (k - 1) \div zoom>>]
     \o [k \in 1 .. line * (zoom - 1) |-> <<first + line + k - 1, first + ((k - 1) % line)>>]

(* scale_up_picture(): in the order of the C loops, the places pixels of a *)
(* row of the picture come from and go to, then those of the copies of the *)
(* first line they make.                                                   *)
RowMoves(y, w) ==
  LET line == w * zoom
      first == y * line * zoom
  IN [k \in 1 .. line |-> <<first + line - k, y * w + (line - k) \div zoom>>]
     \o [k \in 1 .. line * (zoom - 1) |-> <<first + line + k - 1, first + ((k - 1) % line)>>]

ScaledUp(pixels, w, h) ==
  FoldLeft(LAMBDA p, move : [p EXCEPT ![move[1]] = p[move[2]]], pixels,
           FlattenSeq([i \in 1 .. h |-> RowMoves(h - i, w)]))

(* The pixels of the frame, one after the other at the start of the        *)
(* texture, scaled up there whatever its pitch; what the rest of a locked  *)
(* texture holds is unspecified.                                           *)
Drawn ==
  LET w == frame.width
      h == frame.height
  IN ScaledUp([at \in 0 .. pitch' * h * zoom - 1 |->
                 IF at < w * h THEN <<frame.n, at % w, at \div w>> ELSE <<>>], w, h)

(* The first part of display_frame(): what there is to draw on, and        *)
(* whether the rest is reached.  A creation that stops halfway leaves a    *)
(* window without saved dimensions.                                        *)
Prepared(goes_on) ==
  IF "window" \notin held
  THEN \E made \in {{}, {"window"}, {"window", "renderer"}, {"window", "renderer", "texture"}} :
         /\ held' = held \union made
         /\ goes_on = ("texture" \in made)
         /\ saved' = IF goes_on THEN <<frame.width, frame.height>> ELSE saved
  ELSE /\ goes_on = (saved = <<frame.width, frame.height>>)
       /\ UNCHANGED <<held, saved>>

(* The result of display_frame(), which fails when the frame has another   *)
(* format or the drawing fails, is not looked at.                          *)
DisplayFrame ==
  /\ At("p7screen", "display") /\ GoTo("watch")
  /\ \/ UNCHANGED <<held, saved, pitch, texture>>
     \/ Prepared(FALSE) /\ UNCHANGED <<pitch, texture>>
     \/ /\ Prepared(TRUE)
        /\ \/ UNCHANGED <<pitch, texture>>
           \/ /\ \E padding \in Paddings : pitch' = frame.width * zoom + padding
              /\ texture' = Drawn
  /\ UNCHANGED <<program, command, err, done, stopped, local, data, rounds, zoom, frame>>

ScreenEnds ==
  /\ program = "p7screen" /\ pc \in {"end", "fail"}
  /\ Closes({"link", "context", "texture", "renderer", "window", "video"})
  /\ Exits(IF pc = "end" THEN "success" ELSE "failure") /\ texture' = <<>>
  /\ UNCHANGED <<program, command, err, done, stopped, local, data, rounds, zoom, saved, frame,
                 pitch>>

-----------------------------------------------------------------------------
Next ==
  \/ Parse \/ CreateContext
  \/ P7Detects \/ OpenLink \/ P7Negotiates \/ OpenSource \/ Operate \/ Ends
  \/ OpenForUpload \/ GetProperty \/ Upload \/ ConfirmFlash \/ P7osOpens
  \/ BackupOrFlash \/ P7osEnds
  \/ OpenInput \/ DecodeInput \/ ReceiveInput \/ ListAndOutput \/ CasEnds
  \/ OpenScreenLink \/ StartVideo \/ UserQuits \/ ReceiveScreen \/ DisplayFrame
  \/ ScreenEnds

Spec == Init /\ [][Next]_vars

-----------------------------------------------------------------------------
Things == {"context", "link", "file", "rom", "output", "window", "renderer", "texture", "video"}

(* Where something may go wrong.                                           *)
Calling ==
  {"context", "detect", "open", "negotiate", "file", "call", "open_update", "property",
   "upload", "confirm", "read", "decode", "receive", "list", "start", "watch"}

TypeOK ==
  /\ command \in Commands(program) /\ err \in Errors
  /\ status \in {"none", "told", "success", "failure"} /\ (pc = "exited") = (status # "none")
  /\ held \subseteq Things /\ done \in BOOLEAN /\ stopped \in {"nowhere"} \union Calling
  /\ local \in {"before", "whole", "part", "removed"}
  /\ data \in 0 .. MaxRounds + 1 /\ rounds \in 0 .. MaxRounds

(* Where main() returns without closing all it opened: p7 once it has      *)
(* listed the serial ports (p7.c:333), p7screen when it cannot open the    *)
(* link or the video (p7screen.c:325, 332).                                *)
Left ==
  IF program = "p7" /\ command = "list-serial" /\ status = "success" THEN {"context"}
  ELSE IF program = "p7screen" /\ status = "failure" /\ "video" \notin held THEN {"context"}
  ELSE {}

(* Where a program exits with 0 without having done what was asked: p7     *)
(* when the user keeps the file, or when a property of the device cannot   *)
(* be had (p7.c:264), xfer9860 when its operation fails (xfer9860.c:154),  *)
(* p7os when the device is not compatible, the flashing is not confirmed   *)
(* or the output cannot be written (p7os.c:185, 240, 234).                 *)
Excused ==
  \/ program = "p7" /\ stopped = "call" /\ (command = "info" \/ err = "NOOW")
  \/ program = "xfer9860" /\ stopped = "call"
  \/ /\ program = "p7os" /\ err = "OK"
     /\ stopped = "property" \/ (stopped = "confirm" /\ command = "flash")
          \/ (stopped = "call" /\ command = "get")

(* However its calls fail, a program never opens a link over another; when *)
(* it exits it has closed everything, but for what it is known to leave;   *)
(* it exits with 0 only when it has done what was asked, or stopped at one *)
(* of the few places where it is known to say nothing of it, and never for *)
(* an error elsewhere; it exits with another status only when something    *)
(* went wrong, and then has not done what was asked; and p7 leaves no      *)
(* partial download.                                                       *)
OutcomeIsTold ==
  /\ pc \in {"open", "open_update", "read"} => held \intersect {"link", "file"} = {}
  /\ status # "none" => held \subseteq Left
  /\ status = "success" => (done /\ stopped = "nowhere") \/ (~done /\ Excused)
  /\ status = "failure" => ~done /\ stopped # "nowhere"
  /\ program = "p7" /\ status # "none" => local # "part"

(* The window shows one frame received, every pixel in its place and as    *)
(* large as the zoom says: scaling in place takes no pixel for another.    *)
(* (The pitch of the texture, which p7screen.c:192 asks for, is not used:  *)
(* this is so where the system adds nothing to the lines.)                 *)
FrameIsShown ==
  texture # <<>> /\ pitch = saved[1] * zoom =>
    \E n \in 1 .. rounds : \A x \in 0 .. pitch - 1, y \in 0 .. saved[2] * zoom - 1 :
      texture[y * pitch + x] = <<n, x \div zoom, y \div zoom>>

=============================================================================
