------------------------------ MODULE SevenOhp ------------------------------
(***************************************************************************)
(* Protocol 7.00 screenstreaming (lib/link/seven_ohp/): a calculator sends *)
(* its screen again and again, and the library finds the frames in what    *)
(* comes, and gives them to the program.                                   *)
(*                                                                         *)
(* The calculator is external.  It sends whole frames, of a length that is *)
(* fixed ("TYP01") or announced ("TYPZ1" and "TYPZ2"), and parts of frames *)
(* ("TYPB1"); before that it may ask the library for an acknowledgement,   *)
(* and ask again when it is started again.                                 *)
(*                                                                         *)
(* The wire has units of some bytes: a header is of HeaderSize units, and  *)
(* a picture of two.  No unit of a picture but the first passes for one of *)
(* a header.                                                               *)
(***************************************************************************)
EXTENDS Integers, Sequences, SequencesExt

CONSTANTS
  Modes,         (* what the calculator sends: see Kinds                   *)
  MaxFrames,     (* bound on the frames sent                               *)
  MaxFaults,     (* bound on the units lost or damaged                     *)
  MaxLate,       (* bound on the pauses of the calculator                  *)
  MaxStarts      (* bound on the times the calculator is started again     *)

VARIABLES
  mode, asking, starts,     (* the calculator: it asks; started again      *)
  sent, screen,             (* frames sent, and what its screen shows      *)
  wire, answered,           (* to the library; an answer to the calculator *)
  faults, late,             (* so far                                      *)
  pc,                       (* where the library is: see Places            *)
  buf,                      (* header received so far                      *)
  data,                     (* link->data_buffer: a part of a frame        *)
  picture, picture_size, picture_format,
  skip, verdict,            (* units to skip, and the result afterwards    *)
  result,                   (* of the last call                            *)
  reported                  (* number of the last frame given              *)

deviceVars == <<mode, asking, starts, sent, screen>>
wireVars == <<wire, answered, faults, late>>
pictureVars == <<data, picture, picture_size, picture_format>>
vars == <<deviceVars, wireVars, pc, buf, pictureVars, skip, verdict, result, reported>>

Places == {"idle", "align", "subheader", "skip", "data", "sum"}
Kinds(m) == CASE m = "mono" -> {"TYP01"} [] m = "color" -> {"TYPZ"} [] m = "parts" -> {"TYPZ", "TYPB"}

(* A unit; a checksum is that of what it is computed from.                 *)
Unit(is) == [is |-> is, of |-> <<>>]
Units(names) == [n \in 1 .. Len(names) |-> Unit(names[n])]
Sum(us) == [is |-> "sum", of |-> [n \in 1 .. Len(us) |-> us[n].is]]

Digits == <<"0", "1", "2", "3">>
IsHex(u) == \E n \in 1 .. Len(Digits) : u.is = Digits[n]
Value(u) == CHOOSE n \in 0 .. 3 : u.is = Digits[n + 1]

alignment_sequences ==
  {Units(<<"0B", "TYP", "01">>), Units(<<"0B", "TYP", "Z">>), Units(<<"0B", "TYP", "B">>),
   Units(<<"16", "CAL", "00">>)}
HeaderSize == 3
SubheaderSize == 4
PictureSize == 2

Init ==
  /\ mode \in Modes /\ asking \in BOOLEAN /\ starts = 0 /\ sent = 0 /\ screen = <<>>
  /\ wire = <<>> /\ answered = FALSE /\ faults = 0 /\ late = 0
  /\ pc = "idle" /\ buf = <<>> /\ data = <<>>
  /\ picture = <<>> /\ picture_size = 0 /\ picture_format = "none"
  /\ skip = 0 /\ verdict = "none" /\ result = "none" /\ reported = 0

-----------------------------------------------------------------------------
(* The calculator and the wire.                                            *)

(* The part of the screen that frame n has changed.                        *)
Content(n) == Unit(<<"p1", "p2", "p3", "p4", "p5", "p6">>[n])

WithSum(us) == Append(us, Sum(Tail(us)))

CheckPacket == WithSum(Units(<<"16", "CAL", "00">>))

(* The frame as a packet: a whole one, or the second half of the screen at *)
(* position 1.                                                             *)
Frame(kind, shown) ==
  CASE kind = "TYP01" -> WithSum(Units(<<"0B", "TYP", "01">>) \o shown)
    [] kind = "TYPZ"  -> WithSum(Units(<<"0B", "TYP", "Z", "0", "2", "2", "rgb">>) \o shown)
    [] kind = "TYPB"  -> WithSum(Units(<<"0B", "TYP", "B", "0", "1", "1", "1">>) \o Tail(shown))

(* The calculator goes on before all it sent was read.                     *)
Room == Len(wire) < HeaderSize

Ask ==
  /\ asking /\ Room /\ wire' = wire \o CheckPacket
  /\ UNCHANGED <<deviceVars, answered, faults, late, pc, buf, pictureVars, skip, verdict, result, reported>>

TakeAnswer ==
  /\ answered /\ answered' = FALSE
  /\ asking' = FALSE
  /\ UNCHANGED <<mode, starts, sent, screen, wire, faults, late, pc, buf, pictureVars, skip, verdict,
                 result, reported>>

SendFrame ==
  /\ ~asking /\ Room /\ sent < MaxFrames
  /\ sent' = sent + 1
  /\ screen' = <<Unit("0B"), Content(sent + 1)>>
  /\ \E kind \in Kinds(mode) :
       /\ kind = "TYPB" => sent > 0
       /\ wire' = wire \o Frame(kind, screen')
  /\ UNCHANGED <<mode, asking, starts, answered, faults, late, pc, buf, pictureVars, skip, verdict,
                 result, reported>>

StartAgain ==
  /\ starts < MaxStarts /\ starts' = starts + 1
  /\ ~asking /\ sent > 0 /\ asking' = TRUE
  /\ UNCHANGED <<mode, sent, screen, wireVars, pc, buf, pictureVars, skip, verdict, result, reported>>

Lose ==
  /\ faults < MaxFaults /\ faults' = faults + 1
  /\ wire # <<>> /\ wire' = Tail(wire)
  /\ UNCHANGED <<deviceVars, answered, late, pc, buf, pictureVars, skip, verdict, result, reported>>

Damage ==
  /\ faults < MaxFaults /\ faults' = faults + 1
  /\ wire # <<>> /\ wire' = [wire EXCEPT ![1] = Unit("x")]
  /\ UNCHANGED <<deviceVars, answered, late, pc, buf, pictureVars, skip, verdict, result, reported>>

-----------------------------------------------------------------------------
(* cahute_seven_ohp_receive_screen and cahute_seven_ohp_receive.           *)

Take(n) == Len(wire) >= n /\ wire' = SubSeq(wire, n + 1, Len(wire))

Return(r) == pc' = "idle" /\ result' = r /\ UNCHANGED reported

(* A packet that is corrupted is passed over.                              *)
PassOver == pc' = "align" /\ buf' = <<>> /\ UNCHANGED <<result, reported>>

GoTo(place) == pc' = place /\ UNCHANGED <<result, reported>>

Call ==
  /\ pc = "idle" /\ result # "GONE"
  /\ pc' = "align" /\ buf' = <<>> /\ result' = "none"
  /\ UNCHANGED <<deviceVars, wireVars, pictureVars, skip, verdict, reported>>

(* What is kept of HeaderSize units: the longest end of them that begins a *)
(* packet.                                                                 *)
Aligned(us) ==
  LET Begins(n) == \E a \in alignment_sequences : IsPrefix(SubSeq(us, n + 1, Len(us)), a)
      n == CHOOSE n \in 0 .. Len(us) : Begins(n) /\ \A m \in 0 .. n - 1 : ~Begins(m)
  IN  SubSeq(us, n + 1, Len(us))

Align ==
  /\ pc = "align" /\ Len(buf) < HeaderSize
  /\ Take(HeaderSize - Len(buf))
  /\ buf' = Aligned(buf \o SubSeq(wire, 1, HeaderSize - Len(buf)))
  /\ GoTo(IF Len(buf') < HeaderSize THEN "align"
          ELSE IF buf'[1] = Unit("16") THEN "sum"
          ELSE IF buf'[3] = Unit("01") THEN "data" ELSE "subheader")
  /\ UNCHANGED <<deviceVars, answered, faults, late, pictureVars, skip, verdict>>

IsPart == buf[3] = Unit("B")

FrameLength(b) ==
  IF b[3] = Unit("01") THEN PictureSize ELSE 4 * Value(b[4]) + Value(b[5])

(* The format of the frame: a part has that of the picture.                *)
Format(b) ==
  CASE b[3] = Unit("01") -> "mono"
    [] b[3] = Unit("Z")  -> IF b[7] = Unit("rgb") THEN "rgb" ELSE "none"
    [] b[3] = Unit("B")  -> picture_format

(* The dimensions are those of the picture, or the position and the size   *)
(* of the part.                                                            *)
Dimensions(b) == IF b[3] = Unit("B") THEN {b[6], b[7]} ELSE {b[6]}
ExpectedSize(b) == IF b[3] = Unit("B") THEN Value(b[7]) ELSE Value(b[6])

(* What becomes of a frame with the header b.                              *)
Verdict(b) ==
  IF \E u \in Dimensions(b) : ~IsHex(u) THEN "CORRUPT"
  ELSE IF FrameLength(b) = 0 \/ Format(b) = "none" \/ ExpectedSize(b) # FrameLength(b) THEN "UNKNOWN"
  ELSE IF FrameLength(b) > PictureSize THEN "SIZE" ELSE "OK"

Subheader ==
  /\ pc = "subheader" /\ Take(SubheaderSize)
  /\ LET b == buf \o SubSeq(wire, 1, SubheaderSize) IN
     IF ~IsHex(b[4]) \/ ~IsHex(b[5])
     THEN PassOver /\ UNCHANGED <<skip, verdict>>
     ELSE /\ buf' = b
          /\ GoTo(IF Verdict(b) = "OK" THEN "data" ELSE "skip")
          /\ skip' = FrameLength(b) + 1 /\ verdict' = Verdict(b)
  /\ UNCHANGED <<deviceVars, answered, faults, late, pictureVars>>

(* The data and the checksum of such a frame are read, all of them         *)
(* together, so as to be at the next packet afterwards.                    *)
Skip ==
  /\ pc = "skip" /\ skip > 0
  /\ Take(1) /\ skip' = skip - 1
  /\ IF skip > 1 THEN UNCHANGED <<pc, buf, result, reported>>
     ELSE IF verdict = "CORRUPT" THEN PassOver ELSE Return(verdict) /\ UNCHANGED buf
  /\ UNCHANGED <<deviceVars, answered, faults, late, pictureVars, verdict>>

(* cahute_blit_picture: what the part has out of the picture is left out.  *)
Blit(p, us, at) ==
  [n \in 1 .. Len(p) |-> IF n - at \in 1 .. Len(us) THEN us[n - at] ELSE p[n]]

(* The data are stored and applied, before the checksum is known.          *)
Data ==
  /\ pc = "data" /\ Take(FrameLength(buf))
  /\ LET us == SubSeq(wire, 1, FrameLength(buf)) IN
     IF IsPart
     THEN /\ data' = us
          /\ IF picture_format = "rgb"
             THEN picture' = Blit(picture, us, Value(buf[6])) /\ GoTo("sum")
             ELSE UNCHANGED picture /\ Return("IMPL")
          /\ UNCHANGED <<picture_size, picture_format>>
     ELSE /\ picture' = us /\ picture_size' = Len(us) /\ picture_format' = Format(buf)
          /\ GoTo("sum") /\ UNCHANGED data
  /\ UNCHANGED <<deviceVars, answered, faults, late, buf, skip, verdict>>

(* Mutant of SumHolds: the checksum need only be one.                      *)
SumIsThere(u) == u.is = "sum"

(* The checksum is computed from the header, and the data received last    *)
(* where those of the packet would be.                                     *)
SumHolds(u) ==
  LET us == IF IsPart THEN data ELSE SubSeq(picture, 1, picture_size) IN u = Sum(Tail(buf) \o us)

(* The frame is given to the program, or the check is answered.            *)
Complete ==
  IF buf[1] = Unit("16")
  THEN answered' = TRUE /\ PassOver
  ELSE /\ pc' = "idle" /\ result' = "OK" /\ UNCHANGED <<answered, buf>>
       /\ reported' = IF \E n \in 1 .. sent : Content(n) = Last(picture)
                      THEN CHOOSE n \in 1 .. sent : Content(n) = Last(picture) ELSE reported

Checksum ==
  /\ pc = "sum" /\ Take(1)
  /\ IF SumHolds(Head(wire)) THEN Complete ELSE PassOver /\ UNCHANGED answered
  /\ UNCHANGED <<deviceVars, faults, late, pictureVars, skip, verdict>>

(* The units the library is waiting for.                                   *)
Wanted ==
  CASE pc = "align" -> HeaderSize - Len(buf)
    [] pc = "subheader" -> SubheaderSize
    [] pc = "skip" -> 1
    [] pc = "data" -> FrameLength(buf)
    [] pc = "sum" -> 1

(* Fewer come: the calculator has no more to send, or pauses, be it in the *)
(* middle of a packet.  Those that came are lost.                          *)
TimesOut ==
  /\ pc # "idle"
  /\ \E n \in 0 .. Len(wire) :
       /\ n < Wanted
       /\ IF n = Len(wire) /\ ~asking /\ sent = MaxFrames THEN UNCHANGED late
          ELSE late < MaxLate /\ late' = late + 1
       /\ wire' = SubSeq(wire, n + 1, Len(wire))
       /\ Return(IF pc = "align" /\ n = 0 THEN "TIMEOUT_START" ELSE "TIMEOUT")
  /\ UNCHANGED <<deviceVars, answered, faults, buf, pictureVars, skip, verdict>>

TransportFails ==
  /\ pc # "idle" /\ faults < MaxFaults /\ faults' = faults + 1
  /\ Return("GONE")
  /\ UNCHANGED <<deviceVars, wire, answered, late, buf, pictureVars, skip, verdict>>

-----------------------------------------------------------------------------
Library == Align \/ Subheader \/ Skip \/ Data \/ Checksum \/ TimesOut

Calculator == Ask \/ TakeAnswer \/ SendFrame

Next == Call \/ Library \/ Calculator \/ StartAgain \/ Lose \/ Damage \/ TransportFails

(* The program asks for a frame after the other, the library runs, and the *)
(* calculator goes on.                                                     *)
Spec == Init /\ [][Next]_vars /\ WF_vars(Call) /\ WF_vars(Library)
             /\ WF_vars(Ask \/ SendFrame) /\ WF_vars(TakeAnswer)

-----------------------------------------------------------------------------
TypeOK ==
  /\ mode \in Modes /\ asking \in BOOLEAN /\ starts \in 0 .. MaxStarts /\ sent \in 0 .. MaxFrames
  /\ answered \in BOOLEAN /\ faults \in 0 .. MaxFaults /\ late \in 0 .. MaxLate
  /\ pc \in Places /\ Len(buf) <= HeaderSize + SubheaderSize
  /\ Len(picture) <= PictureSize /\ picture_size \in 0 .. PictureSize
  /\ picture_format \in {"none", "mono", "rgb"} /\ skip \in Nat /\ reported \in 0 .. MaxFrames

(* A whole frame that is given to the program is one the calculator showed, *)
(* with no unit of another one: neither what was lost nor the alignment    *)
(* (receive_packet.c:79-124) makes one picture of two.  With parts, which  *)
(* are applied to what was received before, it is if nothing was lost.     *)
FramesAreWhole ==
  result = "OK" /\ pc = "idle" /\ (mode = "parts" => faults + late = 0)
    => reported > 0 /\ picture = <<Unit("0B"), Content(reported)>>

(* Frames go on arriving to the last, two missed for each unit lost at     *)
(* most, and a calculator that asks first is answered; when the calculator *)
(* does not pause, nor start again.                                        *)
FramesArrive ==
  <>(\/ reported >= MaxFrames - 2 * faults \/ result = "GONE"
     \/ (mode # "mono" /\ faults > 0) \/ late > 0 \/ starts > 0)

(* "the sender requires acknowledgement from the receiver. As such, it     *)
(* will continuously send check packets [...] In such cases, the receiver  *)
(* must answer" (docs/topics/communication/seven-ohp/flows.rst): also when *)
(* frames were received before.                                            *)
ChecksAreAnswered == asking ~> ~asking \/ faults + late > 0

=============================================================================
