--------------------------- MODULE TextConversion ----------------------------
(***************************************************************************)
(* Text converted from one encoding to another (cahute_convert_text), by   *)
(* programs that have less room than the text takes, or less of it in      *)
(* memory than there is: print_content of the command line tools, which    *)
(* prints what a small buffer holds and goes on; the program that the      *)
(* guides give for a text read in pieces; and cahute_convert_to_utf8.      *)
(*                                                                         *)
(* A character is what the conversion takes for one: so many bytes of the  *)
(* source, so many once converted, or the end of a text, a code that means *)
(* nothing, or one without equivalent.  Positions in the source are those  *)
(* of its bytes.  LEGACY_8 and 9860_8, and their 16-bit forms, differ by   *)
(* tables only.                                                            *)
(***************************************************************************)
EXTENDS Integers, Sequences, FiniteSets, SequencesExt

CONSTANTS
  Lengths,         (* of UTF-8 characters, of 1 to 6                       *)
  MaxCharacters,   (* bound on the texts                                   *)
  Windows, Rooms   (* sizes of the buffers for the source, and the others  *)

VARIABLES
  program,       (* "print_content", "pieces" or "to_utf8"                 *)
  text,          (* the characters of the source                           *)
  cut,           (* bytes missing of the last one                          *)
  source, dest,  (* encodings                                              *)
  window,        (* size of the program's buffer for the source            *)
  space,         (* size of its buffer for what is converted               *)
  pc, result,
  data,          (* *datap: position in the source                         *)
  fetched,       (* position up to which the program has the source        *)
  taken,         (* where its call began                                   *)
  room,          (* *buf_sizep                                             *)
  out            (* the characters converted, in order                     *)

inputVars == <<program, text, cut, source, dest, window, space>>
vars == <<inputVars, pc, result, data, fetched, taken, room, out>>

-----------------------------------------------------------------------------
Casio == {"8", "16"}          (* LEGACY_* and 9860_*                       *)
Unicode == {"UTF32", "UTF8"}
Encodings == Casio \union Unicode \union {"CAT"}

(* cahute_get_variable_size_*_char: a leading byte announces a second one. *)
VariableSizes == {1, 2}

(* The bytes a character takes in the source.                              *)
SourceSizes ==
  CASE source = "8"     -> VariableSizes
    [] source = "16"    -> {2}
    [] source = "UTF32" -> {4}
    [] source = "UTF8"  -> Lengths
    [] source = "CAT"   -> {1}

(* cahute_get_utf8_char_size, for one or two of them: a character of the   *)
(* calculators may be a sequence.                                          *)
Utf8Sizes == Lengths \union {m + n : m \in Lengths, n \in Lengths}

DestSizes ==
  CASE dest = "8"     -> VariableSizes
    [] dest = "16"    -> {2}
    [] dest = "UTF32" -> IF source \in Casio THEN {4, 8} ELSE {4}
    [] dest = "UTF8"  -> IF source \in Casio THEN Utf8Sizes ELSE Lengths
    [] dest = "CAT"   -> {1}

(* Codes with no entry in the tables, and sequences that are not UTF-8.    *)
Invalid == IF source = "UTF32" THEN {} ELSE {"INVALID"}

(* Entries with no equivalent (cahute_get_*_unicode_sequence, code_legacy, *)
(* code_9860).                                                             *)
Incompatible == IF source \in Casio THEN {"INCOMPAT"} ELSE {}

Characters ==
  [kind : {"char"}, size : SourceSizes, image : DestSizes]
    \union [kind : Invalid \union Incompatible \union {"TERMINATED"},
            size : SourceSizes, image : {0}]

(* Both the choice of a conversion loop and the loop: what there is code   *)
(* for.  A loop for CASIO text is chosen for Unicode too, and cannot read  *)
(* it.                                                                     *)
Supported ==
  /\ "CAT" \notin {source, dest}
  /\ dest \in Casio => source \in Casio

Min2(m, n) == IF m < n THEN m ELSE n

(* Where the character with this number starts.                            *)
Start(i) == FoldLeft(LAMBDA at, c : at + c.size, 0, SubSeq(text, 1, i - 1))
Size == Start(Len(text) + 1) - cut

(* The number of the character that starts at this position, or 0.         *)
At(position) ==
  LET here == {i \in 1 .. Len(text) : Start(i) = position} IN
  IF here = {} THEN 0 ELSE CHOOSE i \in here : TRUE
Here == text[At(data)]

-----------------------------------------------------------------------------
(* What a program has of the source at once.                               *)
WindowOf(p) == IF p = "pieces" THEN Windows ELSE {0}

Init ==
  /\ program \in {"print_content", "pieces", "to_utf8"}
  /\ source \in Encodings /\ dest \in Encodings
  /\ program = "to_utf8" => dest = "UTF8"
  /\ text \in BoundedSeq(Characters, MaxCharacters)
  /\ cut \in IF text = << >> THEN {0} ELSE 0 .. Last(text).size - 1
  /\ window \in WindowOf(program) /\ space \in Rooms
  /\ pc = "call" /\ result = "none"
  /\ data = 0 /\ taken = 0 /\ room = space /\ out = << >>
  /\ fetched = IF program = "pieces" THEN Min2(window, Size) ELSE Size

(* The call returns this, and gives the caller these pointers.             *)
Ends(err) ==
  /\ pc' = "return" /\ result' = err
  /\ UNCHANGED <<inputVars, fetched, taken, room, out>>

(* The call has nothing to convert, nowhere to convert it to, or no code.  *)
Called ==
  /\ pc = "call"
  /\ taken' = data
  /\ IF data # fetched /\ room # 0 /\ Supported
     THEN pc' = "convert" /\ result' = "none"
     ELSE /\ pc' = "return"
          /\ result' = IF data = fetched THEN "OK" ELSE IF room = 0 THEN "SIZE" ELSE "IMPL"
  /\ UNCHANGED <<inputVars, data, fetched, room, out>>

Over ==
  /\ pc = "convert" /\ data = fetched
  /\ Ends("OK") /\ UNCHANGED data

Converting == pc = "convert" /\ data < fetched

(* The buffer stops within the character.                                  *)
Truncated ==
  /\ Converting /\ fetched - data < Here.size
  /\ Ends("TRUNC") /\ UNCHANGED data

(* The end of the text, which is passed over.                              *)
Terminated ==
  /\ Converting /\ fetched - data >= Here.size
  /\ Here.kind = "TERMINATED"
  /\ data' = data + Here.size
  /\ Ends("TERMINATED")

(* A code that means nothing, or has no equivalent: it is left there.      *)
Untranslated ==
  /\ Converting /\ fetched - data >= Here.size
  /\ Here.kind \in {"INVALID", "INCOMPAT"}
  /\ Ends(Here.kind) /\ UNCHANGED data

(* Mutant: a character for which there is no room is passed over.          *)
NoRoomPassed ==
  /\ Converting /\ fetched - data >= Here.size
  /\ Here.kind = "char" /\ room < Here.image
  /\ data' = data + Here.size
  /\ Ends("SIZE")

NoRoom ==
  /\ Converting /\ fetched - data >= Here.size
  /\ Here.kind = "char" /\ room < Here.image
  /\ Ends("SIZE") /\ UNCHANGED data

(* The whole of a character is written, then passed over.                  *)
Converted ==
  /\ Converting /\ fetched - data >= Here.size
  /\ Here.kind = "char" /\ room >= Here.image
  /\ out' = Append(out, At(data))
  /\ room' = room - Here.image
  /\ data' = data + Here.size
  /\ UNCHANGED <<inputVars, pc, result, fetched, taken>>

Convert == Over \/ Truncated \/ Terminated \/ Untranslated \/ NoRoom \/ Converted

-----------------------------------------------------------------------------
(* print_content: what was converted is printed; while there are bytes of  *)
(* the buffer missing and some were converted, it goes on.                 *)
Prints ==
  /\ pc = "return" /\ program = "print_content"
  /\ IF room < space /\ result = "SIZE"
     THEN pc' = "call" /\ room' = space
     ELSE pc' = "done" /\ UNCHANGED room
  /\ UNCHANGED <<inputVars, result, data, fetched, taken, out>>

(* The program of the guides: the bytes that are left are kept and         *)
(* completed, unless nothing was read.  A source that is over without an   *)
(* end is completed with nothing, for ever.                                *)
Completes ==
  /\ pc = "return" /\ program = "pieces"
  /\ IF result = "OK" \/ (result = "TRUNC" /\ data # taken)
     THEN pc' = "call" /\ fetched' = Min2(data + window, Size)
     ELSE pc' = "done" /\ UNCHANGED fetched
  /\ UNCHANGED <<inputVars, result, data, taken, room, out>>

(* cahute_convert_to_utf8: a NUL is put after the text, if nothing has     *)
(* stopped the conversion, the end of the text included.                   *)
PutsNul ==
  /\ pc = "return" /\ program = "to_utf8"
  /\ pc' = "done"
  /\ result' = IF result = "OK" /\ room = 0 THEN "SIZE" ELSE result
  /\ UNCHANGED <<inputVars, data, fetched, taken, room, out>>

Next == Called \/ Convert \/ Prints \/ Completes \/ PutsNul

Spec == Init /\ [][Next]_vars

-----------------------------------------------------------------------------
TypeOK ==
  /\ source \in Encodings /\ dest \in Encodings
  /\ text \in Seq(Characters) /\ cut \in Nat
  /\ pc \in {"call", "convert", "return", "done"}
  /\ result \in {"none", "OK", "SIZE", "IMPL", "TRUNC", "INVALID", "INCOMPAT", "TERMINATED"}
  /\ data \in 0 .. Size /\ taken \in 0 .. data /\ fetched \in data .. Size
  /\ room \in 0 .. space
  /\ \A i \in 1 .. Len(out) : out[i] \in 1 .. Len(text)

(* The conversion of the text in one call with room for all of it stops    *)
(* before this character, for this reason.                                 *)
Whole(i) == Start(i + 1) <= Size
WholeStop ==
  CHOOSE n \in 1 .. Len(text) + 1 :
    /\ \A i \in 1 .. n - 1 : text[i].kind = "char" /\ Whole(i)
    /\ n <= Len(text) => text[n].kind # "char" \/ ~Whole(n)
WholeResult ==
  IF WholeStop = Len(text) + 1 THEN "OK"
  ELSE IF Whole(WholeStop) THEN text[WholeStop].kind ELSE "TRUNC"

Room(n) == FoldLeft(LAMBDA total, c : total + c.image, 0, SubSeq(text, 1, n - 1))

(* The buffers are large enough for the way the program works.             *)
Fits ==
  CASE program = "print_content" -> \A i \in 1 .. Len(text) : text[i].image <= space
    [] program = "pieces" ->
         Room(WholeStop) < space /\ \A i \in 1 .. Len(text) : text[i].size <= window
    [] program = "to_utf8" -> Room(WholeStop) < space

(* Nothing ends the text, and the program of the guides converts nothing   *)
(* over and over (convert-multi-in.c:72).                                  *)
GoesRound == program = "pieces" /\ pc = "return" /\ result = "OK" /\ data = Size

(* A text that is converted piece by piece becomes what it does at once:   *)
(* every character before the one that stops the conversion, once and in   *)
(* order, however the buffers cut it; the result is the same, and the      *)
(* source is left at the character in question, or after the end of the    *)
(* text.  (What cahute_convert_text gives back after an error, and the     *)
(* loops around it.)                                                       *)
SplitIsWhole ==
  /\ \A i \in 1 .. Len(out) : out[i] = i
  /\ pc = "return" /\ Supported =>
       data = Start(Len(out) + (IF result = "TERMINATED" THEN 2 ELSE 1))
  /\ (pc = "done" \/ GoesRound) /\ Fits /\ Supported =>
       Len(out) = WholeStop - 1 /\ result = WholeResult

=============================================================================
