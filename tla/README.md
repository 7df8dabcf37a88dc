# A verification of Cahute in TLA+

Cahute is a C library (and command line programs) that speaks to CASIO
calculators over serial and USB links, and reads and writes their files.  This
directory holds TLA+ specifications of the library, the TLC configurations that
check them on small instances, and proofs checked by TLAPS.  Paths below are
those of the repository, from `src/` (`seven/` is `lib/link/seven/`, and so on).

- [Inventory](#inventory): the parts of the system
- [Modules](#modules): what models what
- [Runs](#runs): what is checked, with which bounds, and what it shows
- [Proofs](#proofs)
- [Divergences](#divergences): where the code does not do what it says
- [Plan](#plan): what could come next
- [Not modelled](#not-modelled), and what the models take for granted

## Inventory

The library is sequential: a call runs to its end in the caller's thread.
What makes it hard is the other end of the link, which runs concurrently, loses
contact, answers late or answers something else, and the system, which takes
and gives bytes in pieces of its own choosing, fails between two calls, and on
Windows goes on reading after the call that asked for it has returned.

| Part | State | Operations | Interacts with | Correct when | Modules |
|---|---|---|---|---|---|
| Link transport (`lib/link/transport`) | receive buffer with its start and size, GONE flag | receive (size, two timeouts), send | the platform's stream below, every protocol above | the byte stream is neither lost nor reordered, timeouts are kept but for a last pause, partial writes are completed | `LinkTransport` |
| Platform streams (`lib/platform/*`) | a serial port, a USB pipe, overlapped reads | one read, one write | transport, system | each does what the transport expects | `Streams`, `PlatformStreams`, `AmigaStream` |
| Protocol 7.00 exchange (`send_packet.c`, `receive_packet.c`) | last packet, attempts, IRRECOVERABLE flag | send a packet and receive its answer, with the checksum and timeout flows | transport; every Protocol 7.00 operation | an answer is never taken for another packet's, one fault does not cost the link, every call returns | `SevenExchange` |
| Protocol 7.00 session (`initialize.c`, `discover.c`, `terminate.c`, commands) | link flags, device information | open, give a command, close | exchange | success means that the command was carried out; nothing is sent on a broken link | `SevenCommand`, `CommandService` |
| Data to the device (`send_bytes*.c`, `send_file_to_storage.c`, `upload_and_run_program.c`) | packet number, shifting | send a file, upload a program | exchange, files | success means that the device has the whole of it | `SevenTransfer` |
| Data from the device (`receive_bytes*.c`, `request_*.c`, `backup_rom.c`) | packet number, role, shifting | request a file, back up the ROM, ask for the capacity | exchange, files | success means the whole of the data, once and in order; the roles are given back | `SevenRoleSwap`, `SevenReceive` |
| Listing (`list_storage_entries.c`, `request_file_type.c`) | role, entry found, request to stop | list entries, find a type | exchange, the caller's callback | every entry once and in order, the loops end | `SevenListing` |
| Flashing (`flash_system_*.c`) | sector, piece | clear, upload and copy sectors | exchange | the first sector goes last, no sector is mixed | `SevenFlash` |
| Passive side (`receive_data.c`) and serial negotiation (`negotiate_serial_params.c`) | parameters of both ends, TERMINATED | answer checks, settings and files | exchange, serial port | whole files, both ends agree on the parameters | `SevenPassive` |
| Screenstreaming (`lib/link/seven_ohp`) | alignment, picture | receive a screen | transport | no frame is made of two | `SevenOhp` |
| CAS300 (`lib/link/cas300`) | packet identifiers of both ends | start, discover, command, receive data, terminate | transport | the ends stay in step | `Cas300` |
| CASIOLINK (`casiolink`, `cas40`, `cas50`, `cas100`) | variant, AL mode, header | handshake, receive data and screens | transport | what was acknowledged was received, only an end ends | `Casiolink` |
| Detection (`lib/link/open/init.c`) | protocol, bytes read ahead | try the protocols, or listen for one | all protocols | the protocol found is spoken | `LinkDetection` |
| Opening and closing (`lib/link/open`, `close.c`, `context.c`, `platform/*/open.c`) | handles, interfaces, memory | open, search, close | system | nothing is lost, nothing is given back twice but in the cases named | `LinkOpening` |
| Serial parameters (`set_serial_params.c`) | cached and real parameters | open, set | the ports of four systems | the port is what its system makes of what was asked | `SerialSettings` |
| Files (`lib/file`) | offset, read buffer and its bookkeeping | read and write at an offset, create | platform files; transfers | bytes come from and go to the offset asked for | `FileRead`, `FileWrite` |
| Text (`lib/text.c`) | positions in two buffers | convert, in pieces | callers' loops | pieces make the whole | `TextConversion` |
| Programs (`cli/`) | what is open, the window | parse, open, operate, close, display | the whole library | everything is closed, the status is true, but for the places named | `Programs` |
| Data, MCS, pictures, encodings, logging, paths | tables, linked lists | decode, convert | files, protocols | decoded as encoded | [not modelled](#not-modelled) |

The hard behaviours are listed one by one, with their lines and the properties
that watch them, under `hazards` in `PROJECT.json`.

## Modules

A byte, a packet or a frame is its position in what was sent, so that one that
is lost, repeated, stale or out of place shows.  Variables have the names of the
C fields and locals; histories, which no guard reads, are named as such where
they are declared.  What is not the library (the calculator, the system, the
wire) is external, and marked so in `PROJECT.json`: it is modelled from what the
code expects and survives.  A call that an actor makes is one action per point
where another actor could act in between.

**Composition.** Modules that share a wire or a state are composed by extension
or instantiation: `SevenExchange` has no `Next`, and `SevenCommand`,
`SevenTransfer`, `SevenRoleSwap`, `SevenFlash` and `SevenPassive` start
exchanges, act on their outcome and say what the device answers; `Streams`,
`PlatformStreams` and `AmigaStream` put a system under `LinkTransport`.
`SevenSessions`, `SevenOperations`, `Files` and `LinkProtocols` gather uses of
the library that a link, or a program, has one at a time: a variable `use` or
`operation` is chosen at the start, and a step is one of the module it names.

**Transport.**  `LinkTransport` is `receive.c` and `send.c`.  A reception is an
action for what the receive buffer serves (`ReceiveFromBuffer`,
`StartPolling`) and one per turn of the loop: `PollBytes`, `PollNothing` (the
system returned nothing, and the clock has moved), `PollTimesOut`, `PollFails`.
One call of the system is one step there, which may give a timeout up as much as
`Earliness` before it has gone by.  `Streams` opens that step: a POSIX
port (`posix/serial.c`), libusb bulk transfers, and USB Mass Storage, where a
read is the requests C0 and C1 and their transfers.  `PlatformStreams` adds
overlapped reads, which the driver completes when it likes, in the link's own
buffer (`win32/serial/link.c`, `cesg.c`, `winusb_bulk.c`), and the polling of
Windows 3.  Both implement `LinkTransport` (`ImplementsLinkTransport`,
`PlatformsImplement`), where a failure may moreover lose bytes (`Drops`).
`AmigaStream` is alike, for AmigaOS, and does not.  Mass Storage and Windows 3
wait by asking, and then pausing: `usb.c:96` and `win16/serial/link.c:97` end the
call when the time since its start and that of a pause make the timeout, so that
they give up as much as a pause before it has passed.  `UmsTimesOut` and
`Win16TimesOut` count the time that has really gone by (`waited + d`, where a
request takes `d`), and `PlatformTimeoutIsKept` says how early each stream may be:
not at all, or by that one pause.

**Protocol 7.00.**  In `SevenExchange` the wire is two queues that lose, damage
and delay packets.  A packet is a kind, a number and whether it is intact; an
answer carries, as history, the packet it answers.  `phase` is where
`cahute_seven_send_and_receive` is, and `TryAgain` the C `continue`.
`SevenCommand` is a session: `cahute_seven_initiate` with its own loop,
`cahute_seven_discover`, commands that expect an acknowledgement, and
`cahute_close_link`.  `CommandService` is what such a session promises its
caller (success means carried out, and nothing is carried out after its call
is over and another is given); `SevenCommand` implements it under `busy <-
session = "command"`, `done <-` the commands executed at least once.
`SevenTransfer` has the overwrite confirmation, and the loops of
`send_bytes_from_stream.c` with packet shifting.  `SevenRoleSwap` has what the
flows with a role swap share, and a device whose items go one per
acknowledgement: an acknowledgement carries no number, so that a device that
was sent a timeout check may take one that is repeated for the next.
`SevenReceive` and `SevenListing` are the loops over it; `Spin` is a C
`continue` that receives nothing.  `SevenFlash` numbers the sectors of a system,
and the pieces of each.  `SevenPassive` runs the library at the passive end, or
at both: the port of each end has parameters, and what is sent to other ones is
garbage or lost.  `SevenOhp` receives a stream of units with no
acknowledgement at all, and realigns.

**Other protocols.**  `Cas300` and `LinkDetection` index the variables of an end
by `"active"` and `"passive"`, and run the library at either, or both; the other
is a calculator.  In `LinkDetection` the wire carries bytes, and a reception may
return part of a packet, or of two.  `Casiolink` runs its receiver
(`casiolink/receive_data.c` and the functions of each variant) against a sender.

**Links.**  `LinkOpening` counts resources: `held[r]` is how many times the
system has given `r` less the times it was given back.  An opening is a list of
calls of the system, for each of the nine openings and two searches of four
systems: a call says what it takes (`takes`), ends (`drops`) and leaves to the
context (`keeps`), and what the function that makes it frees by itself when it
fails (`frees`).  Any call may fail; `GivenBackBy` and `GivenBackAround` are
what the labels of the failing function and of those around it then give back,
and `ClosedBy` what a closing function does.  A resource that both the failing
function and a label give back is in `twice`, and the C library may stop the
program there (`pc = "stopped"`).  `NothingLeaks` says that nothing is lost, and
that nothing is given back twice but what `GivenBackTwice` names call by call, as
the code does give these back twice (see [Divergences](#divergences)).  The
module has the search of `simple_usb.c` on a bus whose devices come and go, with
the description of one device through its hub on Windows.  `SerialSettings` has, for
each parameter, what the calls have asked, what the link caches and what the
port has; `MadeOf` says what each system makes of a value that is asked for: that
value, but for the parameters the code sets otherwise.

**Files and programs.**  The byte at offset k of a file has the value k.
`FileRead` is `cahute_read_from_file` with its buffer; `FileWrite` is the
writing of created files and standard output.  `TextConversion` cuts a text
of characters of several sizes in the three ways the
repository does (`print_content`, the guide's program, `cahute_convert_to_utf8`).
The guide's program goes round for ever on a text that has no end, as its source
is then over and asked for again (`convert-multi-in.c:72`, `117-120`): `GoesRound`.
`Programs` has the `main` of the five programs: each call of the library returns
anything, `held` is what is open, `stopped` the place where something last went
wrong, and `RowMoves` is the in-place scaling of `p7screen` in the order of its
loops, in a texture whose lines the system may make longer (`pitch`).

Operators whose comment says "Mutant of ..." are variants of a definition, each
a plausible slip in the code; every property checked by a passing run is
violated when one of them takes the definition's place.

## Runs

| Run | Distinct states | Shows |
|---|---|---|
| `transport` (`PlatformStreams.cfg`) | 682,991 | whatever interleaving of receptions, messages, the device and the driver, over five kinds of streams: the stream is received in order, timeouts are kept but for the last pause of two streams, messages are sent whole, receptions end, and each stream implements the transport |
| `seven_session` (`SevenSessions.cfg`) | 269,862 | a session of commands keeps the promise of `CommandService`, is quiet at rest and survives one fault; a watched screen is seen in whole frames, to the last |
| `seven_operations` (`SevenOperations.cfg`) | 1,120,824 | transfers both ways, listings, flashing and the passive side do what they report, end, and leave a link the next call can use |
| `files` (`Files.cfg`) | 525,340 | reads in sequence are exact over a coherent buffer, writes are in place and complete, texts in pieces are whole, programs close what they open and tell how they ended, frames are shown pixel by pixel |
| `links` (`LinkProtocols.cfg`) | 818,197 | openings lose nothing and give back twice only what is named, ports are what their system makes of what was asked, the protocol found is spoken, CAS300 ends stay in step, CASIOLINK ends agree on what was received; what is called returns, and a device that listens is found |
| `unlimited_timeout`, `amiga_timeout`, `receive_broken`, `listing_ends`, `read_offset`, `cas40_acks`, `ohp_checks` | small | the [divergences](#divergences) |

**Bounds, and why they are enough.**

- `transport`: a receive buffer of 2, requests of 0, 1 and 3 and a stream of 4
  make a reception take from the buffer, from several turns, and leave bytes
  over; timeouts of 0 (unlimited) and 3 can be cut in turns, and hold a
  pause, a request and more of either; a device gives at most 2 bytes
  (`MaxGiven`) per Mass Storage request, the pauses are 1 (`Earliness` too, as
  the longest of them), and a request takes 0 or 1 (`RequestTimes`).
- `seven_session`: 2 commands show what one leaves to the next; 2 losses reach a
  packet and the check that follows it, 2 damages the resending of a resent
  packet, 2 late answers the two initial checks (`InitAttempts`; eight in the
  code) and what follows; 3 attempts per exchange are those of the code.
  The wire does not both damage packets and delay answers (see `Orderly`
  below).  For the screen: 5 frames, one unit lost or damaged, one pause, one
  start again: a fault costs two frames at most, so that there are frames after
  it.
- `seven_operations`: transfers of 0 to 4 packets: 1 and 2 do not shift, 3 is the
  shortest that does, 4 runs the loop more than once while shifting.  Lists of 2
  entries have one before and one after; a system of 3 sectors (one more on the
  flash) of 2 pieces has a first, a last, and one in between.  One packet lost,
  one damaged, one late, all three in a behaviour.
- `files`: a buffer of 2, a file of 5: three buffers, the last not full; every
  offset, sizes 1 to 4; every text of up to 3 characters, between every
  two encodings, where a character of UTF-8 takes 1 or 3 bytes (or, made of two,
  their sums), in buffers of 4 and 6 that cut them; frames of sides 1
  and 2, zooms 1 to 3, two of each; a line of a texture is as long as that of the
  picture, or a pixel longer (`Paddings`).
- `links`: identifiers modulo 4 (256 in the code) wrap within a session; 2 items
  of 2 parts; 2 starts of a CASIOLINK session; one packet lost, one damaged, one
  late; 2 openings, so that one follows another in the same context, with a
  calculator of each interface that may come and go; 3 settings of a port.

**Premises.**  A property that does not hold of everything says so in its
definition.  `Orderly`: a late request to send again can be taken for the answer
to the timeout check, after which every answer is one packet late.  It takes a
damaged packet and a late answer in the same exchange, and nothing in a packet
tells the host which is meant; `SevenTransfer`, `SevenRoleSwap` and `SevenFlash`
have it as a premise.  `LinkIsFree` excepts a transfer that fails while shifting, `ParamsAgree`
a damaged answer and a failed `sleep`, `EntriesInOrder` loss and lateness (an
acknowledgement that is repeated skips an entry), `FlashedInOrder` an image
larger than the area that is cleared (`InRange`), `TerminationIsAgreed` a CAS40
wire that loses or damages (its double acknowledgement hides it), and
`AcceptedIsReceived` like it a sender that gives up early and starts over
(`OneAtATime`), whose packets are acknowledged in the session that follows,
`OneFaultIsSurvived` shifting and the failure to create the local file,
`InStep` a damaged acknowledgement, `SplitIsWhole` buffers the text does not fit
in, `RequestsEnd` a text without an end in the guide's program, `FrameIsShown` a
texture whose lines are longer than the picture's.  `OutcomeIsTold` has two
operators, which name places: `Left` for what is left open (`p7` once it has
listed the ports, `p7screen` without a link or without video), `Excused` for where a
program exits with 0 without having done what was asked (`stopped` is that place,
and an exit with 0 after an error anywhere else breaks the property): the
operation of `p7 info`, whose failing calls are passed over one by one
(`p7.c:264-292`, `343`), and of `p7 send` when the user keeps the file; any
operation of `xfer9860` (`:154`); for `p7os`, a property that cannot be had or does
not fit, a flash that is not confirmed, and a ROM that is not written.
`LineIsAsAsked` has the exceptions of `MadeOf`, `PlatformTimeoutIsKept` the pause of
`EarlyHere`, `NothingLeaks` the cases of `GivenBackTwice`.  The passing runs take
no unlimited timeout on Mass Storage (`UnlimitedOnUms`), which `unlimited_timeout`
shows not to be one.

**Fairness.**  Weak fairness of the caller (a C function that was called runs),
of the exchange (a receive function returns within its timeout), and of the
device (it answers what reaches it; one that does not is one whose packets the
wire loses).  Nothing is assumed of a packet arriving, and no strong fairness
is used anywhere.  In the transport, weak fairness of `Poll` and of the steps
of a stream says that a system call returns.  In `SevenOhp` the calculator goes
on sending frames (its loop has no end while it is in that mode) and the program
on receiving; in `SevenPassive` and `LinkDetection` the program at the passive
end receives again, or closes.  In `Files`, `read()`, `write()` and the
conversion return, and are never counted on failing.  In `Cas300` and `Casiolink`
both ends run.

`CHECK_DEADLOCK FALSE` is given where a session, a transfer or a program ends
for good.  `SevenListing` has no liveness in `seven_operations`: `listing_ends`
shows that it does not end.

## Proofs

Every theorem is for all values of the constants, from the named assumptions in
the module that declares them.

`LinkTransportProofs` proves the safety properties of `LinkTransport` for every
buffer size, stream length, set of sizes and set of timeouts.  The properties
are not inductive.  `IInv` adds what holds while a reception is polling
(`PollingState`: the receive buffer is empty, what is missing starts where the
copied part ends, and `quiet + timeout` is the timeout the caller gave) and while
a message is being sent (`SendingState`).  Without the first, a turn could add
bytes after the wrong position, or give up with more time left than `Earliness`.
There is one lemma
per action, each with one step per part of the invariant.

`StreamsProofs` proves that a POSIX port, bulk transfers and the requests of Mass
Storage do what the transport expects: `StreamsImplement` is the refinement, every
step of a stream being a step of `LinkTransport`, a stutter, or the loss of what
a failed call had taken; `StreamsKeepThePromises` that the transport's
guarantees hold over them, that loss included, with the time each really waits:
a timeout that is cut in turns is given up at the last turn, and what is left of it
then is less than one pause (`WholeTimeout`).  `SInv` adds to `IInv` where
each request stands: what it has taken is what the caller will get next.
`PlatformStreamsProofs` adds the streams of Windows.  What has to be proved there
is that the driver never writes over bytes a reception left: `PInv` says that a
read in progress outlives its call only with the receive buffer empty
(`PlatformInvariance`); the refinement (`PlatformsKeepTheTransport`) and the
guarantees (`PlatformsKeepThePromises`) follow.  All of these assume that no
unlimited timeout is used on Mass Storage, as the property that has it would be
false (`unlimited_timeout`).

`FilesProofs` proves the safety properties of `FileRead` and of a process that
uses one of the file operations or programs at a time (`Files`).  For reading, for
every size of the buffer and of the file and every set of requests, `IInv` adds to
`BufferIsCoherent` what `AlignedReadsAreExact` leaves open while a read goes on
(`RightSoFar`: what the caller has is right, and the cursor is where the rest of
the request starts), that success is reported with nothing left (`LeftOver`),
and that a file in memory is never moved in (`MemoryStays`).
`ReadSomePreserves` is the core of it: a piece of any length lands in the buffer
and in the caller's memory at the same file offsets.  `ReadsStayExact` takes this
over to a process that also writes.
`WritesExact` is for every size of the chunks, of the null buffer, of the file and
of the requests; `Underway` is what a request that goes on adds to the property:
the cursor of the system and that of the file are the same, which is why moving to
the current offset instead of the new one goes unnoticed when writes are in
sequence; and what is written of the request ends where the cursor is.
`ProgramsTellTheOutcome` is about the five programs: its invariant says what each
may hold at each place (`MayHold`, `Outputs`, `Window`), where it can have stopped
when it is there (`Accounted`), and what the status and the files made say of it
once it is at the end (`DoneAtTheEnd`, `PartIsRemoved`).

`LinkProtocolsProofs` proves `NothingLeaks` for the nine openings of the four
systems, the search included (`ResourcesAreKept`): what is held at a call is what
the calls before it took (`Balanced`), and what the labels it jumps to give back;
what is given back twice is what `GivenBackTwice` has at that call, and nothing at
any other.  It takes from the names of the devices that none is the one that
stands for no device (`DevicesAssumption`).  It proves
`LineIsAsAsked` on the four platforms, for any speeds and any number of calls
(`PortFollowsCalls`).  The result of the last call is not enough for an
induction, as a call that finds nothing to do reports success whatever the port
is: `SInv` says that the port has the parameters of the link as long as no call
has failed half way, whatever the last result.
It proves `AcceptedIsReceived` for a CASIOLINK receiver and any number of headers,
parts, receptions, losses, damages and late answers (`PartsAreAcknowledged`).
Acknowledgements carry no number: `SenderInv` says that a calculator and the
receiver take turns (`InTurns`: one packet or one answer in all), and that the
packet on its way is the one the count of parts the receiver goes by expects
(`Awaited`), or else the answer follows from what it received
(`Acknowledged`).  With CAS40, or when a sender that gave up early starts over, only
types are kept: these are the premises the property has itself.

`LinkSessionsProofs` goes on with the sessions of `LinkProtocols`.  `NumbersStayInStep`
is `InStep`, for any numbers of commands, calls and faults.  An end that rests
knows little: the invariant (`SessionInv`) has to say where the copies of a command
and its answers can be.  For a passive end (`PassiveInv`), the ClassPad either still
expects the command (`Asking`: nothing it sent is a later answer) or has taken it
(`Answered`: no copy of the command before is left, and once the end goes on no
earlier answer); later answers are never in front of earlier ones.  For an active
end (`ActiveInv`), which sends the discovery and then the termination, it is that
the ClassPad answers the discovery once (`Single`).  `SessionsEndTogether` is
`TerminationIsAgreed`: for CAS300, no acknowledgement with the identifier of the
termination is on its way before it has been taken (`ActiveEnds`); for CASIOLINK
(`EndInv`), a session that is terminated was by the last header, and one that is
established again, when the sender has started over, is not terminated any more.
A calculator that speaks CAS40 is left out: its headers are acknowledged twice
and it has the AL mode, where turns and headers no longer go together.
`LinkStateIsWellFormed` is `TypeOK` of every use of a link, with what detection
(`DetectionInv`) and CASIOLINK (`CasioTypes`) need for it: a detection has attempts
left as long as it tries, and no more parts come than a header has.
`DetectionFindsWhatIsSpoken` is `ProtocolIsSpoken` with at most three faults, for
every device at either end, any numbers of attempts, late answers and notices.
The parts of its invariant (`DetectInv`), the first ones in `LinkProtocolsProofs`:

- `SettingInv`: an end of the library has a result exactly when it is over.
- `HeardInv`: what comes to the active end are bytes that the other end says
  (`Speech`), and the place where the detection is tells which device that is
  (`Placed`).  Both a refusal of Protocol 7.00 and one of a ClassPad start with
  0x15, and are told apart by their length; both acknowledgements start with 0x06,
  and are told apart by their digits.  `Distinct` counts what the faults have left
  of that difference: three cannot remove it (a byte is lost or damaged when it is
  the next one to be taken).
- `AskedInv`: a Protocol 7.00 device that hears everything answers the check, which
  is sent first, so that a refusal comes only if something was lost already.
- `SaidInv`: what a calculator that calls may have sent.
- `QuietInv`: as long as nothing was lost, late or sent for nothing (`Calm`), what
  is on both wires at each place of the detection (`LeftAt`): either nothing of an
  answer, or all that is left of one, with no more to come.  That is why nothing
  is left over once the protocol is found.

`SevenCommandProofs` proves what `seven_session` checks of a session of commands,
for any numbers of attempts, commands, losses, damages and late answers: the
properties of `SevenCommand`, and that it implements `CommandService`
(`SessionsServe`).  The difficulty is that packets and answers carry no number,
so that what an answer is for has to follow from what can still be on the wire.
`IInv` says it: `Members` (only initial checks, the packet of the last exchange
and its timeout check), `InOrder` (initial checks come first, the check last,
counting an answer as the packet it answers) and, when nothing is late, `Alone`
(one packet, or one answer).  The check is answered last, and its answer is only
waited for by taking what comes before it: that is why an exchange that ends
with a usable link leaves nothing behind (`Over`).  `OncePerLoss` and `Faults`
count the losses it takes to be where the session is.  `Orderly` being a
constraint of `Spec`, a wire that damages packets does not delay answers.  The
theorems assume `Discovers`: answers are only late in sessions that start with a
discovery (the default), whose exchange is what consumes the late answers to the
initial checks; without it the first command could be given one of those.

The same module proves what `seven_session` checks of a screen that is watched,
for any numbers of losses, damages, pauses and restarts of the calculator (and up
to six frames, which is as many contents as there are names for).  `FramesStayWhole`
has two arguments, as the property has two cases.  Where all frames are whole, the
checksum is enough, and `SumMeans` says why: the only checksums that ever come are
those of the packets that were sent (`Received`), so that a header and two units
with such a checksum are those of one frame, wherever the alignment found them.
With parts of frames that does not hold, as the picture has units of several
packets; there the invariant (`ScreenInv`) is that, as long as nothing was lost or
late, the library is where a packet begins or at its place inside one (`InSync`),
with at most one other packet behind it (`Following`), and that a picture of two
units is there before any part of one comes (`Ready`).  A pause of the
calculator at the end of what it sends is not one in the middle of a packet, which
is why that timeout does not disturb.  `SessionsKeepTypes` puts the two uses of a
link together, and has the premise `Discovers` of the commands.

`SevenOperationsProofs` proves what `seven_operations` checks of the operations
of the active side.  Its first part is about the exchange they all run, whatever
the device is.  `Lockstep` is what may be on the wire while a packet waits for its
answer: that packet and its timeout check, or their answers (`Members`), the check
behind the packet (`InOrder`), no check before its time (`NoCheck`), one packet or
its answers when nothing is late (`Alone`), and answers the device meant
(`Genuine`) when nothing was damaged; an exchange that ends well has an answer to
its own packet and leaves nothing (`Over`); `Faults` counts what it takes to lose
the link.  Packet shifting breaks this: two packets are on their way.  `InFlight`
replaces it there, a window of packets and answers of two numbers in a row,
which the exchange that normalizes brings back to one.

Each operation has its invariant over that one, found by looking at what the
device may do with what is on the wire: `TransferInv` (the data packet of an
exchange is the next one, or the last one the device took), `ReceiveInv` and
`ListingInv` (which of the two ends is active, and how far the items of the device
are ahead of the acknowledgements), `FlashInv` (the pieces of the sector in the
buffer, and the sectors on the flash).  `OperationInv` is the one that
goes with the operation; `OperationsKeepInv` proves it, for files, storages and
images of any size and any numbers of attempts, losses, damages and late
answers.  `FileArrives` for both directions (`TransfersAreWhole`), `LinkIsFree`,
`EntriesAreFaithful`, `FlashedInOrder` and `OneFaultIsSurvived` follow, with the
premises the properties have themselves (`Orderly` for data to the device and
for the flash, `late = 0` and `lost = 0` for the entries).

The last part of the module is about the passive side, where both ends run the
library.  Its invariant (`PassiveInv`) follows the acknowledgement of the settings.
As long as nothing has told an end that the other does not follow (`Trusted`), at
most one packet is on its way or being answered, and it is the one the active side
waits for (`Lone`); the ports only differ from the moment one end has set its own
until the other does, and that is when the settings are acknowledged, on the wire
or by the return of the exchange, or when that acknowledgement is lost and the
active side is about to find the link irrecoverable (`Agreeing`).
`ParamsStayAgreed` (`ParamsAgree`) follows, and with the types of the others
`OperationStateIsWellFormed` (`TypeOK`).

Only model-checked:

- liveness (`ReceptionEnds`, `SessionsGoOn`, `CallEnds`, `RequestsEnd`,
  `CallsReturn`, `DeviceIsFound`), which the provers do not do;
- the conversion of texts (`SplitIsWhole`) and the scaling of frames
  (`FrameIsShown`), folds over data, whose result for every input is an induction;
- the files a passive side of Protocol 7.00 receives (its part of `FileArrives`):
  they do not hold for every value of the constants, packet numbers being modulo
  10 in the model, and enough losses letting the packets of two files meet;
- the end of a CAS40 session with a calculator (its part of `TerminationIsAgreed`);
- detection (`ProtocolIsSpoken`) with more than three faults: it is false with four,
  as a refusal of Protocol 7.00, which needs that a byte of the check got lost
  first, is that of a ClassPad once three bytes after its first one are lost.

## Divergences

Shown by a run that violates what the repository says:

- `open/usb.c:96`: on Mass Storage, an unlimited timeout (0) is over at the first
  request that finds no byte (`unlimited_timeout`; `link.rst:599`).
- `platform/amigaos/serial/link.c:191`: a byte that comes alone is counted and
  lost, and a timeout is reported (`amiga_timeout`).
- `seven/request_file_from_storage.c:82`: the error of the role swap is not
  looked at.  When the late command 45 answers the timeout check, the link is
  marked irrecoverable and the function goes on over it (`receive_broken`).
- `seven/list_storage_entries.c:90` and `request_file_type.c:94`: the loop
  continues without receiving, and never ends (`listing_ends`).
- `file/read.c:216`: a read that starts inside the read buffer, after its start,
  and goes past its end copies `read_size` bytes, beyond what was read
  (`read_offset`).
- `cas40/receive_raw_data.c:80`: a header is acknowledged twice, and the sender
  runs ahead (`cas40_acks`).
- `seven_ohp/receive_packet.c:617`: once a frame was received, a check is never
  acknowledged: the size of the last picture is taken for its own
  (`ohp_checks`).

Seen while modelling, without a run.

Transport and streams:

- `receive.c:88`: a reception that takes its first bytes from the receive buffer
  and then times out reports `TIMEOUT_START`, and those bytes are lost.
- A read on Mass Storage gives up as much as `UMSSTATUSDELAY` early (`usb.c:96`), one
  on Windows 3 `READ_CHECK_DELAY_MS` (`win16/serial/link.c:97`); a C1 whose status is
  wrong loses its data; its USB transfers have no timeout of their own.
- `libusb/bulk.c:68`: a transfer that times out with part of its data loses it.
- `posix/serial.c`: a read of nothing is a timeout, so that an unlimited one
  turns without pause; `EINTR` is an unknown error; Windows serial reads return
  at once, and are asked again without pause.
- A read cancelled at the closing of a link is not waited for before its memory
  is freed.

Protocol 7.00:

- `send_packet.c:133`: the attempts are "restored" (line 92) to one less than
  the initial number, the loop taking one away.  `:137`: a damaged answer is an
  error of the call; `flows.rst:98` has it asked for again.
- The documentation says two things of a check packet of subtype 01: that it is
  acknowledged (`flows.rst`), and that a device that has not seen the packet
  before asks for it again (`send_packet.c:112`).  The model's device does the
  latter, as the code expects.
- `send_bytes_from_stream.c:153` and `165`: an error while shifting leaves an
  answer on its way and the link usable.  `:67`: the number of packets is on 16
  bits.
- `request_file_from_storage.c:146`: the file is left open when the device does
  not swap the roles back.
- `flash_system_using_fxremote_method.c:193`: the sectors written are those of
  the image, the sectors cleared are fixed.
- `receive_data.c`: a damaged packet is not answered (`flows.rst:71-73` has it
  sent again), and a timeout check is acknowledged, so that answers shift by
  one; when `sleep` fails after the settings were acknowledged, the link stays
  usable and the ends differ; the settings received lose XON/XOFF and RTS.
- `negotiate_serial_params.c`: a damaged answer leaves the ends with different
  parameters and no flag; when `sleep` fails, an error is reported after both
  have switched.
- `seven_ohp/receive_packet.c`: a picture whose checksum fails is applied
  (`flows.rst` discards it); "we only skip two frames" does not hold for TYPZ and
  TYPB, when a digit of the length is lost; "Cannot blit on no previous image" is
  never reached.

Other protocols:

- `cas300`: the library's own passive side sends 41 bytes of information where
  `discover.c:69` requires 49; a command that is acknowledged while an
  acknowledgement is waited for is forgotten (`send_command.c:118`); after a
  detection by discovery (`open/init.c:482`) the next identifier stays 0, which
  was used; the loop of `send_data_packet.c:85` runs once.
- `casiolink/receive_data.c`: the checksum of the first header is not looked at;
  a header without data is never acknowledged; a damaged header is not answered;
  `TERMINATED` is set at a final header, before its data.
- `cas40`: the double acknowledgement hides that an AL header was lost; the flag
  of the AL mode is never reset.

Opening, parameters and detection:

- `libusb/open.c:126`: when the devices cannot be listed, success is returned
  without a link.  `*linkp` keeps the address of a link that was freed when an
  initialization fails (`open/serial.c:71`, `usb.c:224`).
- On Windows, `win32/usb/devices.c:503` and `515` free the memory of a request that
  fails, or answers another size, and `:552` frees it again; a path of more than
  300 bytes that cannot be had is freed by `find_win32_interface`
  (`win32/usb/open.c:177`), and again by `match_device` (`:349`).
  `devices.c:178` tests the wrong variable; the result of `CreateEvent` is
  compared with `INVALID_HANDLE_VALUE`.
- XON and XOFF are each other on Windows and on Windows 3 (`win32/serial/link.c:321`,
  `win16/serial/link.c:247`), which moreover enables them when they are to be
  disabled and conversely; on AmigaOS they are null bytes (`amigaos/serial/link.c:270`).
  Windows keeps the parity of the port when it is to be off
  (`win32/serial/link.c:305`).  AmigaOS refuses any DTR or RTS; a POSIX
  call that fails half way leaves parameters the link does not know of.
- `open/init.c:354-360`: after a 0x00 the second byte is left unread.  A passive
  end that is opened while probes are on their way fails.  An answer to 7.00
  whose last three bytes are late is taken for a ClassPad's.  A port
  opened for CAS100, CAS300 or CAS40 to be found has settings that a device at
  9600 bauds does not hear.
- `purposes.rst` opens a receiver with `cahute_open_simple_usb_link`, which
  refuses one that does not name its protocol (`open/usb.c:356-360`).

Files, text and programs:

- `file/read.c:168` and `write.c:209`: moving in a file asks for the current
  offset, not the new one.  `open_memory.c:59`: a file in memory has no buffer.
- `text.c:555-585`: a conversion from UTF to a CASIO encoding is let through, and
  refused in the loop.  `print_content` prints `<CONVERSION FAILED>` for an empty
  text; the guide's program turns for ever on a text without an end; a text
  that exactly fills the destination is an error of size.
- `p7` removes the local file of a `get` that fails, be it before the link was
  opened, and so one that was there before.  `p7 info` exits with 0 whatever
  its calls have returned (`p7.c:264-292`, `343`).  `xfer9860.c:154`: the status is 0
  when the operation has failed.  `p7os.c:185`, `234`, `240`: the status is 0 when
  the calculator is not compatible, the output cannot be written, or the flash
  is not confirmed.  Every program exits with 0 on a command line it does not
  understand.  `p7.c:333` and `p7screen.c:325` leave the context open; `p7screen`
  does not look at the result of `display_frame`, nor at the pitch of its texture.

## Plan

What could be proved next: the sessions of a CAS40 calculator; the files a passive
side receives, for as many losses as its packet numbers withstand.

What could be modelled next: the link followed from its opening to
the session that uses it, rather than one use at a time; the cache of
hubs on Windows when it grows; writing to a memory area with its mirror in the
read buffer; the conversion of pictures, as operators compared with a reference.

## Not modelled

- Data, MCS files and their decoding: transformations of data laid out by tables
  of offsets, whose properties are about the contents of files.  The tables of
  characters; pictures, but for the blending of streamed frames and the scaling
  of `p7screen`; padding and its inverse.
- Logging, error names, paths, the listings of ports and devices.
- `cahute_cas300_send_data_packet`, which nothing calls.
- The parsing of command lines is one step of `Programs`.

What the models take for granted:

- A link is not followed from its opening to its detection to its session: each
  module starts from any state the one before can leave on success.
- Protocol 7.00 answers are whole packets: the bytes that an answer with a damaged
  size leaves in the transport are not modelled, nor errors of the transport
  other than the device being gone and the timeout.  The type byte is outside the
  checksum: an answer damaged there is a valid packet of another kind (`other`).
- A failed initialization ends the model's session; the code frees the link
  without a termination packet.
- `SevenReceive` gives every data packet one unit of data, whatever the size
  announced.  Both reception modules take commands to be well formed, and the
  device, while active, not to send timeout checks of its own.
- `FileRead` leaves out the skipping of files that cannot seek (`read.c:132`),
  which no file the library opens for reading needs, and the limit on offsets,
  which the file size implies.
- In `LinkOpening` the loading of a library, with what it gives back when that fails,
  counts as one call, and so does the way to a hub, whose names are given back once
  wherever it stops; the enumeration of Windows goes through one device, those
  before it being described alike; a cache of more than 1024 hubs
  (`win32/usb/devices.c`) is left out; events are always created.
- An empty program is uploaded as one packet, number 0 of 0 (`SevenTransfer`), whose
  contents are not modelled.
- `TextConversion` has characters as sizes: the end of a text, an invalid code and
  one without equivalent are kinds of characters.
- In `Programs` a failed download leaves the file before or part of the new one,
  and the library's calls are not followed.
