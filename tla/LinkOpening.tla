---------------------------- MODULE LinkOpening -----------------------------
(***************************************************************************)
(* What an opening takes from the system and gives back: the ports,        *)
(* handles, requests and memory of each platform, the link that is made    *)
(* over them, and its closing.  A call of the system may fail at any       *)
(* point; what was taken up to there is for the failing function to give   *)
(* back, and for the functions around it: a resource both of them give     *)
(* back is given back twice.  With it, the search of a USB calculator to   *)
(* open (open/simple_usb.c) on a bus whose devices come and go.            *)
(*                                                                         *)
(* CreateEvent() answers NULL when it fails, which no function looks for:  *)
(* events are taken here as always created.                                *)
(***************************************************************************)
EXTENDS Integers, Sequences, FiniteSets

CONSTANTS
  Systems,       (* platforms the library is built for                     *)
  SerialDevices, UmsDevices,     (* USB calculators that may come and go   *)
  SearchAttempts,        (* 20 in cahute_open_simple_usb_link              *)
  MaxPlugs, MaxOpenings  (* bounds: changes of the bus, calls              *)

Devices == SerialDevices \union UmsDevices
Interface(d) == IF d \in SerialDevices THEN "serial" ELSE "ums"
Nowhere == "nowhere"     (* no device                                      *)

VARIABLES
  system,        (* the platform                                           *)
  pc,            (* where the program is                                   *)
  calls,         (* openings begun                                         *)
  result,        (* of the last opening                                    *)
  opening,       (* function of the platform that opens the link           *)
  step,          (* its next call of the system                            *)
  held,          (* resource -> times taken less times given back          *)
  linkp,         (* what the caller's pointer to a link holds              *)
  bus, plugs,    (* devices plugged in, and changes of them                *)
  filter,        (* interfaces the search is for                           *)
  found,         (* the USB device to open                                 *)
  attempts,      (* attempts_left of the search                            *)
  failed,        (* since the opening began, the system refused a call, or *)
                 (* the bus changed, or a device was passed over           *)
  twice          (* and these resources were given back twice              *)

linkVars == <<opening, step, linkp>>
searchVars == <<filter, found, attempts>>
busVars == <<bus, plugs>>
vars == <<system, pc, calls, result, linkVars, held, searchVars, busVars, failed, twice>>

-----------------------------------------------------------------------------
(* A call of the system takes resources, gives some back, or keeps one for *)
(* the context, if it has not got it (cahute_get_context_pointer).  The    *)
(* function that makes it may free some itself when it fails, before what  *)
(* its failure label or its caller gives back.                             *)
Nothing == [takes |-> {}, drops |-> {}, keeps |-> {}, frees |-> {}, fails |-> TRUE]
Takes(taken) == [Nothing EXCEPT !.takes = taken]
Drops(dropped) == [Nothing EXCEPT !.drops = dropped]
Ends(dropped) == [Nothing EXCEPT !.drops = dropped, !.fails = FALSE]
Keeps(pointer) == [Nothing EXCEPT !.keeps = {pointer}]
Frees(freed) == [Nothing EXCEPT !.frees = freed]
Events == Takes({"read_event", "write_event"})

ContextPointers == {"libusb", "cfgmgr32", "winusb"}
Resources == ContextPointers \union
  {"port", "read_port", "write_port", "read_request", "write_request", "device",
   "read_event", "write_event", "list", "config", "handle", "hub", "request", "disks",
   "volumes", "path", "interface", "name", "link"}

(* open(), tcflush().                                                      *)
PosixCalls == <<Takes({"port"}), Nothing>>

(* Two message ports, two requests, and the device.                        *)
AmigaosCalls ==
  <<Takes({"read_port"}), Takes({"write_port"}), Takes({"read_request"}),
    Takes({"write_request"}), Takes({"device"})>>

(* CreateFile(), SetCommTimeouts(), SetCommMask(), PurgeComm(), events.    *)
Win32Calls == <<Takes({"port"}), Nothing, Nothing, Nothing, Events>>

Win16Calls == <<Takes({"port"})>>

(* The loading of a library, with what it gives back when that fails,      *)
(* counts for one call.                                                    *)
CreatesLibusb == Keeps("libusb")
LoadsCfgmgr32 == Keeps("cfgmgr32")
LoadsWinusb == Keeps("winusb")

(* The context, the list of devices, the description of the one asked for, *)
(* its handle; then the driver of the system is detached and the interface *)
(* claimed.                                                                *)
LibusbCalls ==
  <<CreatesLibusb, Takes({"list"}), Takes({"config"}), Takes({"handle"}),
    Ends({"list", "config"}), Nothing, Nothing>>

(* The handle of the hub of a device; the memory for the names of the hub  *)
(* is given back once by then, wherever that stops.                        *)
OpensHub == Takes({"hub"})

(* The hub is asked for the device, and twice for its configuration: with  *)
(* memory on the stack, then with memory of its own, freed where the       *)
(* second request fails, or has answered another size than it was given,   *)
(* and then at the label.  What it has answered may not be right either.   *)
AsksHub == Nothing
RequestsConfiguration == Frees({"request"})
ChecksConfiguration == Drops({"request"})
Describes == <<AsksHub, Takes({"request"}), RequestsConfiguration, ChecksConfiguration>>

(* cahute_enumerate_win32_usb_devices() with the name of a device, which   *)
(* is located: match_device() is called with it.                           *)
LocatesDevice == Nothing
WindowsLookup == <<LoadsCfgmgr32, LocatesDevice, OpensHub>> \o Describes

(* find_win32_interface(): the size of the path, the memory for it if it   *)
(* does not fit 300 bytes, the path.  It frees that memory when it fails.  *)
SizesPath == Takes({"path"})
GetsPath == Frees({"path"})

CesgCalls == WindowsLookup \o <<SizesPath, GetsPath, Takes({"handle"}), Events>>

(* WinUSB is loaded; then CreateFileA(), WinUsb_Initialize(), the search   *)
(* of the pipes, and the request that enables the device.                  *)
FindsBulkPipes == Nothing
WinusbCalls ==
  WindowsLookup \o
    <<SizesPath, GetsPath, LoadsWinusb, Takes({"handle"}), Takes({"interface"}),
      FindsBulkPipes, Nothing, Events>>

(* The disks of the device are listed, then the volumes of one, down to    *)
(* the path of a volume; then CreateFileA(), and the properties of the     *)
(* device and of the adapter.                                              *)
AsksForProperties == Nothing
VolmgrCalls ==
  WindowsLookup \o
    <<Takes({"disks"}), Takes({"volumes"}), SizesPath, GetsPath, Ends({"disks", "volumes"}),
      Takes({"handle"}), AsksForProperties, AsksForProperties>>

(* The searches list all devices, and describe each to the function that   *)
(* reports those of the filter; libusb passes over one whose description   *)
(* it cannot have, and frees it at once.                                   *)
LibusbSearch == <<CreatesLibusb, Takes({"list"}), Ends({}), Ends({"list"})>>
Win32Search ==
  <<LoadsCfgmgr32, Takes({"list"}), OpensHub>> \o Describes \o <<Nothing, Ends({"list", "hub"})>>

CallsOf(o) ==
  CASE o = "posix"         -> PosixCalls
    [] o = "amigaos"       -> AmigaosCalls
    [] o = "win32"         -> Win32Calls
    [] o = "win16"         -> Win16Calls
    [] o = "libusb_bulk"   -> Append(LibusbCalls, Nothing)   (* enables the device *)
    [] o = "libusb_ums"    -> LibusbCalls
    [] o = "cesg"          -> CesgCalls
    [] o = "winusb"        -> WinusbCalls
    [] o = "volmgr"        -> VolmgrCalls
    [] o = "libusb_search" -> LibusbSearch
    [] o = "win32_search"  -> Win32Search

Searches == {"libusb_search", "win32_search"}

(* Mutant: the WinUSB interface is forgotten by the failing opening.        *)
InterfaceForgotten(o) ==
  CASE o \in {"posix", "win32", "win16"} -> {"port"}
    [] o = "amigaos" ->
         {"read_port", "write_port", "read_request", "write_request"}
    [] o \in {"libusb_bulk", "libusb_ums"} -> {"config", "list", "handle"}
    [] o \in {"cesg", "volmgr", "winusb"} -> {"handle"}
    [] o \in Searches -> {}

(* What a failing opening gives back, of what it has.                      *)
GivenBackBy(o) ==
  CASE o \in {"posix", "win32", "win16"} -> {"port"}
    [] o = "amigaos" ->
         {"read_port", "write_port", "read_request", "write_request"}
    [] o \in {"libusb_bulk", "libusb_ums"} -> {"config", "list", "handle"}
    [] o \in {"cesg", "volmgr"} -> {"handle"}
    [] o = "winusb" -> {"interface", "handle"}
    [] o \in Searches -> {}

(* What the closing function of its interface gives back.                  *)
ClosedBy(o) ==
  CASE o \in {"posix", "win16"} -> {"port"}
    [] o = "amigaos" ->
         {"read_port", "write_port", "read_request", "write_request", "device"}
    [] o = "win32" -> {"port", "read_event", "write_event"}
    [] o \in {"libusb_bulk", "libusb_ums", "volmgr"} -> {"handle"}
    [] o = "cesg" -> {"handle", "read_event", "write_event"}
    [] o = "winusb" -> {"handle", "interface", "read_event", "write_event"}
    [] o \in Searches -> {}

(* What the functions around it give back once it has returned: on         *)
(* Windows, the hubs, the lists, the request and the path of the device;   *)
(* everywhere, the name of a device that was looked for.                   *)
ThroughHubs == {"cesg", "winusb", "volmgr", "win32_search"}
GivenBackAround ==
  IF opening \in ThroughHubs
  THEN {"list", "hub", "request", "disks", "volumes", "path", "name"}
  ELSE {"name"}

HasSome(resources) == {r \in resources : held[r] > 0}

(* held, with one less of each of these.                                   *)
Less(resources) == [r \in Resources |-> IF r \in resources THEN held[r] - 1 ELSE held[r]]

OpeningsFor(interface) ==
  CASE system = "posix" /\ interface = "serial" -> {"libusb_bulk"}
    [] system = "posix" /\ interface = "ums"    -> {"libusb_ums"}
    [] system = "win32" /\ interface = "serial" -> {"cesg", "winusb"}
    [] system = "win32" /\ interface = "ums"    -> {"volmgr"}
    [] OTHER -> {}

(* The call that looks for the device that was asked for.                  *)
LooksForDevice ==
  \/ opening \in {"libusb_bulk", "libusb_ums"} /\ step = 3
  \/ opening \in {"cesg", "winusb", "volmgr"} /\ step = 2
(* The call of a search after which it describes a calculator.             *)
DescribesDevice == opening = "win32_search" /\ step = 4
(* libusb_get_device_list().                                               *)
ListsDevices == opening \in {"libusb_bulk", "libusb_ums"} /\ step = 2

-----------------------------------------------------------------------------
Init ==
  /\ system \in Systems
  /\ pc = "idle" /\ calls = 0 /\ result = "none"
  /\ opening = "none" /\ step = 1 /\ linkp = "unset"
  /\ held = [r \in Resources |-> 0]
  /\ bus \in SUBSET Devices /\ plugs = 0
  /\ filter = {} /\ found = Nowhere /\ attempts = 0
  /\ failed = FALSE /\ twice = {}

Begins ==
  /\ pc = "idle" /\ calls < MaxOpenings
  /\ calls' = calls + 1 /\ result' = "none" /\ linkp' = "unset"
  /\ failed' = FALSE /\ twice' = {}
  /\ pc' = "calls" /\ step' = 1
  /\ UNCHANGED <<system, held, busVars>>

(* cahute_open_serial_link()                                               *)
OpenSerial ==
  /\ Begins
  /\ opening' = system
  /\ UNCHANGED searchVars

(* cahute_open_usb_link() with the name of a device.                       *)
OpenUsb(d) ==
  /\ Begins
  /\ found' = d /\ opening' \in OpeningsFor(Interface(d))
  /\ UNCHANGED <<filter, attempts>>

(* cahute_open_simple_usb_link()                                           *)
OpenSimpleUsb(interfaces) ==
  /\ Begins
  /\ system \in {"posix", "win32"}
  /\ filter' = interfaces /\ attempts' = SearchAttempts /\ found' = Nowhere
  /\ opening' = IF system = "posix" THEN "libusb_search" ELSE "win32_search"

(* The call returns without a link, and gives these back, and what is      *)
(* around the opening.                                                     *)
Returns(err, back) ==
  /\ pc' = "idle" /\ result' = err
  /\ held' = Less(back \union HasSome(GivenBackAround))
  /\ UNCHANGED <<system, calls, opening, step, linkp, searchVars, busVars>>

-----------------------------------------------------------------------------
Searching == pc = "calls" /\ opening \in Searches

(* Devices of the kinds the filter lets through.                           *)
Candidates == {d \in bus : Interface(d) \in filter}

(* The call of a search that reports a device, and the one it goes on from *)
(* for the next device.                                                    *)
Reports == Searching /\ step = Len(CallsOf(opening)) - 1
NextDevice == IF opening = "win32_search" THEN 4 ELSE 3

(* The first device is reported.  Its name, on Windows, may be long enough *)
(* to need memory.                                                         *)
Finds(d) ==
  /\ Reports /\ found = Nowhere /\ d \in Candidates
  /\ found' = d /\ step' = NextDevice
  /\ held' = held \/ (system = "win32" /\ held' = [held EXCEPT !["name"] = @ + 1])
  /\ UNCHANGED <<system, pc, calls, result, opening, linkp, filter, attempts, busVars, failed,
                 twice>>

(* The devices left are passed over: they are no calculators, or something *)
(* about them cannot be had.                                               *)
PassesOver ==
  /\ Searching /\ opening = "win32_search" /\ step \in {3, 4}
  /\ step' = Len(CallsOf(opening)) + 1
  /\ held' = Less(HasSome({"list", "hub"}))
  /\ failed' = (failed \/ ~Candidates \subseteq {found})
  /\ UNCHANGED <<system, pc, calls, result, opening, linkp, searchVars, busVars, twice>>

(* The devices have been gone through.  One is opened, two are too many;   *)
(* with none the search sleeps, and starts over.                           *)
OpensFound ==
  /\ found # Nowhere
  /\ opening' \in OpeningsFor(Interface(found)) /\ step' = 1
  /\ failed' = (failed \/ Candidates # {found})
  /\ UNCHANGED <<system, pc, calls, result, linkp, held, searchVars, busVars, twice>>

FindsMany ==
  /\ found # Nowhere /\ ~Candidates \subseteq {found}
  /\ Returns("TOO_MANY", {})
  /\ UNCHANGED <<failed, twice>>

FindsNone ==
  /\ found = Nowhere
  /\ failed' = (failed \/ Candidates # {})
  /\ attempts' = attempts - 1
  /\ IF attempts = 1
     THEN pc' = "idle" /\ result' = "NOT_FOUND" /\ UNCHANGED step
     ELSE step' = 1 /\ UNCHANGED <<pc, result>>
  /\ UNCHANGED <<system, calls, opening, linkp, held, filter, found, busVars, twice>>

Search ==
  /\ Searching /\ step = Len(CallsOf(opening)) + 1
  /\ OpensFound \/ FindsMany \/ FindsNone

(* The search cannot sleep before another attempt.                         *)
SearchFails ==
  /\ Searching /\ step = 1 /\ attempts < SearchAttempts
  /\ failed' = TRUE
  /\ Returns("error", {})
  /\ UNCHANGED twice

(* A device is plugged in or out.                                          *)
Plug(d) ==
  /\ plugs < MaxPlugs
  /\ bus' = IF d \in bus THEN bus \ {d} ELSE bus \union {d}
  /\ plugs' = plugs + 1 /\ failed' = TRUE
  /\ UNCHANGED <<system, pc, calls, result, linkVars, held, searchVars, twice>>

-----------------------------------------------------------------------------
(* The next call of the system succeeds.  The path of a device may be      *)
(* short enough to need no memory.                                         *)
CallSucceeds ==
  /\ pc = "calls" /\ step <= Len(CallsOf(opening))
  /\ LooksForDevice => found \in bus
  /\ DescribesDevice => bus # {}
  /\ LET call == CallsOf(opening)[step] IN
     \E taken \in {call.takes, call.takes \ {"path"}} :
       held' = [r \in Resources |->
                  CASE r \in call.keeps -> 1
                    [] r \in taken      -> held[r] + 1
                    [] r \in call.drops -> held[r] - 1
                    [] OTHER            -> held[r]]
  /\ step' = step + 1
  /\ UNCHANGED <<system, pc, calls, result, opening, linkp, searchVars, busVars, failed, twice>>

(* It fails.  A device that is not there is one not found; that libusb     *)
(* cannot list the devices is not in err, which is the OK of the context.  *)
(* What the function frees itself and is given back after it has been      *)
(* given back twice: the C library may stop the program there.             *)
CallFails ==
  /\ pc = "calls" /\ step <= Len(CallsOf(opening))
  /\ CallsOf(opening)[step].fails
  /\ \A r \in CallsOf(opening)[step].keeps : held[r] = 0
  /\ failed' = TRUE
  /\ LET freed == HasSome(CallsOf(opening)[step].frees)
         back == HasSome(GivenBackBy(opening) \union GivenBackAround)
     IN /\ twice' = freed \intersect back
        /\ held' = Less(freed \union back)
  /\ result' = IF ListsDevices THEN "OK"
               ELSE IF LooksForDevice /\ found \notin bus THEN "NOT_FOUND" ELSE "error"
  /\ pc' \in {"idle"} \union IF twice' = {} THEN {} ELSE {"stopped"}
  /\ UNCHANGED <<system, calls, linkVars, searchVars, busVars>>

(* The devices have changed since the size of the path was asked for       *)
(* (CR_BUFFER_SMALL): it is asked for again.                               *)
PathGrows ==
  /\ pc = "calls" /\ step <= Len(CallsOf(opening)) /\ CallsOf(opening)[step] = GetsPath
  /\ plugs < MaxPlugs
  /\ plugs' = plugs + 1 /\ failed' = TRUE
  /\ held' = Less(HasSome({"path"})) /\ step' = step - 1
  /\ UNCHANGED <<system, pc, calls, result, opening, linkp, searchVars, bus, twice>>

(* cahute_alloc_link(), within the function that is given the interface,   *)
(* and for a serial link the parameters of the port.                       *)
MakeLink ==
  /\ pc = "calls" /\ ~Searching /\ step = Len(CallsOf(opening)) + 1
  /\ held' = [held EXCEPT !["link"] = @ + 1]
  /\ pc' = "init" /\ linkp' = "link"
  /\ UNCHANGED <<system, calls, result, opening, step, searchVars, busVars, failed, twice>>

(* The memory cannot be had, or the parameters cannot be set: the interface *)
(* is closed.                                                              *)
LinkFails ==
  /\ pc = "calls" /\ ~Searching /\ step = Len(CallsOf(opening)) + 1
  /\ failed' = TRUE
  /\ Returns("error", ClosedBy(opening))
  /\ UNCHANGED twice

(* cahute_initialize_link_protocol() fails: the link is freed, and the     *)
(* caller's pointer is left as it is.                                      *)
InitFails ==
  /\ pc = "init"
  /\ failed' = TRUE
  /\ Returns("error", {"link"} \union ClosedBy(opening))
  /\ UNCHANGED twice

InitSucceeds ==
  /\ pc = "init"
  /\ pc' = "given" /\ result' = "OK"
  /\ held' = Less(HasSome(GivenBackAround))
  /\ UNCHANGED <<system, calls, linkVars, searchVars, busVars, failed, twice>>

(* cahute_close_link()                                                     *)
Close ==
  /\ pc = "given"
  /\ pc' = "idle" /\ result' = "none" /\ linkp' = "unset"
  /\ held' = Less({"link"} \union ClosedBy(opening))
  /\ UNCHANGED <<system, calls, opening, step, searchVars, busVars, failed, twice>>

(* cahute_destroy_context(), once no link is left.                         *)
Destroy ==
  /\ pc = "idle"
  /\ pc' = "destroyed"
  /\ held' = Less(HasSome(ContextPointers))
  /\ UNCHANGED <<system, calls, result, linkVars, searchVars, busVars, failed, twice>>

Call ==
  \/ OpenSerial
  \/ \E d \in Devices : OpenUsb(d)
  \/ \E interfaces \in {{"serial", "ums"}, {"serial"}, {"ums"}} : OpenSimpleUsb(interfaces)
  \/ Close \/ Destroy

Opens ==
  \/ (\E d \in Devices : Finds(d)) \/ PassesOver \/ Search \/ SearchFails \/ PathGrows
  \/ CallSucceeds \/ CallFails \/ MakeLink \/ LinkFails \/ InitFails \/ InitSucceeds

Next == Call \/ Opens \/ \E d \in Devices : Plug(d)

Spec == Init /\ [][Next]_vars /\ WF_vars(Opens)

-----------------------------------------------------------------------------
TypeOK ==
  /\ system \in Systems /\ calls \in 0 .. MaxOpenings
  /\ pc \in {"idle", "calls", "init", "given", "stopped", "destroyed"}
  /\ result \in {"none", "OK", "NOT_FOUND", "TOO_MANY", "error"}
  /\ step \in 1 .. 16 /\ held \in [Resources -> Int]
  /\ linkp \in {"unset", "link"}
  /\ bus \subseteq Devices /\ plugs \in 0 .. MaxPlugs
  /\ filter \subseteq {"serial", "ums"} /\ found \in Devices \union {Nowhere}
  /\ attempts \in 0 .. SearchAttempts /\ failed \in BOOLEAN /\ twice \subseteq Resources

HeldByLink == {"link"} \union ClosedBy(opening)

(* What a failing opening of Windows has given back twice, and nothing     *)
(* else: the memory of a request for a configuration that has failed, or   *)
(* has answered another size (win32/usb/devices.c:503, 515, 552); and that *)
(* of a long path that could not be had (win32/usb/open.c:177, 349).       *)
GivenBackTwice(o, i) ==
  CASE o \in ThroughHubs /\ i = 6        -> {"request"}
    [] o \in {"cesg", "winusb"} /\ i = 9 -> {"path"}
    [] o = "volmgr" /\ i = 11            -> {"path"}
    [] OTHER                             -> {}

(* Nothing the system has given is lost, whichever call fails on whichever *)
(* platform, and nothing else than what GivenBackTwice says is given back  *)
(* twice, by an opening that fails: one that returns without a link holds  *)
(* nothing but what the context keeps, one that returns a link holds all   *)
(* that this link uses and will close, and nothing more; a context that is *)
(* destroyed holds nothing.  (The failure labels and closing functions of  *)
(* every opening.)                                                         *)
NothingLeaks ==
  /\ \A r \in Resources : held[r] \in {0, 1}
  /\ pc \in {"idle", "stopped"} => HasSome(Resources) \subseteq ContextPointers
  /\ pc = "given" => HasSome(Resources) \ ContextPointers = HeldByLink
  /\ pc = "destroyed" => HasSome(Resources) = {}
  /\ twice \subseteq GivenBackTwice(opening, step)
  /\ twice # {} => result = "error"

(* An opening that reports no error gives a link, except when libusb could *)
(* not list its devices (platform/libusb/open.c:126).                      *)
SuccessIsALink == pc = "idle" /\ result = "OK" => ListsDevices

=============================================================================
