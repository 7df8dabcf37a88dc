---------------------------- MODULE SevenListing ----------------------------
(***************************************************************************)
(* Going through the entries of a storage device: listing them to a        *)
(* callback (list_storage_entries.c), and looking for the type of a file   *)
(* among them (request_file_type.c).                                       *)
(*                                                                         *)
(* The items of the device are the commands with its entries.  Some of     *)
(* them may be another command than the one that has an entry.             *)
(***************************************************************************)
EXTENDS SevenRoleSwap

CONSTANTS
  Calls,         (* the functions called                                   *)
  MaxEntries     (* bound on the number of entries                         *)

VARIABLES
  entries,       (* what the items are: see Entries                        *)
  should_skip,   (* the callback has asked to stop                         *)
  found,         (* *typep is not CAHUTE_SEVEN_FILE_TYPE_NONE              *)
  seen           (* history: the entries given to the callback             *)

listingVars == <<entries, should_skip, found, seen>>
callVars == <<swapVars, listingVars>>
vars == <<exchangeVars, callVars>>

(* The entry looked for, another, one whose name cannot be given to the    *)
(* callback, or a command that is not an entry.                            *)
Entries == {"wanted", "plain", "unnamed", "unknown"}

Init ==
  /\ ExchangeInit /\ SwapInit
  /\ entries = <<>> /\ should_skip = FALSE /\ found = FALSE /\ seen = <<>>

-----------------------------------------------------------------------------
Begin(function, list) ==
  /\ function \in Calls
  /\ BeginCall(function, [n \in DOMAIN list |->
                   IF list[n] = "unknown" THEN "unknown_command" ELSE "command"])
  /\ entries' = list
  /\ UNCHANGED <<should_skip, found, seen>>

ListEntries(list) == Begin("list", list)

RequestType(list) == Begin("type", list)

(* Whatever the answer, the loop looks at it.                              *)
RoleswapReturns ==
  /\ step = "swap"
  /\ ExchangeReturns
  /\ IF outcome = "OK" THEN GoTo("listing") ELSE End(outcome)
  /\ UNCHANGED listingVars

Entry == entries[answer.id]

Listing(function) ==
  step = "listing" /\ phase = "idle" /\ call = function

Acknowledge == StartExchange(Packet("ack", 0), {}) /\ UNCHANGED swapVars

(* The loop goes round with the same packet, and will for ever.            *)
Spin == GoTo("spinning") /\ UNCHANGED <<exchangeVars, listingVars>>

(* The loop of list_storage_entries.c.                                     *)

SkipUnknown ==
  /\ Listing("list") /\ answer.kind = "unknown_command"
  /\ Acknowledge /\ UNCHANGED listingVars

ContinueAfterStop ==
  /\ Listing("list") /\ answer.kind = "command"
  /\ should_skip /\ Spin

SkipUnnamed ==
  /\ Listing("list") /\ answer.kind = "command"
  /\ ~should_skip /\ Entry = "unnamed"
  /\ Acknowledge /\ UNCHANGED listingVars

(* Mutant of Callback: the entry is given again after the acknowledgement. *)
CallbackTwice ==
  /\ Listing("list") /\ answer.kind = "command"
  /\ ~should_skip /\ Entry # "unnamed"
  /\ seen' = seen \o <<answer.id, answer.id>>
  /\ should_skip' \in BOOLEAN
  /\ Acknowledge /\ UNCHANGED <<entries, found>>

Callback ==
  /\ Listing("list") /\ answer.kind = "command"
  /\ ~should_skip /\ Entry # "unnamed"
  /\ seen' = Append(seen, answer.id)
  /\ should_skip' \in BOOLEAN
  /\ Acknowledge /\ UNCHANGED <<entries, found>>

(* The loop of request_file_type.c.                                        *)

ContinueUnknown ==
  Listing("type") /\ answer.kind = "unknown_command" /\ Spin

Compare ==
  /\ Listing("type") /\ answer.kind = "command"
  /\ found' = (found \/ Entry = "wanted")
  /\ Acknowledge /\ UNCHANGED <<entries, should_skip, seen>>

(* Of both.                                                                *)

AcknowledgeReturns ==
  /\ step = "listing"
  /\ ExchangeReturns
  /\ IF outcome = "OK" THEN UNCHANGED swapVars ELSE End(outcome)
  /\ UNCHANGED listingVars

LoopEnds ==
  /\ step = "listing" /\ phase = "idle"
  /\ answer.kind \notin {"command", "unknown_command"}
  /\ End(IF answer.kind # "roleswap" THEN "UNKNOWN"
         ELSE IF should_skip THEN "INT" ELSE "OK")
  /\ UNCHANGED <<exchangeVars, listingVars>>

-----------------------------------------------------------------------------
Caller ==
  \/ (SendCommand \/ CommandReturns \/ SendRoleswap) /\ UNCHANGED listingVars
  \/ RoleswapReturns
  \/ SkipUnknown \/ ContinueAfterStop \/ SkipUnnamed \/ Callback
  \/ ContinueUnknown \/ Compare
  \/ AcknowledgeReturns \/ LoopEnds

Exchange == (ExchangeStep \/ Unplugged \/ Wire) /\ UNCHANGED callVars

Device == DeviceStep /\ UNCHANGED listingVars

Lists == UNION {[1 .. n -> Entries] : n \in 0 .. MaxEntries}

Next ==
  \/ \E list \in Lists : ListEntries(list) \/ RequestType(list)
  \/ Caller \/ Exchange \/ Device

(* The function runs once it is called, and the device answers what        *)
(* reaches it.                                                             *)
Fairness ==
  /\ WF_vars(Caller)
  /\ WF_vars(ExchangeStep /\ UNCHANGED callVars)
  /\ WF_vars(Device)

Spec == Init /\ [][Next]_vars /\ Fairness

-----------------------------------------------------------------------------
TypeOK ==
  /\ SwapTypeOK
  /\ call \in Calls \cup {"none"}
  /\ step \in {"idle", "command", "swap", "listing", "spinning", "ended"}
  /\ entries \in Seq(Entries) /\ Len(entries) <= MaxEntries
  /\ should_skip \in BOOLEAN /\ found \in BOOLEAN
  /\ seen \in Seq(1 .. MaxEntries)

(* The entries among the first n that can be given to a callback.          *)
Named(n) == {k \in 1 .. n : entries[k] \in {"wanted", "plain"}}

(* The callback was given these entries, each once, in their order.        *)
WereGiven(numbers) ==
  /\ {seen[k] : k \in DOMAIN seen} = numbers
  /\ \A j, k \in DOMAIN seen : j < k => seen[j] < seen[k]

(* As long as no packet is lost or late, the callback is given every entry *)
(* once and in order, whatever is damaged on the way, and a listing that   *)
(* succeeds has given them all.                                            *)
EntriesInOrder ==
  call = "list" /\ lost = 0 /\ late = 0 =>
    /\ \E n \in 0 .. sent : WereGiven(Named(n))
    /\ result = "OK" => WereGiven(Named(Len(entries)))

(* The type of the file is that of its entry, wherever it is in the list.  *)
TypeIsFound ==
  call = "type" /\ result = "OK" /\ lost = 0 /\ late = 0
    => (found <=> \E n \in DOMAIN entries : entries[n] = "wanted")

-----------------------------------------------------------------------------
(* "We just try to ACK and skip it here" (request_file_type.c:87-88), "we  *)
(* just set a flag to not process the entry" (list_storage_entries.c:156): *)
(* the listing goes on to its end.                                         *)
ListingEnds == step # "idle" ~> step = "ended"

=============================================================================
