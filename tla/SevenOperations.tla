-------------------------- MODULE SevenOperations ---------------------------
(***************************************************************************)
(* The operations of a Protocol 7.00 link that take more than a command:   *)
(* data to the device, data from the device, going through the entries of  *)
(* a storage, flashing, and what the passive side receives.  They run over *)
(* the same exchanges and the same wire, one of them at a time on a link   *)
(* (cahute_check_link and the program that calls them see to that).        *)
(***************************************************************************)
EXTENDS SevenExchange

CONSTANTS
  Counts,        (* numbers of packets of the files sent                   *)
  MaxCount,      (* bound on the data packets received                     *)
  MaxEntries,    (* bound on the entries of a storage                      *)
  SystemEnd, FlashEnd, Pieces,  (* of the flash: see SevenFlash            *)
  MaxPackets, MaxCalls   (* of the passive side: see SevenPassive          *)

ASSUME CountsAssumption == Counts \subseteq Nat /\ MaxCount \in Nat /\ MaxEntries \in Nat
ASSUME PassiveAssumption == MaxPackets \in Nat /\ MaxCalls \in Nat
ASSUME SectorsAssumption ==
  /\ SystemEnd \in Nat /\ FlashEnd \in Nat /\ Pieces \in Nat \ {0}
  /\ 1 < SystemEnd /\ SystemEnd <= FlashEnd

VARIABLES
  operation,     (* which of the modules the call is of                    *)
  call, step, result, shifted, i, device,
  shifting, should_upload, count, terminated, received,
  items, sent, checked, announced, size, written,
  entries, should_skip, found, seen,
  image, max_addr, addr, piece, buffer, flash,
  calls, command, receptions, given, broken, speed, waited

callVars == <<call, step, result>>
moveVars == <<i, shifted>>
sendVars == <<shifting, should_upload, count, terminated, received>>
swapVars == <<items, sent, checked>>
receiveVars == <<announced, size, written>>
listingVars == <<entries, should_skip, found, seen>>
flashVars == <<image, max_addr, addr, piece, buffer, flash>>
passiveVars == <<calls, command, receptions, given, broken, speed, waited>>
vars == <<exchangeVars, operation, callVars, moveVars, device, sendVars,
          swapVars, receiveVars, listingVars, flashVars, passiveVars>>

Transfer == INSTANCE SevenTransfer
Receive_ == INSTANCE SevenReceive WITH
  Calls <- {"request_file", "backup_rom", "receive_bytes", "capacity"}
Listing == INSTANCE SevenListing WITH Calls <- {"list", "type"}
Flash == INSTANCE SevenFlash
PassiveSide == INSTANCE SevenPassive

Init ==
  /\ Transfer!Init /\ Receive_!Init /\ Listing!Init /\ Flash!Init /\ PassiveSide!Init
  /\ operation \in {"transfer", "receive", "listing", "flash", "passive"}

(* What a step of each operation leaves alone.                             *)
TransferOnly == UNCHANGED <<operation, swapVars, receiveVars, listingVars, flashVars, passiveVars>>
ReceiveOnly == UNCHANGED <<operation, sendVars, listingVars, flashVars, passiveVars>>
ListingOnly == UNCHANGED <<operation, moveVars, sendVars, receiveVars, flashVars, passiveVars>>
FlashOnly == UNCHANGED <<operation, call, device, moveVars, sendVars, swapVars, receiveVars,
                         listingVars, passiveVars>>
PassiveOnly == UNCHANGED <<operation, shifted, device, shifting, should_upload, swapVars,
                           announced, written, listingVars, flashVars>>

Next ==
  \/ operation = "transfer" /\ Transfer!Next /\ TransferOnly
  \/ operation = "receive" /\ Receive_!Next /\ ReceiveOnly
  \/ operation = "listing" /\ Listing!Next /\ ListingOnly
  \/ operation = "flash" /\ Flash!Next /\ FlashOnly
  \/ operation = "passive" /\ PassiveSide!Next /\ PassiveOnly

(* The fairness of these modules: the function that was called runs, an    *)
(* exchange is carried on, and the device answers what reaches it; where   *)
(* the library is the device, its program goes on receiving.               *)
Caller ==
  \/ operation = "transfer" /\ Transfer!Caller /\ TransferOnly
  \/ operation = "receive" /\ Receive_!Caller /\ ReceiveOnly
  \/ operation = "listing" /\ Listing!Caller /\ ListingOnly
  \/ operation = "flash" /\ Flash!Caller /\ FlashOnly
  \/ operation = "passive" /\ PassiveSide!Active /\ PassiveOnly

ExchangeGoesOn == ExchangeStep /\ UNCHANGED <<operation, callVars, moveVars, device,
  sendVars, swapVars, receiveVars, listingVars, flashVars, passiveVars>>

Device ==
  \/ operation = "transfer" /\ Transfer!DeviceStep /\ TransferOnly
  \/ operation = "receive" /\ Receive_!Device /\ ReceiveOnly
  \/ operation = "listing" /\ Listing!Device /\ ListingOnly
  \/ operation = "flash" /\ Flash!DeviceStep /\ FlashOnly
  \/ operation = "passive" /\ PassiveSide!Passive /\ PassiveOnly

Program == operation = "passive" /\ PassiveSide!Program /\ PassiveOnly

Spec == Init /\ [][Next]_vars
          /\ WF_vars(Caller) /\ WF_vars(ExchangeGoesOn) /\ WF_vars(Device) /\ WF_vars(Program)

-----------------------------------------------------------------------------
TypeOK ==
  CASE operation = "transfer" -> Transfer!TypeOK
    [] operation = "receive"  -> Receive_!TypeOK
    [] operation = "listing"  -> Listing!TypeOK
    [] operation = "flash"    -> Flash!TypeOK
    [] operation = "passive"  -> PassiveSide!TypeOK

(* A transfer that succeeds has moved the whole of the data, once and in   *)
(* order, whatever the shifting, the retries and the timeout checks: see   *)
(* SevenTransfer, SevenReceive and SevenPassive.                           *)
FileArrives ==
  /\ operation = "transfer" => Transfer!FileArrives
  /\ operation = "receive" => Receive_!FileArrives
  /\ operation = "passive" => PassiveSide!FileIsWhole

(* The two ends of a serial link keep the same parameters, or know that    *)
(* the link is lost: see SevenPassive.                                     *)
ParamsAgree == operation = "passive" => PassiveSide!ParamsAgree

(* A call that succeeds leaves a quiet link and, when the roles were       *)
(* swapped, a passive device, so that the next call may use the link (see  *)
(* SevenTransfer and SevenRoleSwap); flashing leaves no answer either.     *)
LinkIsFree ==
  /\ operation = "transfer" => Transfer!QuietWhenOver
  /\ operation \in {"receive", "listing"} => Receive_!RolesAreBack
  /\ operation = "flash" /\ result = "OK" /\ Flash!Orderly /\ ~irrecoverable
       => toDevice = <<>> /\ toHost = <<>>

(* Entries are given once and in order, and found: see SevenListing.       *)
EntriesAreFaithful ==
  operation = "listing" => Listing!EntriesInOrder /\ Listing!TypeIsFound

(* The system is flashed whole, its first sector last: see SevenFlash.     *)
FlashedInOrder == operation = "flash" => Flash!FlashedInOrder

(* A single packet lost or damaged does not cost the link, unless packets  *)
(* were shifted: see SevenTransfer and SevenReceive.                       *)
OneFaultIsSurvived ==
  /\ operation = "transfer" => Transfer!OneFaultIsSurvived
  /\ operation \notin {"transfer", "passive"} => Receive_!OneFaultIsSurvived

Called ==
  CASE operation = "passive" -> call # "none" \/ step \notin {"idle", "listen"}
    [] operation = "listing" -> FALSE
    [] OTHER -> step # "idle"

Ended ==
  IF operation = "passive" THEN call = "none" /\ step \in {"idle", "listen"} ELSE step = "ended"

(* Every call ends, whatever is lost, damaged or late, but for a listing   *)
(* that was asked to stop (see SevenListing).                              *)
CallEnds == Called ~> Ended

=============================================================================
