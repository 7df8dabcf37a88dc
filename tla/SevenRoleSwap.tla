--------------------------- MODULE SevenRoleSwap ---------------------------
(***************************************************************************)
(* The flows of Protocol 7.00 in which the roles are swapped: the host     *)
(* gives a command, has it acknowledged, and swaps the roles; the device   *)
(* then sends its items, one for every acknowledgement, and swaps the      *)
(* roles back (lib/link/seven/list_storage_entries.c,                      *)
(* request_file_type.c, request_file_from_storage.c, backup_rom.c).        *)
(*                                                                         *)
(* This module has the beginning of these functions and the device;        *)
(* SevenReceive and SevenListing have the rest.                            *)
(*                                                                         *)
(* The device is external.  An acknowledgement carries no number: a device *)
(* that was sent a timeout check cannot tell whether the acknowledgement   *)
(* that follows is the one it is waiting for, or a copy of one it has      *)
(* already acted upon; it may take it for either.                          *)
(***************************************************************************)
EXTENDS SevenExchange

VARIABLES
  call,          (* the function that was called                           *)
  step,          (* where it is                                            *)
  result,        (* what it returned                                       *)
  items,         (* the kinds of the packets the device sends as active    *)
  sent,          (* how many of them it has sent                           *)
  device,        (* "passive", "accepted", "active" or "back"              *)
  checked        (* the device has been sent a check since its last answer *)

deviceVars == <<items, sent, device, checked>>
swapVars == <<call, step, result, deviceVars>>

SwapInit ==
  /\ call = "none" /\ step = "idle" /\ result = "none"
  /\ items = <<>> /\ sent = 0 /\ device = "passive" /\ checked = FALSE

-----------------------------------------------------------------------------
(* The host.                                                               *)

(* EXPECT_PACKET, once the outcome was found to be right.                  *)
Expect(kind) == outcome = "OK" /\ answer.kind = kind

End(r) == step' = "ended" /\ result' = r /\ UNCHANGED <<call, deviceVars>>

GoTo(s) == step' = s /\ UNCHANGED <<call, result, deviceVars>>

(* The error of the exchange, or that of EXPECT_PACKET.                    *)
Error == IF outcome = "OK" THEN "UNKNOWN" ELSE outcome

(* The function is called; the device has these items for it.              *)
BeginCall(function, kinds) ==
  /\ step = "idle"
  /\ ~irrecoverable /\ ~gone
  /\ call' = function /\ step' = "command" /\ items' = kinds
  /\ UNCHANGED <<exchangeVars, result, sent, device, checked>>

SendCommand ==
  /\ step = "command"
  /\ StartExchange(Packet("command", 0), {})
  /\ UNCHANGED swapVars

CommandReturns ==
  /\ step = "command"
  /\ ExchangeReturns
  /\ IF Expect("ack") THEN GoTo("swap") ELSE End(Error)

SendRoleswap ==
  /\ step = "swap"
  /\ StartExchange(Packet("roleswap", 0), {})
  /\ UNCHANGED swapVars

-----------------------------------------------------------------------------
(* The device.                                                             *)

(* It sends its n-th item, or swaps the roles back after the last one.     *)
SendItem(n) ==
  IF n <= Len(items)
  THEN /\ DeviceSends(Numbered(items[n], n, Head(toDevice)))
       /\ sent' = n /\ device' = "active"
  ELSE DeviceAnswers("roleswap") /\ device' = "back" /\ UNCHANGED sent

TakeAsNew(p) ==
  \/ /\ p.kind = "command" /\ device = "passive"
     /\ \/ DeviceAnswers("ack") /\ device' = "accepted"
        \/ DeviceAnswers("error") /\ UNCHANGED device
     /\ UNCHANGED sent
  \/ p.kind = "roleswap" /\ device = "accepted" /\ SendItem(1)
  \/ p.kind = "ack" /\ device = "active" /\ SendItem(sent + 1)
  \/ /\ <<p.kind, device>> \notin {<<"command", "passive">>,
                                   <<"roleswap", "accepted">>, <<"ack", "active">>}
     /\ DeviceAnswers("error") /\ UNCHANGED <<sent, device>>

(* Its last answer again.                                                  *)
TakeAsCopy(p) ==
  /\ \/ device = "accepted" /\ DeviceAnswers("ack")
     \/ device = "active" /\ DeviceSends(Numbered(items[sent], sent, p))
     \/ device = "back" /\ DeviceAnswers("roleswap")
  /\ UNCHANGED <<sent, device>>

DeviceStep ==
  /\ toDevice # <<>>
  /\ LET p == Head(toDevice) IN
       IF ~p.intact \/ p.kind = "check"
       THEN /\ DeviceAnswers("resend")
            /\ checked' = (checked \/ p.intact)
            /\ UNCHANGED <<sent, device>>
       ELSE /\ TakeAsNew(p) \/ (checked /\ TakeAsCopy(p))
            /\ checked' = FALSE
  /\ UNCHANGED <<call, step, result, items>>

-----------------------------------------------------------------------------
Results == Outcomes \cup {"INT", "FILE"}

SwapTypeOK ==
  /\ ExchangeTypeOK
  /\ result \in Results
  /\ items \in Seq({"command", "unknown_command", "data"})
  /\ sent \in 0 .. Len(items)
  /\ device \in {"passive", "accepted", "active", "back"}
  /\ checked \in BOOLEAN

(* A late answer to a damaged packet can be taken for the answer to the    *)
(* check that followed; from there on every answer is one packet late.     *)
Orderly == damaged = 0 \/ late = 0

(* A function that succeeds has given the roles back, whatever was lost or *)
(* repeated on the way: the device is passive again, and nothing is on its *)
(* way that the next command could take for its answer; or there will be   *)
(* no next command.                                                        *)
RolesAreBack ==
  Orderly /\ result \in {"OK", "INT"} /\ ~irrecoverable
    => device = "back" /\ toDevice = <<>> /\ toHost = <<>>

(* "Error raised if the link was previously deemed irrecoverable, and as   *)
(* such, the current operation could not be executed"                      *)
(* (docs/references/headers/cahute/error.rst:119-122): nothing is sent on  *)
(* such a link.                                                            *)
NothingSentOnceBroken ==
  [][irrecoverable => Len(toDevice') <= Len(toDevice)]_<<exchangeVars, swapVars>>

=============================================================================
