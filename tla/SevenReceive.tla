---------------------------- MODULE SevenReceive ----------------------------
(***************************************************************************)
(* Data from the device: a file requested from its storage                 *)
(* (request_file_from_storage.c over receive_bytes_into_stream.c), a       *)
(* backup of its ROM (backup_rom.c over receive_bytes.c), receive_bytes.c  *)
(* as called where packet shifting is allowed, and the capacity of its     *)
(* storage (request_storage_capacity.c), which is a command and no data.   *)
(*                                                                         *)
(* The first item of the device is the command with the size of the data,  *)
(* the others are the data packets.  A packet has one unit of the data, so *)
(* that a device that announces another size than that of its packets is   *)
(* one that sends too many or too few.                                     *)
(***************************************************************************)
EXTENDS SevenRoleSwap

CONSTANTS
  Calls,         (* the functions called                                   *)
  MaxCount       (* bound on the number of data packets                    *)

VARIABLES
  announced,     (* the size the device announces                          *)
  size,          (* what remains to be received                            *)
  i,             (* the number of the next packet                          *)
  shifted,
  written        (* the packets written to the file or to the buffer       *)

receiveVars == <<announced, size, i, shifted, written>>
callVars == <<swapVars, receiveVars>>
vars == <<exchangeVars, callVars>>

Init ==
  /\ ExchangeInit /\ SwapInit
  /\ announced = 0 /\ size = 0 /\ i = 0 /\ shifted = FALSE /\ written = <<>>

(* packet_count, which every data packet carries.                          *)
Count == Len(items) - 1

-----------------------------------------------------------------------------
(* The call, up to the command that announces the data.                    *)

Begin(function, n, count) ==
  /\ function \in Calls
  /\ BeginCall(function, <<"command">> \o [k \in 1 .. count |-> "data"])
  /\ announced' = n
  /\ UNCHANGED <<size, i, shifted, written>>

RequestFile(n, count) == Begin("request_file", n, count)

BackupRom(n, count) == Begin("backup_rom", n, count)

ReceiveBytes(n, count) == Begin("receive_bytes", n, count)

RequestCapacity == Begin("capacity", 0, 0)

(* request_file_from_storage.c does not look at the error of the exchange, *)
(* only at the last packet received.                                       *)
Announced ==
  answer.kind = "command" /\ (outcome = "OK" \/ call = "request_file")

RoleswapReturns ==
  /\ step = "swap"
  /\ ExchangeReturns
  /\ IF Announced
     THEN /\ GoTo(CASE call = "request_file" -> "loop"
                    [] call # "request_file" /\ announced = 0 -> "last_ack"
                    [] OTHER -> "first")
          /\ size' = announced /\ i' = 1
          /\ UNCHANGED <<announced, shifted, written>>
     ELSE /\ End(IF call = "request_file" THEN "UNKNOWN" ELSE Error)
          /\ UNCHANGED receiveVars

(* The file cannot be created, or the ROM has no room in memory.           *)
NoRoom ==
  /\ step = "swap" /\ phase = "done"
  /\ Announced
  /\ call = "request_file" \/ announced > 0
  /\ phase' = "idle"
  /\ irrecoverable' = (irrecoverable \/ call # "request_file")
  /\ End("FILE")
  /\ UNCHANGED <<wireVars, packet, flags, attempts, outcome, answer, gone, receiveVars>>

-----------------------------------------------------------------------------
(* A data packet.                                                          *)

Acknowledge(f) ==
  StartExchange(Packet("ack", i), f) /\ UNCHANGED callVars

(* The packet received is the k-th, and leaves more to receive exactly if  *)
(* it is not the last.                                                     *)
Fits(k) ==
  /\ answer.id = k + 1
  /\ IF k < Count THEN size > 1 ELSE size = 1

(* The packet is written and the function goes on at step s, or refuses    *)
(* the packet.                                                             *)
Store(k, s) ==
  /\ ExchangeReturns
  /\ IF Expect("data") /\ Fits(k)
     THEN /\ GoTo(s)
          /\ written' = Append(written, answer.id - 1) /\ size' = size - 1 /\ i' = k + 1
          /\ UNCHANGED <<announced, shifted>>
     ELSE End(Error) /\ UNCHANGED receiveVars

-----------------------------------------------------------------------------
(* cahute_seven_receive_bytes_into_stream.                                 *)

LoopRequest == step = "loop" /\ size > 0 /\ Acknowledge({})

LoopReturns == step = "loop" /\ Store(i, "loop")

WriteFails ==
  /\ step = "loop"
  /\ Expect("data") /\ Fits(i)
  /\ ExchangeReturns
  /\ End("FILE")
  /\ UNCHANGED receiveVars

LoopEnds ==
  /\ step = "loop" /\ phase = "idle" /\ size = 0
  /\ GoTo("last_ack")
  /\ UNCHANGED <<exchangeVars, receiveVars>>

-----------------------------------------------------------------------------
(* cahute_seven_receive_bytes.                                             *)

loop_send_flags == IF shifted THEN {"no_checksum", "no_timeout"} ELSE {}

FirstRequest == step = "first" /\ Acknowledge({})

FirstReturns ==
  /\ step = "first"
  /\ Store(1, IF Count >= 3 /\ call = "receive_bytes" THEN "shift"
              ELSE IF Count > 1 THEN "middle" ELSE "last_ack")

Shift == step = "shift" /\ Acknowledge({"no_receive"})

ShiftReturns ==
  /\ step = "shift"
  /\ ExchangeReturns
  /\ IF outcome = "OK"
     THEN shifted' = TRUE /\ GoTo("middle") /\ UNCHANGED <<announced, size, i, written>>
     ELSE End(outcome) /\ UNCHANGED receiveVars

MiddleEnd == IF shifted THEN Count - 1 ELSE Count

MiddleRequest ==
  /\ step = "middle" /\ size > 0 /\ i < MiddleEnd
  /\ Acknowledge(loop_send_flags)

MiddleReturns == step = "middle" /\ Store(i, "middle")

MiddleEnds ==
  /\ step = "middle" /\ phase = "idle" /\ (size = 0 \/ i >= MiddleEnd)
  /\ IF shifted THEN GoTo("normalize") /\ StartReceive
     ELSE GoTo("final") /\ UNCHANGED exchangeVars
  /\ UNCHANGED receiveVars

Normalized == step = "normalize" /\ Store(Count - 1, "final")

FinalRequest == step = "final" /\ Acknowledge(loop_send_flags)

FinalReturns == step = "final" /\ Store(Count, "last_ack")

-----------------------------------------------------------------------------
(* The last acknowledgement, after which the device swaps the roles back.  *)

SendLastAck == step = "last_ack" /\ Acknowledge({})

(* Mutant of LastAckReturns: the roles need not be given back.             *)
LastAckIsEnough ==
  /\ step = "last_ack"
  /\ ExchangeReturns
  /\ End(outcome)
  /\ UNCHANGED receiveVars

LastAckReturns ==
  /\ step = "last_ack"
  /\ ExchangeReturns
  /\ End(IF Expect("roleswap") THEN "OK" ELSE Error)
  /\ UNCHANGED receiveVars

-----------------------------------------------------------------------------
Caller ==
  \/ (SendCommand \/ CommandReturns \/ SendRoleswap) /\ UNCHANGED receiveVars
  \/ RoleswapReturns
  \/ LoopRequest \/ LoopReturns \/ LoopEnds
  \/ FirstRequest \/ FirstReturns \/ Shift \/ ShiftReturns
  \/ MiddleRequest \/ MiddleReturns \/ MiddleEnds \/ Normalized
  \/ FinalRequest \/ FinalReturns
  \/ SendLastAck \/ LastAckReturns

Exchange == (ExchangeStep \/ Unplugged \/ Wire) /\ UNCHANGED callVars

Device == DeviceStep /\ UNCHANGED receiveVars

(* The sizes a device may announce for that many packets: too little and   *)
(* too much are bounded by one.                                            *)
Sizes(count) == (count - 1 .. count + 1) \ {-1}

Next ==
  \/ \E count \in 0 .. MaxCount : \E n \in Sizes(count) :
       RequestFile(n, count) \/ BackupRom(n, count) \/ ReceiveBytes(n, count)
  \/ RequestCapacity
  \/ Caller \/ NoRoom \/ WriteFails \/ Exchange \/ Device

(* The function runs once it is called, and the device answers what        *)
(* reaches it.                                                             *)
Fairness ==
  /\ WF_vars(Caller)
  /\ WF_vars(ExchangeStep /\ UNCHANGED callVars)
  /\ WF_vars(Device)

Spec == Init /\ [][Next]_vars /\ Fairness

-----------------------------------------------------------------------------
TypeOK ==
  /\ SwapTypeOK
  /\ call \in Calls \cup {"none"}
  /\ step \in {"idle", "command", "swap", "loop", "first", "shift", "middle",
               "normalize", "final", "last_ack", "ended"}
  /\ announced \in Nat /\ size \in 0 .. announced /\ i \in Nat
  /\ shifted \in BOOLEAN /\ written \in Seq(1 .. MaxCount)

(* A reception that succeeds has every packet of the data announced, once  *)
(* and in order, also when packets were lost and acknowledgements          *)
(* repeated, with or without shifting.                                     *)
FileArrives == result = "OK" => written = [k \in 1 .. announced |-> k]

(* Without shifting, one packet lost or damaged never costs the link.      *)
OneFaultIsSurvived ==
  ~shifted /\ lost + damaged <= 1 /\ late = 0 /\ result # "FILE" => ~irrecoverable

=============================================================================
