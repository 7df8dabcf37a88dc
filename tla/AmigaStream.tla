---------------------------- MODULE AmigaStream -----------------------------
(***************************************************************************)
(* The serial stream of AmigaOS (lib/platform/amigaos/serial/link.c) under *)
(* the transport.  A port that holds nothing is given a read of one byte,  *)
(* which ends when the byte comes or is aborted when the timer rings; the  *)
(* port is then asked again for what it holds.                             *)
(***************************************************************************)
EXTENDS LinkTransport

VARIABLE
  reading   (* the read of one byte: "no", "sent", "over" or "aborted"  *)

amigaVars == <<vars, reading>>

AmigaInit == Init /\ reading = "no"

Held == arrived - fetched

Smaller(m, n) == IF m <= n THEN m ELSE n

Receiving == pc = "receiving"

(* The port holds bytes: they are read.                                    *)
ReadsAvailable ==
  /\ Receiving /\ reading = "no" /\ Held > 0
  /\ PollBytes(Smaller(Held, BufferSize))
  /\ UNCHANGED reading

SendsRead ==
  /\ Receiving /\ reading = "no" /\ Held = 0
  /\ reading' = "sent"
  /\ UNCHANGED vars

(* The byte comes.  It is in the first byte of the buffer, for the caller  *)
(* and the system only.                                                    *)
ByteComes ==
  /\ reading = "sent" /\ Held > 0
  /\ reading' = "over"
  /\ UNCHANGED vars

(* Then the port is asked for more, which is read after that byte.         *)
ReadsMore ==
  /\ reading = "over" /\ Held > 1
  /\ PollBytes(Smaller(Held, BufferSize))
  /\ reading' = "no"

(* Or it holds no more: the call ends as if the byte had not come.         *)
HoldsNoMore ==
  /\ reading = "over" /\ Held = 1
  /\ fetched' = fetched + 1
  /\ pc' = "idle" /\ result' = timeout_error
  /\ reading' = "no"
  /\ UNCHANGED <<arrived, buffer, start, size, unplugged, gone, wanted, missing, out,
                 base, first_timeout, next_timeout, timeout, timeout_error, quiet,
                 sendVars>>

(* The timer rings, and the read is aborted; a byte that comes in between  *)
(* is read, and not counted.                                               *)
TimerRings ==
  /\ timeout > 0
  /\ \/ reading = "sent" /\ UNCHANGED fetched
     \/ reading = "over" /\ fetched' = fetched + 1
  /\ reading' = "aborted"
  /\ UNCHANGED <<arrived, buffer, start, size, unplugged, gone, pc, receiveVars, sendVars>>

(* The port is asked again, for what has come meanwhile.                   *)
AsksAgain ==
  /\ reading = "aborted"
  /\ IF Held > 0 THEN PollBytes(Smaller(Held, BufferSize)) ELSE PollTimesOut(timeout)
  /\ reading' = "no"

(* A command fails, or the user interrupts the program.                    *)
AmigaFails ==
  /\ Receiving /\ Fail("UNKNOWN")
  /\ reading' = "no"
  /\ UNCHANGED <<timeout, quiet, gone>>

AmigaReceives ==
  \/ ReadsAvailable \/ SendsRead \/ ReadsMore \/ HoldsNoMore \/ TimerRings
  \/ AsksAgain \/ AmigaFails

(* A write takes the whole message.                                        *)
AmigaSends == SendSome(unsent) \/ SendFails

AmigaNext ==
  \/ (PeerSends \/ Unplug \/ Receive \/ (\E n \in Sizes : StartSending(n)) \/ AmigaSends)
     /\ UNCHANGED reading
  \/ ByteComes
  \/ AmigaReceives

AmigaSpec == AmigaInit /\ [][AmigaNext]_amigaVars /\ WF_amigaVars(AmigaReceives)

-----------------------------------------------------------------------------
(* What is said of a timeout (docs link.rst lines 585-603): it is          *)
(* reported once it has gone by without a byte, and never when it is       *)
(* unlimited.                                                              *)
TimeoutHasGoneBy ==
  result \in TimeoutErrors => Limit > 0 /\ quiet >= Limit

=============================================================================
