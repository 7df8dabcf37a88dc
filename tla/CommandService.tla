--------------------------- MODULE CommandService ---------------------------
(***************************************************************************)
(* What a command of the active side promises its caller, whatever the     *)
(* wire does: at most one command is in progress, success means that the   *)
(* device has carried this command out, and a command that has returned    *)
(* is never carried out after the next one was given.                      *)
(***************************************************************************)
EXTENDS Naturals

CONSTANT MaxCalls     (* bound on the commands given                       *)

VARIABLES
  calls,              (* commands given so far: each is known by its number *)
  busy,               (* the last of them has not returned yet             *)
  done,               (* commands the device has carried out               *)
  result              (* of the last command that returned                 *)

vars == <<calls, busy, done, result>>

Init == calls = 0 /\ busy = FALSE /\ done = {} /\ result = "none"

Give ==
  /\ ~busy /\ calls < MaxCalls
  /\ calls' = calls + 1 /\ busy' = TRUE
  /\ UNCHANGED <<done, result>>

CarryOut ==
  /\ calls > 0
  /\ done' = done \cup {calls}
  /\ UNCHANGED <<calls, busy, result>>

Succeed ==
  /\ busy /\ calls \in done
  /\ busy' = FALSE /\ result' = "OK"
  /\ UNCHANGED <<calls, done>>

Fail ==
  /\ busy
  /\ busy' = FALSE
  /\ result' \in {"UNKNOWN", "CORRUPT", "SIZE", "TIMEOUT", "TIMEOUT_START", "GONE"}
  /\ UNCHANGED <<calls, done>>

Next == Give \/ CarryOut \/ Succeed \/ Fail

Spec == Init /\ [][Next]_vars

=============================================================================
