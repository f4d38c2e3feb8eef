----------------------------- MODULE Irrigation -----------------------------
(***************************************************************************)
(* What the sprinkler promises to whoever watches the pump and the status  *)
(* topic: a cycle is announced by three messages before the pump goes on,  *)
(* its end is announced after the pump went off, and a pump that is on     *)
(* goes off.  A restart may come at any point: it says "Init", and the     *)
(* pump stays as it was.                                                   *)
(***************************************************************************)
EXTENDS Integers

VARIABLES status, pump

vars == <<status, pump>>

Init == status = "none" /\ pump = 0

Restart == status' = "Init" /\ UNCHANGED pump

(* The messages that lead to a cycle, in this order. *)
Announce ==
  /\ \/ status \in {"Init", "END!"} /\ status' = "Scheduled!"
     \/ status = "Scheduled!" /\ status' = "START!"
     \/ status = "START!" /\ status' = "RUNNING"
  /\ UNCHANGED pump

PumpOn == status = "RUNNING" /\ pump' = 1 /\ UNCHANGED status

PumpOff == status = "RUNNING" /\ pump = 1 /\ pump' = 0 /\ UNCHANGED status

Finish == status = "RUNNING" /\ pump = 0 /\ status' = "END!" /\ UNCHANGED pump

Next == Restart \/ Announce \/ PumpOn \/ PumpOff \/ Finish

Spec == Init /\ [][Next]_vars /\ WF_vars(PumpOff)
=============================================================================
