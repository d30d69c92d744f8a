----------------------------- MODULE OtaLifecycle -----------------------------
(***************************************************************************)
(* What the dashboard may rely on when it follows one device's otaStatus:  *)
(* an attempt moves forward only, ends in SUCCESS or FAILED, and a new one *)
(* starts only after that.  Once a command, a report or a write got lost,  *)
(* or a report came twice, otaStatus may say anything: LOST.               *)
(***************************************************************************)
EXTENDS Naturals

VARIABLE stage

Rank == [IDLE |-> 0, PENDING |-> 1, DOWNLOADING |-> 2, INSTALLING |-> 3, SUCCESS |-> 4, FAILED |-> 4]
Open == {"PENDING", "DOWNLOADING", "INSTALLING"}

Init == stage = "IDLE"

Start   == stage \notin Open /\ stage' = "PENDING"
Advance == stage \in Open /\ stage' \in DOMAIN Rank /\ Rank[stage'] > Rank[stage]
Lose    == stage' = "LOST"
Next    == stage # "LOST" /\ (Start \/ Advance \/ Lose)

Settles == (stage \in Open) ~> (stage \notin Open)

SafeSpec == Init /\ [][Next]_stage
Spec     == SafeSpec /\ Settles
=============================================================================
