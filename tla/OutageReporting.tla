--------------------------- MODULE OutageReporting ---------------------------
(***************************************************************************)
(* What the offline alerts promise, whatever the handlers and the sweep do *)
(* to get there: a device that goes down is owed a report, and stops being *)
(* owed one only when it is reported or comes back up; a report is never   *)
(* owed for ever.                                                          *)
(***************************************************************************)
CONSTANT Devices

VARIABLE phase  \* "up", "down" (outage not reported yet) or "reported"

Phase == {"up", "down", "reported"}

\* A device goes down unreported, and counts as reported only from there.
Moves == {<<"up", "down">>, <<"reported", "up">>, <<"down", "reported">>, <<"down", "up">>}

Init == phase = [d \in Devices |-> "reported"]

\* One database update may start or end the outages of several devices.
Next == /\ phase' \in [Devices -> Phase]
        /\ \A d \in Devices : phase'[d] # phase[d] => <<phase[d], phase'[d]>> \in Moves

\* Every outage is reported in the end.
Reported == \A d \in Devices : (phase[d] = "down") ~> (phase[d] # "down")

SafeSpec == Init /\ [][Next]_phase
Spec     == SafeSpec /\ Reported
=============================================================================
