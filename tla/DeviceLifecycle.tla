--------------------------- MODULE DeviceLifecycle ---------------------------
(***************************************************************************)
(* The lifecycle stage and score of devices: assessed on request, after an *)
(* edit of the lifecycle settings, and by a daily sweep over all devices,  *)
(* until somebody decommissions the device.  Each of these loads the       *)
(* device first.  An assessment then updates the stage and score columns   *)
(* by id; an edit and a decommission save the whole entity they loaded.    *)
(* The sweep loads every device at its start and works through the list.   *)
(* A save reads the row again and writes the columns in which the entity   *)
(* differs from it, so a save may put back some columns and not others.    *)
(***************************************************************************)
EXTENDS HealthScoring

CONSTANTS
    Devices,   \* registered devices
    Requests,  \* concurrent requests: assessments, edits, decommissions
    Ages,      \* months since installation when a device is assessed; negative: still to come
    Offline,   \* hours without a heartbeat it may have then; 0: online
    Breaches,  \* readings outside their band, of Checks, it may have then
    Checks,    \* readings compared with a band
    MaxFaults  \* bound on database errors

ASSUME ObservationsAssumption == Ages \subseteq Int /\ Offline \cup Breaches \subseteq Nat /\ Checks \in Nat
ASSUME MaxFaultsAssumption == MaxFaults \in Nat

VARIABLES
    row,      \* lifecycle columns and lastSeenAt of each device
    request,  \* what each request is doing
    sweep,    \* devices the sweep has not come to yet, as it loaded them
    due,      \* history: devices the sweep selected and has not tried yet
    faults    \* database errors so far

vars == <<row, request, sweep, due, faults>>

Lifespan == 60   \* DEFAULT_EXPECTED_LIFESPAN_MONTHS
None     == 101  \* a NULL lifecycleScore

Stages == DOMAIN StageRank \cup {"NEW", "DECOMMISSIONED"}
Row    == [stage : Stages, score : 0 .. None, heard : {"yes", "no"}]

Idle == [pc |-> "idle"]
Job  == [pc : {"assess", "edit", "edited", "reassess", "retire", "retired"}, device : Devices,
         loaded : Row, columns : SUBSET {"stage", "score", "heard"}]

TypeOK ==
    /\ row \in [Devices -> Row]
    /\ request \in [Requests -> Job \cup {Idle}]
    /\ DOMAIN sweep \subseteq Devices
    /\ \A d \in DOMAIN sweep : sweep[d] \in Row
    /\ due \subseteq Devices
    /\ faults \in 0 .. MaxFaults

Registered == [stage |-> "NEW", score |-> None, heard |-> "no"]
NoSweep    == [d \in {} |-> Registered]

Init ==
    /\ row = [d \in Devices |-> Registered]
    /\ request = [q \in Requests |-> Idle]
    /\ sweep = NoSweep
    /\ due = {}
    /\ faults = 0

-----------------------------------------------------------------------------
(***************************************************************************)
(* assessDevice, of the entity that was loaded                             *)
(***************************************************************************)
\* mutant: any stage is derived from the score.
DeriveStageAlways(loaded, age, score) ==
    IF age <= 0 /\ loaded.heard = "no" THEN "NEW" ELSE StageOf(score)

\* A decommissioned device stays so; one that was installed less than two weeks
\* ago (0 months), or is to be, and was never heard of is NEW.
DeriveStage(loaded, age, score) ==
    CASE loaded.stage = "DECOMMISSIONED" -> "DECOMMISSIONED"
      [] loaded.stage # "DECOMMISSIONED" /\ age <= 0 /\ loaded.heard = "no" -> "NEW"
      [] loaded.stage # "DECOMMISSIONED" /\ ~(age <= 0 /\ loaded.heard = "no") -> StageOf(score)

\* What it computes from the age, the heartbeat and the readings of that moment.
Assessments(loaded) ==
    LET result(age, offline, breaches) ==
          {[stage |-> DeriveStage(loaded, age, s), score |-> s] :
             s \in WeightedScores(AgeScore(age, Lifespan),
                                  ConnectivityScore(IF loaded.heard = "no" THEN 0 ELSE offline),
                                  TelemetryScore(breaches, Checks))}
    IN UNION {result(age, offline, breaches) : age \in Ages, offline \in Offline, breaches \in Breaches}

Assess(d, loaded) ==
    \E a \in Assessments(loaded) :
        row' = [row EXCEPT ![d] = [stage |-> a.stage, score |-> a.score, heard |-> @.heard]]

-----------------------------------------------------------------------------
(***************************************************************************)
(* Requests: GET lifecycle, PUT lifecycle, POST decommission               *)
(***************************************************************************)
Load(q, d, pc, entity) ==
    /\ request[q] = Idle
    /\ request' = [request EXCEPT ![q] = [pc |-> pc, device |-> d, loaded |-> entity, columns |-> {}]]
    /\ UNCHANGED <<row, sweep, due, faults>>

GetAssessment(q, d) == Load(q, d, "assess", row[d])

UpdateConfig(q, d) == Load(q, d, "edit", row[d])

Decommission(q, d) ==
    Load(q, d, "retire", [row[d] EXCEPT !.stage = "DECOMMISSIONED", !.score = None])

\* save reads the row ...
Diff(q, pc, next) ==
    /\ request[q].pc = pc
    /\ LET differs(c) == request[q].loaded[c] # row[request[q].device][c]
       IN request' = [request EXCEPT ![q].pc = next,
                                     ![q].columns = {c \in {"stage", "score", "heard"} : differs(c)}]
    /\ UNCHANGED <<row, sweep, due, faults>>

DiffConfig(q)       == Diff(q, "edit", "edited")
DiffDecommission(q) == Diff(q, "retire", "retired")

\* ... and writes what differs from it.
Saved(old, job) == [c \in {"stage", "score", "heard"} |-> IF c \in job.columns THEN job.loaded[c] ELSE old[c]]

Save(q) == row' = [row EXCEPT ![request[q].device] = Saved(@, request[q])]

\* mutant: the edit does not assess the device again.
SaveConfigOnly(q) ==
    /\ request[q].pc = "edited"
    /\ Save(q)
    /\ request' = [request EXCEPT ![q] = Idle]
    /\ UNCHANGED <<sweep, due, faults>>

\* The edited entity is saved, then assessed.
SaveConfig(q) ==
    /\ request[q].pc = "edited"
    /\ Save(q)
    /\ request' = [request EXCEPT ![q].pc = "reassess"]
    /\ UNCHANGED <<sweep, due, faults>>

SaveDecommission(q) ==
    /\ request[q].pc = "retired"
    /\ Save(q)
    /\ request' = [request EXCEPT ![q] = Idle]
    /\ UNCHANGED <<sweep, due, faults>>

AssessLoaded(q) ==
    /\ request[q].pc \in {"assess", "reassess"}
    /\ Assess(request[q].device, request[q].loaded)
    /\ request' = [request EXCEPT ![q] = Idle]
    /\ UNCHANGED <<sweep, due, faults>>

Fault == faults < MaxFaults /\ faults' = faults + 1

RequestFails(q) ==
    /\ request[q] # Idle
    /\ Fault
    /\ request' = [request EXCEPT ![q] = Idle]
    /\ UNCHANGED <<row, sweep, due>>

-----------------------------------------------------------------------------
(***************************************************************************)
(* assessAllDevices                                                        *)
(***************************************************************************)
StartSweep ==
    /\ sweep = NoSweep
    /\ LET selected == {d \in Devices : row[d].stage # "DECOMMISSIONED"}
       IN sweep' = [d \in selected |-> row[d]] /\ due' = selected
    /\ UNCHANGED <<row, request, faults>>

Without(d) == [e \in DOMAIN sweep \ {d} |-> sweep[e]]

SweepAssess(d) ==
    /\ d \in DOMAIN sweep
    /\ Assess(d, sweep[d])
    /\ sweep' = Without(d)
    /\ due' = due \ {d}
    /\ UNCHANGED <<request, faults>>

\* mutant: one try block around the whole loop.
SweepFailsAll(d) ==
    /\ d \in DOMAIN sweep
    /\ Fault
    /\ sweep' = NoSweep
    /\ due' = due \ {d}
    /\ UNCHANGED <<row, request>>

\* A device that cannot be assessed is logged, the loop goes on.
SweepFails(d) ==
    /\ d \in DOMAIN sweep
    /\ Fault
    /\ sweep' = Without(d)
    /\ due' = due \ {d}
    /\ UNCHANGED <<row, request>>

\* The device is heard of: lastSeenAt is set.
Hear(d) ==
    /\ row[d].heard = "no"
    /\ row' = [row EXCEPT ![d].heard = "yes"]
    /\ UNCHANGED <<request, sweep, due, faults>>

Next ==
    \/ \E q \in Requests, d \in Devices : GetAssessment(q, d) \/ UpdateConfig(q, d) \/ Decommission(q, d)
    \/ \E q \in Requests :
          \/ DiffConfig(q) \/ SaveConfig(q) \/ AssessLoaded(q)
          \/ DiffDecommission(q) \/ SaveDecommission(q)
          \/ RequestFails(q)
    \/ StartSweep
    \/ \E d \in Devices : SweepAssess(d) \/ SweepFails(d) \/ Hear(d)

Spec == Init /\ [][Next]_vars

-----------------------------------------------------------------------------
(***************************************************************************)
(* Properties                                                              *)
(***************************************************************************)

\* An edit of d has saved its entity and not assessed d yet.
BeingEdited(d) == \E q \in Requests : request[q].pc = "reassess" /\ request[q].device = d

\* The stage of d is the one its score stands for.
Fits(d) ==
    row[d].stage \in {"NEW", "DECOMMISSIONED"} \/ row[d].score = None \/ row[d].stage = StageOf(row[d].score)

\* "everything else is derived from score": an edit that overlaps assessments may
\* put back the score without the stage, but it assesses the device afterwards;
\* as long as no database error prevents that, stage and score of a device nobody
\* is editing belong together, whatever else is at work on it.
StageFitsScore == faults = 0 => \A d \in Devices : BeingEdited(d) \/ Fits(d)

\* Nobody holds a copy of d from before it was decommissioned.
Retired(d) ==
    /\ row[d].stage = "DECOMMISSIONED"
    /\ \A q \in Requests : request[q] # Idle /\ request[q].device = d
                             => request[q].loaded.stage = "DECOMMISSIONED"
    /\ d \in DOMAIN sweep => sweep[d].stage = "DECOMMISSIONED"

\* A device decommissioned while nothing else was at work on it is retired for
\* good: no later assessment, edit or sweep brings it back.
RetiredForGood == [][\A d \in Devices : Retired(d) => Retired(d)']_vars

\* A device that cannot be assessed does not keep the sweep from the others: when
\* it is over, every device it selected was tried.
NobodySkipped == sweep = NoSweep => due = {}

=============================================================================
