----------------------- MODULE DeviceLifecycle_proofs -----------------------
(***************************************************************************)
(* Every row is well typed, its score in range; a stage fits its score     *)
(* unless an edit is half done; and a device that was decommissioned while *)
(* nobody held an older copy of it stays decommissioned.  For any devices, *)
(* requests and observations.                                              *)
(***************************************************************************)
EXTENDS DeviceLifecycle, TLAPS

-----------------------------------------------------------------------------
(***************************************************************************)
(* Scoring: the scores are in range and a worse device never gets a better *)
(* stage, for all ages, offline times, readings and factor scores.         *)
(***************************************************************************)
\* A factor is between 0 and 100 whatever was measured.
LEMMA RemainingInRange ==
  ASSUME NEW used \in Nat, NEW whole \in Nat \ {0} PROVE Remaining(used, whole) \in 0 .. 100
<1>1. CASE used >= whole
  BY <1>1 DEF Remaining
<1>2. CASE used < whole
  <2> DEFINE n == 2 * (100 * (whole - used)) + whole
             d == 2 * whole
             r == n \div d
  <2>1. n \in Nat /\ d \in Nat \ {0}
    BY <1>2
  <2>2. n < 101 * d
    BY <1>2
  <2>3. r \in Int /\ d * r <= n /\ n < d * (r + 1)
    <3> HIDE DEF n, d
    <3>1. QED
      BY <2>1
  <2>4. r \in 0 .. 100
    <3> HIDE DEF n, d, r
    <3>1. QED
      BY <2>1, <2>2, <2>3, SMTT(30)
  <2>5. Remaining(used, whole) = r
    BY <1>2 DEF Remaining, RoundedRatio
  <2>6. QED
    BY <2>4, <2>5
<1>3. QED
  BY <1>1, <1>2

\* Integer division by a hundred.
LEMMA Division ==
  ASSUME NEW n \in Nat, NEW d \in Nat \ {0}
  PROVE  n \div d \in Int /\ d * (n \div d) <= n /\ n < d * (n \div d) + d
OBVIOUS

\* "0-100 weighted average of the factors": the score is in range.
THEOREM ScoreInRange ==
  ASSUME NEW a \in 0 .. 100, NEW c \in 0 .. 100, NEW t \in 0 .. 100,
         NEW s \in WeightedScores(a, c, t)
  PROVE  s \in 0 .. 100
<1> DEFINE sum == 25 * a + 35 * c + 40 * t
<1>1. sum \in Int /\ 0 <= sum /\ sum <= 10000
  OBVIOUS
<1>2. s = (2 * sum + 100) \div 200 \/ s = sum \div 100
  BY DEF WeightedScores, RoundedRatio, AgeWeight, ConnectivityWeight, TelemetryWeight
<1> HIDE DEF sum
<1>3. CASE s = (2 * sum + 100) \div 200
  <2>1. 2 * sum + 100 \in Nat
    BY <1>1
  <2>2. s \in Int /\ 200 * s <= 2 * sum + 100 /\ 2 * sum + 100 < 200 * s + 200
    BY <1>3, <2>1, Division
  <2>3. QED
    BY <1>1, <2>2
<1>4. CASE s = sum \div 100
  <2>1. sum \in Nat
    BY <1>1
  <2>2. s \in Int /\ 100 * s <= sum /\ sum < 100 * s + 100
    BY <1>4, <2>1, Division
  <2>3. QED
    BY <1>1, <2>2
<1>5. QED
  BY <1>2, <1>3, <1>4

\* A device that is worse, or no better, in every factor never has a better stage.
THEOREM WorseNeverBetter ==
  ASSUME NEW a \in 0 .. 100, NEW c \in 0 .. 100, NEW t \in 0 .. 100,
         NEW a1 \in 0 .. a, NEW c1 \in 0 .. c, NEW t1 \in 0 .. t,
         <<a1, c1, t1>> # <<a, c, t>>,
         NEW s \in WeightedScores(a, c, t), NEW s1 \in WeightedScores(a1, c1, t1)
  PROVE  s1 <= s /\ StageRank[StageOf(s1)] >= StageRank[StageOf(s)]
<1> DEFINE sum  == 25 * a + 35 * c + 40 * t
           sum1 == 25 * a1 + 35 * c1 + 40 * t1
<1>1. sum \in Nat /\ sum1 \in Nat /\ sum1 < sum
  OBVIOUS
<1>2. s = (2 * sum + 100) \div 200 \/ (s = sum \div 100 /\ sum % 100 = 50)
  BY DEF WeightedScores, RoundedRatio, AgeWeight, ConnectivityWeight, TelemetryWeight
<1>3. s1 = (2 * sum1 + 100) \div 200 \/ (s1 = sum1 \div 100 /\ sum1 % 100 = 50)
  BY DEF WeightedScores, RoundedRatio, AgeWeight, ConnectivityWeight, TelemetryWeight
<1> HIDE DEF sum, sum1
<1>4. s1 <= s /\ s \in Int /\ s1 \in Int
  BY <1>1, <1>2, <1>3
<1>5. StageRank[StageOf(s1)] >= StageRank[StageOf(s)]
  BY <1>4 DEF StageRank, StageOf
<1>6. QED
  BY <1>4, <1>5

-----------------------------------------------------------------------------
(***************************************************************************)
(* The rows, and what assessments and edits make of them.                  *)
(***************************************************************************)
Columns == {"stage", "score", "heard"}

\* There are six stages.
LEMMA StageValues == Stages = {"ACTIVE", "AGING", "MAINTENANCE_DUE", "END_OF_LIFE", "NEW", "DECOMMISSIONED"}
BY DEF Stages, StageRank

\* The stage an assessment derives, of a score in range.
LEMMA DerivedStage ==
  ASSUME NEW loaded \in Row, NEW age \in Int, NEW s \in 0 .. 100
  PROVE  /\ DeriveStage(loaded, age, s) \in Stages
         /\ DeriveStage(loaded, age, s) \in {"NEW", "DECOMMISSIONED"} \/ DeriveStage(loaded, age, s) = StageOf(s)
         /\ loaded.stage = "DECOMMISSIONED" => DeriveStage(loaded, age, s) = "DECOMMISSIONED"
<1>1. StageOf(s) \in {"ACTIVE", "AGING", "MAINTENANCE_DUE", "END_OF_LIFE"}
  BY DEF StageOf
<1>2. CASE loaded.stage = "DECOMMISSIONED"
  BY <1>2, StageValues DEF DeriveStage
<1>3. CASE loaded.stage # "DECOMMISSIONED" /\ age <= 0 /\ loaded.heard = "no"
  BY <1>3, StageValues DEF DeriveStage
<1>4. CASE loaded.stage # "DECOMMISSIONED" /\ ~(age <= 0 /\ loaded.heard = "no")
  <2>1. DeriveStage(loaded, age, s) = StageOf(s)
    BY <1>4 DEF DeriveStage
  <2>2. QED
    BY <1>1, <1>4, <2>1, StageValues
<1>5. QED
  BY <1>2, <1>3, <1>4

\* What an assessment writes: a score in range and the stage it stands for.
LEMMA Assessed ==
  ASSUME NEW loaded \in Row, NEW a \in Assessments(loaded)
  PROVE  /\ a.stage \in Stages
         /\ a.score \in 0 .. 100
         /\ a.stage \in {"NEW", "DECOMMISSIONED"} \/ a.stage = StageOf(a.score)
         /\ loaded.stage = "DECOMMISSIONED" => a.stage = "DECOMMISSIONED"
<1>1. PICK age \in Ages, offline \in Offline, breaches \in Breaches :
        \E s \in WeightedScores(AgeScore(age, Lifespan),
                                ConnectivityScore(IF loaded.heard = "no" THEN 0 ELSE offline),
                                TelemetryScore(breaches, Checks)) :
          a = [stage |-> DeriveStage(loaded, age, s), score |-> s]
  BY DEF Assessments
<1> DEFINE off == IF loaded.heard = "no" THEN 0 ELSE offline
<1>2. age \in Int /\ off \in Nat /\ breaches \in Nat /\ Checks \in Nat
  BY ObservationsAssumption
<1>3. PICK s \in WeightedScores(AgeScore(age, Lifespan), ConnectivityScore(off), TelemetryScore(breaches, Checks)) :
        a = [stage |-> DeriveStage(loaded, age, s), score |-> s]
  BY <1>1
<1>4. AgeScore(age, Lifespan) \in 0 .. 100
  BY <1>2, RemainingInRange DEF AgeScore, Lifespan
<1>5. ConnectivityScore(off) \in 0 .. 100
  <2> HIDE DEF off
  <2>1. QED
    BY <1>2, RemainingInRange DEF ConnectivityScore, FullDegradeHours
<1>6. TelemetryScore(breaches, Checks) \in 0 .. 100
  <2>1. CASE Checks = 0
    BY <2>1 DEF TelemetryScore
  <2>2. CASE Checks # 0
    BY <1>2, <2>2, RemainingInRange DEF TelemetryScore
  <2>3. QED
    BY <2>1, <2>2
<1>7. s \in 0 .. 100
  <2> HIDE DEF off
  <2>1. QED
    BY <1>3, <1>4, <1>5, <1>6, ScoreInRange
<1>8. a.stage = DeriveStage(loaded, age, s) /\ a.score = s
  BY <1>3
<1>9. QED
  BY <1>2, <1>7, <1>8, DerivedStage

-----------------------------------------------------------------------------
(***************************************************************************)
(* The invariant: types, and that a decommission saves no score.           *)
(***************************************************************************)
RetiresCleared ==
    \A q \in Requests : request[q].pc \in {"retire", "retired"}
                          => request[q].loaded.stage = "DECOMMISSIONED" /\ request[q].loaded.score = None

IInv == TypeOK /\ RetiresCleared /\ StageFitsScore

\* A row put together from a row and the columns of a job is a row.
LEMMA SavedRow ==
  ASSUME NEW old \in Row, NEW job \in Job
  PROVE  /\ Saved(old, job) \in Row
         /\ Saved(old, job).stage \in {old.stage, job.loaded.stage}
         /\ Saved(old, job).score \in {old.score, job.loaded.score}
<1>1. job.loaded \in Row
  BY DEF Job
<1>2. Saved(old, job).stage \in {old.stage, job.loaded.stage}
  BY DEF Saved
<1>3. Saved(old, job).score \in {old.score, job.loaded.score}
  BY DEF Saved
<1>4. Saved(old, job) \in Row
  BY <1>1 DEF Saved, Row
<1>5. QED
  BY <1>2, <1>3, <1>4

\* A request that is not idle has a job.
LEMMA JobOrIdle ==
  ASSUME TypeOK, NEW q \in Requests
  PROVE  /\ request[q] # Idle => request[q] \in Job
         /\ request[q].pc # "idle" => request[q] \in Job
BY DEF TypeOK, Idle

\* An assessment of d writes a row that is typed and fits.
LEMMA AssessRow ==
  ASSUME TypeOK, NEW d \in Devices, NEW loaded \in Row, Assess(d, loaded)
  PROVE  /\ row' \in [Devices -> Row]
         /\ Fits(d)'
         /\ \A e \in Devices \ {d} : row'[e] = row[e]
         /\ loaded.stage = "DECOMMISSIONED" => row'[d].stage = "DECOMMISSIONED"
<1>1. PICK a \in Assessments(loaded) :
        row' = [row EXCEPT ![d] = [stage |-> a.stage, score |-> a.score, heard |-> @.heard]]
  BY DEF Assess
<1>2. /\ a.stage \in Stages /\ a.score \in 0 .. 100
      /\ a.stage \in {"NEW", "DECOMMISSIONED"} \/ a.stage = StageOf(a.score)
      /\ loaded.stage = "DECOMMISSIONED" => a.stage = "DECOMMISSIONED"
  BY <1>1, Assessed
<1>3. row \in [Devices -> Row] /\ row[d].heard \in {"yes", "no"}
  BY DEF TypeOK, Row
<1>4. row'[d] = [stage |-> a.stage, score |-> a.score, heard |-> row[d].heard]
  BY <1>1, <1>3
<1>5. [stage |-> a.stage, score |-> a.score, heard |-> row[d].heard] \in Row
  BY <1>2, <1>3 DEF Row, None
<1>6. row' \in [Devices -> Row] /\ \A e \in Devices \ {d} : row'[e] = row[e]
  BY <1>1, <1>3, <1>5
<1>7. QED
  BY <1>2, <1>4, <1>6 DEF Fits

-----------------------------------------------------------------------------
(***************************************************************************)
(* Type correctness                                                        *)
(***************************************************************************)
LEMMA NewJob ==
  ASSUME TypeOK, NEW q \in Requests, NEW job \in Job \cup {Idle},
         request' = [request EXCEPT ![q] = job]
  PROVE  request' \in [Requests -> Job \cup {Idle}]
BY DEF TypeOK

\* Devices are registered with types that are right,
LEMMA TypeInit == Init => TypeOK
BY StageValues, MaxFaultsAssumption DEF Init, TypeOK, Registered, NoSweep, Row, None

\* loading one keeps them,
LEMMA LoadType ==
  ASSUME TypeOK, NEW q \in Requests, NEW d \in Devices, NEW entity \in Row,
         NEW pc \in {"assess", "edit", "retire"}, Load(q, d, pc, entity)
  PROVE  TypeOK'
<1>1. [pc |-> pc, device |-> d, loaded |-> entity, columns |-> {}] \in Job
  BY DEF Job
<1>2. request' \in [Requests -> Job \cup {Idle}]
  BY <1>1, NewJob DEF Load
<1>3. QED
  BY <1>2 DEF TypeOK, Load

\* so does the select of a save,
LEMMA DiffType ==
  ASSUME TypeOK, NEW q \in Requests, NEW pc \in {"edit", "retire"}, NEW next \in {"edited", "retired"},
         Diff(q, pc, next)
  PROVE  TypeOK'
<1>1. request[q] \in Job
  BY JobOrIdle DEF Diff
<1> DEFINE job == [request[q] EXCEPT !.pc = next,
                     !.columns = {c \in {"stage", "score", "heard"} :
                                    request[q].loaded[c] # row[request[q].device][c]}]
<1>2. job \in Job
  BY <1>1 DEF Job
<1>3. request' = [request EXCEPT ![q] = job]
  BY DEF Diff, TypeOK
<1>4. request' \in [Requests -> Job \cup {Idle}]
  <2> HIDE DEF job
  <2>1. QED
    BY <1>2, <1>3, NewJob
<1>5. QED
  BY <1>4 DEF TypeOK, Diff

\* A save writes a row and leaves the others alone.
LEMMA SaveType ==
  ASSUME TypeOK, NEW q \in Requests, request[q] \in Job, Save(q)
  PROVE  /\ row' \in [Devices -> Row]
         /\ row'[request[q].device] = Saved(row[request[q].device], request[q])
         /\ \A e \in Devices \ {request[q].device} : row'[e] = row[e]
<1>1. request[q].device \in Devices /\ row \in [Devices -> Row]
  BY DEF Job, TypeOK
<1>2. Saved(row[request[q].device], request[q]) \in Row
  BY <1>1, SavedRow
<1>3. QED
  BY <1>1, <1>2 DEF Save

\* and so does every step.
LEMMA TypeStep == TypeOK /\ [Next]_vars => TypeOK'
<1> SUFFICES ASSUME TypeOK, [Next]_vars PROVE TypeOK'
  OBVIOUS
<1> Idle \in Job \cup {Idle}
  OBVIOUS
<1>1. CASE \E q \in Requests, d \in Devices : GetAssessment(q, d) \/ UpdateConfig(q, d) \/ Decommission(q, d)
  <2>1. PICK q \in Requests, d \in Devices : GetAssessment(q, d) \/ UpdateConfig(q, d) \/ Decommission(q, d)
    BY <1>1
  <2>2. row[d] \in Row
    BY DEF TypeOK
  <2>3. [row[d] EXCEPT !.stage = "DECOMMISSIONED", !.score = None] \in Row
    <3>1. "DECOMMISSIONED" \in Stages /\ None \in 0 .. None
      BY StageValues DEF None
    <3>2. QED
      BY <2>2, <3>1 DEF Row
  <2>4. QED
    BY <2>1, <2>2, <2>3, LoadType DEF GetAssessment, UpdateConfig, Decommission
<1>2. ASSUME NEW q \in Requests, DiffConfig(q) \/ DiffDecommission(q) PROVE TypeOK'
  BY <1>2, DiffType DEF DiffConfig, DiffDecommission
<1>3. ASSUME NEW q \in Requests, SaveConfig(q) PROVE TypeOK'
  <2>1. request[q] \in Job
    BY <1>3, JobOrIdle DEF SaveConfig
  <2>2. [request[q] EXCEPT !.pc = "reassess"] \in Job
    BY <2>1 DEF Job
  <2>3. request' = [request EXCEPT ![q] = [request[q] EXCEPT !.pc = "reassess"]]
    BY <1>3 DEF SaveConfig, TypeOK
  <2>4. request' \in [Requests -> Job \cup {Idle}]
    BY <2>2, <2>3, NewJob
  <2>5. row' \in [Devices -> Row]
    BY <1>3, <2>1, SaveType DEF SaveConfig
  <2>6. QED
    BY <1>3, <2>4, <2>5 DEF SaveConfig, TypeOK
<1>4. ASSUME NEW q \in Requests, SaveDecommission(q) PROVE TypeOK'
  <2>1. request[q] \in Job
    BY <1>4, JobOrIdle DEF SaveDecommission
  <2>2. row' \in [Devices -> Row]
    BY <1>4, <2>1, SaveType DEF SaveDecommission
  <2>3. QED
    BY <1>4, <2>2 DEF SaveDecommission, TypeOK
<1>5. ASSUME NEW q \in Requests, AssessLoaded(q) PROVE TypeOK'
  <2>1. request[q] \in Job
    BY <1>5, JobOrIdle DEF AssessLoaded
  <2>2. request[q].device \in Devices /\ request[q].loaded \in Row
    BY <2>1 DEF Job
  <2>3. row' \in [Devices -> Row]
    BY <1>5, <2>2, AssessRow DEF AssessLoaded
  <2>4. QED
    BY <1>5, <2>3 DEF AssessLoaded, TypeOK
<1>6. ASSUME NEW q \in Requests, RequestFails(q) PROVE TypeOK'
  BY <1>6, MaxFaultsAssumption DEF RequestFails, Fault, TypeOK
<1>7. CASE StartSweep
  BY <1>7 DEF StartSweep, TypeOK
<1>8. ASSUME NEW d \in Devices, SweepAssess(d) PROVE TypeOK'
  <2>1. sweep[d] \in Row
    BY <1>8 DEF SweepAssess, TypeOK
  <2>2. row' \in [Devices -> Row]
    BY <1>8, <2>1, AssessRow DEF SweepAssess
  <2>3. QED
    BY <1>8, <2>2 DEF SweepAssess, Without, TypeOK
<1>9. ASSUME NEW d \in Devices, SweepFails(d) PROVE TypeOK'
  BY <1>9, MaxFaultsAssumption DEF SweepFails, Fault, Without, TypeOK
<1>10. ASSUME NEW d \in Devices, Hear(d) PROVE TypeOK'
  BY <1>10 DEF Hear, TypeOK, Row
<1>11. CASE UNCHANGED vars
  BY <1>11 DEF vars, TypeOK
<1>12. QED
  BY <1>1, <1>2, <1>3, <1>4, <1>5, <1>6, <1>7, <1>8, <1>9, <1>10, <1>11 DEF Next

\* Rows, requests and the sweep's copies are well typed, every score in range.
THEOREM TypeCorrect == Spec => []TypeOK
<1>1. QED
  BY TypeInit, TypeStep, PTL DEF Spec

-----------------------------------------------------------------------------
(***************************************************************************)
(* StageFitsScore                                                          *)
(***************************************************************************)
LEMMA ClearedStep == TypeOK /\ RetiresCleared /\ [Next]_vars => RetiresCleared'
<1> SUFFICES ASSUME TypeOK, RetiresCleared, [Next]_vars PROVE RetiresCleared'
  OBVIOUS
<1>0. request \in [Requests -> Job \cup {Idle}] /\ Idle.pc = "idle"
  BY DEF TypeOK, Idle
<1>1. ASSUME NEW q \in Requests, NEW d \in Devices, GetAssessment(q, d) \/ UpdateConfig(q, d)
      PROVE  RetiresCleared'
  BY <1>0, <1>1 DEF GetAssessment, UpdateConfig, Load, RetiresCleared
<1>2. ASSUME NEW q \in Requests, NEW d \in Devices, Decommission(q, d) PROVE RetiresCleared'
  <2>1. row[d] \in Row
    BY DEF TypeOK
  <2>2. LET entity == [row[d] EXCEPT !.stage = "DECOMMISSIONED", !.score = None]
        IN entity.stage = "DECOMMISSIONED" /\ entity.score = None
    BY <2>1 DEF Row
  <2>3. QED
    BY <1>0, <1>2, <2>2 DEF Decommission, Load, RetiresCleared
<1>3. ASSUME NEW q \in Requests, DiffConfig(q) PROVE RetiresCleared'
  BY <1>0, <1>3 DEF DiffConfig, Diff, RetiresCleared, Job
<1>4. ASSUME NEW q \in Requests, DiffDecommission(q) PROVE RetiresCleared'
  BY <1>0, <1>4 DEF DiffDecommission, Diff, RetiresCleared, Job
<1>5. ASSUME NEW q \in Requests, SaveConfig(q) PROVE RetiresCleared'
  BY <1>0, <1>5 DEF SaveConfig, RetiresCleared, Job
<1>6. ASSUME NEW q \in Requests,
             SaveDecommission(q) \/ AssessLoaded(q) \/ RequestFails(q)
      PROVE  RetiresCleared'
  BY <1>0, <1>6 DEF SaveDecommission, AssessLoaded, RequestFails, RetiresCleared
<1>7. CASE UNCHANGED request
  BY <1>7 DEF RetiresCleared
<1>8. StartSweep => UNCHANGED request
  BY DEF StartSweep
<1>9. ASSUME NEW d \in Devices, SweepAssess(d) \/ SweepFails(d) \/ Hear(d) PROVE UNCHANGED request
  BY <1>9 DEF SweepAssess, SweepFails, Hear
<1>10. QED
  BY <1>1, <1>2, <1>3, <1>4, <1>5, <1>6, <1>7, <1>8, <1>9 DEF Next, vars

\* A step that changes no row and takes no edit out of its window.
LEMMA FitsKept ==
  ASSUME StageFitsScore, UNCHANGED row, faults' = 0 => faults = 0,
         \A q \in Requests : request[q].pc = "reassess"
                              => request'[q].pc = "reassess" /\ request'[q].device = request[q].device
  PROVE  StageFitsScore'
BY DEF StageFitsScore, BeingEdited, Fits

\* Each step leaves stage and score fitting each other.
LEMMA FitsStep == IInv /\ [Next]_vars => StageFitsScore'
<1> SUFFICES ASSUME IInv, [Next]_vars PROVE StageFitsScore'
  OBVIOUS
<1> USE DEF IInv
<1>0. /\ request \in [Requests -> Job \cup {Idle}] /\ Idle.pc = "idle"
      /\ row \in [Devices -> Row] /\ faults \in Nat
  BY MaxFaultsAssumption DEF TypeOK, Idle
<1>1. ASSUME NEW q \in Requests, NEW d \in Devices,
             GetAssessment(q, d) \/ UpdateConfig(q, d) \/ Decommission(q, d)
      PROVE  StageFitsScore'
  BY <1>0, <1>1, FitsKept DEF GetAssessment, UpdateConfig, Decommission, Load
<1>2. ASSUME NEW q \in Requests, DiffConfig(q) \/ DiffDecommission(q) PROVE StageFitsScore'
  BY <1>0, <1>2, FitsKept DEF DiffConfig, DiffDecommission, Diff, Job
<1>3. ASSUME NEW q \in Requests, SaveConfig(q) PROVE StageFitsScore'
  <2>1. request[q] \in Job
    BY <1>3, JobOrIdle DEF SaveConfig
  <2>2. request'[q].pc = "reassess" /\ request'[q].device = request[q].device
    BY <1>0, <1>3, <2>1 DEF SaveConfig, Job
  <2>3. \A p \in Requests \ {q} : request'[p] = request[p]
    BY <1>0, <1>3 DEF SaveConfig
  <2>4. \A e \in Devices \ {request[q].device} : row'[e] = row[e]
    BY <1>3, <2>1, SaveType DEF SaveConfig
  <2>5. BeingEdited(request[q].device)'
    BY <2>2 DEF BeingEdited
  <2>6. ASSUME NEW e \in Devices \ {request[q].device}, BeingEdited(e) PROVE BeingEdited(e)'
    BY <1>3, <2>3, <2>6 DEF BeingEdited, SaveConfig
  <2>7. QED
    BY <1>3, <2>4, <2>5, <2>6 DEF StageFitsScore, Fits, SaveConfig
<1>4. ASSUME NEW q \in Requests, SaveDecommission(q) PROVE StageFitsScore'
  <2>0. request[q] \in Job /\ request[q].device \in Devices
    BY <1>4, JobOrIdle DEF SaveDecommission, Job
  <2>1. PICK d \in Devices : d = request[q].device
    BY <2>0
  <2>2. request[q].loaded.stage = "DECOMMISSIONED" /\ request[q].loaded.score = None
    BY <1>4 DEF SaveDecommission, RetiresCleared
  <2>3. row'[d] = Saved(row[d], request[q]) /\ \A e \in Devices \ {d} : row'[e] = row[e]
    BY <1>4, <2>0, <2>1, SaveType DEF SaveDecommission
  <2>4. row'[d].stage \in {row[d].stage, "DECOMMISSIONED"} /\ row'[d].score \in {row[d].score, None}
    <3>1. row[d] \in Row
      BY <1>0, <2>1
    <3>2. QED
      BY <2>0, <2>2, <2>3, <3>1, SavedRow
  <2>5. Fits(d) => Fits(d)'
    BY <2>4 DEF Fits
  <2>6. \A e \in Devices \ {d} : Fits(e) => Fits(e)'
    BY <2>3 DEF Fits
  <2>7. \A e \in Devices : BeingEdited(e) => BeingEdited(e)'
    BY <1>0, <1>4 DEF BeingEdited, SaveDecommission
  <2>8. QED
    BY <1>4, <2>1, <2>5, <2>6, <2>7 DEF StageFitsScore, SaveDecommission
<1>5. ASSUME NEW q \in Requests, AssessLoaded(q) PROVE StageFitsScore'
  <2>0. request[q].device \in Devices /\ request[q].loaded \in Row
    BY <1>5, JobOrIdle DEF AssessLoaded, Job
  <2>1. PICK d \in Devices : d = request[q].device
    BY <2>0
  <2>2. Fits(d)' /\ \A e \in Devices \ {d} : row'[e] = row[e]
    BY <1>5, <2>0, <2>1, AssessRow DEF AssessLoaded
  <2>3. \A e \in Devices \ {d} : BeingEdited(e) => BeingEdited(e)'
    BY <1>0, <1>5, <2>1 DEF BeingEdited, AssessLoaded
  <2>4. QED
    BY <1>5, <2>1, <2>2, <2>3 DEF StageFitsScore, Fits, AssessLoaded
<1>6. ASSUME NEW q \in Requests, RequestFails(q) PROVE StageFitsScore'
  BY <1>0, <1>6 DEF RequestFails, Fault, StageFitsScore
<1>7. CASE StartSweep
  BY <1>7, FitsKept DEF StartSweep
<1>8. ASSUME NEW d \in Devices, SweepAssess(d) PROVE StageFitsScore'
  <2>1. sweep[d] \in Row
    BY <1>8 DEF SweepAssess, TypeOK
  <2>2. Fits(d)' /\ \A e \in Devices \ {d} : row'[e] = row[e]
    BY <1>8, <2>1, AssessRow DEF SweepAssess
  <2>3. QED
    BY <1>8, <2>2 DEF StageFitsScore, Fits, BeingEdited, SweepAssess
<1>9. ASSUME NEW d \in Devices, SweepFails(d) PROVE StageFitsScore'
  BY <1>0, <1>9 DEF SweepFails, Fault, StageFitsScore
<1>10. ASSUME NEW d \in Devices, Hear(d) PROVE StageFitsScore'
  <2>1. \A e \in Devices : row'[e].stage = row[e].stage /\ row'[e].score = row[e].score
    BY <1>0, <1>10 DEF Hear, Row
  <2>2. QED
    BY <1>10, <2>1 DEF StageFitsScore, Fits, BeingEdited, Hear
<1>11. CASE UNCHANGED vars
  BY <1>11, FitsKept DEF vars
<1>12. QED
  BY <1>1, <1>2, <1>3, <1>4, <1>5, <1>6, <1>7, <1>8, <1>9, <1>10, <1>11 DEF Next

\* As long as no database error intervenes, the stage of a device nobody is editing
\* is the one its score stands for.
THEOREM StagesFit == Spec => []StageFitsScore
<1>1. Init => RetiresCleared /\ StageFitsScore
  BY DEF Init, Idle, Registered, RetiresCleared, StageFitsScore, Fits
<1>2. Init => IInv
  BY <1>1, TypeInit DEF IInv
<1>3. IInv /\ [Next]_vars => IInv'
  BY TypeStep, ClearedStep, FitsStep DEF IInv
<1>4. QED
  BY <1>2, <1>3, PTL DEF Spec, IInv

-----------------------------------------------------------------------------
(***************************************************************************)
(* RetiredForGood                                                          *)
(***************************************************************************)
LEMMA RetiredStep ==
  ASSUME TypeOK, [Next]_vars, NEW d \in Devices, Retired(d)
  PROVE  Retired(d)'
<1>0. /\ request \in [Requests -> Job \cup {Idle}] /\ Idle.pc = "idle"
      /\ row \in [Devices -> Row] /\ row[d] \in Row /\ row[d].stage = "DECOMMISSIONED"
  BY DEF TypeOK, Idle, Retired
<1>1. ASSUME NEW q \in Requests, NEW e \in Devices,
             GetAssessment(q, e) \/ UpdateConfig(q, e) \/ Decommission(q, e)
      PROVE  Retired(d)'
  <2>1. [row[d] EXCEPT !.stage = "DECOMMISSIONED", !.score = None].stage = "DECOMMISSIONED"
    BY <1>0 DEF Row
  <2>2. PICK pc \in {"assess", "edit", "retire"}, entity \in Row :
          Load(q, e, pc, entity) /\ (e = d => entity.stage = "DECOMMISSIONED")
    <3>1. row[e] \in Row
      BY DEF TypeOK
    <3>2. "DECOMMISSIONED" \in Stages /\ None \in 0 .. None
      BY StageValues DEF None
    <3>3. [row[e] EXCEPT !.stage = "DECOMMISSIONED", !.score = None] \in Row
      BY <3>1, <3>2 DEF Row
    <3>4. QED
      BY <1>0, <1>1, <2>1, <3>1, <3>3 DEF GetAssessment, UpdateConfig, Decommission
  <2>3. request'[q].device = e /\ request'[q].loaded = entity
    BY <1>0, <2>2 DEF Load
  <2>4. \A p \in Requests \ {q} : request'[p] = request[p]
    BY <1>0, <2>2 DEF Load
  <2>5. UNCHANGED <<row, sweep>>
    BY <2>2 DEF Load
  <2>6. QED
    BY <2>2, <2>3, <2>4, <2>5 DEF Retired
<1>2. ASSUME NEW q \in Requests, DiffConfig(q) \/ DiffDecommission(q) PROVE Retired(d)'
  <2>1. request[q] \in Job
    BY <1>2, JobOrIdle DEF DiffConfig, DiffDecommission, Diff
  <2>2. request'[q].device = request[q].device /\ request'[q].loaded = request[q].loaded
    BY <1>0, <1>2, <2>1 DEF DiffConfig, DiffDecommission, Diff, Job
  <2>3. request[q] # Idle
    BY <1>2 DEF DiffConfig, DiffDecommission, Diff, Idle
  <2>4. /\ \A p \in Requests \ {q} : request'[p] = request[p]
        /\ UNCHANGED <<row, sweep>>
    BY <1>0, <1>2 DEF DiffConfig, DiffDecommission, Diff
  <2>5. QED
    BY <2>2, <2>3, <2>4 DEF Retired
<1>3. ASSUME NEW q \in Requests, SaveConfig(q) \/ SaveDecommission(q) PROVE Retired(d)'
  <2>1. request[q] \in Job /\ request[q] # Idle
    BY <1>3, JobOrIdle DEF SaveConfig, SaveDecommission, Idle
  <2>2. request[q].device = d => request[q].loaded.stage = "DECOMMISSIONED"
    BY <2>1 DEF Retired
  <2>3. row'[d].stage = "DECOMMISSIONED"
    BY <1>0, <1>3, <2>1, <2>2, SaveType, SavedRow DEF SaveConfig, SaveDecommission
  <2>4. request'[q] = Idle \/ (request'[q].device = request[q].device /\ request'[q].loaded = request[q].loaded)
    BY <1>0, <1>3, <2>1 DEF SaveConfig, SaveDecommission, Job
  <2>5. \A p \in Requests \ {q} : request'[p] = request[p]
    BY <1>0, <1>3 DEF SaveConfig, SaveDecommission
  <2>6. sweep' = sweep
    BY <1>3 DEF SaveConfig, SaveDecommission
  <2>7. QED
    BY <2>1, <2>3, <2>4, <2>5, <2>6 DEF Retired
<1>4. ASSUME NEW q \in Requests, AssessLoaded(q) PROVE Retired(d)'
  <2>1. /\ request[q] \in Job /\ request[q] # Idle
        /\ request[q].device \in Devices /\ request[q].loaded \in Row
    BY <1>4, JobOrIdle DEF AssessLoaded, Idle, Job
  <2>2. request[q].device = d => request[q].loaded.stage = "DECOMMISSIONED"
    BY <2>1 DEF Retired
  <2>3. row'[d].stage = "DECOMMISSIONED"
    BY <1>0, <1>4, <2>1, <2>2, AssessRow DEF AssessLoaded
  <2>4. QED
    BY <1>0, <1>4, <2>3 DEF AssessLoaded, Retired
<1>5. ASSUME NEW q \in Requests, RequestFails(q) PROVE Retired(d)'
  BY <1>0, <1>5 DEF RequestFails, Retired
<1>6. CASE StartSweep
  BY <1>0, <1>6 DEF StartSweep, Retired
<1>7. ASSUME NEW e \in Devices, SweepAssess(e) PROVE Retired(d)'
  <2>1. e \in DOMAIN sweep /\ sweep[e] \in Row /\ (e = d => sweep[e].stage = "DECOMMISSIONED")
    BY <1>7 DEF SweepAssess, TypeOK, Retired
  <2>2. row'[d].stage = "DECOMMISSIONED"
    BY <1>0, <1>7, <2>1, AssessRow DEF SweepAssess
  <2>3. QED
    BY <1>7, <2>2 DEF SweepAssess, Without, Retired
<1>8. ASSUME NEW e \in Devices, SweepFails(e) PROVE Retired(d)'
  BY <1>8 DEF SweepFails, Without, Retired
<1>9. ASSUME NEW e \in Devices, Hear(e) PROVE Retired(d)'
  <2>1. row'[d].stage = "DECOMMISSIONED"
    BY <1>0, <1>9 DEF Hear, Row
  <2>2. QED
    BY <1>9, <2>1 DEF Hear, Retired
<1>10. CASE UNCHANGED vars
  BY <1>10 DEF vars, Retired
<1>11. QED
  BY <1>1, <1>2, <1>3, <1>4, <1>5, <1>6, <1>7, <1>8, <1>9, <1>10 DEF Next

\* A device that was decommissioned, with no older copy of it at work, stays so.
THEOREM RetirementIsFinal == Spec => RetiredForGood
<1>1. TypeOK /\ [Next]_vars => (\A d \in Devices : Retired(d) => Retired(d)')
  BY RetiredStep
<1>2. TypeOK /\ [Next]_vars => [\A d \in Devices : Retired(d) => Retired(d)']_vars
  BY <1>1
<1>3. QED
  BY <1>2, TypeCorrect, PTL DEF Spec, RetiredForGood

-----------------------------------------------------------------------------
(***************************************************************************)
(* Nobody is skipped: what a sweep has not tried is still on its list.     *)
(***************************************************************************)
Untried == due \subseteq DOMAIN sweep

\* Each step leaves on the list what the sweep has not tried.
LEMMA UntriedStep == Untried /\ [Next]_vars => Untried'
<1> SUFFICES ASSUME Untried, [Next]_vars PROVE Untried'
  OBVIOUS
<1>1. CASE UNCHANGED <<sweep, due>>
  BY <1>1 DEF Untried
<1>2. ASSUME NEW q \in Requests, NEW d \in Devices, GetAssessment(q, d) \/ UpdateConfig(q, d) \/ Decommission(q, d)
      PROVE  UNCHANGED <<sweep, due>>
  BY <1>2 DEF GetAssessment, UpdateConfig, Decommission, Load
<1>3. ASSUME NEW q \in Requests,
             DiffConfig(q) \/ SaveConfig(q) \/ AssessLoaded(q) \/ DiffDecommission(q) \/ SaveDecommission(q) \/ RequestFails(q)
      PROVE  UNCHANGED <<sweep, due>>
  BY <1>3 DEF DiffConfig, DiffDecommission, Diff, SaveConfig, SaveDecommission, AssessLoaded, RequestFails
<1>4. CASE StartSweep
  BY <1>4 DEF StartSweep, Untried
<1>5. ASSUME NEW d \in Devices, SweepAssess(d) PROVE Untried'
  BY <1>5 DEF SweepAssess, Without, Untried
<1>6. ASSUME NEW d \in Devices, SweepFails(d) PROVE Untried'
  BY <1>6 DEF SweepFails, Without, Untried
<1>7. ASSUME NEW d \in Devices, Hear(d) PROVE UNCHANGED <<sweep, due>>
  BY <1>7 DEF Hear
<1>8. CASE UNCHANGED vars
  BY <1>1, <1>8 DEF vars
<1>9. QED
  BY <1>1, <1>2, <1>3, <1>4, <1>5, <1>6, <1>7, <1>8 DEF Next

\* When a sweep is over, it has tried every device it selected, whatever failed.
THEOREM SweepSkipsNobody == Spec => []NobodySkipped
<1>1. Init => Untried
  BY DEF Init, Untried
<1>2. Untried => NobodySkipped
  BY DEF Untried, NobodySkipped, NoSweep
<1>3. QED
  BY <1>1, <1>2, UntriedStep, PTL DEF Spec
=============================================================================
