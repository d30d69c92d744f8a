---------------------------- MODULE HealthScoring ----------------------------
(***************************************************************************)
(* The health score of a device, 0 to 100 and higher is healthier: three   *)
(* factors, weighted, and the lifecycle stage the score stands for.  Ages  *)
(* are whole months and offline times whole hours; weights are percent.    *)
(***************************************************************************)
EXTENDS Integers

\* Math.round of n / d, for a natural n.
RoundedRatio(n, d) == (2 * n + d) \div (2 * d)

\* mutant: what is past the end of life counts against the other factors.
RemainingUnclamped(used, whole) == RoundedRatio(100 * (whole - used), whole)

\* The part of the whole that is left, rounded and clamped to 0 .. 100.
Remaining(used, whole) ==
    IF used >= whole THEN 0 ELSE RoundedRatio(100 * (whole - used), whole)

\* 100 at installation, which may be still to come, 0 from the end of the expected life on.
AgeScore(months, lifespan) == Remaining(IF months < 0 THEN 0 ELSE months, lifespan)

\* 100 while online or never heard of, 0 after three days without a heartbeat.
FullDegradeHours == 72
ConnectivityScore(offlineHours) == Remaining(offlineHours, FullDegradeHours)

\* The share of readings within their warning band; no readings count as fine.
TelemetryScore(breaches, checks) == IF checks = 0 THEN 100 ELSE Remaining(breaches, checks)

AgeWeight          == 25
ConnectivityWeight == 35
TelemetryWeight    == 40

\* The weighted sum, rounded.  The weights are binary fractions close to the
\* decimal ones, so a sum that lies exactly between two integers rounds up, or
\* down when the sum of the products came out a little below it.
WeightedScores(age, connectivity, telemetry) ==
    LET sum == AgeWeight * age + ConnectivityWeight * connectivity + TelemetryWeight * telemetry
    IN {RoundedRatio(sum, 100)} \cup {s \in {sum \div 100} : sum % 100 = 50}

StageOf(score) ==
    CASE score >= 80 -> "ACTIVE"
      [] score >= 60 /\ score < 80 -> "AGING"
      [] score >= 35 /\ score < 60 -> "MAINTENANCE_DUE"
      [] score < 35 -> "END_OF_LIFE"

\* How far a device has come in its life.
StageRank == [ACTIVE |-> 0, AGING |-> 1, MAINTENANCE_DUE |-> 2, END_OF_LIFE |-> 3]
=============================================================================
