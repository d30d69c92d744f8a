---------------------------- MODULE AssetScoring ----------------------------
(***************************************************************************)
(* The health index of an asset, 0 to 100: its age, and the connectivity   *)
(* and telemetry of the nodes attached to it, pooled by their weights.     *)
(* "weight" maps the attached nodes to their weights and "reading" maps    *)
(* every node to what its device reports.                                  *)
(***************************************************************************)
EXTENDS Integers, FiniteSetsExt

H == INSTANCE HealthScoring

\* The sum over the attached nodes of a figure of theirs times the node's weight.
WeightedSum(weight, figure) == MapThenSumSet(LAMBDA n : weight[n] * figure[n], DOMAIN weight)

\* The weighted mean; nodes that all weigh nothing count as connected.
PooledConnectivity(weight, reading) ==
    LET total == WeightedSum(weight, [n \in DOMAIN weight |-> 1])
    IN IF total = 0 THEN 100
       ELSE H!RoundedRatio(WeightedSum(weight, [n \in DOMAIN weight |-> H!ConnectivityScore(reading[n].hours)]),
                           total)

PooledTelemetry(weight, reading) ==
    H!TelemetryScore(WeightedSum(weight, [n \in DOMAIN weight |-> reading[n].breaches]),
                     WeightedSum(weight, [n \in DOMAIN weight |-> reading[n].checks]))

\* mutant: the weights add up to more than one.
HeavierAgeWeight == 25

AgeWeight == 20

ConnectivityWeight == 30
TelemetryWeight    == 50

\* The weighted sum, rounded.  A sum exactly between two integers may have come
\* out a little below that and round down.
WeightedScores(age, connectivity, telemetry) ==
    LET sum == AgeWeight * age + ConnectivityWeight * connectivity + TelemetryWeight * telemetry
    IN {H!RoundedRatio(sum, 100)} \cup {s \in {sum \div 100} : sum % 100 = 50}

Unassessed == [index |-> -1, status |-> "UNKNOWN"]

StatusOf(score) ==
    CASE score >= 80 -> "HEALTHY"
      [] score >= 50 /\ score < 80 -> "WARNING"
      [] score < 50 -> "CRITICAL"

\* The assessments an asset may get; without nodes it has no index.
Assessments(life, weight, reading) ==
    IF DOMAIN weight = {} THEN {Unassessed}
    ELSE {[index |-> s, status |-> StatusOf(s)] :
             s \in WeightedScores(H!AgeScore(life.months, life.lifespan),
                                  PooledConnectivity(weight, reading), PooledTelemetry(weight, reading))}
=============================================================================
