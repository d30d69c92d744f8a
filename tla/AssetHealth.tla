----------------------------- MODULE AssetHealth -----------------------------
(***************************************************************************)
(* Assets and the device nodes attached to them.  Attaching, weighting and *)
(* detaching a node saves the whole device it loaded and assesses the      *)
(* asset, in one transaction; editing an asset saves the whole asset it    *)
(* loaded and assesses nothing; a request for the assessment and the       *)
(* nightly sweep assess too, outside any transaction.  An assessment loads *)
(* the attached nodes, counts the breaches of one after the other and      *)
(* stores the index later, with the life the asset had when it was loaded. *)
(***************************************************************************)
EXTENDS AssetScoring

CONSTANTS
    Assets, Nodes,
    Requests,   \* concurrent activations of the asset service
    Lives,      \* months in service (negative: still to come) and expected lifespan of an asset
    Weights,    \* what a node may weigh
    Readings,   \* hours offline, breaches and checks of a node
    MaxChanges, \* bound on requests and new readings
    MaxFaults   \* bound on failures

ASSUME NodesAssumption == IsFiniteSet(Nodes)
ASSUME BoundsAssumption == MaxChanges \in Nat /\ MaxFaults \in Nat
ASSUME LivesAssumption == \A l \in Lives : l.months \in Int /\ l.lifespan \in Nat \ {0}
ASSUME WeightsAssumption == 1 \in Weights /\ Weights \subseteq Nat
ASSUME ReadingsAssumption == \A r \in Readings : r.hours \in Nat /\ r.checks \in Nat /\ r.breaches \in 0 .. r.checks

VARIABLES
    asset,   \* assets: the life and the health columns, or "unborn" or "gone"
    node,    \* devices: asset_id and health_weight
    reading, \* what each device's connectivity and telemetry say
    job,     \* what each request, and the sweep, is doing
    todo,    \* what the running sweep still has to assess, as it loaded it
    count    \* changes and faults so far

vars == <<asset, node, reading, job, todo, count>>

Sweep == "sweep"
Jobs  == Requests \cup {Sweep}
None  == "none"
Idle  == [pc |-> "idle"]

\* A device that has not reported anything.
Unheard == [hours |-> 0, breaches |-> 0, checks |-> 0]

Unborn == [born |-> FALSE]
Gone   == [gone |-> TRUE]

\* The silence of one reading with the counts of a later one.
Heard == Readings \cup {Unheard}
Tells(h, r) == [hours |-> h.hours, breaches |-> r.breaches, checks |-> r.checks]
Told  == {Tells(h, r) : h, r \in Heard}

Statuses == {"UNKNOWN", "HEALTHY", "WARNING", "CRITICAL"}
AssetRow == [life : Lives, index : -1 .. 100, status : Statuses]
NodeRow  == [asset : Assets \cup {None}, weight : Weights]
Pending  == UNION {[ns -> NodeRow] : ns \in SUBSET Nodes}

SavingNode   == [pc : {"saveNode", "writeNode"}, asset : Assets, life : Lives, node : Nodes,
                 entity : NodeRow, columns : SUBSET {"asset", "weight"}]
Loading      == [pc : {"nodes"}, asset : Assets, life : Lives, pending : Pending]
Counting(ns) == [pc : {"counts"}, asset : Assets, life : Lives, weight : [ns -> Weights],
                 told : [ns -> Told], left : SUBSET ns, pending : Pending]
SavingAsset  == [pc : {"saveAsset", "writeAsset"}, asset : Assets, entity : AssetRow,
                 columns : SUBSET {"life", "index", "status"}]

Job == {Idle} \cup SavingNode \cup Loading \cup SavingAsset \cup UNION {Counting(ns) : ns \in SUBSET Nodes}

TypeOK ==
    /\ asset \in [Assets -> AssetRow \cup {Unborn, Gone}]
    /\ node \in [Nodes -> NodeRow]
    /\ reading \in [Nodes -> Heard]
    /\ job \in [Jobs -> Job]
    /\ todo \subseteq [asset : Assets, life : Lives]
    /\ count \in [changes : 0 .. MaxChanges, faults : 0 .. MaxFaults]

Exists(a)   == asset[a] \notin {Unborn, Gone}
New(life)   == [life |-> life, index |-> -1, status |-> "UNKNOWN"]
Weighing(view, a) == [n \in {n \in Nodes : view[n].asset = a} |-> view[n].weight]

Init ==
    /\ asset = [a \in Assets |-> Unborn]
    /\ node = [n \in Nodes |-> [asset |-> None, weight |-> 1]]
    /\ reading = [n \in Nodes |-> Unheard]
    /\ job = [j \in Jobs |-> Idle]
    /\ todo = {}
    /\ count = [changes |-> 0, faults |-> 0]

Change == count.changes < MaxChanges /\ count' = [count EXCEPT !.changes = @ + 1]
Fault  == count.faults < MaxFaults /\ count' = [count EXCEPT !.faults = @ + 1]

\* What save writes: the columns in which the entity differs from the row.
Differing(entity, stored) == {c \in DOMAIN entity : entity[c] # stored[c]}
Written(entity, columns, stored) == [c \in DOMAIN stored |-> IF c \in columns THEN entity[c] ELSE stored[c]]

-----------------------------------------------------------------------------
(***************************************************************************)
(* Creating, editing and deleting an asset                                 *)
(***************************************************************************)
CreateAsset(a) ==
    /\ asset[a] = Unborn
    /\ \E life \in Lives : asset' = [asset EXCEPT ![a] = New(life)]
    /\ UNCHANGED <<node, reading, job, todo, count>>

UpdateAsset(q, a) ==
    /\ job[q] = Idle /\ Exists(a) /\ Change
    /\ \E life \in Lives :
          job' = [job EXCEPT ![q] = [pc |-> "saveAsset", asset |-> a, entity |-> [asset[a] EXCEPT !.life = life],
                                     columns |-> {}]]
    /\ UNCHANGED <<asset, node, reading, todo>>

\* The row the save compares with.  An asset that is gone is inserted again.
SaveAsset(q) ==
    /\ job[q].pc = "saveAsset"
    /\ LET a == job[q].asset
       IN IF Exists(a)
          THEN /\ job' = [job EXCEPT ![q].pc = "writeAsset", ![q].columns = Differing(job[q].entity, asset[a])]
               /\ UNCHANGED asset
          ELSE asset' = [asset EXCEPT ![a] = job[q].entity] /\ job' = [job EXCEPT ![q] = Idle]
    /\ UNCHANGED <<node, reading, todo, count>>

\* An update of a row that is gone changes nothing.
WriteAsset(q) ==
    /\ job[q].pc = "writeAsset"
    /\ LET a == job[q].asset
       IN asset' = [asset EXCEPT ![a] = IF Exists(a) THEN Written(job[q].entity, job[q].columns, @) ELSE @]
    /\ job' = [job EXCEPT ![q] = Idle]
    /\ UNCHANGED <<node, reading, todo, count>>

\* The rows a transaction wrote and has not committed are locked, and so is the
\* asset such a node now belongs to.
PendingOf(j)   == IF job[j].pc \in {"nodes", "counts"} THEN job[j].pending ELSE <<>>
NodeLocked(n)  == \E j \in Jobs : n \in DOMAIN PendingOf(j)
AssetLocked(a) == \E j \in Jobs : \E n \in DOMAIN PendingOf(j) : a \in {PendingOf(j)[n].asset, node[n].asset}

\* mutant: the nodes keep the id of the asset that is gone.
Orphans(a) == node

\* The foreign key is ON DELETE SET NULL.
Released(a) == [n \in Nodes |-> IF node[n].asset = a THEN [node[n] EXCEPT !.asset = None] ELSE node[n]]

DeleteAsset(a) ==
    /\ Exists(a) /\ ~ AssetLocked(a) /\ Change
    /\ asset' = [asset EXCEPT ![a] = Gone]
    /\ node' = Released(a)
    /\ UNCHANGED <<reading, job, todo>>

-----------------------------------------------------------------------------
(***************************************************************************)
(* attachNode, updateNodeWeight and detachNode                             *)
(***************************************************************************)
ChangeNode(q, a, n, entity) ==
    /\ job[q] = Idle /\ Exists(a) /\ Change
    /\ job' = [job EXCEPT ![q] = [pc |-> "saveNode", asset |-> a, life |-> asset[a].life, node |-> n,
                                  entity |-> entity, columns |-> {}]]
    /\ UNCHANGED <<asset, node, reading, todo>>

\* Any node of the user, attached elsewhere or not; its weight is optional.
AttachNode(q, a, n) ==
    \E weight \in Weights : ChangeNode(q, a, n, [asset |-> a, weight |-> weight])

UpdateNodeWeight(q, a, n) ==
    node[n].asset = a /\ \E weight \in Weights : ChangeNode(q, a, n, [asset |-> a, weight |-> weight])

DetachNode(q, a, n) == node[n].asset = a /\ ChangeNode(q, a, n, [asset |-> None, weight |-> node[n].weight])

SaveNode(q) ==
    /\ job[q].pc = "saveNode"
    /\ job' = [job EXCEPT ![q].pc = "writeNode", ![q].columns = Differing(job[q].entity, node[job[q].node])]
    /\ UNCHANGED <<asset, node, reading, todo, count>>

\* Written, and not committed before the assessment.  The foreign key refuses an
\* asset that is gone.
WriteNode(q) ==
    /\ job[q].pc = "writeNode"
    /\ LET d == job[q]
           row == Written(d.entity, d.columns, node[d.node])
           pending == [n \in {d.node : c \in d.columns} |-> row]
           refused == "asset" \in d.columns /\ row.asset # None /\ ~ Exists(row.asset)
       IN /\ d.columns # {} => ~ NodeLocked(d.node)
          /\ job' = [job EXCEPT ![q] =
                IF refused THEN Idle
                ELSE [pc |-> "nodes", asset |-> d.asset, life |-> d.life, pending |-> pending]]
    /\ UNCHANGED <<asset, node, reading, todo, count>>

-----------------------------------------------------------------------------
(***************************************************************************)
(* assessAsset, by a request, after a change and by the sweep              *)
(***************************************************************************)
GetAssessment(q, a) ==
    /\ job[q] = Idle /\ Exists(a) /\ Change
    /\ job' = [job EXCEPT ![q] = [pc |-> "nodes", asset |-> a, life |-> asset[a].life, pending |-> <<>>]]
    /\ UNCHANGED <<asset, node, reading, todo>>

\* What is committed and what the transaction wrote itself.
Seen(pending) == [n \in Nodes |-> IF n \in DOMAIN pending THEN pending[n] ELSE node[n]]

\* The attached nodes with their weights, and how long each has been silent.
ReadNodes(j) ==
    /\ job[j].pc = "nodes"
    /\ LET weight == Weighing(Seen(job[j].pending), job[j].asset)
       IN job' = [job EXCEPT ![j] =
             [pc |-> "counts", asset |-> job[j].asset, life |-> job[j].life, weight |-> weight,
              told |-> [n \in DOMAIN weight |-> Tells(reading[n], Unheard)],
              left |-> DOMAIN weight, pending |-> job[j].pending]]
    /\ UNCHANGED <<asset, node, reading, todo, count>>

Counted(told, n) == [told EXCEPT ![n] = Tells(@, reading[n])]

\* The breaches and checks of one node after the other.
CountBreaches(j) ==
    /\ job[j].pc = "counts"
    /\ \E n \in job[j].left :
          job' = [job EXCEPT ![j].left = @ \ {n}, ![j].told = Counted(@, n)]
    /\ UNCHANGED <<asset, node, reading, todo, count>>

Assessed(health, a) ==
    IF Exists(a) THEN [asset[a] EXCEPT !.index = health.index, !.status = health.status] ELSE asset[a]

\* The index is stored, and a transaction commits.
StoreIndex(j) ==
    /\ job[j].pc = "counts" /\ job[j].left = {}
    /\ \E health \in Assessments(job[j].life, job[j].weight, job[j].told) :
          asset' = [asset EXCEPT ![job[j].asset] = Assessed(health, job[j].asset)]
    /\ node' = Seen(job[j].pending)
    /\ job' = [job EXCEPT ![j] = Idle]
    /\ UNCHANGED <<reading, todo, count>>

\* mutant: the sweep passes over assets without nodes.
LoadedWithNodes ==
    {[asset |-> a, life |-> asset[a].life] : a \in {a \in Assets : Exists(a) /\ \E n \in Nodes : node[n].asset = a}}

Loaded == {[asset |-> a, life |-> asset[a].life] : a \in {a \in Assets : Exists(a)}}

SweepStarts ==
    /\ job[Sweep] = Idle /\ todo = {}
    /\ todo' = Loaded
    /\ UNCHANGED <<asset, node, reading, job, count>>

SweepNext ==
    /\ job[Sweep] = Idle
    /\ \E t \in todo :
          /\ todo' = todo \ {t}
          /\ job' = [job EXCEPT ![Sweep] = [pc |-> "nodes", asset |-> t.asset, life |-> t.life, pending |-> <<>>]]
    /\ UNCHANGED <<asset, node, reading, count>>

\* A request fails and rolls back, as the victim of a deadlock too; the sweep
\* goes on with the next asset.
Fails(j) ==
    /\ job[j] # Idle /\ Fault
    /\ job' = [job EXCEPT ![j] = Idle]
    /\ UNCHANGED <<asset, node, reading, todo>>

\* A device goes silent or comes back, or telemetry arrives.
ReadingChanges(n) ==
    /\ Change
    /\ \E r \in Readings \ {reading[n]} : reading' = [reading EXCEPT ![n] = r]
    /\ UNCHANGED <<asset, node, job, todo>>

-----------------------------------------------------------------------------
JobStep(j) == \/ SaveAsset(j) \/ WriteAsset(j) \/ SaveNode(j) \/ WriteNode(j)
              \/ ReadNodes(j) \/ CountBreaches(j) \/ StoreIndex(j)

Next ==
    \/ \E q \in Requests, a \in Assets :
          \/ UpdateAsset(q, a) \/ GetAssessment(q, a)
          \/ \E n \in Nodes : AttachNode(q, a, n) \/ UpdateNodeWeight(q, a, n) \/ DetachNode(q, a, n)
    \/ \E a \in Assets : CreateAsset(a) \/ DeleteAsset(a)
    \/ \E j \in Jobs : JobStep(j) \/ Fails(j)
    \/ SweepStarts \/ SweepNext
    \/ \E n \in Nodes : ReadingChanges(n)

\* An activation that started goes on, and the sweep comes every night.
Fairness == /\ \A j \in Jobs : WF_vars(JobStep(j))
            /\ WF_vars(SweepStarts) /\ WF_vars(SweepNext)

Spec     == Init /\ [][Next]_vars
FairSpec == Spec /\ Fairness

-----------------------------------------------------------------------------
(***************************************************************************)
(* Properties                                                              *)
(***************************************************************************)

\* A node belongs to an asset that exists, whatever attach, re-attach, deletion
\* and re-insertion overlap.
AttachedExists == \A n \in Nodes : node[n].asset # None => Exists(node[n].asset)

Fresh(a) == [index |-> asset[a].index, status |-> asset[a].status]
                \in Assessments(asset[a].life, Weighing(node, a), reading)

\* "Keeps every asset's persisted health index/status fresh": attaching moves a
\* node without assessing the asset it leaves, an edit puts back the health it
\* loaded and assesses nothing, and an older assessment may be stored last; once
\* nothing changes the index is that of the asset's nodes all the same.
IndexSettles == <>[](\A a \in Assets : Exists(a) => Fresh(a))
=============================================================================
