---------------------------- MODULE DeviceConfig ----------------------------
(***************************************************************************)
(* The configuration of one gateway: edited from the dashboard, fetched by *)
(* the gateway (boot-config), which polls and compares version numbers,    *)
(* and announced by a "config_sync" nudge that may be lost.  The first     *)
(* fetch of a KAFKA device stores the Kafka settings it was given.  Both   *)
(* an edit and that first fetch load the device, change the entity, and    *)
(* save it: the save reads the row again and writes every column in which  *)
(* the entity differs.  "config" is one JSON column.                       *)
(***************************************************************************)
EXTENDS Integers

CONSTANTS
    Updates,     \* concurrent activations of updateDeviceConfig
    Boots,       \* concurrent boot requests of the gateway
    Settings,    \* what a user may configure
    PushChannels,
    MaxUpdates,  \* bound on the edits
    MaxIncidents \* bound on lost nudges and answers, restarts and failed saves

ASSUME PushAssumption == PushChannels \subseteq {"KAFKA", "MQTT"}
ASSUME BoundsAssumption == MaxUpdates \in Nat /\ MaxIncidents \in Nat

VARIABLES
    row,       \* devices.config, push_channel and config_version
    update,    \* what each updateDeviceConfig is doing
    boot,      \* what each getBootConfig is doing
    nudges,    \* config_sync records the gateway has not read
    gateway,   \* what the gateway runs with, and the fetch it waits for
    count,     \* edits and incidents so far
    latest,    \* history: the settings of the edit that committed last
    overlapped \* history: two saves of the device were in progress at a time

vars == <<row, update, boot, nudges, gateway, count, latest, overlapped>>

Columns == {"config", "channel", "version"}
Setting == Settings \cup {"default"}
Config  == [settings : Setting, kafka : BOOLEAN]
Row     == [config : Config, channel : PushChannels, version : 1 .. MaxUpdates + 1]
Boot    == [settings : Setting, channel : PushChannels, version : 1 .. MaxUpdates + 1]
Nothing == [version |-> 0]

Idle    == [pc |-> "idle"]
Job     == [pc : {"save", "write", "answer"}, entity : Row, columns : SUBSET Columns]
Fetch   == [reason : {"poll", "sync"}, boot : Boots]
NoFetch == [reason |-> "none"]

TypeOK ==
    /\ row \in Row
    /\ update \in [Updates -> Job \cup {Idle}]
    /\ boot \in [Boots -> Job \cup {Idle}]
    /\ nudges \in 0 .. MaxUpdates + 1
    /\ gateway \in [runs : Boot \cup {Nothing}, fetch : Fetch \cup {NoFetch}]
    /\ count \in [updates : 0 .. MaxUpdates, incidents : 0 .. MaxIncidents]
    /\ latest \in Setting /\ overlapped \in BOOLEAN

Init ==
    /\ row \in [config : {[settings |-> "default", kafka |-> FALSE]}, channel : PushChannels, version : {1}]
    /\ update = [u \in Updates |-> Idle]
    /\ boot = [b \in Boots |-> Idle]
    /\ nudges = 0
    /\ gateway = [runs |-> Nothing, fetch |-> NoFetch]
    /\ count = [updates |-> 0, incidents |-> 0]
    /\ latest = "default" /\ overlapped = FALSE

Incident ==
    /\ count.incidents < MaxIncidents
    /\ count' = [count EXCEPT !.incidents = @ + 1]

\* An edit, or a fetch that stores the Kafka settings, is in progress.
Saving == \/ \E u \in Updates : update[u] # Idle
          \/ \E b \in Boots : boot[b].pc \in {"save", "write"}

\* save: the columns in which the entity differs from the row ...
Differing(job) == [job EXCEPT !.pc = "write", !.columns = {c \in Columns : job.entity[c] # row[c]}]

\* ... are written.
Written(job) == [c \in Columns |-> IF c \in job.columns THEN job.entity[c] ELSE row[c]]

-----------------------------------------------------------------------------
(***************************************************************************)
(* updateDeviceConfig and pushConfigSync                                   *)
(***************************************************************************)
\* mutant: the version says nothing about the settings.
EditedUnversioned(settings, channel) ==
    [config |-> [row.config EXCEPT !.settings = settings], channel |-> channel, version |-> row.version]

\* The entity as loaded, with what the request names replaced.
Edited(settings, channel) ==
    [config |-> [row.config EXCEPT !.settings = settings], channel |-> channel, version |-> row.version + 1]

UpdateConfig(u) ==
    /\ update[u] = Idle
    /\ count.updates < MaxUpdates
    /\ count' = [count EXCEPT !.updates = @ + 1]
    /\ \E settings \in Settings, channel \in PushChannels :
          update' = [update EXCEPT ![u] = [pc |-> "save", entity |-> Edited(settings, channel), columns |-> {}]]
    /\ overlapped' = (overlapped \/ Saving)
    /\ UNCHANGED <<row, boot, nudges, gateway, latest>>

DiffUpdate(u) ==
    /\ update[u].pc = "save"
    /\ update' = [update EXCEPT ![u] = Differing(@)]
    /\ UNCHANGED <<row, boot, nudges, gateway, count, latest, overlapped>>

\* The transaction commits.
CommitUpdate(u) ==
    /\ update[u].pc = "write"
    /\ row' = Written(update[u])
    /\ latest' = update[u].entity.config.settings
    /\ update' = [update EXCEPT ![u] = Idle]
    /\ UNCHANGED <<boot, nudges, gateway, count, overlapped>>

AbortUpdate(u) ==
    /\ update[u] # Idle
    /\ Incident
    /\ update' = [update EXCEPT ![u] = Idle]
    /\ UNCHANGED <<row, boot, nudges, gateway, latest, overlapped>>

\* Refused unless the device is on the KAFKA channel.  The version it names is
\* for information only.
PushConfigSync ==
    /\ row.channel = "KAFKA"
    /\ nudges <= MaxUpdates
    /\ nudges' = nudges + 1
    /\ UNCHANGED <<row, update, boot, gateway, count, latest, overlapped>>

-----------------------------------------------------------------------------
(***************************************************************************)
(* getBootConfig and resolveKafkaConfig                                    *)
(***************************************************************************)
\* mutant: the stored configuration becomes the Kafka settings only.
WithKafkaOnly(entity) == [entity EXCEPT !.config = [settings |-> "default", kafka |-> TRUE]]

\* The Kafka settings are added to what the entity holds.
WithKafka(entity) == [entity EXCEPT !.config.kafka = TRUE]

NeedsRegistration(entity) == entity.channel = "KAFKA" /\ ~ entity.config.kafka

\* The gateway asks, because of a nudge or of its poll, and the device is loaded.
GetBootConfig(b, reason) ==
    /\ boot[b] = Idle
    /\ gateway.fetch = NoFetch
    /\ gateway' = [gateway EXCEPT !.fetch = [reason |-> reason, boot |-> b]]
    /\ LET job(pc, entity) == [boot EXCEPT ![b] = [pc |-> pc, entity |-> entity, columns |-> {}]]
       IN \/ /\ NeedsRegistration(row)
             /\ boot' = job("save", WithKafka(row))
             /\ overlapped' = (overlapped \/ Saving)
          \/ ~ NeedsRegistration(row) /\ boot' = job("answer", row) /\ UNCHANGED overlapped
    /\ UNCHANGED <<row, update, count, latest>>

Poll(b) == GetBootConfig(b, "poll") /\ UNCHANGED nudges
Sync(b) == nudges > 0 /\ nudges' = nudges - 1 /\ GetBootConfig(b, "sync")

DiffKafka(b) ==
    /\ boot[b].pc = "save"
    /\ boot' = [boot EXCEPT ![b] = Differing(@)]
    /\ UNCHANGED <<row, update, nudges, gateway, count, latest, overlapped>>

SaveKafka(b) ==
    /\ boot[b].pc = "write"
    /\ row' = Written(boot[b])
    /\ boot' = [boot EXCEPT ![b].pc = "answer"]
    /\ UNCHANGED <<update, nudges, gateway, count, latest, overlapped>>

\* mutant: the answer does not carry the version.
RunsUnversioned(entity) == [settings |-> entity.config.settings, channel |-> entity.channel]

Runs(entity) == [settings |-> entity.config.settings, channel |-> entity.channel, version |-> entity.version]

\* The gateway waits for this answer, and not for that of another request or none.
Awaits(b) == gateway.fetch # NoFetch /\ gateway.fetch.boot = b

\* The gateway applies what it asked for after a nudge; a poll compares the
\* version with the one it last applied.
Answer(b) ==
    /\ boot[b].pc = "answer"
    /\ boot' = [boot EXCEPT ![b] = Idle]
    /\ LET differs == boot[b].entity.version # gateway.runs.version
       IN gateway' = IF ~ Awaits(b) THEN gateway
                     ELSE [runs |-> IF gateway.fetch.reason = "sync" \/ differs THEN Runs(boot[b].entity)
                                    ELSE gateway.runs,
                           fetch |-> NoFetch]
    /\ UNCHANGED <<row, update, nudges, count, latest, overlapped>>

\* The request fails: a database error, or its answer is lost.
BootFails(b) ==
    /\ boot[b] # Idle
    /\ Incident
    /\ boot' = [boot EXCEPT ![b] = Idle]
    /\ gateway' = [gateway EXCEPT !.fetch = IF Awaits(b) THEN NoFetch ELSE @]
    /\ UNCHANGED <<row, update, nudges, latest, overlapped>>

-----------------------------------------------------------------------------
LoseNudge ==
    /\ nudges > 0
    /\ Incident
    /\ nudges' = nudges - 1
    /\ UNCHANGED <<row, update, boot, gateway, latest, overlapped>>

\* The gateway starts anew, and waits no more for a request that is out: the backend
\* goes on with it, and the answer is nobody's.
GatewayRestarts ==
    /\ gateway # [runs |-> Nothing, fetch |-> NoFetch]
    /\ Incident
    /\ gateway' = [runs |-> Nothing, fetch |-> NoFetch]
    /\ UNCHANGED <<row, update, boot, nudges, latest, overlapped>>

UpdateStep(u) == DiffUpdate(u) \/ CommitUpdate(u)
BootStep(b)   == DiffKafka(b) \/ SaveKafka(b) \/ Answer(b)

Next ==
    \/ \E u \in Updates : UpdateConfig(u) \/ UpdateStep(u) \/ AbortUpdate(u)
    \/ \E b \in Boots : Poll(b) \/ Sync(b) \/ BootStep(b) \/ BootFails(b)
    \/ PushConfigSync \/ LoseNudge \/ GatewayRestarts

(***************************************************************************)
(* An activation that started goes on and the gateway polls.  Nobody has   *)
(* to edit or to push anything.                                            *)
(***************************************************************************)
Fairness ==
    /\ \A u \in Updates : WF_vars(UpdateStep(u))
    /\ \A b \in Boots : WF_vars(BootStep(b))
    /\ WF_vars(\E b \in Boots : Poll(b) \/ Sync(b))

Spec     == Init /\ [][Next]_vars
FairSpec == Spec /\ Fairness

-----------------------------------------------------------------------------
(***************************************************************************)
(* Properties                                                              *)
(***************************************************************************)

\* Both an edit and a first fetch save whole entities, and either may take the
\* other back or leave half of it.  Unless two of them overlap, the settings are
\* those of the last edit: later fetches are harmless.
EditsStay == overlapped \/ row.config.settings = latest

\* The gateway "should still poll periodically and compare against its
\* last-applied configVersion": whatever nudge, answer or edit is lost, and
\* wherever the gateway restarts, it ends up running what is stored, unless two
\* saves overlapped.
GatewayCatchesUp == <>overlapped \/ <>[](gateway.runs = Runs(row))

=============================================================================
