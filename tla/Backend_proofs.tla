--------------------------- MODULE Backend_proofs ---------------------------
(***************************************************************************)
(* Proofs about four parts of the backend: the Kafka consumer, for any     *)
(* topics, any number of failed starts and any number of faults, and, each *)
(* as an instance of its module, the configuration of a gateway, the       *)
(* channels on which a user is warned, and assets with the nodes attached  *)
(* to them.  No part knows of another.  A theorem about an instance        *)
(* assumes of the constants what its module does, as far as it needs it.   *)
(* The index of an asset is made of sums over its nodes: what such a sum   *)
(* comes to for any finite set of nodes is proved by induction over sets.  *)
(***************************************************************************)
EXTENDS ConsumerLifecycle, FiniteSetTheorems, WellFoundedInduction, TLAPS

\* DeviceConfig
CONSTANTS Updates, Boots, Settings, PushChannels, MaxUpdates, MaxIncidents
VARIABLES row, update, boot, nudges, gateway, latest, overlapped

\* Notifications; MaxFaults is its bound too
CONSTANTS Tokens, Chats, Actors, Configured, Answering, MaxRequests
VARIABLES config, alive, run, wanted, raced

\* AssetHealth; so is it of this one
CONSTANTS Assets, Nodes, Requests, Lives, Weights, Readings, MaxChanges
VARIABLES asset, node, reading, job, todo

\* Each of the three counts what it bounds.
VARIABLE count

Config == INSTANCE DeviceConfig
Notify == INSTANCE Notifications
Health == INSTANCE AssetHealth

-----------------------------------------------------------------------------
(***************************************************************************)
(* The Kafka consumer                                                      *)
(***************************************************************************)
\* There are four delays.
LEMMA FourDelays == Len(RetryDelays) = 4
BY DEF RetryDelays

\* What the broker remembers of earlier processes is true or false.
LEMMA ZombieType == TypeOK /\ [Next]_vars => zombie' \in BOOLEAN
<1> SUFFICES ASSUME zombie \in BOOLEAN, [Next]_vars PROVE zombie' \in BOOLEAN
  BY DEF TypeOK
<1>1. CASE UNCHANGED zombie
  BY <1>1
<1>2. CASE Exit \/ Kill \/ SessionExpires
  BY <1>2, Zenon DEF Exit, Kill, Ended, SessionExpires
<1>3. QED
  BY <1>1, <1>2 DEF Next, vars, Boot, ListTopics, CreateTopics, InitializerFails, SendCreatesTopic,
     StartStep, Connect, Subscribe, StartFails, Disconnect, TimerFires, JoinStep, Join, JoinFails,
     MemberCrashes, Crash, Destroy, Destroys, BrokerFails, BrokerRecovers

\* A group that cannot be joined and a member that fails both report a crash.
LEMMA CrashReported ==
  ASSUME JoinFails \/ MemberCrashes
  PROVE  (\E restart \in BOOLEAN : Crash(restart)) /\ (Fault \/ UNCHANGED faults)
BY DEF JoinFails, MemberCrashes

\* A consumer is ended, or crashes, as one of its kinds.
LEMMA CrashType ==
  ASSUME TypeOK, NEW restart \in BOOLEAN, Crash(restart), faults' \in 0 .. MaxFaults
  PROVE  TypeOK'
BY FourDelays, MaxAttemptsAssumption DEF TypeOK, Crash, Schedules, Destroyed

\* The lifecycle is well typed: a retry never asks for a delay there is not.
THEOREM ConsumerTypeCorrect == Spec => []TypeOK
<1> USE FourDelays, MaxAttemptsAssumption, MaxFaultsAssumption
<1>1. Init => TypeOK
  <2>1. Init => zombie \in BOOLEAN
    BY Zenon DEF Init
  <2>2. QED
    BY <2>1 DEF Init, TypeOK
<1>2. TypeOK /\ [Next]_vars => TypeOK'
  <2> SUFFICES ASSUME TypeOK, [Next]_vars PROVE TypeOK'
    OBVIOUS
  <2>0. zombie' \in BOOLEAN
    BY ZombieType
  <2>8. CASE JoinFails \/ MemberCrashes
    <3>1. PICK restart \in BOOLEAN : Crash(restart)
      BY <2>8, CrashReported
    <3>2. faults' \in 0 .. MaxFaults
      BY <2>8, CrashReported DEF TypeOK, Fault
    <3>3. QED
      BY <3>1, <3>2, CrashType
  <2> USE <2>0 DEF TypeOK, Fault
  <2>1. CASE Boot
    BY <2>1 DEF Boot, Begin, Alive
  <2>2. CASE ListTopics \/ CreateTopics \/ InitializerFails
    BY <2>2 DEF ListTopics, CreateTopics, InitializerFails
  <2>3. ASSUME NEW t \in Topics, SendCreatesTopic(t) PROVE TypeOK'
    BY <2>3 DEF SendCreatesTopic
  <2>4. CASE Connect \/ Subscribe \/ StartFails
    BY <2>4 DEF Connect, Subscribe, StartFails
  <2>5. CASE Disconnect
    BY <2>5 DEF Disconnect, Disconnected, Delay
  <2>6. CASE TimerFires
    BY <2>6 DEF TimerFires, Begin, Alive
  <2>7. CASE Join
    BY <2>7 DEF Join
  <2>9. CASE Destroy \/ Destroys
    BY <2>9 DEF Destroy, Destroys
  <2>10. CASE Exit \/ Kill
    BY <2>10 DEF Exit, Kill, Ended
  <2>11. CASE SessionExpires \/ BrokerFails \/ BrokerRecovers
    BY <2>11 DEF SessionExpires, BrokerFails, BrokerRecovers
  <2>12. CASE UNCHANGED vars
    BY <2>12 DEF vars
  <2>13. QED
    BY <2>1, <2>2, <2>3, <2>4, <2>5, <2>6, <2>7, <2>8, <2>9, <2>10, <2>11, <2>12
       DEF Next, StartStep, JoinStep
<1>3. QED
  BY <1>1, <1>2, PTL DEF Spec

(***************************************************************************)
(* One consumer.  The timer is set only where a start or a consumer ended, *)
(* and not while the process shuts down or is not there.                   *)
(***************************************************************************)
OneStart ==
    /\ OneConsumer
    /\ ShuttingDown => timer = 0
    /\ process = "down" => timer = 0 /\ start = "idle" /\ consumer = "none"

\* A crash ends the consumer it happens to, or restarts it without the timer.
LEMMA CrashKeepsOneStart ==
  ASSUME TypeOK, OneStart, Joining \/ consumer = "member", process # "down",
         NEW restart \in BOOLEAN, Crash(restart)
  PROVE  OneStart'
<1>1. timer = 0
  BY DEF OneStart, OneConsumer, Joining, Alive
<1>2. QED
  BY <1>1 DEF OneStart, OneConsumer, ShuttingDown, Crash, Schedules, Destroyed, Alive, Joining

\* Every step keeps it.
LEMMA OneStartKept == TypeOK /\ OneStart /\ [Next]_vars => OneStart'
<1> SUFFICES ASSUME TypeOK, OneStart, [Next]_vars PROVE OneStart'
  OBVIOUS
<1> USE DEF OneStart, OneConsumer, ShuttingDown, Alive
<1>1. CASE Boot
  BY <1>1 DEF Boot, Begin
<1>2. CASE ListTopics \/ CreateTopics \/ InitializerFails
  BY <1>2 DEF ListTopics, CreateTopics, InitializerFails
<1>3. ASSUME NEW t \in Topics, SendCreatesTopic(t) PROVE OneStart'
  BY <1>3 DEF SendCreatesTopic
<1>4. CASE Connect \/ Subscribe \/ StartFails
  BY <1>4 DEF Connect, Subscribe, StartFails
<1>5. CASE Disconnect
  BY <1>5 DEF Disconnect, Disconnected, Retries, Destroyed
<1>6. CASE TimerFires
  BY <1>6 DEF TimerFires, Begin
<1>7. CASE Join
  BY <1>7 DEF Join, Joining
<1>8. CASE JoinFails \/ MemberCrashes
  <2>1. PICK restart \in BOOLEAN : Crash(restart)
    BY <1>8, CrashReported
  <2>2. (Joining \/ consumer = "member") /\ process # "down"
    BY <1>8 DEF JoinFails, MemberCrashes, Joining
  <2>3. QED
    BY <2>1, <2>2, CrashKeepsOneStart
<1>9. CASE Destroy \/ Destroys
  BY <1>9 DEF Destroy, Destroys
<1>10. CASE Exit \/ Kill
  BY <1>10 DEF Exit, Kill, Ended
<1>11. CASE SessionExpires \/ BrokerFails \/ BrokerRecovers
  BY <1>11 DEF SessionExpires, BrokerFails, BrokerRecovers
<1>12. CASE UNCHANGED vars
  BY <1>12 DEF vars
<1>13. QED
  BY <1>1, <1>2, <1>3, <1>4, <1>5, <1>6, <1>7, <1>8, <1>9, <1>10, <1>11, <1>12
       DEF Next, StartStep, JoinStep

\* Failed starts and crashes never make two: no consumer is replaced before it was
\* disconnected, and nothing is scheduled beside a start or a live consumer.
THEOREM OnlyOneConsumer == Spec => []OneConsumer
<1>1. Init => OneStart
  BY DEF Init, OneStart, OneConsumer, ShuttingDown, Alive
<1>2. OneStart => OneConsumer
  BY DEF OneStart
<1>3. QED
  BY <1>1, <1>2, OneStartKept, ConsumerTypeCorrect, PTL DEF Spec

\* Once onModuleDestroy has begun, whatever a failed start or a crash reports, no
\* timer is set and no start begins.
THEOREM NothingAfterShutdown == Spec => QuietAfterShutdown
<1>1. Init => OneStart
  BY DEF Init, OneStart, OneConsumer, ShuttingDown, Alive
<1>2. TypeOK /\ OneStart /\ [Next]_vars => [ShuttingDown => NothingNew]_vars
  <2> SUFFICES ASSUME OneStart, ShuttingDown, Next PROVE NothingNew
    BY DEF vars
  <2>1. timer = 0 /\ Destroyed /\ process # "down" /\ process # "up"
    BY DEF OneStart, ShuttingDown, Destroyed
  <2> USE <2>1 DEF NothingNew
  <2>2. ASSUME NEW restart \in BOOLEAN, Crash(restart) PROVE NothingNew
    BY <2>2 DEF Crash, Schedules
  <2>3. CASE Boot \/ TimerFires \/ Destroy
    BY <2>3 DEF Boot, TimerFires, Destroy
  <2>4. CASE Disconnect
    BY <2>4 DEF Disconnect, Retries
  <2>5. CASE Connect \/ Subscribe \/ StartFails \/ Join
    BY <2>5 DEF Connect, Subscribe, StartFails, Join
  <2>6. CASE JoinFails \/ MemberCrashes
    BY <2>2, <2>6 DEF JoinFails, MemberCrashes
  <2>7. CASE Destroys \/ Exit \/ Kill
    BY <2>7 DEF Destroys, Exit, Kill, Ended
  <2>8. CASE \/ ListTopics \/ CreateTopics \/ InitializerFails
             \/ \E t \in Topics : SendCreatesTopic(t)
             \/ SessionExpires \/ BrokerFails \/ BrokerRecovers
    BY <2>8 DEF ListTopics, CreateTopics, InitializerFails, SendCreatesTopic,
                SessionExpires, BrokerFails, BrokerRecovers
  <2>9. QED
    BY <2>3, <2>4, <2>5, <2>6, <2>7, <2>8 DEF Next, StartStep, JoinStep
<1>3. QED
  BY <1>1, <1>2, OneStartKept, ConsumerTypeCorrect, PTL DEF Spec, QuietAfterShutdown

\* As long as the process is up somebody looks after the consumer: it is there, or
\* a start is in progress, or the timer will begin one.
LookedAfter == process = "up" => start # "idle" \/ timer # 0 \/ Alive(consumer)

\* No failed start and no crash leaves the process without a consumer and without
\* another try: connectAndSubscribe never needs to be called from outside again.
THEOREM NeverForgotten == Spec => []LookedAfter
<1> USE DEF LookedAfter, Alive
<1>1. Init => LookedAfter
  BY DEF Init
<1>2. TypeOK /\ LookedAfter /\ [Next]_vars => LookedAfter'
  <2> SUFFICES ASSUME TypeOK, LookedAfter, [Next]_vars PROVE LookedAfter'
    OBVIOUS
  <2>1. CASE Boot \/ TimerFires
    BY <2>1 DEF Boot, TimerFires, Begin
  <2>2. CASE Connect \/ Subscribe \/ StartFails
    BY <2>2 DEF Connect, Subscribe, StartFails
  <2>3. CASE Disconnect
    BY <2>3, FourDelays DEF Disconnect, Retries, Destroyed, Delay, TypeOK
  <2>4. CASE Join
    BY <2>4 DEF Join
  <2>5. CASE JoinFails \/ MemberCrashes
    <3>1. PICK restart \in BOOLEAN : Crash(restart)
      BY <2>5, CrashReported
    <3>2. QED
      BY <3>1 DEF Crash, Schedules, Destroyed
  <2>6. CASE Destroy \/ Destroys \/ Exit \/ Kill
    BY <2>6 DEF Destroy, Destroys, Exit, Kill, Ended
  <2>7. CASE \/ ListTopics \/ CreateTopics \/ InitializerFails
             \/ \E t \in Topics : SendCreatesTopic(t)
             \/ SessionExpires \/ BrokerFails \/ BrokerRecovers \/ UNCHANGED vars
    BY <2>7 DEF ListTopics, CreateTopics, InitializerFails, SendCreatesTopic,
                SessionExpires, BrokerFails, BrokerRecovers, vars
  <2>8. QED
    BY <2>1, <2>2, <2>3, <2>4, <2>5, <2>6, <2>7 DEF Next, StartStep, JoinStep
<1>3. QED
  BY <1>1, <1>2, ConsumerTypeCorrect, PTL DEF Spec

-----------------------------------------------------------------------------
(***************************************************************************)
(* The configuration of a gateway                                          *)
(***************************************************************************)
ConfigBounds == MaxUpdates \in Nat /\ MaxIncidents \in Nat

\* Every edit so far may have counted the version up once, and the edits in
\* progress count from what they loaded.
VersionsCount ==
    /\ row.version <= count.updates + 1
    /\ \A u \in Updates : update[u] # Config!Idle => update[u].entity.version <= count.updates + 1
    /\ \A b \in Boots : boot[b] # Config!Idle => boot[b].entity.version <= count.updates + 1

ConfigTyped == Config!TypeOK /\ VersionsCount

\* A save writes a row.
LEMMA ConfigWritten ==
  ASSUME row \in Config!Row, NEW d \in Config!Job
  PROVE  /\ Config!Written(d) \in Config!Row
         /\ Config!Written(d).version \in {row.version, d.entity.version}
         /\ Config!Written(d).config = IF "config" \in d.columns THEN d.entity.config ELSE row.config
BY DEF Config!Row, Config!Job, Config!Written, Config!Columns

\* The select of a save notes columns, and a config column left out is as in the row.
LEMMA ConfigDiffering ==
  ASSUME NEW d \in Config!Job
  PROVE  /\ Config!Differing(d) \in Config!Job
         /\ Config!Differing(d).pc = "write"
         /\ Config!Differing(d).entity = d.entity
         /\ "config" \notin Config!Differing(d).columns => d.entity.config = row.config
BY DEF Config!Job, Config!Differing, Config!Columns

\* The Kafka settings leave the rest as it is.
LEMMA ConfigWithKafka ==
  ASSUME row \in Config!Row
  PROVE  /\ Config!WithKafka(row) \in Config!Row
         /\ Config!WithKafka(row).version = row.version
         /\ Config!WithKafka(row).config.settings = row.config.settings
<1>1. row.config \in Config!Config
  BY DEF Config!Row
<1>2. [row.config EXCEPT !.kafka = TRUE] \in Config!Config
  BY <1>1 DEF Config!Config
<1>3. Config!WithKafka(row) = [row EXCEPT !.config = [row.config EXCEPT !.kafka = TRUE]]
  BY DEF Config!WithKafka
<1>4. [row.config EXCEPT !.kafka = TRUE].settings = row.config.settings
  BY <1>1 DEF Config!Config
<1>5. QED
  BY <1>2, <1>3, <1>4 DEF Config!Row

\* Each step keeps the types, and counts the version up at most once for an edit.
LEMMA ConfigTypedInductive ==
  ASSUME ConfigBounds, ConfigTyped, [Config!Next]_(Config!vars)
  PROVE  ConfigTyped'
<1> USE DEF ConfigBounds, ConfigTyped, Config!TypeOK, VersionsCount
<1>a. Config!Idle \notin Config!Job
  BY DEF Config!Idle, Config!Job
<1>1. ASSUME NEW u \in Updates, Config!UpdateConfig(u) PROVE ConfigTyped'
  <2>1. PICK settings \in Settings, channel \in PushChannels :
          update' = [update EXCEPT ![u] = [pc |-> "save", entity |-> Config!Edited(settings, channel), columns |-> {}]]
    BY <1>1 DEF Config!UpdateConfig
  <2>2. /\ Config!Edited(settings, channel) \in Config!Row
        /\ Config!Edited(settings, channel).version = row.version + 1
    BY <1>1 DEF Config!UpdateConfig, Config!Edited, Config!Row, Config!Config, Config!Setting
  <2>3. update'[u] \in Config!Job
    BY <2>1, <2>2 DEF Config!Job
  <2>4. UNCHANGED <<row, boot, nudges, gateway, latest>> /\ overlapped' \in BOOLEAN
    BY <1>1 DEF Config!UpdateConfig, Config!Saving
  <2>5. count' = [count EXCEPT !.updates = @ + 1] /\ count.updates < MaxUpdates
    BY <1>1 DEF Config!UpdateConfig
  <2>6. row.version \in Int
    BY DEF Config!Row
  <2>7. \A b \in Boots : boot[b] # Config!Idle => boot[b].entity.version \in Int
    BY DEF Config!Row, Config!Job
  <2>8. \A v \in Updates : update[v] # Config!Idle => update[v].entity.version \in Int
    BY DEF Config!Row, Config!Job
  <2>9. QED
    BY <2>1, <2>2, <2>3, <2>4, <2>5, <2>6, <2>7, <2>8
<1>2. ASSUME NEW u \in Updates, Config!DiffUpdate(u) PROVE ConfigTyped'
  <2>1. update[u] \in Config!Job
    BY <1>2 DEF Config!DiffUpdate, Config!Idle
  <2>2. QED
    BY <1>2, <2>1, <1>a, ConfigDiffering DEF Config!DiffUpdate
<1>3. ASSUME NEW u \in Updates, Config!CommitUpdate(u) PROVE ConfigTyped'
  <2>1. update[u] \in Config!Job /\ update[u] # Config!Idle
    BY <1>3, <1>a DEF Config!CommitUpdate, Config!Idle
  <2>2. row' \in Config!Row /\ row'.version <= count.updates + 1
    BY <1>3, <2>1, ConfigWritten DEF Config!CommitUpdate
  <2>3. latest' \in Config!Setting
    BY <1>3, <2>1 DEF Config!CommitUpdate, Config!Job, Config!Row, Config!Config
  <2>4. QED
    BY <1>3, <2>2, <2>3 DEF Config!CommitUpdate
<1>4. ASSUME NEW u \in Updates, Config!AbortUpdate(u) PROVE ConfigTyped'
  BY <1>4 DEF Config!AbortUpdate, Config!Incident
<1>5. ASSUME NEW b \in Boots, Config!Poll(b) \/ Config!Sync(b) PROVE ConfigTyped'
  <2>1. PICK reason \in {"poll", "sync"} : Config!GetBootConfig(b, reason)
    BY <1>5 DEF Config!Poll, Config!Sync
  <2>2. nudges' \in 0 .. MaxUpdates + 1
    BY <1>5 DEF Config!Poll, Config!Sync
  <2>3. PICK pc \in {"save", "answer"}, entity \in {row, Config!WithKafka(row)} :
          boot' = [boot EXCEPT ![b] = [pc |-> pc, entity |-> entity, columns |-> {}]]
    BY <2>1 DEF Config!GetBootConfig
  <2>4. entity \in Config!Row /\ entity.version = row.version
    BY ConfigWithKafka
  <2>5. boot'[b] \in Config!Job /\ boot'[b].entity = entity
    BY <2>3, <2>4 DEF Config!Job
  <2>6. gateway' \in [runs : Config!Boot \cup {Config!Nothing}, fetch : Config!Fetch \cup {Config!NoFetch}]
    BY <2>1 DEF Config!GetBootConfig, Config!Fetch
  <2>7. UNCHANGED <<row, update, count, latest>> /\ overlapped' \in BOOLEAN
    BY <2>1 DEF Config!GetBootConfig, Config!Saving
  <2>8. QED
    BY <2>2, <2>3, <2>4, <2>5, <2>6, <2>7
<1>6. ASSUME NEW b \in Boots, Config!DiffKafka(b) PROVE ConfigTyped'
  <2>1. boot[b] \in Config!Job
    BY <1>6 DEF Config!DiffKafka, Config!Idle
  <2>2. QED
    BY <1>6, <2>1, <1>a, ConfigDiffering DEF Config!DiffKafka
<1>7. ASSUME NEW b \in Boots, Config!SaveKafka(b) PROVE ConfigTyped'
  <2>1. boot[b] \in Config!Job /\ boot[b] # Config!Idle
    BY <1>7, <1>a DEF Config!SaveKafka, Config!Idle
  <2>2. row' \in Config!Row /\ row'.version <= count.updates + 1
    BY <1>7, <2>1, ConfigWritten DEF Config!SaveKafka
  <2>3. boot'[b] \in Config!Job /\ boot'[b].entity = boot[b].entity
    BY <1>7, <2>1 DEF Config!SaveKafka, Config!Job
  <2>4. QED
    BY <1>7, <2>1, <2>2, <2>3 DEF Config!SaveKafka
<1>8. ASSUME NEW b \in Boots, Config!Answer(b) PROVE ConfigTyped'
  <2>1. boot[b] \in Config!Job
    BY <1>8 DEF Config!Answer, Config!Idle
  <2>2. Config!Runs(boot[b].entity) \in Config!Boot
    BY <2>1 DEF Config!Job, Config!Row, Config!Config, Config!Boot, Config!Runs
  <2>3. gateway' \in [runs : Config!Boot \cup {Config!Nothing}, fetch : Config!Fetch \cup {Config!NoFetch}]
    BY <1>8, <2>2 DEF Config!Answer, Config!Fetch
  <2>4. QED
    BY <1>8, <2>3 DEF Config!Answer
<1>9. ASSUME NEW b \in Boots, Config!BootFails(b) PROVE ConfigTyped'
  BY <1>9 DEF Config!BootFails, Config!Incident, Config!Fetch
<1>10. CASE Config!PushConfigSync \/ Config!LoseNudge
  BY <1>10 DEF Config!PushConfigSync, Config!LoseNudge, Config!Incident
<1>11. CASE Config!GatewayRestarts
  BY <1>11 DEF Config!GatewayRestarts, Config!Incident, Config!Fetch
<1>12. CASE UNCHANGED Config!vars
  BY <1>12 DEF Config!vars
<1>13. QED
  BY <1>1, <1>2, <1>3, <1>4, <1>5, <1>6, <1>7, <1>8, <1>9, <1>10, <1>11, <1>12
     DEF Config!Next, Config!UpdateStep, Config!BootStep

\* A new device has version 1.
LEMMA ConfigTypedInit == ASSUME ConfigBounds, Config!Init PROVE ConfigTyped
<1>1. row \in Config!Row /\ row.version = 1
  <2>1. [settings |-> "default", kafka |-> FALSE] \in Config!Config
    BY DEF Config!Config, Config!Setting
  <2>2. /\ row = [config |-> row.config, channel |-> row.channel, version |-> row.version]
        /\ row.config = [settings |-> "default", kafka |-> FALSE]
        /\ row.channel \in PushChannels /\ row.version = 1
    BY DEF Config!Init
  <2>3. 1 \in 1 .. MaxUpdates + 1
    BY DEF ConfigBounds
  <2>4. QED
    BY <2>1, <2>2, <2>3 DEF Config!Row
<1>2. gateway \in [runs : Config!Boot \cup {Config!Nothing}, fetch : Config!Fetch \cup {Config!NoFetch}]
  BY DEF Config!Fetch, Config!Init
<1>3. count \in [updates : 0 .. MaxUpdates, incidents : 0 .. MaxIncidents] /\ count.updates = 0
  BY DEF ConfigBounds, Config!Init
<1>4. overlapped \in BOOLEAN
  BY Zenon DEF Config!Init
<1>5. /\ update = [u \in Updates |-> Config!Idle]
      /\ boot = [b \in Boots |-> Config!Idle]
      /\ nudges = 0 /\ latest = "default"
  BY DEF Config!Init
<1>6. Config!TypeOK
  BY <1>1, <1>2, <1>3, <1>4, <1>5 DEF Config!TypeOK, Config!Setting, ConfigBounds
<1>7. VersionsCount
  BY <1>1, <1>3, <1>5 DEF VersionsCount
<1>8. QED
  BY <1>6, <1>7 DEF ConfigTyped

\* The row, the saves and the gateway are well typed: no version is past the edits.
THEOREM ConfigTypeCorrect ==
  ASSUME ConfigBounds
  PROVE  Config!Spec => []Config!TypeOK
<1>1. Config!Init => ConfigTyped
  BY ConfigTypedInit
<1>2. ConfigTyped /\ [Config!Next]_(Config!vars) => ConfigTyped'
  BY ConfigTypedInductive
<1>3. ConfigTyped => Config!TypeOK
  BY DEF ConfigTyped
<1>4. QED
  BY <1>1, <1>2, <1>3, PTL DEF Config!Spec

-----------------------------------------------------------------------------
SavingBoot(b) == boot[b].pc \in {"save", "write"}

\* At most one save of the device is in progress.
Alone ==
    /\ \A u, v \in Updates : update[u] # Config!Idle /\ update[v] # Config!Idle => u = v
    /\ \A u \in Updates, b \in Boots : ~ (update[u] # Config!Idle /\ SavingBoot(b))
    /\ \A b, c \in Boots : SavingBoot(b) /\ SavingBoot(c) => b = c

\* What it loaded is then still the row: an edit that leaves the configuration out
\* has the row's, and a first fetch has the row's settings.
SaverIsCurrent ==
    /\ \A u \in Updates : update[u].pc = "write" /\ "config" \notin update[u].columns
                            => update[u].entity.config = row.config
    /\ \A b \in Boots : SavingBoot(b) => boot[b].entity.config.settings = row.config.settings

EditsInv == ~ overlapped => Alone /\ SaverIsCurrent /\ row.config.settings = latest

\* The settings last edited stay in the row, step by step.
LEMMA EditsInvInductive ==
  ASSUME Config!TypeOK, EditsInv, [Config!Next]_(Config!vars)
  PROVE  EditsInv'
<1> SUFFICES ASSUME ~ overlapped' PROVE EditsInv'
  BY DEF EditsInv
<1>a. ~ overlapped
  BY DEF Config!Next, Config!vars, Config!UpdateConfig, Config!UpdateStep, Config!DiffUpdate,
         Config!CommitUpdate, Config!AbortUpdate, Config!Poll, Config!Sync, Config!GetBootConfig,
         Config!BootStep, Config!DiffKafka, Config!SaveKafka, Config!Answer, Config!BootFails,
         Config!PushConfigSync, Config!LoseNudge, Config!GatewayRestarts
<1>b. Alone /\ SaverIsCurrent /\ row.config.settings = latest
  BY <1>a DEF EditsInv
<1>c. Config!Idle \notin Config!Job /\ Config!Idle.pc = "idle"
  BY DEF Config!Idle, Config!Job
<1> USE <1>b, <1>c DEF Config!TypeOK, Alone, SaverIsCurrent, SavingBoot
<1>1. ASSUME NEW u \in Updates, Config!UpdateConfig(u) PROVE EditsInv'
  <2>1. ~ Config!Saving
    BY <1>1 DEF Config!UpdateConfig
  <2>2. PICK settings \in Settings, channel \in PushChannels :
          update' = [update EXCEPT ![u] = [pc |-> "save", entity |-> Config!Edited(settings, channel), columns |-> {}]]
    BY <1>1 DEF Config!UpdateConfig
  <2>3. UNCHANGED <<row, boot, latest>>
    BY <1>1 DEF Config!UpdateConfig
  <2>4. QED
    BY <2>1, <2>2, <2>3 DEF Config!Saving, EditsInv
<1>2. ASSUME NEW u \in Updates, Config!DiffUpdate(u) PROVE EditsInv'
  <2>1. update[u] \in Config!Job
    BY <1>2 DEF Config!DiffUpdate
  <2>2. QED
    BY <1>2, <2>1, ConfigDiffering DEF Config!DiffUpdate, EditsInv
<1>3. ASSUME NEW u \in Updates, Config!CommitUpdate(u) PROVE EditsInv'
  <2>1. update[u] \in Config!Job /\ update[u] # Config!Idle
    BY <1>3 DEF Config!CommitUpdate
  <2>2. row'.config = update[u].entity.config
    BY <1>3, <2>1, ConfigWritten DEF Config!CommitUpdate
  <2>3. QED
    BY <1>3, <2>1, <2>2 DEF Config!CommitUpdate, EditsInv
<1>4. ASSUME NEW u \in Updates, Config!AbortUpdate(u) PROVE EditsInv'
  BY <1>4 DEF Config!AbortUpdate, EditsInv
<1>5. ASSUME NEW b \in Boots, Config!Poll(b) \/ Config!Sync(b) PROVE EditsInv'
  <2>1. PICK reason \in {"poll", "sync"} : Config!GetBootConfig(b, reason)
    BY <1>5 DEF Config!Poll, Config!Sync
  <2>2. UNCHANGED <<row, update, latest>>
    BY <2>1 DEF Config!GetBootConfig
  <2>3. CASE /\ boot' = [boot EXCEPT ![b] = [pc |-> "save", entity |-> Config!WithKafka(row), columns |-> {}]]
             /\ ~ Config!Saving
    <3>1. Config!WithKafka(row).config.settings = row.config.settings
      BY ConfigWithKafka
    <3>2. QED
      BY <2>2, <2>3, <3>1 DEF Config!Saving, EditsInv
  <2>4. CASE boot' = [boot EXCEPT ![b] = [pc |-> "answer", entity |-> row, columns |-> {}]]
    BY <2>2, <2>4 DEF EditsInv
  <2>5. QED
    BY <2>1, <2>3, <2>4 DEF Config!GetBootConfig
<1>6. ASSUME NEW b \in Boots, Config!DiffKafka(b) PROVE EditsInv'
  <2>1. boot[b] \in Config!Job
    BY <1>6 DEF Config!DiffKafka
  <2>2. QED
    BY <1>6, <2>1, ConfigDiffering DEF Config!DiffKafka, EditsInv
<1>7. ASSUME NEW b \in Boots, Config!SaveKafka(b) PROVE EditsInv'
  <2>1. boot[b] \in Config!Job /\ SavingBoot(b)
    BY <1>7 DEF Config!SaveKafka
  <2>2. row'.config.settings = row.config.settings
    BY <1>7, <2>1, ConfigWritten DEF Config!SaveKafka
  <2>3. boot'[b].pc = "answer" /\ \A c \in Boots \ {b} : boot'[c] = boot[c]
    BY <1>7, <2>1 DEF Config!SaveKafka, Config!Job
  <2>4. \A c \in Boots : ~ SavingBoot(c)'
    BY <2>1, <2>3
  <2>5. \A u \in Updates : update'[u] = Config!Idle
    BY <1>7, <2>1 DEF Config!SaveKafka
  <2>6. QED
    BY <1>7, <2>2, <2>4, <2>5 DEF Config!SaveKafka, EditsInv
<1>8. ASSUME NEW b \in Boots, Config!Answer(b) \/ Config!BootFails(b) PROVE EditsInv'
  BY <1>8 DEF Config!Answer, Config!BootFails, EditsInv
<1>9. CASE Config!PushConfigSync \/ Config!LoseNudge
  BY <1>9 DEF Config!PushConfigSync, Config!LoseNudge, EditsInv
<1>10. CASE Config!GatewayRestarts
  BY <1>10 DEF Config!GatewayRestarts, EditsInv
<1>11. CASE UNCHANGED Config!vars
  BY <1>11 DEF Config!vars, EditsInv
<1>12. QED
  BY <1>1, <1>2, <1>3, <1>4, <1>5, <1>6, <1>7, <1>8, <1>9, <1>10, <1>11
     DEF Config!Next, Config!UpdateStep, Config!BootStep

\* The settings of the last edit stay, whatever is fetched, nudged, lost or
\* restarted, unless two saves of the device overlap.
THEOREM LastEditStays ==
  ASSUME ConfigBounds
  PROVE  Config!Spec => []Config!EditsStay
<1>1. Config!Init => EditsInv
  BY DEF Config!Init, EditsInv, Alone, SaverIsCurrent, SavingBoot, Config!Idle
<1>2. Config!TypeOK /\ EditsInv /\ [Config!Next]_(Config!vars) => EditsInv'
  BY EditsInvInductive
<1>3. EditsInv => Config!EditsStay
  BY DEF EditsInv, Config!EditsStay
<1>4. QED
  BY <1>1, <1>2, <1>3, ConfigTypeCorrect, PTL DEF Config!Spec

-----------------------------------------------------------------------------
(***************************************************************************)
(* What the gateway's poll relies on: a version stands for settings.       *)
(***************************************************************************)
\* A copy of the row says what the row says, or has an older version.
Tells(copy) == copy.version <= row.version /\ (copy.version = row.version => copy = Config!Runs(row))

\* What the gateway runs and what requests have loaded are such copies.  An edit
\* has the next version, and leaves out only what it has as the row has it.
CopiesTell ==
    /\ Tells(gateway.runs)
    /\ \A b \in Boots : boot[b] # Config!Idle => Tells(Config!Runs(boot[b].entity))
    /\ \A b \in Boots : SavingBoot(b) => boot[b].entity.version = row.version
    /\ \A u \in Updates : update[u] # Config!Idle => update[u].entity.version = row.version + 1
    /\ \A u \in Updates : update[u].pc = "write" =>
          \A c \in Config!Columns : c \in update[u].columns \/ update[u].entity[c] = row[c]

CopiesInv == ~ overlapped => CopiesTell

\* What a gateway runs of a row: its settings, its channel and its version.
LEMMA ConfigRuns ==
  ASSUME NEW r \in Config!Row
  PROVE  /\ Config!Runs(r) \in Config!Boot
         /\ Config!Runs(r).version = r.version /\ r.version \in Int
         /\ Config!Runs(r) = [settings |-> r.config.settings, channel |-> r.channel, version |-> r.version]
BY DEF Config!Runs, Config!Row, Config!Config, Config!Boot

\* The Kafka settings a fetch stores change nothing in what the gateway runs.
LEMMA WithKafkaRuns ==
  ASSUME row \in Config!Row
  PROVE  Config!Runs(Config!WithKafka(row)) = Config!Runs(row)
<1>1. Config!WithKafka(row).channel = row.channel
  BY DEF Config!Row, Config!WithKafka
<1>2. QED
  BY <1>1, ConfigWithKafka DEF Config!Runs

\* A save that leaves out only what is the same writes the entity.
LEMMA SavedWhole ==
  ASSUME row \in Config!Row, NEW d \in Config!Job,
         \A c \in Config!Columns : c \in d.columns \/ d.entity[c] = row[c]
  PROVE  Config!Written(d) = d.entity
<1>1. d.entity \in Config!Row
  BY DEF Config!Job
<1>2. d.entity = [c \in Config!Columns |-> d.entity[c]]
  BY <1>1 DEF Config!Row, Config!Columns
<1>3. QED
  BY <1>2 DEF Config!Written

\* A save of what the row says leaves it at that.
LEMMA SavedSame ==
  ASSUME row \in Config!Row, NEW d \in Config!Job, Config!Runs(d.entity) = Config!Runs(row)
  PROVE  Config!Runs(Config!Written(d)) = Config!Runs(row)
<1>1. d.entity \in Config!Row
  BY DEF Config!Job
<1>2. /\ d.entity.config.settings = row.config.settings
      /\ d.entity.channel = row.channel /\ d.entity.version = row.version
  BY <1>1, ConfigRuns
<1>3. /\ Config!Written(d).config = IF "config" \in d.columns THEN d.entity.config ELSE row.config
      /\ Config!Written(d).channel = IF "channel" \in d.columns THEN d.entity.channel ELSE row.channel
      /\ Config!Written(d).version = IF "version" \in d.columns THEN d.entity.version ELSE row.version
  BY DEF Config!Written, Config!Columns
<1>4. QED
  BY <1>2, <1>3 DEF Config!Runs

\* The select of a save leaves out only columns the entity has as the row has them.
LEMMA ConfigCompared ==
  ASSUME NEW d \in Config!Job
  PROVE  \A c \in Config!Columns : c \in Config!Differing(d).columns \/ Config!Differing(d).entity[c] = row[c]
BY DEF Config!Job, Config!Differing

\* Copies go on telling when the row and its version stay.
LEMMA RowStays ==
  ASSUME Config!Runs(row)' = Config!Runs(row), row.version' = row.version, NEW copy, Tells(copy)
  PROVE  Tells(copy)'
BY DEF Tells

\* Each step keeps every copy of the row telling, until two saves overlap.
LEMMA CopiesInvInductive ==
  ASSUME Config!TypeOK, Config!TypeOK', EditsInv, CopiesInv, [Config!Next]_(Config!vars)
  PROVE  CopiesInv'
<1> SUFFICES ASSUME ~ overlapped' PROVE CopiesInv'
  BY DEF CopiesInv
<1>a. ~ overlapped
  BY DEF Config!Next, Config!vars, Config!UpdateConfig, Config!UpdateStep, Config!DiffUpdate,
         Config!CommitUpdate, Config!AbortUpdate, Config!Poll, Config!Sync, Config!GetBootConfig,
         Config!BootStep, Config!DiffKafka, Config!SaveKafka, Config!Answer, Config!BootFails,
         Config!PushConfigSync, Config!LoseNudge, Config!GatewayRestarts
<1>b. Alone /\ CopiesTell
  BY <1>a DEF EditsInv, CopiesInv
<1>c. Config!Idle \notin Config!Job /\ Config!Idle.pc = "idle"
  BY DEF Config!Idle, Config!Job
<1>d. /\ row \in Config!Row /\ row.version \in Int /\ row' \in Config!Row
      /\ update \in [Updates -> Config!Job \cup {Config!Idle}]
      /\ boot \in [Boots -> Config!Job \cup {Config!Idle}]
  BY ConfigRuns DEF Config!TypeOK
<1>e. ASSUME UNCHANGED row, NEW copy, Tells(copy) PROVE Tells(copy)'
  BY <1>e DEF Tells, Config!Runs
<1> USE <1>b, <1>c, <1>d DEF SavingBoot
<1>1. ASSUME NEW u \in Updates, Config!UpdateConfig(u) PROVE CopiesInv'
  <2>1. PICK settings \in Settings, channel \in PushChannels :
          update' = [update EXCEPT ![u] = [pc |-> "save", entity |-> Config!Edited(settings, channel), columns |-> {}]]
    BY <1>1 DEF Config!UpdateConfig
  <2>2. Config!Edited(settings, channel).version = row.version + 1
    BY DEF Config!Edited
  <2>3. UNCHANGED <<row, boot, gateway>>
    BY <1>1 DEF Config!UpdateConfig
  <2>4. QED
    BY <2>1, <2>2, <2>3 DEF CopiesInv, CopiesTell, Tells, Config!Runs
<1>2. ASSUME NEW u \in Updates, Config!DiffUpdate(u) PROVE CopiesInv'
  <2>1. update[u] \in Config!Job
    BY <1>2 DEF Config!DiffUpdate
  <2>2. PICK next : /\ next = Config!Differing(update[u])
                    /\ next.entity = update[u].entity
                    /\ \A c \in Config!Columns : c \in next.columns \/ next.entity[c] = row[c]
    BY <2>1, ConfigDiffering, ConfigCompared
  <2>3. update' = [update EXCEPT ![u] = next] /\ UNCHANGED <<row, boot, gateway>>
    BY <1>2, <2>2 DEF Config!DiffUpdate
  <2>4. QED
    BY <2>1, <2>2, <2>3 DEF CopiesInv, CopiesTell, Tells, Config!Runs
<1>3. ASSUME NEW u \in Updates, Config!CommitUpdate(u) PROVE CopiesInv'
  <2>1. update[u] \in Config!Job /\ update[u] # Config!Idle
    BY <1>3 DEF Config!CommitUpdate
  <2>2. row' = update[u].entity
    BY <1>3, <2>1, SavedWhole DEF Config!CommitUpdate, CopiesTell
  <2>3. row'.version = row.version + 1
    BY <2>1, <2>2 DEF CopiesTell
  <2>4. ASSUME NEW copy, Tells(copy), copy.version \in Int PROVE Tells(copy)'
    BY <2>3, <2>4 DEF Tells
  <2>5. /\ \A v \in Updates : update'[v] = Config!Idle
        /\ \A b \in Boots : ~ SavingBoot(b)
        /\ UNCHANGED <<boot, gateway>>
    BY <1>3, <2>1 DEF Config!CommitUpdate, Alone
  <2>6. gateway.runs.version \in Int
    BY DEF Config!TypeOK, Config!Boot, Config!Nothing
  <2>7. ASSUME NEW b \in Boots, boot[b] # Config!Idle PROVE Config!Runs(boot[b].entity).version \in Int
    <3>1. boot[b].entity \in Config!Row
      BY <2>7 DEF Config!Job
    <3>2. QED
      BY <3>1, ConfigRuns
  <2>8. Tells(gateway.runs)'
    <3>1. PICK copy : copy = gateway.runs /\ copy = gateway'.runs
      BY <2>5
    <3>2. Tells(copy)'
      BY <2>4, <2>6, <3>1 DEF CopiesTell
    <3>3. QED
      BY <3>1, <3>2
  <2>9. ASSUME NEW b \in Boots, boot'[b] # Config!Idle PROVE Tells(Config!Runs(boot[b].entity))'
    <3>1. PICK copy : copy = Config!Runs(boot[b].entity) /\ copy = Config!Runs(boot'[b].entity)
      BY <2>5
    <3>2. Tells(copy)'
      BY <2>4, <2>5, <2>7, <2>9, <3>1 DEF CopiesTell
    <3>3. QED
      BY <3>1, <3>2
  <2>10. QED
    BY <2>5, <2>8, <2>9 DEF CopiesInv, CopiesTell
<1>4. ASSUME NEW u \in Updates, Config!AbortUpdate(u) PROVE CopiesInv'
  BY <1>4 DEF Config!AbortUpdate, CopiesInv, CopiesTell, Tells, Config!Runs
<1>5. ASSUME NEW b \in Boots, Config!Poll(b) \/ Config!Sync(b) PROVE CopiesInv'
  <2>1. PICK reason \in {"poll", "sync"} : Config!GetBootConfig(b, reason)
    BY <1>5 DEF Config!Poll, Config!Sync
  <2>2. UNCHANGED <<row, update>> /\ gateway'.runs = gateway.runs
    BY <2>1 DEF Config!GetBootConfig, Config!TypeOK
  <2>3. PICK next : /\ boot' = [boot EXCEPT ![b] = next]
                    /\ next.entity \in {row, Config!WithKafka(row)}
    BY <2>1 DEF Config!GetBootConfig
  <2>4. next.entity.version = row.version /\ Config!Runs(next.entity) = Config!Runs(row)
    BY <2>3, ConfigWithKafka, WithKafkaRuns
  <2>5. PICK copy : copy = Config!Runs(row)
    OBVIOUS
  <2>6. Tells(copy)
    BY <2>5, ConfigRuns DEF Tells
  <2>7. QED
    BY <2>2, <2>3, <2>4, <2>5, <2>6 DEF CopiesInv, CopiesTell, Tells, Config!Runs
<1>6. ASSUME NEW b \in Boots, Config!DiffKafka(b) PROVE CopiesInv'
  <2>1. boot[b] \in Config!Job
    BY <1>6 DEF Config!DiffKafka
  <2>2. PICK next : next = Config!Differing(boot[b]) /\ next.entity = boot[b].entity /\ next.pc = "write"
    BY <2>1, ConfigDiffering
  <2>3. boot' = [boot EXCEPT ![b] = next] /\ UNCHANGED <<row, update, gateway>>
    BY <1>6, <2>2 DEF Config!DiffKafka
  <2>4. QED
    BY <1>6, <2>1, <2>2, <2>3 DEF CopiesInv, CopiesTell, Tells, Config!Runs, Config!DiffKafka
<1>7. ASSUME NEW b \in Boots, Config!SaveKafka(b) PROVE CopiesInv'
  <2>1. boot[b] \in Config!Job /\ SavingBoot(b) /\ boot[b] # Config!Idle
    BY <1>7 DEF Config!SaveKafka
  <2>2. Config!Runs(boot[b].entity) = Config!Runs(row)
    <3>1. boot[b].entity \in Config!Row
      BY <2>1 DEF Config!Job
    <3>2. QED
      BY <2>1, <3>1, ConfigRuns DEF CopiesTell, Tells
  <2>3. Config!Runs(row)' = Config!Runs(row)
    BY <1>7, <2>1, <2>2, SavedSame DEF Config!SaveKafka
  <2>4. row'.version = row.version
    BY <2>3, ConfigRuns
  <2>5. /\ \A u \in Updates : update'[u] = Config!Idle
        /\ \A c \in Boots : ~ SavingBoot(c)'
        /\ UNCHANGED gateway
    BY <1>7, <2>1 DEF Config!SaveKafka, Alone, Config!Job
  <2>6. \A c \in Boots : boot'[c].entity = boot[c].entity /\ (boot'[c] # Config!Idle => boot[c] # Config!Idle)
    BY <1>7, <2>1 DEF Config!SaveKafka, Config!Job
  <2>7. QED
    BY <2>3, <2>4, <2>5, <2>6 DEF CopiesInv, CopiesTell, Tells, Config!Runs
<1>8. ASSUME NEW b \in Boots, Config!Answer(b) PROVE CopiesInv'
  <2>1. gateway'.runs \in {gateway.runs, Config!Runs(boot[b].entity)} /\ boot[b] # Config!Idle
    BY <1>8 DEF Config!Answer
  <2>2. boot' = [boot EXCEPT ![b] = Config!Idle] /\ UNCHANGED <<row, update>>
    BY <1>8 DEF Config!Answer
  <2>3. Tells(gateway'.runs)
    BY <2>1 DEF CopiesTell
  <2>4. PICK copy : copy = gateway'.runs
    OBVIOUS
  <2>5. Tells(gateway.runs)'
    BY <2>2, <2>3, <2>4 DEF Tells, Config!Runs
  <2>6. QED
    BY <2>2, <2>5 DEF CopiesInv, CopiesTell, Tells, Config!Runs
<1>9. ASSUME NEW b \in Boots, Config!BootFails(b) PROVE CopiesInv'
  <2>1. boot' = [boot EXCEPT ![b] = Config!Idle] /\ UNCHANGED <<row, update>> /\ gateway'.runs = gateway.runs
    BY <1>9 DEF Config!BootFails, Config!TypeOK
  <2>2. QED
    BY <2>1 DEF CopiesInv, CopiesTell, Tells, Config!Runs
<1>10. CASE Config!PushConfigSync \/ Config!LoseNudge \/ UNCHANGED Config!vars
  <2>1. UNCHANGED <<row, update, boot, gateway>>
    BY <1>10 DEF Config!PushConfigSync, Config!LoseNudge, Config!vars
  <2>2. QED
    BY <2>1 DEF CopiesInv, CopiesTell, Tells, Config!Runs
<1>11. CASE Config!GatewayRestarts
  <2>1. /\ gateway'.runs.version = 0 /\ 1 <= row.version
        /\ UNCHANGED <<row, update, boot>>
    BY <1>11 DEF Config!GatewayRestarts, Config!Nothing, Config!Row
  <2>2. QED
    BY <2>1 DEF CopiesInv, CopiesTell, Tells, Config!Runs
<1>12. QED
  BY <1>1, <1>2, <1>3, <1>4, <1>5, <1>6, <1>7, <1>8, <1>9, <1>10, <1>11
     DEF Config!Next, Config!UpdateStep, Config!BootStep

\* Comparing versions is enough: unless two saves overlapped, a gateway whose
\* version is the stored one runs what is stored, and no version is ahead of it.
THEOREM VersionsTell ==
  ASSUME ConfigBounds
  PROVE  Config!Spec => [](~ overlapped => Tells(gateway.runs))
<1>1. Config!Init => EditsInv
  BY DEF Config!Init, EditsInv, Alone, SaverIsCurrent, SavingBoot, Config!Idle
<1>2. Config!Init => CopiesInv
  BY DEF Config!Init, CopiesInv, CopiesTell, Tells, SavingBoot, Config!Idle, Config!Nothing
<1>3. Config!TypeOK /\ EditsInv /\ [Config!Next]_(Config!vars) => EditsInv'
  BY EditsInvInductive
<1>4. Config!TypeOK /\ Config!TypeOK' /\ EditsInv /\ CopiesInv /\ [Config!Next]_(Config!vars) => CopiesInv'
  BY CopiesInvInductive
<1>5. CopiesInv => (~ overlapped => Tells(gateway.runs))
  BY DEF CopiesInv, CopiesTell
<1>6. QED
  BY <1>1, <1>2, <1>3, <1>4, <1>5, ConfigTypeCorrect, PTL DEF Config!Spec

-----------------------------------------------------------------------------
(***************************************************************************)
(* The channels on which a user is warned                                  *)
(***************************************************************************)
NotifyBounds == MaxRequests \in Nat /\ MaxFaults \in Nat

\* Who a channel can reach.
Of(c) == IF c = "ZALO" THEN Chats ELSE Tokens

\* A save in progress on a channel: it changes what belongs to the channel, a row
\* it loaded is still there in some form, and, unless the channel was raced for,
\* it writes the columns in which its entity differs from the row it loaded.
Fits(c, save) ==
    /\ save \in Notify!Saving
    /\ save.edit.enabled \in {{}, {TRUE}, {FALSE}}
    /\ save.edit.add \subseteq Of(c)
    /\ save.loaded # Notify!Absent => config[c] # Notify!Absent /\ save.loaded.to \subseteq Of(c)
    /\ save.pc = "write" => save.loaded # Notify!Absent
    /\ save.pc = "write" /\ c \notin raced
       => save.columns = Notify!Differing(Notify!Edited(save.loaded, save.edit), save.loaded)

\* A part of a warning that is being sent, pruned, recorded, or over.
PartFits(c, part) ==
    \/ part = Notify!Idle
    \/ part \in [pc : {"record"}, status : {"SENT", "FAILED"}]
    \/ part \in [pc : {"send"}, loaded : Notify!Row] /\ part.loaded.to \subseteq Of(c) /\ config[c] # Notify!Absent
    \/ Fits(c, part)

Requesting == [pc : {"request"}, channel : Notify!Channels, job : Notify!Saving]
Finding    == [pc : {"find"}, channels : SUBSET Notify!Channels, test : BOOLEAN]
Warning    == [pc : {"warn"}, parts : Notify!Parts, test : BOOLEAN]

RunFits(r) ==
    \/ r = Notify!Idle
    \/ r \in Finding
    \/ r \in Requesting /\ Fits(r.channel, r.job)
    \/ r \in Warning /\ \A c \in Notify!Channels : PartFits(c, r.parts[c])

RunsFit == run \in [Actors -> Requesting \cup Finding \cup Warning \cup {Notify!Idle}]
           /\ \A a \in Actors : RunFits(run[a])

RowsFit ==
    /\ config \in [Notify!Channels -> Notify!Row \cup {Notify!Absent}]
    /\ \A c \in Notify!Channels : config[c] # Notify!Absent => config[c].to \subseteq Of(c)
    /\ wanted \in [Notify!Channels -> [enabled : BOOLEAN, to : SUBSET Notify!Recipients]]
    /\ raced \subseteq Notify!Channels
    /\ Notify!SavesAddUp

NotifyInv ==
    /\ RowsFit /\ RunsFit
    /\ alive \subseteq Tokens
    /\ count \in [requests : 0 .. MaxRequests, faults : 0 .. MaxFaults]

\* Rows stay, and what was raced for stays raced for.
Grows == /\ \A c \in Notify!Channels : config[c] # Notify!Absent => config'[c] # Notify!Absent
         /\ raced \subseteq raced'

\* A save goes on fitting while rows stay,
LEMMA FitsOn == ASSUME Grows PROVE \A c \in Notify!Channels : \A j : Fits(c, j) => Fits(c, j)'
BY DEF Grows, Fits

\* so does a part of a warning,
LEMMA PartFitsOn == ASSUME Grows PROVE \A c \in Notify!Channels : \A p : PartFits(c, p) => PartFits(c, p)'
BY FitsOn DEF Grows, PartFits

\* and a request or a warning as a whole.
LEMMA RunFitsOn == ASSUME Grows PROVE \A r : RunFits(r) => RunFits(r)'
<1> SUFFICES ASSUME NEW r, RunFits(r) PROVE RunFits(r)'
  OBVIOUS
<1>1. CASE r \in Requesting /\ Fits(r.channel, r.job)
  BY <1>1, FitsOn DEF RunFits, Requesting
<1>2. CASE r \in Warning /\ \A c \in Notify!Channels : PartFits(c, r.parts[c])
  BY <1>2, PartFitsOn DEF RunFits
<1>3. QED
  BY <1>1, <1>2 DEF RunFits

\* What somebody goes on with leaves the others as they are.
LEMMA GoesOnFits ==
  ASSUME RunsFit, Grows, NEW a \in Actors, NEW r, RunFits(r)', Notify!GoesOn(a, r)
  PROVE  RunsFit'
<1>1. r \in Requesting \cup Finding \cup Warning \cup {Notify!Idle}
  BY DEF RunFits
<1>2. run' = [run EXCEPT ![a] = r]
  BY DEF Notify!GoesOn
<1>3. run' \in [Actors -> Requesting \cup Finding \cup Warning \cup {Notify!Idle}]
  BY <1>1, <1>2 DEF RunsFit
<1>4. ASSUME NEW b \in Actors PROVE RunFits(run[b])'
  <2>1. CASE b = a
    BY <1>2, <2>1 DEF RunsFit
  <2>2. CASE b # a
    BY <1>2, <2>2, RunFitsOn DEF RunsFit
  <2>3. QED
    BY <2>1, <2>2
<1>5. QED
  BY <1>3, <1>4 DEF RunsFit

\* So does a warning that goes on with other parts.
LEMMA WarnsOnFits ==
  ASSUME RunsFit, Grows, NEW a \in Actors, NEW test \in BOOLEAN, run[a].test = test,
         NEW parts, parts = [c \in Notify!Channels |-> parts[c]],
         \A c \in Notify!Channels : PartFits(c, parts[c])', Notify!WarnsOn(a, parts)
  PROVE  RunsFit'
<1>1. parts \in Notify!Parts
  <2>1. ASSUME NEW c \in Notify!Channels PROVE parts[c] \in Notify!Saving \cup Notify!Sending \cup {Notify!Idle}
    BY DEF PartFits, Fits, Notify!Sending
  <2>2. QED
    BY <2>1 DEF Notify!Parts
<1>2. PICK r : r = IF \A c \in Notify!Channels : parts[c] = Notify!Idle THEN Notify!Idle
                   ELSE [pc |-> "warn", parts |-> parts, test |-> test]
  OBVIOUS
<1>3. RunFits(r)'
  <2>1. CASE r = Notify!Idle
    BY <2>1 DEF RunFits
  <2>2. CASE r = [pc |-> "warn", parts |-> parts, test |-> test]
    <3>1. r \in Warning /\ r.parts = parts
      BY <1>1, <2>2 DEF Warning
    <3>2. QED
      BY <3>1 DEF RunFits
  <2>3. QED
    BY <1>2, <2>1, <2>2
<1>4. Notify!GoesOn(a, r)
  BY <1>2 DEF Notify!WarnsOn
<1>5. QED
  BY <1>3, <1>4, GoesOnFits

\* A warning whose one part goes on to a part that fits fits.
LEMMA PartGoesOnFits ==
  ASSUME RunsFit, Grows, NEW a \in Actors, run[a].pc = "warn", NEW c \in Notify!Channels,
         NEW next, PartFits(c, next)', Notify!PartGoesOn(a, c, next)
  PROVE  RunsFit'
<1>1. run[a] \in Warning /\ \A d \in Notify!Channels : PartFits(d, run[a].parts[d])
  BY DEF RunsFit, RunFits, Notify!Idle, Finding, Requesting
<1>2. run[a].test \in BOOLEAN /\ run[a].parts \in Notify!Parts
  BY <1>1 DEF Warning
<1>3. PICK parts, test : parts = [run[a].parts EXCEPT ![c] = next] /\ test = run[a].test
  OBVIOUS
<1>4. /\ parts = [d \in Notify!Channels |-> parts[d]]
      /\ parts[c] = next /\ \A d \in Notify!Channels \ {c} : parts[d] = run[a].parts[d]
  BY <1>2, <1>3 DEF Notify!Parts
<1>5. \A d \in Notify!Channels : PartFits(d, parts[d])'
  BY <1>1, <1>4, PartFitsOn
<1>6. QED
  BY <1>2, <1>3, <1>4, <1>5, WarnsOnFits DEF Notify!PartGoesOn

-----------------------------------------------------------------------------
\* What an edit makes of a row is a row of the same channel.
LEMMA EditedFits ==
  ASSUME NEW c \in Notify!Channels, NEW save, Fits(c, save)
  PROVE  /\ Notify!Edited(save.loaded, save.edit) \in Notify!Row
         /\ Notify!Edited(save.loaded, save.edit).to \subseteq Of(c)
<1> DEFINE old == Notify!Created(save.loaded)
<1>2. old \in Notify!Row /\ old.to \subseteq Of(c)
  BY DEF Fits, Notify!Saving, Notify!Created, Notify!Row
<1>3. save.edit \in Notify!Edit /\ save.edit.add \subseteq Of(c)
  BY DEF Fits, Notify!Saving
<1>4. PICK to : to = (old.to \cup save.edit.add) \ save.edit.drop
  OBVIOUS
<1>5. to \in SUBSET Notify!Recipients /\ to \subseteq Of(c)
  BY <1>2, <1>3, <1>4 DEF Notify!Edit, Notify!Row
<1>6. PICK enabled, linked :
        /\ enabled = IF save.edit.enabled = {} THEN old.enabled ELSE TRUE \in save.edit.enabled
        /\ linked = (save.edit.add # {} \/ (IF save.edit.unlinks THEN to # {} ELSE old.linked))
  OBVIOUS
<1>7. enabled \in BOOLEAN
  <2>1. old.enabled \in BOOLEAN
    BY <1>2 DEF Notify!Row
  <2>2. (TRUE \in save.edit.enabled) \in BOOLEAN
    OBVIOUS
  <2>3. enabled \in {old.enabled, TRUE \in save.edit.enabled}
    <3> HIDE DEF old
    <3> QED
      BY <1>6, Zenon
  <2>4. QED
    BY <2>1, <2>2, <2>3
<1>8. linked \in BOOLEAN
  <2>1. old.linked \in BOOLEAN
    BY <1>2 DEF Notify!Row
  <2>2. QED
    BY <1>6, <2>1, Zenon
<1>9. linked \/ to = {}
  BY <1>2, <1>4, <1>6 DEF Notify!Row
<1>10. Notify!Edited(save.loaded, save.edit) = [enabled |-> enabled, linked |-> linked, to |-> to]
  BY <1>4, <1>6 DEF Notify!Edited
<1>11. QED
  BY <1>5, <1>7, <1>8, <1>9, <1>10 DEF Notify!Row

\* What is written of one row over another is a row.
LEMMA WrittenFits ==
  ASSUME NEW c, NEW entity \in Notify!Row, NEW stored \in Notify!Row, NEW columns,
         entity.to \subseteq Of(c), stored.to \subseteq Of(c)
  PROVE  /\ Notify!Written(entity, stored, columns) \in Notify!Row
         /\ Notify!Written(entity, stored, columns).to \subseteq Of(c)
BY DEF Notify!Written, Notify!Row

\* Over the row it was compared with it is the entity.
LEMMA WrittenWhole ==
  ASSUME NEW entity \in Notify!Row, NEW stored \in Notify!Row
  PROVE  Notify!Written(entity, stored, Notify!Differing(entity, stored)) = entity
BY DEF Notify!Written, Notify!Row, Notify!Differing, Notify!Columns

\* The select of a save.
LEMMA ReadsFit ==
  ASSUME RowsFit, NEW c \in Notify!Channels, NEW save, Fits(c, save), Notify!Reads(c, save)
  PROVE  RowsFit' /\ Grows /\ \A next : next = Notify!Compared(c, save) => Fits(c, next)'
<1>1. /\ save.loaded # Notify!Absent
      /\ raced' = IF config[c] = save.loaded THEN raced ELSE raced \cup {c}
      /\ UNCHANGED <<config, wanted>>
  BY DEF Notify!Reads, Notify!Races
<1>2. Grows
  BY <1>1 DEF Grows
<1>3. RowsFit'
  BY <1>1 DEF RowsFit, Notify!SavesAddUp
<1>4. ASSUME NEW next, next = Notify!Compared(c, save) PROVE Fits(c, next)'
  <2>1. /\ next = [save EXCEPT !.pc = "write",
                              !.columns = Notify!Differing(Notify!Edited(save.loaded, save.edit), config[c])]
        /\ Notify!Differing(Notify!Edited(save.loaded, save.edit), config[c]) \in SUBSET Notify!Columns
        /\ save \in Notify!Saving
    BY <1>4 DEF Fits, Notify!Compared, Notify!Differing
  <2>2. /\ next \in Notify!Saving
        /\ next.pc = "write" /\ next.loaded = save.loaded /\ next.edit = save.edit
        /\ next.columns = Notify!Differing(Notify!Edited(save.loaded, save.edit), config[c])
    BY <2>1 DEF Notify!Saving
  <2>3. c \notin raced' => config[c] = save.loaded
    BY <1>1
  <2>4. next.edit.enabled \in {{}, {TRUE}, {FALSE}} /\ next.edit.add \subseteq Of(c)
    BY <2>2 DEF Fits
  <2>5. config'[c] # Notify!Absent /\ next.loaded.to \subseteq Of(c)
    BY <1>1, <2>2 DEF Fits
  <2>6. c \notin raced' => next.columns = Notify!Differing(Notify!Edited(next.loaded, next.edit), next.loaded)
    BY <2>2, <2>3
  <2>7. QED
    BY <1>1, <2>2, <2>4, <2>5, <2>6 DEF Fits
<1>5. QED
  BY <1>2, <1>3, <1>4

\* The update, or the insert, of a save.
LEMMA WritesFit ==
  ASSUME RowsFit, NEW c \in Notify!Channels, NEW save, Fits(c, save), Notify!Writes(c, save)
  PROVE  RowsFit' /\ Grows
<1> DEFINE entity == Notify!Edited(save.loaded, save.edit)
             stored == IF config[c] = Notify!Absent THEN entity ELSE Notify!Written(entity, config[c], save.columns)
             sum == [enabled |-> IF save.edit.enabled = {} THEN wanted[c].enabled ELSE save.edit.enabled = {TRUE},
                     to |-> (wanted[c].to \cup save.edit.add) \ save.edit.drop]
<1>2. /\ config' = [config EXCEPT ![c] = stored]
      /\ wanted' = [wanted EXCEPT ![c] = sum]
      /\ raced' = IF config[c] = save.loaded THEN raced ELSE raced \cup {c}
      /\ save.pc = IF save.loaded = Notify!Absent THEN "save" ELSE "write"
  BY DEF Notify!Writes, Notify!Races
<1>3. entity \in Notify!Row /\ entity.to \subseteq Of(c)
  BY EditedFits
<1>4. stored \in Notify!Row /\ stored.to \subseteq Of(c)
  BY <1>3, WrittenFits DEF RowsFit
<1>5. stored # Notify!Absent
  BY <1>4 DEF Notify!Row, Notify!Absent
<1>6. Grows
  BY <1>2, <1>5 DEF Grows, RowsFit
<1>7. save.edit \in Notify!Edit /\ save.edit.enabled \in {{}, {TRUE}, {FALSE}} /\ save.edit.add \subseteq Of(c)
  BY DEF Fits, Notify!Saving
<1>8. sum \in [enabled : BOOLEAN, to : SUBSET Notify!Recipients]
  <2>1. wanted[c] \in [enabled : BOOLEAN, to : SUBSET Notify!Recipients]
    BY DEF RowsFit
  <2>2. (save.edit.enabled = {TRUE}) \in BOOLEAN
    OBVIOUS
  <2>3. sum.enabled \in BOOLEAN
    BY <2>1, <2>2
  <2>4. (wanted[c].to \cup save.edit.add) \ save.edit.drop \in SUBSET Notify!Recipients
    BY <1>7, <2>1 DEF Notify!Edit
  <2>5. QED
    BY <2>3, <2>4
<1>9. ASSUME c \notin raced'
      PROVE  LET now == Notify!Created(stored) IN [enabled |-> now.enabled, to |-> now.to] = sum
  <2>1. config[c] = save.loaded /\ c \notin raced
    BY <1>2, <1>9
  <2>2. stored = entity
    <3>1. CASE save.loaded = Notify!Absent
      BY <2>1, <3>1
    <3>2. CASE save.loaded # Notify!Absent
      <4>1. save.columns = Notify!Differing(entity, save.loaded)
        BY <1>2, <2>1, <3>2 DEF Fits
      <4>2. save.loaded \in Notify!Row
        BY <3>2 DEF Fits, Notify!Saving
      <4>3. QED
        BY <1>3, <2>1, <3>2, <4>1, <4>2, WrittenWhole
    <3>3. QED
      BY <3>1, <3>2
  <2>3. Notify!Created(stored) = entity
    BY <1>5, <2>2 DEF Notify!Created
  <2>4. wanted[c] = [enabled |-> Notify!Created(save.loaded).enabled, to |-> Notify!Created(save.loaded).to]
    BY <2>1 DEF RowsFit, Notify!SavesAddUp
  <2>5. /\ entity.enabled = IF save.edit.enabled = {} THEN Notify!Created(save.loaded).enabled ELSE TRUE \in save.edit.enabled
        /\ entity.to = (Notify!Created(save.loaded).to \cup save.edit.add) \ save.edit.drop
    BY DEF Notify!Edited
  <2>6. entity.to = sum.to
    BY <2>4, <2>5
  <2>7. entity.enabled = sum.enabled
    <3>1. CASE save.edit.enabled = {}
      BY <2>4, <2>5, <3>1
    <3>2. CASE save.edit.enabled = {TRUE}
      BY <2>5, <3>2
    <3>3. CASE save.edit.enabled = {FALSE}
      <4>1. {FALSE} # {} /\ (TRUE \in {FALSE}) = FALSE
        OBVIOUS
      <4>2. entity.enabled = FALSE
        <5> HIDE DEF entity
        <5> QED
          BY <2>5, <3>3, <4>1, Zenon
      <4>3. ({FALSE} = {TRUE}) = FALSE
        OBVIOUS
      <4>4. sum.enabled = FALSE
        BY <3>3, <4>1, <4>3
      <4>5. QED
        BY <4>2, <4>4
    <3>4. QED
      BY <1>7, <3>1, <3>2, <3>3
  <2>8. QED
    BY <2>3, <2>6, <2>7
<1>10. RowsFit'
  <2> HIDE DEF stored, sum
  <2>1. raced' \subseteq Notify!Channels /\ raced \subseteq raced'
    BY <1>2 DEF RowsFit
  <2>2. config' \in [Notify!Channels -> Notify!Row \cup {Notify!Absent}]
    BY <1>2, <1>4 DEF RowsFit
  <2>3. wanted' \in [Notify!Channels -> [enabled : BOOLEAN, to : SUBSET Notify!Recipients]]
    BY <1>2, <1>8 DEF RowsFit
  <2>4. \A d \in Notify!Channels : config'[d] # Notify!Absent => config'[d].to \subseteq Of(d)
    BY <1>2, <1>4 DEF RowsFit
  <2>5. Notify!SavesAddUp'
    <3> SUFFICES ASSUME NEW d \in Notify!Channels \ raced'
                 PROVE  LET now == Notify!Created(config'[d])
                        IN [enabled |-> now.enabled, to |-> now.to] = wanted'[d]
      BY DEF Notify!SavesAddUp
    <3>1. CASE d = c
      BY <1>2, <1>9, <3>1 DEF RowsFit
    <3>2. CASE d # c
      BY <1>2, <2>1, <3>2 DEF RowsFit, Notify!SavesAddUp
    <3>3. QED
      BY <3>1, <3>2
  <2>6. QED
    BY <2>1, <2>2, <2>3, <2>4, <2>5 DEF RowsFit
<1>11. QED
  BY <1>6, <1>10

-----------------------------------------------------------------------------
\* A step that leaves the rows and the history alone.
LEMMA RowsUntouched ==
  ASSUME RowsFit, UNCHANGED <<config, wanted, raced>>
  PROVE  RowsFit' /\ Grows
BY DEF RowsFit, Grows, Notify!SavesAddUp

\* Every request that begins has an edit of its channel.
LEMMA RequestFits ==
  ASSUME NotifyInv, NEW a \in Actors, NEW c \in Notify!Channels, NEW edit \in Notify!Edit,
         edit.enabled \in {{}, {TRUE}, {FALSE}}, edit.add \subseteq Of(c), Notify!Request(a, c, edit)
  PROVE  RowsFit' /\ RunsFit'
<1>1. RowsFit' /\ Grows
  BY RowsUntouched DEF NotifyInv, Notify!Request
<1>2. PICK r, save : /\ r = [pc |-> "request", channel |-> c, job |-> save]
                    /\ save = [pc |-> "save", loaded |-> config[c], edit |-> edit, columns |-> {}]
  OBVIOUS
<1>3. save \in Notify!Saving /\ save.loaded = config[c] /\ save.edit = edit /\ save.pc = "save"
  BY <1>2 DEF NotifyInv, RowsFit, Notify!Saving
<1>4. Fits(c, save)
  BY <1>3 DEF Fits, NotifyInv, RowsFit
<1>5. RunFits(r)
  BY <1>2, <1>3, <1>4 DEF RunFits, Requesting
<1>6. RunFits(r)'
  BY <1>1, <1>5, RunFitsOn
<1>7. Notify!GoesOn(a, r)
  BY <1>2 DEF Notify!Request, Notify!Loaded
<1>8. QED
  BY <1>1, <1>6, <1>7, GoesOnFits DEF NotifyInv

\* Somebody asks for an edit that fits a channel.
Asks(a) ==
    \E c \in Notify!Channels, edit \in Notify!Edit :
        /\ edit.enabled \in {{}, {TRUE}, {FALSE}}
        /\ edit.add \subseteq Of(c)
        /\ Notify!Request(a, c, edit)

\* What a request begins with fits.
LEMMA RequestsFit ==
  ASSUME NotifyInv, NEW a \in Actors,
         \/ \E c \in Notify!Channels : Notify!UpsertConfig(a, c)
         \/ \E t \in Tokens : Notify!RegisterWebPushToken(a, t) \/ Notify!UnregisterWebPushToken(a, t)
         \/ \E z \in Chats : Notify!HandleZaloWebhook(a, z)
  PROVE  RowsFit' /\ RunsFit'
<1>1. Asks(a)
  <2>1. ASSUME NEW c \in Notify!Channels, Notify!UpsertConfig(a, c) PROVE Asks(a)
    <3>1. PICK enabled \in {{}, {TRUE}, {FALSE}} :
            Notify!Request(a, c, [Notify!NoEdit EXCEPT !.enabled = enabled])
      BY <2>1 DEF Notify!UpsertConfig
    <3>2. /\ [Notify!NoEdit EXCEPT !.enabled = enabled] \in Notify!Edit
          /\ [Notify!NoEdit EXCEPT !.enabled = enabled].enabled = enabled
          /\ [Notify!NoEdit EXCEPT !.enabled = enabled].add = {}
      BY DEF Notify!NoEdit, Notify!Edit
    <3>3. QED
      BY <3>1, <3>2 DEF Asks
  <2>2. "WEB_PUSH" \in Notify!Channels /\ "ZALO" \in Notify!Channels
        /\ Of("WEB_PUSH") = Tokens /\ Of("ZALO") = Chats
    BY DEF Notify!Channels, Of
  <2>3. ASSUME NEW t \in Tokens, Notify!RegisterWebPushToken(a, t) PROVE Asks(a)
    <3>1. /\ [Notify!NoEdit EXCEPT !.add = {t}] \in Notify!Edit
          /\ [Notify!NoEdit EXCEPT !.add = {t}].enabled = {}
          /\ [Notify!NoEdit EXCEPT !.add = {t}].add = {t}
      BY DEF Notify!NoEdit, Notify!Edit, Notify!Recipients
    <3>2. QED
      BY <2>2, <2>3, <3>1 DEF Asks, Notify!RegisterWebPushToken
  <2>4. ASSUME NEW t \in Tokens, Notify!UnregisterWebPushToken(a, t) PROVE Asks(a)
    <3>1. /\ [Notify!NoEdit EXCEPT !.drop = {t}, !.unlinks = TRUE] \in Notify!Edit
          /\ [Notify!NoEdit EXCEPT !.drop = {t}, !.unlinks = TRUE].enabled = {}
          /\ [Notify!NoEdit EXCEPT !.drop = {t}, !.unlinks = TRUE].add = {}
      BY DEF Notify!NoEdit, Notify!Edit, Notify!Recipients
    <3>2. QED
      BY <2>2, <2>4, <3>1 DEF Asks, Notify!UnregisterWebPushToken
  <2>5. ASSUME NEW z \in Chats, Notify!HandleZaloWebhook(a, z) PROVE Asks(a)
    <3>1. /\ [Notify!NoEdit EXCEPT !.add = {z}, !.drop = Chats \ {z}] \in Notify!Edit
          /\ [Notify!NoEdit EXCEPT !.add = {z}, !.drop = Chats \ {z}].enabled = {}
          /\ [Notify!NoEdit EXCEPT !.add = {z}, !.drop = Chats \ {z}].add = {z}
      BY DEF Notify!NoEdit, Notify!Edit, Notify!Recipients
    <3>2. QED
      BY <2>2, <2>5, <3>1 DEF Asks, Notify!HandleZaloWebhook
  <2>6. QED
    BY <2>1, <2>3, <2>4, <2>5
<1>2. QED
  BY <1>1, RequestFits DEF Asks

\* The save of a request.
LEMMA RequestStepsFit ==
  ASSUME NotifyInv, NEW a \in Actors, Notify!RequestStep(a) \/ Notify!RequestFails(a)
  PROVE  RowsFit' /\ RunsFit'
<1>1. run[a].pc = "request"
  BY DEF Notify!RequestStep, Notify!ReadsForSave, Notify!SaveRequest, Notify!InsertRefused, Notify!RequestFails
<1>2. run[a] \in Requesting /\ Fits(run[a].channel, run[a].job)
  BY <1>1 DEF NotifyInv, RunsFit, RunFits, Notify!Idle, Finding, Warning
<1>3. PICK c, save : run[a] = [pc |-> "request", channel |-> c, job |-> save]
                    /\ c \in Notify!Channels /\ save \in Notify!Saving /\ Fits(c, save)
  BY <1>2 DEF Requesting
<1>4. RunFits(Notify!Idle)'
  BY DEF RunFits
<1>5. CASE Notify!ReadsForSave(a)
  <2>1. PICK next : next = Notify!Compared(c, save)
    OBVIOUS
  <2>2. RowsFit' /\ Grows /\ Fits(c, next)'
    BY <1>3, <1>5, <2>1, ReadsFit DEF Notify!ReadsForSave, NotifyInv
  <2>3. PICK r : r = [pc |-> "request", channel |-> c, job |-> next]
    OBVIOUS
  <2>4. Notify!GoesOn(a, r)
    <3>1. Notify!GoesOn(a, [run[a] EXCEPT !.job = Notify!Compared(run[a].channel, @)])
      BY <1>5 DEF Notify!ReadsForSave
    <3>2. [run[a] EXCEPT !.job = next] = r
      BY <1>3, <2>3
    <3>3. QED
      BY <1>3, <2>1, <3>1, <3>2
  <2>5. RunFits(r)'
    <3>1. next \in Notify!Saving
      BY <2>2 DEF Fits
    <3>2. r \in Requesting /\ r.channel = c /\ r.job = next
      BY <1>3, <2>3, <3>1 DEF Requesting
    <3>3. QED
      BY <2>2, <3>2 DEF RunFits
  <2>6. QED
    BY <2>2, <2>4, <2>5, GoesOnFits DEF NotifyInv
<1>6. CASE Notify!SaveRequest(a)
  <2>1. RowsFit' /\ Grows
    BY <1>3, <1>6, WritesFit DEF Notify!SaveRequest, NotifyInv
  <2>2. PICK r \in {Notify!Idle, [pc |-> "find", channels |-> Notify!Channels, test |-> FALSE]} : Notify!GoesOn(a, r)
    BY <1>6 DEF Notify!SaveRequest, Notify!Greets
  <2>3. [pc |-> "find", channels |-> Notify!Channels, test |-> FALSE] \in Finding
    <3>1. Notify!Channels \in SUBSET Notify!Channels
      OBVIOUS
    <3>2. QED
      BY <3>1 DEF Finding
  <2>4. RunFits(r)'
    BY <2>2, <2>3 DEF RunFits
  <2>5. QED
    BY <2>1, <2>2, <2>4, GoesOnFits DEF NotifyInv
<1>7. CASE Notify!InsertRefused(a) \/ Notify!RequestFails(a)
  BY <1>4, <1>7, RowsUntouched, GoesOnFits DEF Notify!InsertRefused, Notify!RequestFails, NotifyInv
<1>8. QED
  BY <1>5, <1>6, <1>7 DEF Notify!RequestStep

\* A warning begins, and finds the channels to send on.
LEMMA BeginningsFit ==
  ASSUME NotifyInv, NEW a \in Actors,
         \/ \E channels \in SUBSET Notify!Channels : Notify!SendWarning(a, channels)
         \/ \E c \in Notify!Channels : Notify!SendTestMessage(a, c)
         \/ Notify!Find(a)
  PROVE  RowsFit' /\ RunsFit'
<1>1. RowsFit' /\ Grows
  BY RowsUntouched DEF NotifyInv, Notify!SendWarning, Notify!SendTestMessage, Notify!Find
<1>2. ASSUME NEW channels \in SUBSET Notify!Channels, NEW test \in BOOLEAN,
             Notify!GoesOn(a, [pc |-> "find", channels |-> channels, test |-> test])
      PROVE  RunsFit'
  <2>1. PICK r : r = [pc |-> "find", channels |-> channels, test |-> test]
    OBVIOUS
  <2>2. RunFits(r)'
    BY <2>1 DEF RunFits, Finding
  <2>3. QED
    BY <1>1, <1>2, <2>1, <2>2, GoesOnFits DEF NotifyInv
<1>3. CASE \E channels \in SUBSET Notify!Channels : Notify!SendWarning(a, channels)
  BY <1>1, <1>2, <1>3 DEF Notify!SendWarning
<1>4. CASE \E c \in Notify!Channels : Notify!SendTestMessage(a, c)
  <2>1. PICK c \in Notify!Channels : Notify!SendTestMessage(a, c)
    BY <1>4
  <2>2. {c} \in SUBSET Notify!Channels
    OBVIOUS
  <2>3. QED
    BY <1>1, <1>2, <2>1, <2>2 DEF Notify!SendTestMessage
<1>5. CASE Notify!Find(a)
  <2>1. PICK parts, test :
          /\ parts = [c \in Notify!Channels |-> IF c \in run[a].channels /\ Notify!Target(c)
                                                THEN [pc |-> "send", loaded |-> config[c]] ELSE Notify!Idle]
          /\ test = run[a].test
    OBVIOUS
  <2>2. Notify!WarnsOn(a, parts)
    BY <1>5, <2>1 DEF Notify!Find
  <2>3. test \in BOOLEAN
    <3>1. run[a] \in Finding
      BY <1>5 DEF Notify!Find, NotifyInv, RunsFit, Notify!Idle, Requesting, Warning
    <3>2. QED
      BY <2>1, <3>1 DEF Finding
  <2>4. ASSUME NEW c \in Notify!Channels PROVE PartFits(c, parts[c])
    <3>1. CASE parts[c] = Notify!Idle
      BY <3>1 DEF PartFits
    <3>2. CASE parts[c] = [pc |-> "send", loaded |-> config[c]] /\ config[c] # Notify!Absent
      BY <3>2 DEF PartFits, NotifyInv, RowsFit
    <3>3. QED
      BY <2>1, <3>1, <3>2 DEF Notify!Target
  <2>5. \A c \in Notify!Channels : PartFits(c, parts[c])'
    BY <1>1, <2>4, PartFitsOn
  <2>6. parts = [c \in Notify!Channels |-> parts[c]]
    BY <2>1
  <2>7. QED
    BY <1>1, <2>1, <2>2, <2>3, <2>5, <2>6, WarnsOnFits DEF NotifyInv
<1>6. QED
  BY <1>3, <1>4, <1>5

\* Sending, pruning and recording.
LEMMA PartStepsFit ==
  ASSUME NotifyInv, NEW a \in Actors, NEW c \in Notify!Channels,
         Notify!Send(a, c) \/ Notify!SendFails(a, c) \/ Notify!PartStep(a, c)
  PROVE  RowsFit' /\ RunsFit'
<1> DEFINE part == run[a].parts[c]
<1>1. run[a].pc = "warn"
  BY DEF Notify!Send, Notify!SendFails, Notify!PartStep, Notify!ReadsForPruning, Notify!Prune,
         Notify!RecordMessage, Notify!At
<1>2. run[a] \in Warning /\ PartFits(c, part)
  BY <1>1 DEF NotifyInv, RunsFit, RunFits, Notify!Idle, Finding, Requesting
<1>3. RunsFit
  BY DEF NotifyInv
<1>4. ASSUME NEW status \in {"SENT", "FAILED"}, Notify!PartGoesOn(a, c, Notify!Ends(a, status)), Grows
      PROVE  RunsFit'
  <2>1. PICK next : next = Notify!Ends(a, status)
    OBVIOUS
  <2>2. next = Notify!Idle \/ next = [pc |-> "record", status |-> status]
    BY <2>1 DEF Notify!Ends
  <2>3. PartFits(c, next)'
    BY <2>2 DEF PartFits
  <2>4. QED
    BY <1>1, <1>3, <1>4, <2>1, <2>3, PartGoesOnFits
<1>5. CASE Notify!Send(a, c)
  <2>1. RowsFit' /\ Grows
    BY <1>5, RowsUntouched DEF NotifyInv, Notify!Send
  <2>2. CASE Notify!PartGoesOn(a, c, Notify!Ends(a, "SENT"))
    BY <1>4, <2>1, <2>2
  <2>3. ASSUME Notify!PartGoesOn(a, c, [pc |-> "save", loaded |-> part.loaded, columns |-> {},
                                        edit |-> [Notify!NoEdit EXCEPT !.drop = Notify!Dead(part.loaded.to)]])
        PROVE  RunsFit'
    <3>1. part \in [pc : {"send"}, loaded : Notify!Row] /\ part.loaded.to \subseteq Of(c) /\ config[c] # Notify!Absent
      <4>1. part.pc = "send"
        BY <1>5 DEF Notify!Send, Notify!At, Notify!Part
      <4>2. part # Notify!Idle /\ part \notin Notify!Saving /\ part \notin [pc : {"record"}, status : {"SENT", "FAILED"}]
        BY <4>1 DEF Notify!Idle, Notify!Saving
      <4>3. QED
        BY <1>2, <4>2 DEF PartFits, Fits
    <3>2. PICK loaded, dead : loaded = part.loaded /\ dead = Notify!Dead(part.loaded.to)
      OBVIOUS
    <3>3. loaded \in Notify!Row /\ loaded.to \subseteq Of(c) /\ dead \subseteq Notify!Recipients
          /\ loaded # Notify!Absent
      BY <3>1, <3>2 DEF Notify!Dead, Notify!Row, Notify!Recipients, Notify!Absent
    <3>4. PICK edit : edit = [Notify!NoEdit EXCEPT !.drop = dead]
      OBVIOUS
    <3>5. edit \in Notify!Edit /\ edit.enabled = {} /\ edit.add = {}
      BY <3>3, <3>4 DEF Notify!NoEdit, Notify!Edit
    <3>6. PICK next : next = [pc |-> "save", loaded |-> loaded, columns |-> {}, edit |-> edit]
      OBVIOUS
    <3>7. next \in Notify!Saving /\ next.pc = "save" /\ next.loaded = loaded /\ next.edit = edit
      BY <3>3, <3>5, <3>6 DEF Notify!Saving
    <3>8. Fits(c, next)
      BY <3>1, <3>3, <3>5, <3>7 DEF Fits
    <3>9. PartFits(c, next)
      BY <3>8 DEF PartFits
    <3>10. PartFits(c, next)'
      BY <2>1, <3>9, PartFitsOn
    <3>11. QED
      BY <1>1, <1>3, <2>1, <2>3, <3>2, <3>4, <3>6, <3>10, PartGoesOnFits
  <2>4. QED
    BY <1>5, <2>1, <2>2, <2>3 DEF Notify!Send, Notify!Part
<1>6. CASE Notify!SendFails(a, c)
  BY <1>4, <1>6, RowsUntouched DEF NotifyInv, Notify!SendFails
<1>7. CASE Notify!ReadsForPruning(a, c)
  <2>1. Fits(c, part)
    BY <1>2, <1>7 DEF PartFits, Notify!ReadsForPruning, Notify!At, Notify!Part, Notify!Idle
  <2>2. PICK save, next : save = part /\ next = Notify!Compared(c, save)
    OBVIOUS
  <2>3. RowsFit' /\ Grows /\ Fits(c, next)'
    BY <1>7, <2>1, <2>2, ReadsFit DEF Notify!ReadsForPruning, Notify!Part, NotifyInv
  <2>4. PartFits(c, next)'
    BY <2>3 DEF PartFits
  <2>5. QED
    BY <1>1, <1>3, <1>7, <2>2, <2>3, <2>4, PartGoesOnFits DEF Notify!ReadsForPruning, Notify!Part
<1>8. CASE Notify!Prune(a, c)
  <2>1. Fits(c, part)
    BY <1>2, <1>8 DEF PartFits, Notify!Prune, Notify!At, Notify!Part, Notify!Idle
  <2>2. PICK save : save = part
    OBVIOUS
  <2>3. RowsFit' /\ Grows
    BY <1>8, <2>1, <2>2, WritesFit DEF Notify!Prune, Notify!Part, NotifyInv
  <2>4. QED
    BY <1>4, <1>8, <2>3 DEF Notify!Prune
<1>9. CASE Notify!RecordMessage(a, c)
  <2>1. RowsFit' /\ Grows
    BY <1>9, RowsUntouched DEF NotifyInv, Notify!RecordMessage
  <2>2. PartFits(c, Notify!Idle)'
    BY DEF PartFits
  <2>3. QED
    BY <1>1, <1>3, <1>9, <2>1, <2>2, PartGoesOnFits DEF Notify!RecordMessage
<1>10. QED
  BY <1>5, <1>6, <1>7, <1>8, <1>9 DEF Notify!PartStep

\* Each step keeps rows, requests and warnings fitting.
LEMMA NotifyInvInductive ==
  ASSUME NotifyBounds, NotifyInv, [Notify!Next]_(Notify!vars)
  PROVE  NotifyInv'
<1>1. RowsFit' /\ RunsFit'
  <2>1. ASSUME UNCHANGED Notify!vars \/ \E t \in Tokens : Notify!TokenDies(t)
        PROVE  RowsFit' /\ RunsFit'
    <3>1. UNCHANGED <<config, run, wanted, raced>>
      BY <2>1 DEF Notify!vars, Notify!TokenDies
    <3>2. RowsFit' /\ Grows
      BY <3>1, RowsUntouched DEF NotifyInv
    <3>3. QED
      BY <3>1, <3>2, RunFitsOn DEF NotifyInv, RunsFit
  <2>2. QED
    BY <2>1, RequestsFit, RequestStepsFit, BeginningsFit, PartStepsFit DEF Notify!Next
<1>2. alive' \subseteq Tokens
  BY DEF NotifyInv, Notify!Next, Notify!vars, Notify!UpsertConfig, Notify!Request, Notify!SendTestMessage,
     Notify!RegisterWebPushToken, Notify!UnregisterWebPushToken, Notify!HandleZaloWebhook, Notify!RequestStep,
     Notify!ReadsForSave, Notify!SaveRequest, Notify!InsertRefused, Notify!RequestFails, Notify!SendWarning,
     Notify!Find, Notify!Send, Notify!SendFails, Notify!PartStep, Notify!ReadsForPruning, Notify!Prune,
     Notify!RecordMessage, Notify!TokenDies
<1>3. count' \in [requests : 0 .. MaxRequests, faults : 0 .. MaxFaults]
  <2>1. \/ UNCHANGED count
        \/ count.requests < MaxRequests /\ count' = [count EXCEPT !.requests = @ + 1]
        \/ Notify!Fault
    BY DEF Notify!Next, Notify!vars, Notify!UpsertConfig, Notify!Request, Notify!SendTestMessage,
       Notify!RegisterWebPushToken, Notify!UnregisterWebPushToken, Notify!HandleZaloWebhook, Notify!RequestStep,
       Notify!ReadsForSave, Notify!SaveRequest, Notify!InsertRefused, Notify!RequestFails, Notify!SendWarning,
       Notify!Find, Notify!Send, Notify!SendFails, Notify!PartStep, Notify!ReadsForPruning, Notify!Prune,
       Notify!RecordMessage, Notify!TokenDies
  <2>2. QED
    BY <2>1 DEF NotifyBounds, NotifyInv, Notify!Fault
<1>4. QED
  BY <1>1, <1>2, <1>3 DEF NotifyInv

\* At first there is nothing that could not fit.
LEMMA NotifyInvInit == ASSUME NotifyBounds, Notify!Init PROVE NotifyInv
<1>1. RowsFit
  BY DEF Notify!Init, RowsFit, Notify!SavesAddUp, Notify!Created
<1>2. RunsFit
  BY DEF Notify!Init, RunsFit, RunFits
<1>3. QED
  BY <1>1, <1>2 DEF NotifyBounds, Notify!Init, NotifyInv

\* Rows, requests and warnings fit in every reachable state.
LEMMA NotifyInvariant ==
  ASSUME NotifyBounds
  PROVE  Notify!Spec => []NotifyInv
<1>1. Notify!Init => NotifyInv
  BY NotifyInvInit
<1>2. NotifyInv /\ [Notify!Next]_(Notify!vars) => NotifyInv'
  BY NotifyInvInductive
<1>3. QED
  BY <1>1, <1>2, PTL DEF Notify!Spec

\* The rows and what requests and warnings are doing are well typed, and no row
\* holds the recipient of another channel.
THEOREM NotifyTypeCorrect ==
  ASSUME NotifyBounds
  PROVE  Notify!Spec => []Notify!TypeOK
<1>1. NotifyInv => Notify!TypeOK
  BY DEF NotifyInv, RowsFit, RunsFit, Notify!TypeOK, Requesting, Finding, Warning, Of
<1>2. QED
  BY <1>1, NotifyInvariant, PTL

\* A row that nobody saved from an older one is what the requests and prunings
\* so far come to, in the order in which they were saved.
THEOREM SavesComeToTheirSum ==
  ASSUME NotifyBounds
  PROVE  Notify!Spec => []Notify!SavesAddUp
<1>1. NotifyInv => Notify!SavesAddUp
  BY DEF NotifyInv, RowsFit
<1>2. QED
  BY <1>1, NotifyInvariant, PTL

-----------------------------------------------------------------------------
(***************************************************************************)
(* Assets and the nodes attached to them                                   *)
(***************************************************************************)
NodeWeights == 1 \in Weights

\* A row of the assets, and not the mark of one that is not there.
IsRow(r) == "life" \in DOMAIN r

\* What somebody works on belongs to the assets and nodes there are.
WorkFits(w) ==
    /\ w.pc \in {"saveNode", "writeNode"} =>
         /\ w.asset \in Assets /\ w.node \in Nodes
         /\ w.entity \in Health!NodeRow /\ w.columns \subseteq {"asset", "weight"}
    /\ w.pc \in {"nodes", "counts"} =>
         w.asset \in Assets /\ \A n \in DOMAIN w.pending : w.pending[n] \in Health!NodeRow
    /\ w.pc \in {"saveAsset", "writeAsset"} => w.asset \in Assets /\ IsRow(w.entity)

\* A node that a transaction has written, and not committed, belongs to an asset
\* that exists, as the asset is locked until then.
PendingExists(w) ==
    w.pc \in {"nodes", "counts"} =>
        \A n \in DOMAIN w.pending : w.pending[n].asset # Health!None => Health!Exists(w.pending[n].asset)

RowsKept ==
    /\ asset = [a \in Assets |-> asset[a]]
    /\ \A a \in Assets : Health!Exists(a) => IsRow(asset[a])

NodesKept == node \in [Nodes -> Health!NodeRow] /\ Health!AttachedExists

WorkKept ==
    /\ job = [j \in Health!Jobs |-> job[j]]
    /\ \A j \in Health!Jobs : WorkFits(job[j]) /\ PendingExists(job[j])
    /\ \A t \in todo : t.asset \in Assets

AttachInv == RowsKept /\ NodesKept /\ WorkKept

\* No asset goes.
Stays == \A a \in Assets : Health!Exists(a) => Health!Exists(a)'

\* A row is not the mark of an asset that is not there.
LEMMA RowIsThere == \A r : IsRow(r) => r \notin {Health!Unborn, Health!Gone}
BY DEF IsRow, Health!Unborn, Health!Gone

\* Storing a row takes no asset away.
LEMMA RowStored ==
  ASSUME RowsKept, NEW a \in Assets, NEW r, IsRow(r), asset' = [asset EXCEPT ![a] = r]
  PROVE  RowsKept' /\ Stays
BY RowIsThere DEF RowsKept, Health!Exists, Stays

\* Where no asset is written, rows stay rows and no asset goes,
LEMMA RowsUnchanged ==
  ASSUME RowsKept, UNCHANGED asset
  PROVE  RowsKept' /\ Stays
BY DEF RowsKept, Health!Exists, Stays

\* where no asset goes and no node is written, nodes stay attached to what exists,
LEMMA NodesUnchanged ==
  ASSUME NodesKept, Stays, UNCHANGED node
  PROVE  NodesKept'
BY DEF NodesKept, Stays, Health!AttachedExists, Health!NodeRow

\* Locked nodes stay with assets that exist.
LEMMA PendingStays ==
  ASSUME Stays, NEW w, WorkFits(w), PendingExists(w)
  PROVE  PendingExists(w)'
BY DEF Stays, WorkFits, PendingExists, Health!NodeRow

\* Somebody goes on with other work.
LEMMA WorkGoesOn ==
  ASSUME WorkKept, Stays, NEW j \in Health!Jobs, NEW w, WorkFits(w), PendingExists(w)',
         job' = [job EXCEPT ![j] = w], \A t \in todo' : t.asset \in Assets
  PROVE  WorkKept'
<1>1. job' = [i \in Health!Jobs |-> job'[i]]
  BY DEF WorkKept
<1>2. ASSUME NEW i \in Health!Jobs PROVE WorkFits(job'[i]) /\ PendingExists(job[i])'
  <2>1. CASE i = j
    BY <2>1 DEF WorkKept
  <2>2. CASE i # j
    <3>1. PICK v : v = job[i] /\ v = job'[i]
      BY <2>2 DEF WorkKept
    <3>2. WorkFits(v) /\ PendingExists(v)
      BY <3>1 DEF WorkKept
    <3>3. PendingExists(v)'
      BY <3>2, PendingStays
    <3>4. QED
      BY <3>1, <3>2, <3>3
  <2>3. QED
    BY <2>1, <2>2
<1>3. QED
  BY <1>1, <1>2 DEF WorkKept

\* and where nobody goes on, what everybody works on stays fitting.
LEMMA WorkUnchanged ==
  ASSUME WorkKept, Stays, UNCHANGED job, \A t \in todo' : t.asset \in Assets
  PROVE  WorkKept'
<1>1. ASSUME NEW i \in Health!Jobs PROVE WorkFits(job'[i]) /\ PendingExists(job[i])'
  <2>1. PICK v : v = job[i] /\ v = job'[i]
    OBVIOUS
  <2>2. PendingExists(v)'
    BY <2>1, PendingStays DEF WorkKept
  <2>3. QED
    BY <2>1, <2>2 DEF WorkKept
<1>2. QED
  BY <1>1 DEF WorkKept

\* Work that has nothing in hand, or has not written a node.
LEMMA NothingPending ==
  ASSUME NEW w, w.pc \in {"nodes", "counts"} => w.pending = <<>>
  PROVE  PendingExists(w)'
BY DEF PendingExists

\* A save writes a node.
LEMMA NodeWritten ==
  ASSUME NEW entity \in Health!NodeRow, NEW stored \in Health!NodeRow, NEW columns
  PROVE  /\ Health!Written(entity, columns, stored) \in Health!NodeRow
         /\ Health!Written(entity, columns, stored).asset = IF "asset" \in columns THEN entity.asset ELSE stored.asset
BY DEF Health!Written, Health!NodeRow

-----------------------------------------------------------------------------
\* Somebody goes on, and neither assets nor nodes change.
LEMMA OnlyWork ==
  ASSUME AttachInv, UNCHANGED <<asset, node>>, NEW j \in Health!Jobs, NEW w, WorkFits(w), PendingExists(w)',
         job' = [job EXCEPT ![j] = w], \A t \in todo' : t.asset \in Assets
  PROVE  AttachInv'
BY RowsUnchanged, NodesUnchanged, WorkGoesOn DEF AttachInv

\* A request about an asset begins with an asset that exists.
LEMMA AssetRequestsFit ==
  ASSUME AttachInv, NEW q \in Requests, NEW a \in Assets, Health!UpdateAsset(q, a) \/ Health!GetAssessment(q, a)
  PROVE  AttachInv'
<1>0. q \in Health!Jobs /\ Health!Exists(a) /\ UNCHANGED <<asset, node, todo>>
  BY DEF Health!Jobs, Health!UpdateAsset, Health!GetAssessment
<1>1. \A t \in todo' : t.asset \in Assets
  BY <1>0 DEF AttachInv, WorkKept
<1>2. CASE Health!UpdateAsset(q, a)
  <2>1. PICK life, entity, w : /\ entity = [asset[a] EXCEPT !.life = life]
                               /\ w = [pc |-> "saveAsset", asset |-> a, entity |-> entity, columns |-> {}]
                               /\ job' = [job EXCEPT ![q] = w]
    BY <1>2 DEF Health!UpdateAsset
  <2>2. IsRow(entity)
    BY <1>0, <2>1 DEF AttachInv, RowsKept, IsRow
  <2>3. WorkFits(w) /\ PendingExists(w)'
    BY <2>1, <2>2 DEF WorkFits, PendingExists
  <2>4. QED
    BY <1>0, <1>1, <2>1, <2>3, OnlyWork
<1>3. CASE Health!GetAssessment(q, a)
  <2>1. PICK life, w : w = [pc |-> "nodes", asset |-> a, life |-> life, pending |-> <<>>] /\ job' = [job EXCEPT ![q] = w]
    BY <1>3 DEF Health!GetAssessment
  <2>2. WorkFits(w) /\ PendingExists(w)'
    BY <2>1 DEF WorkFits, PendingExists
  <2>3. QED
    BY <1>0, <1>1, <2>1, <2>2, OnlyWork
<1>4. QED
  BY <1>2, <1>3

\* A request about a node begins with a node and an asset that exist.
LEMMA NodeRequestsFit ==
  ASSUME AttachInv, NEW q \in Requests, NEW a \in Assets, NEW n \in Nodes,
         Health!AttachNode(q, a, n) \/ Health!UpdateNodeWeight(q, a, n) \/ Health!DetachNode(q, a, n)
  PROVE  AttachInv'
<1>1. PICK entity \in Health!NodeRow : Health!ChangeNode(q, a, n, entity)
  <2>1. node[n].weight \in Weights
    BY DEF AttachInv, NodesKept, Health!NodeRow
  <2>2. \A weight \in Weights : /\ [asset |-> a, weight |-> weight] \in Health!NodeRow
                                 /\ [asset |-> Health!None, weight |-> weight] \in Health!NodeRow
    BY DEF Health!NodeRow
  <2>3. QED
    BY <2>1, <2>2 DEF Health!AttachNode, Health!UpdateNodeWeight, Health!DetachNode
<1>2. PICK life, w : /\ w = [pc |-> "saveNode", asset |-> a, life |-> life, node |-> n,
                             entity |-> entity, columns |-> {}]
                     /\ job' = [job EXCEPT ![q] = w]
  BY <1>1 DEF Health!ChangeNode
<1>3. WorkFits(w) /\ PendingExists(w)'
  BY <1>1, <1>2 DEF WorkFits, PendingExists
<1>4. q \in Health!Jobs /\ UNCHANGED <<asset, node, todo>>
  BY <1>1 DEF Health!Jobs, Health!ChangeNode
<1>5. \A t \in todo' : t.asset \in Assets
  BY <1>4 DEF AttachInv, WorkKept
<1>6. QED
  BY <1>2, <1>3, <1>4, <1>5, OnlyWork

\* Saving a node, and assessing with it.
LEMMA NodeStepsFit ==
  ASSUME AttachInv, NEW j \in Health!Jobs, \/ Health!SaveNode(j) \/ Health!WriteNode(j)
                                              \/ Health!ReadNodes(j) \/ Health!CountBreaches(j)
  PROVE  AttachInv'
<1> DEFINE d == job[j]
<1>1. UNCHANGED <<asset, node, todo>>
  BY DEF Health!SaveNode, Health!WriteNode, Health!ReadNodes, Health!CountBreaches
<1>2. \A t \in todo' : t.asset \in Assets
  BY <1>1 DEF AttachInv, WorkKept
<1>3. WorkFits(d) /\ PendingExists(d)
  BY DEF AttachInv, WorkKept
<1>4. CASE Health!SaveNode(j)
  <2>1. PICK columns : columns = Health!Differing(d.entity, node[d.node])
    OBVIOUS
  <2>2. d.asset \in Assets /\ d.node \in Nodes /\ d.entity \in Health!NodeRow /\ d.pc = "saveNode"
    BY <1>3, <1>4 DEF Health!SaveNode, WorkFits
  <2>3. columns \subseteq {"asset", "weight"}
    BY <2>1, <2>2 DEF Health!Differing, Health!NodeRow
  <2>4. PICK w : w = [d EXCEPT !.pc = "writeNode", !.columns = columns] /\ job' = [job EXCEPT ![j] = w]
    BY <1>4, <2>1 DEF Health!SaveNode
  <2>5. WorkFits(w) /\ PendingExists(w)'
    BY <2>2, <2>3, <2>4 DEF WorkFits, PendingExists
  <2>6. QED
    BY <1>1, <1>2, <2>4, <2>5, OnlyWork
<1>5. CASE Health!WriteNode(j)
  <2>1. d.asset \in Assets /\ d.node \in Nodes /\ d.entity \in Health!NodeRow /\ d.columns \subseteq {"asset", "weight"}
    BY <1>3, <1>5 DEF Health!WriteNode, WorkFits
  <2>2. PICK stored, pending :
          /\ stored = Health!Written(d.entity, d.columns, node[d.node])
          /\ pending = [n \in {d.node : c \in d.columns} |-> stored]
    OBVIOUS
  <2>3. stored \in Health!NodeRow /\ stored.asset = IF "asset" \in d.columns THEN d.entity.asset ELSE node[d.node].asset
    BY <2>1, <2>2, NodeWritten DEF AttachInv, NodesKept
  <2>4. CASE job' = [job EXCEPT ![j] = Health!Idle]
    <3>1. PICK w : w = Health!Idle
      OBVIOUS
    <3>2. WorkFits(w) /\ PendingExists(w)'
      BY <3>1 DEF WorkFits, PendingExists, Health!Idle
    <3>3. QED
      BY <1>1, <1>2, <2>4, <3>1, <3>2, OnlyWork
  <2>5. ASSUME job' = [job EXCEPT ![j] = [pc |-> "nodes", asset |-> d.asset, life |-> d.life, pending |-> pending]],
               "asset" \in d.columns /\ stored.asset # Health!None => Health!Exists(stored.asset)
        PROVE  AttachInv'
    <3>1. PICK w : w = [pc |-> "nodes", asset |-> d.asset, life |-> d.life, pending |-> pending]
      OBVIOUS
    <3>2. \A n \in DOMAIN pending : pending[n] = stored
      BY <2>2
    <3>3. WorkFits(w)
      BY <2>1, <2>3, <3>1, <3>2 DEF WorkFits
    <3>4. stored.asset # Health!None => Health!Exists(stored.asset)
      BY <2>1, <2>3, <2>5 DEF AttachInv, NodesKept, Health!AttachedExists
    <3>5. PendingExists(w)
      BY <3>1, <3>2, <3>4 DEF PendingExists
    <3>6. PendingExists(w)'
      BY <1>1, <3>3, <3>5, RowsUnchanged, PendingStays DEF AttachInv
    <3>7. QED
      BY <1>1, <1>2, <2>5, <3>1, <3>3, <3>6, OnlyWork
  <2>6. QED
    BY <1>5, <2>2, <2>4, <2>5 DEF Health!WriteNode
<1>6. CASE Health!ReadNodes(j)
  <2>1. PICK weight, told, w : /\ w = [pc |-> "counts", asset |-> d.asset, life |-> d.life, weight |-> weight,
                                        told |-> told, left |-> DOMAIN weight, pending |-> d.pending]
                               /\ job' = [job EXCEPT ![j] = w]
    BY <1>6 DEF Health!ReadNodes
  <2>2. WorkFits(w) /\ PendingExists(w)
    BY <1>3, <1>6, <2>1 DEF WorkFits, PendingExists, Health!ReadNodes
  <2>3. PendingExists(w)'
    BY <1>1, <2>2, RowsUnchanged, PendingStays DEF AttachInv
  <2>4. QED
    BY <1>1, <1>2, <2>1, <2>2, <2>3, OnlyWork
<1>7. CASE Health!CountBreaches(j)
  <2>0. PICK n, left, told : /\ left = d.left \ {n} /\ told = Health!Counted(d.told, n)
                             /\ job' = [job EXCEPT ![j].left = left, ![j].told = told]
    BY <1>7 DEF Health!CountBreaches
  <2>1. PICK w : w = [d EXCEPT !.left = left, !.told = told] /\ job' = [job EXCEPT ![j] = w]
    BY <2>0 DEF AttachInv, WorkKept
  <2>2. WorkFits(w) /\ PendingExists(w)
    BY <1>3, <1>7, <2>1 DEF WorkFits, PendingExists, Health!CountBreaches
  <2>3. PendingExists(w)'
    BY <1>1, <2>2, RowsUnchanged, PendingStays DEF AttachInv
  <2>4. QED
    BY <1>1, <1>2, <2>1, <2>2, <2>3, OnlyWork
<1>8. QED
  BY <1>4, <1>5, <1>6, <1>7

\* Nobody's work changes, or somebody has done with it.
LEMMA WorkEnds ==
  ASSUME WorkKept, Stays, UNCHANGED todo, NEW j \in Health!Jobs,
         UNCHANGED job \/ job' = [job EXCEPT ![j] = Health!Idle]
  PROVE  WorkKept'
<1>1. \A t \in todo' : t.asset \in Assets
  BY DEF WorkKept
<1>2. PICK w : w = Health!Idle
  OBVIOUS
<1>3. WorkFits(w) /\ PendingExists(w)'
  BY <1>2 DEF WorkFits, PendingExists, Health!Idle
<1>4. QED
  BY <1>1, <1>2, <1>3, WorkGoesOn, WorkUnchanged

\* Creating and saving an asset.
LEMMA AssetStepsFit ==
  ASSUME AttachInv, NEW j \in Health!Jobs,
         Health!SaveAsset(j) \/ Health!WriteAsset(j) \/ \E a \in Assets : Health!CreateAsset(a)
  PROVE  AttachInv'
<1>0. UNCHANGED <<node, todo>>
  BY DEF Health!SaveAsset, Health!WriteAsset, Health!CreateAsset
<1>1. ASSUME RowsKept', Stays, UNCHANGED job \/ job' = [job EXCEPT ![j] = Health!Idle]
      PROVE  AttachInv'
  BY <1>0, <1>1, NodesUnchanged, WorkEnds DEF AttachInv
<1>2. CASE \E a \in Assets : Health!CreateAsset(a)
  <2>1. PICK a \in Assets, life \in Lives : asset' = [asset EXCEPT ![a] = Health!New(life)] /\ UNCHANGED job
    BY <1>2 DEF Health!CreateAsset
  <2>2. IsRow(Health!New(life))
    BY DEF IsRow, Health!New
  <2>3. QED
    BY <1>1, <2>1, <2>2, RowStored DEF AttachInv
<1>3. CASE Health!SaveAsset(j)
  <2>1. job[j].asset \in Assets /\ IsRow(job[j].entity) /\ job[j].pc = "saveAsset"
    BY <1>3 DEF Health!SaveAsset, AttachInv, WorkKept, WorkFits
  <2>2. CASE Health!Exists(job[j].asset)
    <3>1. PICK columns, w : /\ w = [job[j] EXCEPT !.pc = "writeAsset", !.columns = columns]
                            /\ job' = [job EXCEPT ![j] = w] /\ UNCHANGED asset
      BY <1>3, <2>2 DEF Health!SaveAsset
    <3>2. WorkFits(w) /\ PendingExists(w)'
      BY <2>1, <3>1 DEF WorkFits, PendingExists
    <3>3. \A t \in todo' : t.asset \in Assets
      BY <1>0 DEF AttachInv, WorkKept
    <3>4. QED
      BY <1>0, <3>1, <3>2, <3>3, OnlyWork
  <2>3. CASE ~ Health!Exists(job[j].asset)
    BY <1>1, <1>3, <2>1, <2>3, RowStored DEF Health!SaveAsset, AttachInv
  <2>4. QED
    BY <2>2, <2>3
<1>4. CASE Health!WriteAsset(j)
  <2>1. job[j].asset \in Assets /\ job' = [job EXCEPT ![j] = Health!Idle]
    BY <1>4 DEF Health!WriteAsset, AttachInv, WorkKept, WorkFits
  <2>2. PICK a, stored : a = job[j].asset /\ stored = Health!Written(job[j].entity, job[j].columns, asset[a])
    OBVIOUS
  <2>3. CASE Health!Exists(a)
    <3>1. IsRow(stored)
      BY <2>1, <2>2, <2>3 DEF IsRow, AttachInv, RowsKept, Health!Written
    <3>2. asset' = [asset EXCEPT ![a] = stored]
      BY <1>4, <2>2, <2>3 DEF Health!WriteAsset
    <3>3. QED
      BY <1>1, <2>1, <2>2, <3>1, <3>2, RowStored DEF AttachInv
  <2>4. CASE ~ Health!Exists(a)
    <3>1. asset' = asset
      BY <1>4, <2>1, <2>2, <2>4 DEF Health!WriteAsset, AttachInv, RowsKept
    <3>2. QED
      BY <1>1, <2>1, <3>1, RowsUnchanged DEF AttachInv
  <2>5. QED
    BY <2>3, <2>4
<1>5. QED
  BY <1>2, <1>3, <1>4

\* The index is stored, and what the transaction wrote is committed.
LEMMA StoreFits ==
  ASSUME AttachInv, NEW j \in Health!Jobs, Health!StoreIndex(j)
  PROVE  AttachInv'
<1>1. PICK a, pending : a = job[j].asset /\ pending = job[j].pending
  OBVIOUS
<1>2. /\ a \in Assets
      /\ \A n \in DOMAIN pending : pending[n] \in Health!NodeRow
      /\ \A n \in DOMAIN pending : pending[n].asset # Health!None => Health!Exists(pending[n].asset)
  BY <1>1 DEF Health!StoreIndex, AttachInv, WorkKept, WorkFits, PendingExists
<1>3. PICK health, stored : stored = Health!Assessed(health, a) /\ asset' = [asset EXCEPT ![a] = stored]
  BY <1>1 DEF Health!StoreIndex
<1>4. RowsKept' /\ Stays
  <2>1. CASE Health!Exists(a)
    <3>1. IsRow(stored)
      BY <1>2, <1>3, <2>1 DEF IsRow, AttachInv, RowsKept, Health!Assessed
    <3>2. QED
      BY <1>2, <1>3, <3>1, RowStored DEF AttachInv
  <2>2. CASE ~ Health!Exists(a)
    <3>1. asset' = asset
      BY <1>2, <1>3, <2>2 DEF Health!Assessed, AttachInv, RowsKept
    <3>2. QED
      BY <3>1, RowsUnchanged DEF AttachInv
  <2>3. QED
    BY <2>1, <2>2
<1>5. node' = [n \in Nodes |-> IF n \in DOMAIN pending THEN pending[n] ELSE node[n]]
  BY <1>1 DEF Health!StoreIndex, Health!Seen
<1>6. node' \in [Nodes -> Health!NodeRow]
  BY <1>2, <1>5 DEF AttachInv, NodesKept
<1>7. ASSUME NEW n \in Nodes, node'[n].asset # Health!None
      PROVE  Health!Exists(node[n].asset)'
  <2>1. PICK b : b = node'[n].asset
    OBVIOUS
  <2>2. b \in Assets
    BY <1>6, <1>7, <2>1 DEF Health!NodeRow
  <2>3. Health!Exists(b)
    BY <1>2, <1>5, <1>7, <2>1 DEF AttachInv, NodesKept, Health!AttachedExists
  <2>4. Health!Exists(b)'
    BY <1>4, <2>2, <2>3 DEF Stays
  <2>5. QED
    BY <2>1, <2>4
<1>8. NodesKept'
  BY <1>6, <1>7 DEF NodesKept, Health!AttachedExists
<1>9. QED
  BY <1>4, <1>8, WorkEnds DEF AttachInv, Health!StoreIndex

\* Deleting an asset: its nodes are released, and no transaction holds one of it.
LEMMA DeleteFits ==
  ASSUME AttachInv, NEW a \in Assets, Health!DeleteAsset(a)
  PROVE  AttachInv'
<1>1. /\ asset' = [asset EXCEPT ![a] = Health!Gone] /\ UNCHANGED <<job, todo>>
      /\ node' = [n \in Nodes |-> IF node[n].asset = a THEN [node[n] EXCEPT !.asset = Health!None] ELSE node[n]]
      /\ ~ Health!AssetLocked(a)
  BY DEF Health!DeleteAsset, Health!Released
<1>2. RowsKept' /\ \A b \in Assets \ {a} : Health!Exists(b) => Health!Exists(b)'
  BY <1>1 DEF AttachInv, RowsKept, Health!Exists
<1>3. node' \in [Nodes -> Health!NodeRow] /\ \A n \in Nodes : node'[n].asset # a \/ a = Health!None
  BY <1>1 DEF AttachInv, NodesKept, Health!NodeRow
<1>4. ASSUME NEW n \in Nodes, node'[n].asset # Health!None
      PROVE  Health!Exists(node[n].asset)'
  <2>1. PICK b : b = node'[n].asset
    OBVIOUS
  <2>2. b = node[n].asset /\ b \in Assets \ {a}
    BY <1>1, <1>3, <1>4, <2>1 DEF AttachInv, NodesKept, Health!NodeRow
  <2>3. Health!Exists(b)'
    BY <1>2, <1>4, <2>1, <2>2 DEF AttachInv, NodesKept, Health!AttachedExists
  <2>4. QED
    BY <2>1, <2>3
<1>5. NodesKept'
  BY <1>3, <1>4 DEF NodesKept, Health!AttachedExists
<1>6. ASSUME NEW j \in Health!Jobs PROVE WorkFits(job'[j]) /\ PendingExists(job[j])'
  <2>1. PICK w : w = job[j] /\ w = job'[j]
    BY <1>1
  <2>2. WorkFits(w) /\ PendingExists(w)
    BY <2>1 DEF AttachInv, WorkKept
  <2>3. w.pc \in {"nodes", "counts"} => \A n \in DOMAIN w.pending : w.pending[n].asset # a
    BY <1>1, <2>1 DEF Health!AssetLocked, Health!PendingOf
  <2>4. PendingExists(w)'
    BY <1>2, <2>2, <2>3 DEF PendingExists, WorkFits, Health!NodeRow
  <2>5. QED
    BY <2>1, <2>2, <2>4
<1>7. WorkKept'
  BY <1>1, <1>6 DEF AttachInv, WorkKept
<1>8. QED
  BY <1>2, <1>5, <1>7 DEF AttachInv

\* The sweep loads and takes up assets that exist.
LEMMA AssetSweepFits ==
  ASSUME AttachInv, Health!SweepStarts \/ Health!SweepNext
  PROVE  AttachInv'
<1>1. CASE Health!SweepStarts
  <2>1. \A t \in todo' : t.asset \in Assets
    BY <1>1 DEF Health!SweepStarts, Health!Loaded
  <2>2. QED
    BY <1>1, <2>1, RowsUnchanged, NodesUnchanged, WorkUnchanged DEF Health!SweepStarts, AttachInv
<1>2. CASE Health!SweepNext
  <2>1. PICK t \in todo : /\ todo' = todo \ {t}
                          /\ job' = [job EXCEPT ![Health!Sweep] =
                                [pc |-> "nodes", asset |-> t.asset, life |-> t.life, pending |-> <<>>]]
    BY <1>2 DEF Health!SweepNext
  <2>2. PICK w : w = [pc |-> "nodes", asset |-> t.asset, life |-> t.life, pending |-> <<>>]
    OBVIOUS
  <2>3. WorkFits(w) /\ PendingExists(w)'
    BY <2>2 DEF WorkFits, PendingExists, AttachInv, WorkKept
  <2>4. Health!Sweep \in Health!Jobs /\ UNCHANGED <<asset, node>> /\ \A u \in todo' : u.asset \in Assets
    BY <1>2, <2>1 DEF Health!Jobs, Health!SweepNext, AttachInv, WorkKept
  <2>5. QED
    BY <2>1, <2>2, <2>3, <2>4, OnlyWork
<1>3. QED
  BY <1>1, <1>2

\* Each step leaves every node, written or committed, with an asset that exists.
LEMMA AttachInvInductive ==
  ASSUME AttachInv, [Health!Next]_(Health!vars)
  PROVE  AttachInv'
<1>1. ASSUME UNCHANGED <<asset, node, todo>>, NEW j \in Health!Jobs,
             UNCHANGED job \/ job' = [job EXCEPT ![j] = Health!Idle]
      PROVE  AttachInv'
  BY <1>1, RowsUnchanged, NodesUnchanged, WorkEnds DEF AttachInv
<1>2. Health!Sweep \in Health!Jobs
  BY DEF Health!Jobs
<1>3. CASE UNCHANGED Health!vars \/ \E n \in Nodes : Health!ReadingChanges(n)
  BY <1>1, <1>2, <1>3 DEF Health!vars, Health!ReadingChanges
<1>4. ASSUME NEW j \in Health!Jobs, Health!Fails(j) PROVE AttachInv'
  BY <1>1, <1>4 DEF Health!Fails
<1>5. ASSUME NEW j \in Health!Jobs, Health!JobStep(j) PROVE AttachInv'
  BY <1>5, AssetStepsFit, NodeStepsFit, StoreFits DEF Health!JobStep
<1>6. ASSUME NEW a \in Assets, Health!CreateAsset(a) \/ Health!DeleteAsset(a) PROVE AttachInv'
  BY <1>2, <1>6, AssetStepsFit, DeleteFits
<1>7. QED
  BY <1>3, <1>4, <1>5, <1>6, AssetRequestsFit, NodeRequestsFit, AssetSweepFits DEF Health!Next

\* At first no node is attached.
LEMMA AttachInvInit == ASSUME NodeWeights, Health!Init PROVE AttachInv
<1>1. RowsKept
  BY DEF Health!Init, RowsKept, Health!Exists
<1>2. NodesKept
  BY DEF NodeWeights, Health!Init, NodesKept, Health!AttachedExists, Health!NodeRow
<1>3. WorkKept
  BY DEF Health!Init, WorkKept, WorkFits, PendingExists, Health!Idle
<1>4. QED
  BY <1>1, <1>2, <1>3 DEF AttachInv

\* No node is left with an asset that is gone, whatever attach, re-attach, deletion
\* and re-insertion overlap.
THEOREM NodesAttachedToRows ==
  ASSUME NodeWeights
  PROVE  Health!Spec => []Health!AttachedExists
<1>1. Health!Init => AttachInv
  BY AttachInvInit
<1>2. AttachInv /\ [Health!Next]_(Health!vars) => AttachInv'
  BY AttachInvInductive
<1>3. AttachInv => Health!AttachedExists
  BY DEF AttachInv, NodesKept
<1>4. QED
  BY <1>1, <1>2, <1>3, PTL DEF Health!Spec

-----------------------------------------------------------------------------
(***************************************************************************)
(* The index of an asset: induction, and sums over a finite set            *)
(***************************************************************************)
Less == {p \in Nat \X Nat : p[1] < p[2]}

\* A set of naturals that goes on from each of its elements has them all.
LEMMA AllNaturals ==
  ASSUME NEW T, 0 \in T, \A n \in T : n \in Nat => n + 1 \in T
  PROVE  Nat \subseteq T
<1>1. IsWellFoundedOn(Less, Nat)
  BY NatLessThanWellFounded, Zenon DEF Less, OpToRel
<1> DEFINE Out == Nat \ T
<1>2. SUFFICES ASSUME Out # {} PROVE FALSE
  OBVIOUS
<1>3. PICK m \in Out : \A k \in Out : <<k, m>> \notin Less
  BY <1>1, <1>2, WFMin
<1>4. m \in Nat /\ m # 0 /\ m - 1 \in Nat
  OBVIOUS
<1>5. <<m - 1, m>> \in Less
  <2>1. <<m - 1, m>> \in Nat \X Nat /\ m - 1 < m
    BY <1>4
  <2> QED BY <2>1 DEF Less
<1>6. PICK n \in T : n \in Nat /\ n + 1 = m
  BY <1>3, <1>4, <1>5
<1>7. m \in T
  BY <1>6
<1> QED BY <1>7

Chosen(s) == CHOOSE x \in s : TRUE

\* A family of subsets of a finite set that has the empty one, and each that it has
\* without one chosen element, has them all.
LEMMA AllSubsets ==
  ASSUME NEW S, IsFiniteSet(S), NEW T, {} \in T,
         \A s \in SUBSET S : s # {} /\ s \ {Chosen(s)} \in T => s \in T
  PROVE  SUBSET S \subseteq T
<1> DEFINE N == {n \in Nat : \A s \in SUBSET S : Cardinality(s) = n => s \in T}
<1>1. \A s \in SUBSET S : IsFiniteSet(s) /\ Cardinality(s) \in Nat
  BY FS_Subset, FS_CardinalityType
<1>2. 0 \in N
  BY <1>1, FS_EmptySet
<1>3. ASSUME NEW n \in N PROVE n + 1 \in N
  <2> SUFFICES ASSUME NEW s \in SUBSET S, Cardinality(s) = n + 1 PROVE s \in T
    OBVIOUS
  <2>1. s # {}
    BY FS_EmptySet
  <2>2. Chosen(s) \in s
    BY <2>1 DEF Chosen
  <2>3. PICK x : x = Chosen(s)
    OBVIOUS
  <2>4. Cardinality(s \ {x}) = n /\ s \ {x} \in SUBSET S
    BY <1>1, <2>2, <2>3, FS_RemoveElement
  <2> QED BY <2>1, <2>3, <2>4
<1>4. Nat \subseteq N
  <2> HIDE DEF N
  <2> QED BY <1>2, <1>3, AllNaturals
<1> QED BY <1>1, <1>4

\* The weighted sum of s, where "sum" has the sums of smaller sets.
Added(w, f, sum, s) == IF s = {} THEN 0 ELSE w[Chosen(s)] * f[Chosen(s)] + sum[s \ {Chosen(s)}]

Sums(w, f, sum) == sum = [s \in SUBSET DOMAIN w |-> Added(w, f, sum, s)]

\* A product of naturals is a natural, and grows with its factors.
LEMMA Products ==
  ASSUME NEW a \in Nat, NEW b \in Nat, NEW c \in Nat
  PROVE  a * b \in Nat /\ (b <= c => a * b <= a * c)
OBVIOUS

\* Weighted sums exist
LEMMA SumsExist ==
  ASSUME NEW w, NEW f, IsFiniteSet(DOMAIN w)
  PROVE  \E sum : Sums(w, f, sum)
<1> DEFINE S == DOMAIN w
           Upto(n) == {s \in SUBSET S : Cardinality(s) <= n}
           SumsUpto(sum, n) == sum = [s \in Upto(n) |-> Added(w, f, sum, s)]
           N == {n \in Nat : \E sum : SumsUpto(sum, n)}
<1>1. \A s \in SUBSET S : /\ IsFiniteSet(s) /\ Cardinality(s) \in Nat
                          /\ Cardinality(s) <= Cardinality(S)
                          /\ (Cardinality(s) = 0 <=> s = {})
  BY FS_Subset, FS_CardinalityType, FS_EmptySet
<1>2. ASSUME NEW s \in SUBSET S, s # {}
      PROVE  s \ {Chosen(s)} \in SUBSET S /\ Cardinality(s \ {Chosen(s)}) = Cardinality(s) - 1
  <2>1. Chosen(s) \in s
    BY <1>2 DEF Chosen
  <2>2. PICK x : x = Chosen(s)
    OBVIOUS
  <2> QED BY <1>1, <2>1, <2>2, FS_RemoveElement
<1>3. 0 \in N
  <2>1. \A s \in Upto(0) : s = {}
    BY <1>1
  <2>2. SumsUpto([s \in Upto(0) |-> 0], 0)
    BY <2>1 DEF Added
  <2> QED BY <2>2
<1>4. ASSUME NEW n \in N PROVE n + 1 \in N
  <2>1. PICK old : SumsUpto(old, n)
    OBVIOUS
  <2> DEFINE new == [s \in Upto(n + 1) |-> Added(w, f, old, s)]
  <2>2. ASSUME NEW s \in Upto(n + 1) PROVE Added(w, f, old, s) = Added(w, f, new, s)
    <3>1. CASE s = {}
      BY <3>1 DEF Added
    <3>2. CASE s # {}
      <4>1. PICK t : t = s \ {Chosen(s)}
        OBVIOUS
      <4>2. t \in Upto(n) /\ t \in Upto(n + 1)
        BY <1>1, <1>2, <3>2, <4>1
      <4>3. old[t] = Added(w, f, old, t) /\ new[t] = Added(w, f, old, t)
        BY <2>1, <4>2
      <4> QED BY <3>2, <4>1, <4>3 DEF Added
    <3> QED BY <3>1, <3>2
  <2>3. SumsUpto(new, n + 1)
    BY <2>2
  <2>4. \E sum : SumsUpto(sum, n + 1)
    <3> HIDE DEF new, SumsUpto
    <3> QED BY <2>3
  <2>5. n + 1 \in Nat
    OBVIOUS
  <2> HIDE DEF SumsUpto
  <2> QED BY <2>4, <2>5
<1>5. Nat \subseteq N
  <2> HIDE DEF N
  <2> QED BY <1>3, <1>4, AllNaturals
<1>6. Cardinality(S) \in N
  BY <1>5, FS_CardinalityType
<1>7. Upto(Cardinality(S)) = SUBSET S
  BY <1>1
<1> QED BY <1>6, <1>7 DEF Sums

\* and are what the model computes.
LEMMA SumIsComputed ==
  ASSUME NEW w, NEW f, IsFiniteSet(DOMAIN w)
  PROVE  \E sum : Sums(w, f, sum) /\ Health!WeightedSum(w, f) = sum[DOMAIN w]
<1> DEFINE iter[s \in SUBSET DOMAIN w] ==
             IF s = {} THEN 0 ELSE LET x == CHOOSE x \in s : TRUE IN w[x] * f[x] + iter[s \ {x}]
<1>1. Sums(w, f, iter)
  <2> SUFFICES \E sum : sum = [s \in SUBSET DOMAIN w |->
                                 IF s = {} THEN 0
                                 ELSE LET x == CHOOSE x \in s : TRUE IN w[x] * f[x] + sum[s \ {x}]]
    BY DEF Sums, Added, Chosen
  <2>1. PICK sum : Sums(w, f, sum)
    BY SumsExist
  <2> QED BY <2>1 DEF Sums, Added, Chosen
<1>2. Health!WeightedSum(w, f) = iter[DOMAIN w]
  BY DEF Health!WeightedSum, Health!MapThenSumSet, Health!MapThenFoldSet
<1> HIDE DEF iter
<1> QED BY <1>1, <1>2

\* A sum of naturals is a natural, and sums compare as all of their figures do.
LEMMA SumsCompare ==
  ASSUME NEW w, NEW S, w \in [S -> Nat], IsFiniteSet(S), NEW f \in [S -> Nat], NEW g \in [S -> Nat],
         NEW j \in Nat, NEW k \in Nat, \A n \in S : j * f[n] <= k * g[n]
  PROVE  /\ Health!WeightedSum(w, f) \in Nat /\ Health!WeightedSum(w, g) \in Nat
         /\ j * Health!WeightedSum(w, f) <= k * Health!WeightedSum(w, g)
<1>1. PICK sf : Sums(w, f, sf) /\ Health!WeightedSum(w, f) = sf[S]
  BY SumIsComputed
<1>2. PICK sg : Sums(w, g, sg) /\ Health!WeightedSum(w, g) = sg[S]
  BY SumIsComputed
<1> DEFINE T == {s \in SUBSET S : sf[s] \in Nat /\ sg[s] \in Nat /\ j * sf[s] <= k * sg[s]}
<1>3. {} \in T
  BY <1>1, <1>2 DEF Sums, Added
<1>4. ASSUME NEW s \in SUBSET S, s # {}, s \ {Chosen(s)} \in T PROVE s \in T
  <2>1. PICK x, t : x = Chosen(s) /\ t = s \ {x}
    OBVIOUS
  <2>2. x \in S
    BY <1>4, <2>1 DEF Chosen
  <2>3. sf[s] = w[x] * f[x] + sf[t] /\ sg[s] = w[x] * g[x] + sg[t]
    BY <1>1, <1>2, <1>4, <2>1 DEF Sums, Added
  <2>4. sf[t] \in Nat /\ sg[t] \in Nat /\ j * sf[t] <= k * sg[t]
    BY <1>4, <2>1
  <2>5. w[x] \in Nat /\ f[x] \in Nat /\ g[x] \in Nat /\ j * f[x] \in Nat /\ k * g[x] \in Nat
    BY <2>2, Products
  <2>6. w[x] * f[x] \in Nat /\ w[x] * g[x] \in Nat /\ w[x] * (j * f[x]) <= w[x] * (k * g[x])
    BY <2>2, <2>5, Products
  <2>7. w[x] * (j * f[x]) = j * (w[x] * f[x]) /\ w[x] * (k * g[x]) = k * (w[x] * g[x])
    BY <2>5
  <2>8. PICK a \in Nat, b \in Nat : a = w[x] * f[x] /\ b = w[x] * g[x]
    BY <2>6
  <2>9. j * a <= k * b
    BY <2>6, <2>7, <2>8
  <2>10. j * (a + sf[t]) <= k * (b + sg[t])
    BY <2>4, <2>8, <2>9
  <2> QED BY <2>3, <2>4, <2>8, <2>10
<1>5. S \in T
  <2> HIDE DEF T
  <2> QED BY <1>3, <1>4, AllSubsets
<1> QED BY <1>1, <1>2, <1>5

\* A sum of naturals is at least each of them.
LEMMA SumAtLeast ==
  ASSUME NEW w, NEW S, w \in [S -> Nat], IsFiniteSet(S), NEW f \in [S -> Nat], NEW n \in S
  PROVE  w[n] * f[n] <= Health!WeightedSum(w, f)
<1>1. PICK sum : Sums(w, f, sum) /\ Health!WeightedSum(w, f) = sum[S]
  BY SumIsComputed
<1> DEFINE T == {s \in SUBSET S : sum[s] \in Nat /\ (n \in s => w[n] * f[n] <= sum[s])}
<1>2. {} \in T
  BY <1>1 DEF Sums, Added
<1>3. ASSUME NEW s \in SUBSET S, s # {}, s \ {Chosen(s)} \in T PROVE s \in T
  <2>1. PICK x, t : x = Chosen(s) /\ t = s \ {x}
    OBVIOUS
  <2>2. x \in S
    BY <1>3, <2>1 DEF Chosen
  <2>3. sum[s] = w[x] * f[x] + sum[t]
    BY <1>1, <1>3, <2>1 DEF Sums, Added
  <2>4. sum[t] \in Nat /\ (n \in t => w[n] * f[n] <= sum[t])
    BY <1>3, <2>1
  <2>5. w[x] * f[x] \in Nat /\ w[n] * f[n] \in Nat
    BY <2>2, Products
  <2>6. sum[s] \in Nat
    BY <2>3, <2>4, <2>5
  <2>7. CASE n = x
    BY <2>3, <2>4, <2>5, <2>6, <2>7
  <2>8. CASE n # x
    BY <2>1, <2>3, <2>4, <2>5, <2>6, <2>8
  <2> QED BY <2>7, <2>8
<1>4. S \in T
  <2> HIDE DEF T
  <2> QED BY <1>2, <1>3, AllSubsets
<1> QED BY <1>1, <1>4

-----------------------------------------------------------------------------
(***************************************************************************)
(* The scores of an asset                                                  *)
(***************************************************************************)
AssetBounds ==
    /\ IsFiniteSet(Nodes) /\ MaxChanges \in Nat /\ MaxFaults \in Nat
    /\ \A l \in Lives : l.months \in Int /\ l.lifespan \in Nat \ {0}
    /\ 1 \in Weights /\ Weights \subseteq Nat
    /\ \A r \in Readings : r.hours \in Nat /\ r.checks \in Nat /\ r.breaches \in 0 .. r.checks

\* A rounded ratio lies between the integers that its ratio lies between.
LEMMA RatioBetween ==
  ASSUME NEW n \in Nat, NEW d \in Nat \ {0}, NEW lo \in Nat, NEW hi \in Nat, lo * d <= n, n <= hi * d
  PROVE  Health!H!RoundedRatio(n, d) \in lo .. hi
<1> DEFINE r == (2 * n + d) \div (2 * d)
<1>1. 2 * n + d \in Nat /\ 2 * d \in Nat \ {0}
  OBVIOUS
<1>2. r \in Int /\ 2 * d * r <= 2 * n + d /\ 2 * n + d < 2 * d * r + 2 * d
  <2>1. \A x \in Nat, y \in Nat \ {0} : x \div y \in Int /\ y * (x \div y) <= x /\ x < y * (x \div y) + y
    OBVIOUS
  <2> QED BY <1>1, <2>1
<1> HIDE DEF r
<1>3. lo <= r
  <2>1. CASE r + 1 <= lo
    <3>1. d * (r + 1) <= d * lo
      BY <1>2, <2>1
    <3> QED BY <1>2, <3>1
  <2> QED BY <1>2, <2>1
<1>4. r <= hi
  <2>1. CASE hi + 1 <= r
    <3>1. d * (hi + 1) <= d * r
      BY <1>2, <2>1
    <3> QED BY <1>2, <3>1
  <2> QED BY <1>2, <2>1
<1> QED BY <1>2, <1>3, <1>4 DEF r, Health!H!RoundedRatio

\* A factor is between 0 and 100 whatever was measured.
LEMMA FactorInRange ==
  ASSUME NEW used \in Nat, NEW whole \in Nat \ {0}
  PROVE  Health!H!Remaining(used, whole) \in 0 .. 100
<1>1. CASE used >= whole
  BY <1>1 DEF Health!H!Remaining
<1>2. CASE used < whole
  <2>1. 100 * (whole - used) \in Nat /\ 0 * whole <= 100 * (whole - used) /\ 100 * (whole - used) <= 100 * whole
    BY <1>2
  <2>2. Health!H!RoundedRatio(100 * (whole - used), whole) \in 0 .. 100
    BY <2>1, RatioBetween
  <2> QED BY <1>2, <2>2 DEF Health!H!Remaining
<1> QED BY <1>1, <1>2

\* The index and its status, of factors in range.
LEMMA IndexInRange ==
  ASSUME NEW a \in 0 .. 100, NEW c \in 0 .. 100, NEW t \in 0 .. 100,
         NEW s \in Health!WeightedScores(a, c, t)
  PROVE  s \in 0 .. 100 /\ Health!StatusOf(s) \in Health!Statuses
<1> DEFINE sum == 20 * a + 30 * c + 50 * t
<1>1. sum \in Nat /\ 0 * 100 <= sum /\ sum <= 100 * 100
  OBVIOUS
<1>2. s = Health!H!RoundedRatio(sum, 100) \/ s = sum \div 100
  BY DEF Health!WeightedScores, Health!AgeWeight, Health!ConnectivityWeight, Health!TelemetryWeight
<1> HIDE DEF sum
<1>3. Health!H!RoundedRatio(sum, 100) \in 0 .. 100
  <2>1. PICK d \in Nat \ {0}, lo \in Nat, hi \in Nat : d = 100 /\ lo = 0 /\ hi = 100
    OBVIOUS
  <2>2. lo * d <= sum /\ sum <= hi * d
    BY <1>1, <2>1
  <2>3. Health!H!RoundedRatio(sum, d) \in lo .. hi
    BY <1>1, <2>2, RatioBetween
  <2> QED BY <2>1, <2>3
<1>4. sum \div 100 \in 0 .. 100
  BY <1>1
<1>5. s \in 0 .. 100
  BY <1>2, <1>3, <1>4
<1> QED BY <1>5 DEF Health!StatusOf, Health!Statuses

\* Readings there may be.
IsReading(r) == r.hours \in Nat /\ r.checks \in Nat /\ r.breaches \in Nat

\* The connectivity of an asset lies between those of its worst and of its best node,
\* whatever they weigh, unless they all weigh nothing.
THEOREM PooledBetween ==
  ASSUME NEW S, IsFiniteSet(S), NEW w \in [S -> Nat], NEW view, \A n \in S : IsReading(view[n]),
         NEW lo \in Nat, NEW hi \in Nat,
         \A n \in S : Health!H!ConnectivityScore(view[n].hours) \in lo .. hi,
         \E n \in S : w[n] > 0
  PROVE  Health!PooledConnectivity(w, view) \in lo .. hi
<1> DEFINE ones   == [n \in S |-> 1]
           scores == [n \in S |-> Health!H!ConnectivityScore(view[n].hours)]
<1>1. DOMAIN w = S /\ ones \in [S -> Nat] /\ scores \in [S -> Nat]
  OBVIOUS
<1>2. \A n \in S : 1 * scores[n] <= hi * ones[n] /\ lo * ones[n] <= 1 * scores[n]
  OBVIOUS
<1>3. PICK total, sum : total = Health!WeightedSum(w, ones) /\ sum = Health!WeightedSum(w, scores)
  OBVIOUS
<1>4. total \in Nat /\ sum \in Nat /\ 1 * sum <= hi * total /\ lo * total <= 1 * sum
  <2> HIDE DEF ones, scores
  <2>1. total \in Nat /\ sum \in Nat /\ 1 * sum <= hi * total
    BY <1>1, <1>2, <1>3, SumsCompare
  <2>2. lo * total <= 1 * sum
    BY <1>1, <1>2, <1>3, SumsCompare
  <2> QED BY <2>1, <2>2
<1>5. total # 0
  <2>1. PICK n \in S : w[n] > 0
    OBVIOUS
  <2>2. w[n] * ones[n] <= total
    <3> HIDE DEF ones
    <3> QED BY <1>1, <1>3, SumAtLeast
  <2> QED BY <1>4, <2>1, <2>2
<1>6. Health!H!RoundedRatio(sum, total) \in lo .. hi
  BY <1>4, <1>5, RatioBetween
<1>7. [n \in DOMAIN w |-> 1] = ones /\ [n \in DOMAIN w |-> Health!H!ConnectivityScore(view[n].hours)] = scores
  BY <1>1
<1> HIDE DEF ones, scores
<1> QED BY <1>3, <1>5, <1>6, <1>7 DEF Health!PooledConnectivity

\* Pooled or not, and however little the nodes weigh, both factors are in range.
LEMMA PooledInRange ==
  ASSUME NEW S, IsFiniteSet(S), NEW w \in [S -> Nat], NEW view, \A n \in S : IsReading(view[n])
  PROVE  Health!PooledConnectivity(w, view) \in 0 .. 100 /\ Health!PooledTelemetry(w, view) \in 0 .. 100
<1>1. DOMAIN w = S
  OBVIOUS
<1>2. Health!PooledConnectivity(w, view) \in 0 .. 100
  <2> DEFINE ones   == [n \in DOMAIN w |-> 1]
             scores == [n \in DOMAIN w |-> Health!H!ConnectivityScore(view[n].hours)]
  <2>1. ASSUME NEW n \in S PROVE Health!H!ConnectivityScore(view[n].hours) \in 0 .. 100
    <3>1. PICK hours \in Nat, full \in Nat \ {0} : hours = view[n].hours /\ full = Health!H!FullDegradeHours
      BY DEF IsReading, Health!H!FullDegradeHours
    <3> QED BY <3>1, FactorInRange DEF Health!H!ConnectivityScore
  <2>0. PICK lo \in Nat, hi \in Nat : lo = 0 /\ hi = 100
    OBVIOUS
  <2>2. ones \in [S -> Nat] /\ scores \in [S -> Nat] /\ \A n \in S : 1 * scores[n] <= hi * ones[n]
    BY <1>1, <2>0, <2>1
  <2>3. PICK total, sum : total = Health!WeightedSum(w, ones) /\ sum = Health!WeightedSum(w, scores)
    OBVIOUS
  <2> HIDE DEF ones, scores
  <2>4. total \in Nat /\ sum \in Nat /\ 1 * sum <= hi * total
    BY <2>2, <2>3, SumsCompare
  <2>5. CASE total # 0
    <3>2. lo * total <= sum /\ sum <= hi * total
      BY <2>0, <2>4
    <3>3. Health!H!RoundedRatio(sum, total) \in lo .. hi
      BY <2>4, <2>5, <3>2, RatioBetween
    <3> QED BY <2>0, <2>3, <2>5, <3>3 DEF Health!PooledConnectivity, ones, scores
  <2> QED BY <2>3, <2>5 DEF Health!PooledConnectivity, ones, scores
<1>3. Health!PooledTelemetry(w, view) \in 0 .. 100
  <2> DEFINE breaches == [n \in DOMAIN w |-> view[n].breaches]
             checks   == [n \in DOMAIN w |-> view[n].checks]
  <2>1. breaches \in [S -> Nat] /\ checks \in [S -> Nat] /\ \A n \in S : 0 * breaches[n] <= 1 * checks[n]
    BY <1>1 DEF IsReading
  <2>2. PICK used, whole : used = Health!WeightedSum(w, breaches) /\ whole = Health!WeightedSum(w, checks)
    OBVIOUS
  <2> HIDE DEF breaches, checks
  <2>3. used \in Nat /\ whole \in Nat
    BY <2>1, <2>2, SumsCompare
  <2>4. whole # 0 => Health!H!Remaining(used, whole) \in 0 .. 100
    BY <2>3, FactorInRange
  <2> QED BY <2>2, <2>3, <2>4 DEF Health!PooledTelemetry, Health!H!TelemetryScore, breaches, checks
<1> QED BY <1>2, <1>3

\* What an assessment may store is an index in range and its status, or none.
IndexAndStatus == [index : -1 .. 100, status : Health!Statuses]

LEMMA AssessmentType ==
  ASSUME AssetBounds, NEW life \in Lives, NEW S \in SUBSET Nodes, NEW w \in [S -> Weights],
         NEW view, \A n \in S : IsReading(view[n]),
         NEW health \in Health!Assessments(life, w, view)
  PROVE  health \in IndexAndStatus
<1>1. w \in [S -> Nat] /\ DOMAIN w = S
  BY DEF AssetBounds
<1>2. IsFiniteSet(S)
  BY FS_Subset DEF AssetBounds
<1>4. PICK c, t : c = Health!PooledConnectivity(w, view) /\ t = Health!PooledTelemetry(w, view)
  OBVIOUS
<1>5. c \in 0 .. 100 /\ t \in 0 .. 100
  BY <1>1, <1>2, <1>4, PooledInRange
<1>6. PICK age : age = Health!H!AgeScore(life.months, life.lifespan)
  OBVIOUS
<1>7. age \in 0 .. 100
  BY <1>6, FactorInRange DEF AssetBounds, Health!H!AgeScore
<1>8. CASE DOMAIN w = {}
  BY <1>8 DEF Health!Assessments, Health!Unassessed, IndexAndStatus, Health!Statuses
<1>9. CASE DOMAIN w # {}
  <2>1. PICK s \in Health!WeightedScores(age, c, t) : health = [index |-> s, status |-> Health!StatusOf(s)]
    BY <1>4, <1>6, <1>9 DEF Health!Assessments
  <2>2. s \in 0 .. 100 /\ Health!StatusOf(s) \in Health!Statuses
    BY <1>5, <1>7, <2>1, IndexInRange
  <2> QED BY <2>1, <2>2 DEF IndexAndStatus
<1> QED BY <1>8, <1>9

-----------------------------------------------------------------------------
(***************************************************************************)
(* A worse asset never gets a better index                                 *)
(***************************************************************************)
\* A rounded ratio grows with what is divided,
LEMMA RatioGrows ==
  ASSUME NEW n \in Nat, NEW m \in Nat, NEW d \in Nat \ {0}, n <= m
  PROVE  /\ Health!H!RoundedRatio(n, d) <= Health!H!RoundedRatio(m, d)
         /\ Health!H!RoundedRatio(n, d) \in Nat
<1>1. \A x, y \in Nat, z \in Nat \ {0} : x <= y => x \div z \in Nat /\ y \div z \in Nat /\ x \div z <= y \div z
  <2> SUFFICES ASSUME NEW x \in Nat, NEW y \in Nat, NEW z \in Nat \ {0}, x <= y
               PROVE  x \div z \in Nat /\ y \div z \in Nat /\ x \div z <= y \div z
    OBVIOUS
  <2>1. \A u \in Nat, v \in Nat \ {0} : u \div v \in Nat /\ v * (u \div v) <= u /\ u < v * (u \div v) + v
    OBVIOUS
  <2>2. PICK p \in Nat, q \in Nat : p = x \div z /\ q = y \div z
    BY <2>1
  <2>3. z * p <= x /\ y < z * q + z
    BY <2>1, <2>2
  <2>4. CASE q + 1 <= p
    <3>1. z * (q + 1) <= z * p
      BY <2>4
    <3> QED BY <2>3, <3>1
  <2> QED BY <2>2, <2>4
<1>2. 2 * n + d \in Nat /\ 2 * m + d \in Nat /\ 2 * d \in Nat \ {0} /\ 2 * n + d <= 2 * m + d
  OBVIOUS
<1>3. QED
  BY <1>1, <1>2 DEF Health!H!RoundedRatio

\* so what is left falls with what is used up.
LEMMA RemainingFalls ==
  ASSUME NEW less \in Nat, NEW more \in Nat, less <= more, NEW whole \in Nat \ {0}
  PROVE  Health!H!Remaining(more, whole) <= Health!H!Remaining(less, whole)
<1>1. CASE more < whole
  <2>1. 100 * (whole - more) \in Nat /\ 100 * (whole - less) \in Nat /\ 100 * (whole - more) <= 100 * (whole - less)
    BY <1>1
  <2> QED BY <1>1, <2>1, RatioGrows DEF Health!H!Remaining
<1>2. CASE more >= whole
  BY <1>2, FactorInRange DEF Health!H!Remaining
<1> QED BY <1>1, <1>2

\* Nodes that are offline for longer do not make an asset better connected,
LEMMA ConnectivityFalls ==
  ASSUME NEW S, IsFiniteSet(S), NEW w \in [S -> Nat], NEW better, NEW worse,
         \A n \in S : better[n].hours \in Nat /\ worse[n].hours \in Nat /\ better[n].hours <= worse[n].hours
  PROVE  Health!PooledConnectivity(w, worse) <= Health!PooledConnectivity(w, better)
<1> DEFINE ones == [n \in DOMAIN w |-> 1]
           f    == [n \in DOMAIN w |-> Health!H!ConnectivityScore(worse[n].hours)]
           g    == [n \in DOMAIN w |-> Health!H!ConnectivityScore(better[n].hours)]
<1>1. ASSUME NEW n \in S
      PROVE  /\ Health!H!ConnectivityScore(worse[n].hours) \in Nat /\ Health!H!ConnectivityScore(better[n].hours) \in Nat
             /\ Health!H!ConnectivityScore(worse[n].hours) <= Health!H!ConnectivityScore(better[n].hours)
  <2>1. PICK less \in Nat, more \in Nat : less = better[n].hours /\ more = worse[n].hours /\ less <= more
    OBVIOUS
  <2>2. PICK full \in Nat \ {0} : full = Health!H!FullDegradeHours
    BY DEF Health!H!FullDegradeHours
  <2>3. Health!H!Remaining(more, full) \in 0 .. 100 /\ Health!H!Remaining(less, full) \in 0 .. 100
    BY FactorInRange
  <2>4. Health!H!Remaining(more, full) <= Health!H!Remaining(less, full)
    BY <2>1, RemainingFalls
  <2> QED BY <2>1, <2>2, <2>3, <2>4 DEF Health!H!ConnectivityScore
<1>2. ones \in [S -> Nat] /\ f \in [S -> Nat] /\ g \in [S -> Nat] /\ \A n \in S : 1 * f[n] <= 1 * g[n]
  BY <1>1
<1>3. PICK total, sum, greater : /\ total = Health!WeightedSum(w, ones) /\ sum = Health!WeightedSum(w, f)
                                 /\ greater = Health!WeightedSum(w, g)
  OBVIOUS
<1> HIDE DEF ones, f, g
<1>4. sum \in Nat /\ greater \in Nat /\ 1 * sum <= 1 * greater
  BY <1>2, <1>3, SumsCompare
<1>5. total \in Nat
  <2>1. \A n \in S : 1 * ones[n] <= 1 * ones[n]
    BY <1>2
  <2> QED BY <1>2, <1>3, <2>1, SumsCompare
<1>6. total # 0 => Health!H!RoundedRatio(sum, total) <= Health!H!RoundedRatio(greater, total)
  BY <1>4, <1>5, RatioGrows
<1> QED BY <1>3, <1>6 DEF Health!PooledConnectivity, ones, f, g

\* and nodes of whose readings more are breaches do not make its telemetry better.
LEMMA TelemetryFalls ==
  ASSUME NEW S, IsFiniteSet(S), NEW w \in [S -> Nat], NEW better, NEW worse,
         \A n \in S : IsReading(better[n]) /\ IsReading(worse[n]) /\ better[n].checks = worse[n].checks
                      /\ better[n].breaches <= worse[n].breaches
  PROVE  Health!PooledTelemetry(w, worse) <= Health!PooledTelemetry(w, better)
<1> DEFINE f == [n \in DOMAIN w |-> better[n].breaches]
           g == [n \in DOMAIN w |-> worse[n].breaches]
           c == [n \in DOMAIN w |-> better[n].checks]
           d == [n \in DOMAIN w |-> worse[n].checks]
<1>1. /\ f \in [S -> Nat] /\ g \in [S -> Nat] /\ c \in [S -> Nat] /\ c = d
      /\ \A n \in S : 1 * f[n] <= 1 * g[n] /\ 1 * c[n] <= 1 * c[n]
  BY DEF IsReading
<1>2. PICK less, more, whole : /\ less = Health!WeightedSum(w, f) /\ more = Health!WeightedSum(w, g)
                               /\ whole = Health!WeightedSum(w, c)
  OBVIOUS
<1> HIDE DEF f, g, c, d
<1>3. less \in Nat /\ more \in Nat /\ 1 * less <= 1 * more
  BY <1>1, <1>2, SumsCompare
<1>4. whole \in Nat
  BY <1>1, <1>2, SumsCompare
<1>5. whole # 0 => Health!H!Remaining(more, whole) <= Health!H!Remaining(less, whole)
  BY <1>3, <1>4, RemainingFalls
<1>6. Health!PooledTelemetry(w, worse) = Health!H!TelemetryScore(more, whole)
      /\ Health!PooledTelemetry(w, better) = Health!H!TelemetryScore(less, whole)
  BY <1>1, <1>2 DEF Health!PooledTelemetry, f, g, c, d
<1> QED BY <1>5, <1>6 DEF Health!H!TelemetryScore

\* The index of factors that are worse in something and better in nothing.
LEMMA IndexFalls ==
  ASSUME NEW a \in 0 .. 100, NEW c \in 0 .. 100, NEW t \in 0 .. 100,
         NEW a1 \in 0 .. a, NEW c1 \in 0 .. c, NEW t1 \in 0 .. t, <<a1, c1, t1>> # <<a, c, t>>,
         NEW s \in Health!WeightedScores(a, c, t), NEW s1 \in Health!WeightedScores(a1, c1, t1)
  PROVE  s1 <= s
<1> DEFINE sum  == 20 * a + 30 * c + 50 * t
           sum1 == 20 * a1 + 30 * c1 + 50 * t1
<1>1. sum \in Nat /\ sum1 \in Nat /\ sum1 < sum
  OBVIOUS
<1>2. s = (2 * sum + 100) \div 200 \/ (s = sum \div 100 /\ sum % 100 = 50)
  BY DEF Health!WeightedScores, Health!H!RoundedRatio, Health!AgeWeight, Health!ConnectivityWeight,
     Health!TelemetryWeight
<1>3. s1 = (2 * sum1 + 100) \div 200 \/ (s1 = sum1 \div 100 /\ sum1 % 100 = 50)
  BY DEF Health!WeightedScores, Health!H!RoundedRatio, Health!AgeWeight, Health!ConnectivityWeight,
     Health!TelemetryWeight
<1> HIDE DEF sum, sum1
<1> QED BY <1>1, <1>2, <1>3

\* An asset that is older, and whose nodes have been offline for longer and have more
\* breaches, however they are weighed, is no better in any factor, and its index is
\* no better unless no factor tells the difference.
THEOREM WorseAssetNeverBetter ==
  ASSUME NEW S, IsFiniteSet(S), NEW w \in [S -> Nat], NEW better, NEW worse,
         \A n \in S : /\ IsReading(better[n]) /\ IsReading(worse[n])
                      /\ better[n].hours <= worse[n].hours
                      /\ better[n].checks = worse[n].checks /\ better[n].breaches <= worse[n].breaches,
         NEW young \in Int, NEW old \in Int, young <= old, NEW lifespan \in Nat \ {0},
         NEW a,  a  = Health!H!AgeScore(young, lifespan),
         NEW a1, a1 = Health!H!AgeScore(old, lifespan),
         NEW c,  c  = Health!PooledConnectivity(w, better),
         NEW c1, c1 = Health!PooledConnectivity(w, worse),
         NEW t,  t  = Health!PooledTelemetry(w, better),
         NEW t1, t1 = Health!PooledTelemetry(w, worse)
  PROVE  /\ a1 <= a /\ c1 <= c /\ t1 <= t
         /\ \A s \in Health!WeightedScores(a, c, t), s1 \in Health!WeightedScores(a1, c1, t1) :
               s1 <= s \/ <<a1, c1, t1>> = <<a, c, t>>
<1>1. a \in 0 .. 100 /\ a1 \in 0 .. a
  <2>1. PICK x, y : x = (IF young < 0 THEN 0 ELSE young) /\ y = (IF old < 0 THEN 0 ELSE old)
    OBVIOUS
  <2>2. x \in Nat /\ y \in Nat /\ x <= y
    BY <2>1
  <2>3. a = Health!H!Remaining(x, lifespan) /\ a1 = Health!H!Remaining(y, lifespan)
    BY <2>1 DEF Health!H!AgeScore
  <2>4. a \in 0 .. 100 /\ a1 \in 0 .. 100
    BY <2>2, <2>3, FactorInRange
  <2>5. a1 <= a
    BY <2>2, <2>3, RemainingFalls
  <2> QED BY <2>4, <2>5
<1>2. \A n \in S : better[n].hours \in Nat /\ worse[n].hours \in Nat /\ better[n].hours <= worse[n].hours
  BY DEF IsReading
<1>3. c \in 0 .. 100 /\ c1 \in 0 .. 100 /\ t \in 0 .. 100 /\ t1 \in 0 .. 100
  BY PooledInRange
<1>4. c1 <= c /\ t1 <= t
  <2>1. c1 <= c
    BY <1>2, ConnectivityFalls
  <2>2. \A n \in S : IsReading(better[n]) /\ IsReading(worse[n]) /\ better[n].checks = worse[n].checks
                     /\ better[n].breaches <= worse[n].breaches
    OBVIOUS
  <2>3. t1 <= t
    BY <2>2, TelemetryFalls
  <2> QED BY <2>1, <2>3
<1>5. c1 \in 0 .. c /\ t1 \in 0 .. t
  BY <1>3, <1>4
<1>6. ASSUME NEW s \in Health!WeightedScores(a, c, t), NEW s1 \in Health!WeightedScores(a1, c1, t1),
             <<a1, c1, t1>> # <<a, c, t>>
      PROVE  s1 <= s
  BY <1>1, <1>3, <1>5, <1>6, IndexFalls
<1>7. a1 <= a
  BY <1>1
<1>8. QED
  BY <1>4, <1>6, <1>7

-----------------------------------------------------------------------------
(***************************************************************************)
(* Type correctness of AssetHealth                                         *)
(***************************************************************************)
\* What an update writes is a row.
LEMMA WrittenType ==
  ASSUME NEW columns
  PROVE  /\ \A e \in Health!NodeRow, r \in Health!NodeRow :
              Health!Written(e, columns, r) \in Health!NodeRow
         /\ \A e \in Health!AssetRow, r \in Health!AssetRow :
              Health!Written(e, columns, r) \in Health!AssetRow
BY DEF Health!Written, Health!NodeRow, Health!AssetRow

\* What a save finds different are columns.
LEMMA DifferingType ==
  ASSUME NEW r
  PROVE  /\ \A e \in Health!NodeRow : Health!Differing(e, r) \in SUBSET {"asset", "weight"}
         /\ \A e \in Health!AssetRow : Health!Differing(e, r) \in SUBSET {"life", "index", "status"}
BY DEF Health!Differing, Health!NodeRow, Health!AssetRow

\* Nothing, and a written node, may be pending.
LEMMA PendingType ==
  /\ <<>> \in Health!Pending
  /\ \A ns \in SUBSET Nodes, r \in Health!NodeRow : [n \in ns |-> r] \in Health!Pending
  /\ \A p \in Health!Pending : DOMAIN p \subseteq Nodes /\ \A n \in DOMAIN p : p[n] \in Health!NodeRow
<1>1. <<>> \in [{} -> Health!NodeRow]
  OBVIOUS
<1>2. ASSUME NEW ns \in SUBSET Nodes, NEW p \in [ns -> Health!NodeRow] PROVE p \in Health!Pending
  BY DEF Health!Pending
<1>3. <<>> \in Health!Pending
  BY <1>1, <1>2
<1>4. ASSUME NEW ns \in SUBSET Nodes, NEW r \in Health!NodeRow PROVE [n \in ns |-> r] \in Health!Pending
  <2>1. [n \in ns |-> r] \in [ns -> Health!NodeRow]
    OBVIOUS
  <2> QED BY <1>2, <2>1
<1>5. ASSUME NEW p \in Health!Pending
      PROVE  DOMAIN p \subseteq Nodes /\ \A n \in DOMAIN p : p[n] \in Health!NodeRow
  <2>1. PICK ns \in SUBSET Nodes : p \in [ns -> Health!NodeRow]
    BY DEF Health!Pending
  <2> QED BY <2>1
<1> QED BY <1>3, <1>4, <1>5

\* What is there is a row, and so is what an assessment makes of it.
LEMMA RowType ==
  ASSUME Health!TypeOK, NEW a \in Assets, Health!Exists(a)
  PROVE  /\ asset[a] \in Health!AssetRow /\ asset[a].life \in Lives
         /\ \A h \in IndexAndStatus : Health!Assessed(h, a) \in Health!AssetRow
<1>1. asset[a] \in Health!AssetRow
  BY DEF Health!TypeOK, Health!Exists
<1> QED BY <1>1 DEF IndexAndStatus, Health!AssetRow, Health!Assessed

\* Somebody goes on with a job.
LEMMA JobGoesOn ==
  ASSUME Health!TypeOK, NEW j \in Health!Jobs, NEW w \in Health!Job, job' = [job EXCEPT ![j] = w]
  PROVE  job' \in [Health!Jobs -> Health!Job]
BY DEF Health!TypeOK

\* A change and a failure are counted up to their bounds.
LEMMA CountType ==
  ASSUME AssetBounds, Health!TypeOK, Health!Change \/ Health!Fault
  PROVE  count' \in [changes : 0 .. MaxChanges, faults : 0 .. MaxFaults]
BY DEF AssetBounds, Health!TypeOK, Health!Change, Health!Fault

\* A job of each kind.
LEMMA JobFields ==
  ASSUME NEW w \in Health!Job
  PROVE  /\ w.pc \in {"saveNode", "writeNode"} => w \in Health!SavingNode
         /\ w.pc = "nodes" => w \in Health!Loading
         /\ w.pc = "counts" => \E ns \in SUBSET Nodes : w \in Health!Counting(ns)
         /\ w.pc \in {"saveAsset", "writeAsset"} => w \in Health!SavingAsset
<1>1. \/ w = Health!Idle \/ w \in Health!SavingNode \/ w \in Health!Loading \/ w \in Health!SavingAsset
      \/ \E ns \in SUBSET Nodes : w \in Health!Counting(ns)
  BY DEF Health!Job
<1>2. /\ w = Health!Idle => w.pc = "idle"
      /\ w \in Health!SavingNode => w.pc \in {"saveNode", "writeNode"}
      /\ w \in Health!Loading => w.pc = "nodes"
      /\ w \in Health!SavingAsset => w.pc \in {"saveAsset", "writeAsset"}
      /\ \A ns : w \in Health!Counting(ns) => w.pc = "counts"
  BY DEF Health!Idle, Health!SavingNode, Health!Loading, Health!SavingAsset, Health!Counting
<1> QED BY <1>1, <1>2

\* All of them are jobs.
LEMMA JobTypes ==
  /\ \A w \in Health!SavingNode : w \in Health!Job
  /\ \A w \in Health!Loading : w \in Health!Job
  /\ \A w \in Health!SavingAsset : w \in Health!Job
  /\ \A ns \in SUBSET Nodes : \A w \in Health!Counting(ns) : w \in Health!Job
BY DEF Health!Job

\* Requests of the asset service begin.
LEMMA RequestsType ==
  ASSUME AssetBounds, Health!TypeOK, NEW q \in Requests, NEW a \in Assets,
         \/ Health!UpdateAsset(q, a) \/ Health!GetAssessment(q, a)
         \/ \E n \in Nodes : \/ Health!AttachNode(q, a, n) \/ Health!UpdateNodeWeight(q, a, n)
                             \/ Health!DetachNode(q, a, n)
  PROVE  Health!TypeOK'
<1>0. q \in Health!Jobs
  BY DEF Health!Jobs
<1>1. UNCHANGED <<asset, node, reading, todo>> /\ Health!Change /\ Health!Exists(a)
  BY DEF Health!UpdateAsset, Health!GetAssessment, Health!AttachNode, Health!UpdateNodeWeight,
     Health!DetachNode, Health!ChangeNode
<1>2. asset[a] \in Health!AssetRow /\ asset[a].life \in Lives
  BY <1>1, RowType
<1>3. CASE Health!UpdateAsset(q, a)
  <2>1. PICK life \in Lives : job' = [job EXCEPT ![q] = [pc |-> "saveAsset", asset |-> a,
                                       entity |-> [asset[a] EXCEPT !.life = life], columns |-> {}]]
    BY <1>3 DEF Health!UpdateAsset
  <2>2. [asset[a] EXCEPT !.life = life] \in Health!AssetRow
    BY <1>2 DEF Health!AssetRow
  <2>3. PICK w : /\ w = [pc |-> "saveAsset", asset |-> a, entity |-> [asset[a] EXCEPT !.life = life],
                         columns |-> {}]
                 /\ job' = [job EXCEPT ![q] = w]
    BY <2>1
  <2>4. w \in Health!Job
    BY <2>2, <2>3, JobTypes DEF Health!SavingAsset
  <2>5. job' \in [Health!Jobs -> Health!Job]
    BY <1>0, <2>3, <2>4, JobGoesOn
  <2> QED BY <1>1, <2>5, CountType DEF Health!TypeOK
<1>4. CASE Health!GetAssessment(q, a)
  <2>1. [pc |-> "nodes", asset |-> a, life |-> asset[a].life, pending |-> <<>>] \in Health!Job
    BY <1>2, PendingType, JobTypes DEF Health!Loading
  <2>2. job' \in [Health!Jobs -> Health!Job]
    BY <1>0, <1>4, <2>1, JobGoesOn DEF Health!GetAssessment
  <2> QED BY <1>1, <2>2, CountType DEF Health!TypeOK
<1>5. ASSUME NEW n \in Nodes, \/ Health!AttachNode(q, a, n) \/ Health!UpdateNodeWeight(q, a, n)
                              \/ Health!DetachNode(q, a, n)
      PROVE  Health!TypeOK'
  <2>1. node[n].weight \in Weights
    BY DEF Health!TypeOK, Health!NodeRow
  <2>2. PICK entity \in Health!NodeRow : Health!ChangeNode(q, a, n, entity)
    <3>1. \A weight \in Weights : /\ [asset |-> a, weight |-> weight] \in Health!NodeRow
                                  /\ [asset |-> Health!None, weight |-> weight] \in Health!NodeRow
      BY DEF Health!NodeRow
    <3> QED BY <1>5, <2>1, <3>1 DEF Health!AttachNode, Health!UpdateNodeWeight, Health!DetachNode
  <2>3. PICK w : /\ w = [pc |-> "saveNode", asset |-> a, life |-> asset[a].life, node |-> n,
                         entity |-> entity, columns |-> {}]
                 /\ job' = [job EXCEPT ![q] = w]
    BY <2>2 DEF Health!ChangeNode
  <2>4. w \in Health!Job
    BY <1>2, <2>3, JobTypes DEF Health!SavingNode
  <2>5. job' \in [Health!Jobs -> Health!Job]
    BY <1>0, <2>3, <2>4, JobGoesOn
  <2> QED BY <1>1, <2>5, CountType DEF Health!TypeOK
<1> QED BY <1>3, <1>4, <1>5

\* The silence of one reading with the counts of another makes a reading.
LEMMA ToldType ==
  /\ Health!Unheard \in Health!Heard
  /\ \A h, r \in Health!Heard : Health!Tells(h, r) \in Health!Told
  /\ \A t \in Health!Told, r \in Health!Heard : Health!Tells(t, r) \in Health!Told
  /\ AssetBounds => \A t \in Health!Told : IsReading(t)
<1>1. ASSUME NEW t \in Health!Told, NEW r \in Health!Heard PROVE Health!Tells(t, r) \in Health!Told
  <2>1. PICK h \in Health!Heard, q \in Health!Heard : t = Health!Tells(h, q)
    BY DEF Health!Told
  <2>2. Health!Tells(t, r) = Health!Tells(h, r)
    BY <2>1 DEF Health!Tells
  <2> QED BY <2>2 DEF Health!Told
<1>2. ASSUME AssetBounds, NEW t \in Health!Told PROVE IsReading(t)
  <2>1. PICK h \in Health!Heard, q \in Health!Heard : t = Health!Tells(h, q)
    BY DEF Health!Told
  <2>2. h.hours \in Nat /\ q.checks \in Nat /\ q.breaches \in Nat
    BY <1>2 DEF AssetBounds, Health!Heard, Health!Unheard
  <2> QED BY <2>1, <2>2 DEF IsReading, Health!Tells
<1> QED BY <1>1, <1>2 DEF Health!Heard, Health!Told

\* A job is done, or comes to nothing.
LEMMA DoneType == Health!Idle \in Health!Job
BY DEF Health!Job

\* A row is stored.
LEMMA StoredType ==
  ASSUME Health!TypeOK, NEW a \in Assets, NEW r \in Health!AssetRow, asset' = [asset EXCEPT ![a] = r]
  PROVE  asset' \in [Assets -> Health!AssetRow \cup {Health!Unborn, Health!Gone}]
BY DEF Health!TypeOK

\* Assets are saved and created.
LEMMA AssetStepsType ==
  ASSUME Health!TypeOK, NEW j \in Health!Jobs,
         Health!SaveAsset(j) \/ Health!WriteAsset(j) \/ \E a \in Assets : Health!CreateAsset(a)
  PROVE  Health!TypeOK'
<1>0. UNCHANGED <<node, reading, todo, count>>
  BY DEF Health!SaveAsset, Health!WriteAsset, Health!CreateAsset
<1>1. CASE \E a \in Assets : Health!CreateAsset(a)
  <2>1. PICK a \in Assets, life \in Lives : asset' = [asset EXCEPT ![a] = Health!New(life)] /\ UNCHANGED job
    BY <1>1 DEF Health!CreateAsset
  <2>2. Health!New(life) \in Health!AssetRow
    BY DEF Health!New, Health!AssetRow, Health!Statuses
  <2> QED BY <1>0, <2>1, <2>2, StoredType DEF Health!TypeOK
<1>2. CASE Health!SaveAsset(j)
  <2>1. PICK d : d = job[j]
    OBVIOUS
  <2>2. d \in Health!SavingAsset
    BY <1>2, <2>1, JobFields DEF Health!TypeOK, Health!SaveAsset
  <2>3. CASE Health!Exists(d.asset)
    <3>1. PICK columns : columns = Health!Differing(d.entity, asset[d.asset])
      OBVIOUS
    <3>0. /\ job' = [job EXCEPT ![j].pc = "writeAsset", ![j].columns = columns]
          /\ UNCHANGED asset
      BY <1>2, <2>1, <2>3, <3>1 DEF Health!SaveAsset
    <3>2. PICK w : w = [d EXCEPT !.pc = "writeAsset", !.columns = columns] /\ job' = [job EXCEPT ![j] = w]
      BY <2>1, <3>0 DEF Health!TypeOK
    <3>3. w \in Health!Job
      BY <2>2, <3>1, <3>2, DifferingType, JobTypes DEF Health!SavingAsset
    <3> QED BY <1>0, <3>0, <3>2, <3>3, JobGoesOn DEF Health!TypeOK
  <2>4. CASE ~ Health!Exists(d.asset)
    <3>1. asset' = [asset EXCEPT ![d.asset] = d.entity] /\ job' = [job EXCEPT ![j] = Health!Idle]
      BY <1>2, <2>1, <2>4 DEF Health!SaveAsset
    <3>2. job' \in [Health!Jobs -> Health!Job]
      BY <3>1, JobGoesOn, DoneType
    <3>3. d.asset \in Assets /\ d.entity \in Health!AssetRow
      BY <2>2 DEF Health!SavingAsset
    <3>4. asset' \in [Assets -> Health!AssetRow \cup {Health!Unborn, Health!Gone}]
      BY <3>1, <3>3, StoredType
    <3> QED BY <1>0, <3>2, <3>4 DEF Health!TypeOK
  <2> QED BY <2>3, <2>4
<1>3. CASE Health!WriteAsset(j)
  <2>1. PICK d : d = job[j]
    OBVIOUS
  <2>2. d \in Health!SavingAsset
    BY <1>3, <2>1, JobFields DEF Health!TypeOK, Health!WriteAsset
  <2>3. job' \in [Health!Jobs -> Health!Job]
    BY <1>3, JobGoesOn, DoneType DEF Health!WriteAsset
  <2>4. CASE Health!Exists(d.asset)
    <3>1. PICK r : r = Health!Written(d.entity, d.columns, asset[d.asset])
      OBVIOUS
    <3>2. r \in Health!AssetRow /\ asset' = [asset EXCEPT ![d.asset] = r]
      BY <1>3, <2>1, <2>2, <2>4, <3>1, RowType, WrittenType DEF Health!WriteAsset, Health!SavingAsset
    <3> QED BY <1>0, <2>2, <2>3, <3>2, StoredType DEF Health!TypeOK, Health!SavingAsset
  <2>5. CASE ~ Health!Exists(d.asset)
    <3>1. asset' = asset
      BY <1>3, <2>1, <2>2, <2>5 DEF Health!WriteAsset, Health!TypeOK, Health!SavingAsset
    <3> QED BY <1>0, <2>3, <3>1 DEF Health!TypeOK
  <2> QED BY <2>4, <2>5
<1> QED BY <1>1, <1>2, <1>3

\* A node is saved and written,
LEMMA NodeStepsType ==
  ASSUME Health!TypeOK, NEW j \in Health!Jobs, Health!SaveNode(j) \/ Health!WriteNode(j)
  PROVE  Health!TypeOK'
<1>0. UNCHANGED <<asset, node, reading, todo, count>>
  BY DEF Health!SaveNode, Health!WriteNode
<1>1. PICK d : d = job[j]
  OBVIOUS
<1>2. d \in Health!SavingNode
  BY <1>1, JobFields DEF Health!TypeOK, Health!SaveNode, Health!WriteNode
<1>3. CASE Health!SaveNode(j)
  <2>1. PICK columns : columns = Health!Differing(d.entity, node[d.node])
    OBVIOUS
  <2>2. PICK w : w = [d EXCEPT !.pc = "writeNode", !.columns = columns] /\ job' = [job EXCEPT ![j] = w]
    BY <1>1, <1>3, <2>1 DEF Health!SaveNode
  <2>3. w \in Health!Job
    BY <1>2, <2>1, <2>2, DifferingType, JobTypes DEF Health!SavingNode
  <2> QED BY <1>0, <2>2, <2>3, JobGoesOn DEF Health!TypeOK
<1>4. CASE Health!WriteNode(j)
  <2>1. PICK r, ns : r = Health!Written(d.entity, d.columns, node[d.node]) /\ ns = {d.node : c \in d.columns}
    OBVIOUS
  <2>2. r \in Health!NodeRow /\ ns \in SUBSET Nodes
    BY <1>2, <2>1, WrittenType DEF Health!TypeOK, Health!SavingNode
  <2>3. PICK p : p = [n \in ns |-> r] /\ p \in Health!Pending
    BY <2>2, PendingType
  <2>4. PICK w : /\ w = Health!Idle \/ w = [pc |-> "nodes", asset |-> d.asset, life |-> d.life, pending |-> p]
                 /\ job' = [job EXCEPT ![j] = w]
    <3> DEFINE refused == "asset" \in d.columns /\ r.asset # Health!None /\ ~ Health!Exists(r.asset)
    <3>1. job' = [job EXCEPT ![j] =
                    IF refused THEN Health!Idle
                    ELSE [pc |-> "nodes", asset |-> d.asset, life |-> d.life, pending |-> p]]
      BY <1>1, <1>4, <2>1, <2>3 DEF Health!WriteNode
    <3> HIDE DEF refused
    <3> QED BY <3>1
  <2>5. w \in Health!Job
    BY <1>2, <2>3, <2>4, DoneType, JobTypes DEF Health!SavingNode, Health!Loading
  <2> QED BY <1>0, <2>4, <2>5, JobGoesOn DEF Health!TypeOK
<1> QED BY <1>3, <1>4

\* what a transaction reads are rows,
LEMMA SeenType ==
  ASSUME Health!TypeOK, NEW pending \in Health!Pending
  PROVE  Health!Seen(pending) \in [Nodes -> Health!NodeRow]
BY PendingType DEF Health!TypeOK, Health!Seen

\* and an asset is assessed,
LEMMA AssessType ==
  ASSUME AssetBounds, Health!TypeOK, NEW j \in Health!Jobs,
         Health!ReadNodes(j) \/ Health!CountBreaches(j) \/ Health!StoreIndex(j)
  PROVE  Health!TypeOK'
<1>1. PICK d \in Health!Job : d = job[j]
  BY DEF Health!TypeOK
<1>2. CASE Health!ReadNodes(j)
  <2>1. d \in Health!Loading
    BY <1>1, <1>2, JobFields DEF Health!ReadNodes
  <2>2. PICK seen \in [Nodes -> Health!NodeRow] : seen = Health!Seen(d.pending)
    BY <2>1, SeenType DEF Health!Loading
  <2>3. PICK weight, told, w :
          /\ weight = Health!Weighing(seen, d.asset)
          /\ told = [n \in DOMAIN weight |-> Health!Tells(reading[n], Health!Unheard)]
          /\ w = [pc |-> "counts", asset |-> d.asset, life |-> d.life, weight |-> weight, told |-> told,
                  left |-> DOMAIN weight, pending |-> d.pending]
          /\ job' = [job EXCEPT ![j] = w]
    BY <1>1, <1>2, <2>2 DEF Health!ReadNodes
  <2>4. PICK ns \in SUBSET Nodes : weight \in [ns -> Weights] /\ DOMAIN weight = ns
    BY <2>2, <2>3 DEF Health!Weighing, Health!NodeRow
  <2>5. \A n \in Nodes : reading[n] \in Health!Heard
    BY DEF Health!TypeOK
  <2>6. told \in [ns -> Health!Told]
    BY <2>3, <2>4, <2>5, ToldType
  <2>7. w \in Health!Job
    BY <2>1, <2>3, <2>4, <2>6, JobTypes DEF Health!Loading, Health!Counting
  <2> QED BY <1>2, <2>3, <2>7, JobGoesOn DEF Health!ReadNodes, Health!TypeOK
<1>3. CASE Health!CountBreaches(j)
  <2>1. PICK ns \in SUBSET Nodes : d \in Health!Counting(ns)
    BY <1>1, <1>3, JobFields DEF Health!CountBreaches
  <2>0. PICK n, left, told :
          /\ n \in d.left /\ left = d.left \ {n} /\ told = Health!Counted(d.told, n)
          /\ job' = [job EXCEPT ![j].left = left, ![j].told = told]
    BY <1>1, <1>3 DEF Health!CountBreaches
  <2>2. PICK w : w = [d EXCEPT !.left = left, !.told = told] /\ job' = [job EXCEPT ![j] = w]
    BY <1>1, <2>0 DEF Health!TypeOK
  <2>3. n \in ns /\ left \in SUBSET ns /\ reading[n] \in Health!Heard
    BY <2>0, <2>1 DEF Health!Counting, Health!TypeOK
  <2>4. told \in [ns -> Health!Told]
    <3>1. d.told \in [ns -> Health!Told]
      BY <2>1 DEF Health!Counting
    <3> QED BY <2>0, <2>3, <3>1, ToldType DEF Health!Counted
  <2>5. w \in Health!Job
    BY <2>1, <2>2, <2>3, <2>4, JobTypes DEF Health!Counting
  <2> QED BY <1>3, <2>2, <2>5, JobGoesOn DEF Health!CountBreaches, Health!TypeOK
<1>4. CASE Health!StoreIndex(j)
  <2>1. PICK ns \in SUBSET Nodes : d \in Health!Counting(ns)
    BY <1>1, <1>4, JobFields DEF Health!StoreIndex
  <2>2. PICK health, r :
          /\ health \in Health!Assessments(d.life, d.weight, d.told)
          /\ r = Health!Assessed(health, d.asset) /\ asset' = [asset EXCEPT ![d.asset] = r]
          /\ node' = Health!Seen(d.pending) /\ job' = [job EXCEPT ![j] = Health!Idle]
          /\ UNCHANGED <<reading, todo, count>>
    BY <1>1, <1>4 DEF Health!StoreIndex
  <2>3. d.asset \in Assets /\ d.life \in Lives /\ d.weight \in [ns -> Weights] /\ d.pending \in Health!Pending
        /\ \A n \in ns : d.told[n] \in Health!Told
    BY <2>1 DEF Health!Counting
  <2>4. health \in IndexAndStatus
    BY <2>2, <2>3, ToldType, AssessmentType
  <2>5. asset' \in [Assets -> Health!AssetRow \cup {Health!Unborn, Health!Gone}]
    <3>1. CASE Health!Exists(d.asset)
      BY <2>2, <2>3, <2>4, <3>1, RowType, StoredType
    <3>2. CASE ~ Health!Exists(d.asset)
      BY <2>2, <2>3, <3>2 DEF Health!Assessed, Health!TypeOK
    <3> QED BY <3>1, <3>2
  <2>6. node' \in [Nodes -> Health!NodeRow]
    BY <2>2, <2>3, SeenType
  <2> QED BY <2>2, <2>5, <2>6, JobGoesOn, DoneType DEF Health!TypeOK
<1> QED BY <1>2, <1>3, <1>4

\* and an asset goes, the sweep takes the assets in turn, a job fails, and readings
\* change.
LEMMA OthersType ==
  ASSUME AssetBounds, Health!TypeOK,
         \/ \E a \in Assets : Health!DeleteAsset(a)
         \/ \E j \in Health!Jobs : Health!Fails(j)
         \/ Health!SweepStarts \/ Health!SweepNext
         \/ \E n \in Nodes : Health!ReadingChanges(n)
  PROVE  Health!TypeOK'
<1>1. CASE \E a \in Assets : Health!DeleteAsset(a)
  <2>1. PICK a \in Assets : Health!DeleteAsset(a)
    BY <1>1
  <2>2. asset' \in [Assets -> Health!AssetRow \cup {Health!Unborn, Health!Gone}]
    BY <2>1 DEF Health!TypeOK, Health!DeleteAsset
  <2>3. node' \in [Nodes -> Health!NodeRow]
    BY <2>1 DEF Health!TypeOK, Health!DeleteAsset, Health!Released, Health!NodeRow
  <2> QED BY <2>1, <2>2, <2>3, CountType DEF Health!DeleteAsset, Health!TypeOK
<1>2. CASE \E j \in Health!Jobs : Health!Fails(j)
  BY <1>2, CountType, JobGoesOn, DoneType DEF Health!Fails, Health!TypeOK
<1>3. CASE Health!SweepStarts
  <2>1. \A a \in Assets : Health!Exists(a) => asset[a].life \in Lives
    BY RowType
  <2> QED BY <1>3, <2>1 DEF Health!SweepStarts, Health!Loaded, Health!TypeOK
<1>4. CASE Health!SweepNext
  <2>1. PICK t \in todo : /\ todo' = todo \ {t} /\ UNCHANGED <<asset, node, reading, count>>
                          /\ job' = [job EXCEPT ![Health!Sweep] = [pc |-> "nodes", asset |-> t.asset,
                                                                   life |-> t.life, pending |-> <<>>]]
    BY <1>4 DEF Health!SweepNext
  <2>2. [pc |-> "nodes", asset |-> t.asset, life |-> t.life, pending |-> <<>>] \in Health!Job
    BY PendingType, JobTypes DEF Health!TypeOK, Health!Loading
  <2>3. Health!Sweep \in Health!Jobs
    BY DEF Health!Jobs
  <2> QED BY <2>1, <2>2, <2>3, JobGoesOn DEF Health!TypeOK
<1>5. CASE \E n \in Nodes : Health!ReadingChanges(n)
  BY <1>5, CountType DEF Health!ReadingChanges, Health!TypeOK, Health!Heard
<1> QED BY <1>1, <1>2, <1>3, <1>4, <1>5

\* Assets, nodes and jobs are well typed in every reachable state; in particular an
\* index is between 0 and 100, or -1, however many nodes there are and whatever they
\* weigh and report.
THEOREM AssetTypeCorrect ==
  ASSUME AssetBounds
  PROVE  Health!Spec => []Health!TypeOK
<1>1. Health!Init => Health!TypeOK
  BY DoneType, ToldType DEF AssetBounds, Health!Init, Health!TypeOK, Health!NodeRow
<1>2. Health!TypeOK /\ [Health!Next]_(Health!vars) => Health!TypeOK'
  <2> SUFFICES ASSUME Health!TypeOK, [Health!Next]_(Health!vars) PROVE Health!TypeOK'
    OBVIOUS
  <2>1. CASE UNCHANGED Health!vars
    BY <2>1 DEF Health!vars, Health!TypeOK
  <2>2. Health!Sweep \in Health!Jobs
    BY DEF Health!Jobs
  <2> QED BY <2>1, <2>2, RequestsType, AssetStepsType, NodeStepsType, AssessType, OthersType
        DEF Health!Next, Health!JobStep
<1> QED BY <1>1, <1>2, PTL DEF Health!Spec

-----------------------------------------------------------------------------
(***************************************************************************)
(* A sweep while nothing changes                                           *)
(***************************************************************************)
\* No request is under way, and the sweep has just loaded the assets.
SweepBegins ==
    /\ \A q \in Requests : job[q] = Health!Idle
    /\ job[Health!Sweep] = Health!Idle
    /\ todo = Health!Loaded

\* The sweep goes on, or comes again, and nobody else does anything.
SweepSteps == Health!JobStep(Health!Sweep) \/ Health!SweepNext \/ Health!SweepStarts

SweepDone == todo = {} /\ job[Health!Sweep] = Health!Idle

AllFresh == \A a \in Assets : Health!Exists(a) => Health!Fresh(a)

\* What the sweep will still assess, or is assessing.
Ahead(a) == \/ \E t \in todo : t.asset = a
            \/ job[Health!Sweep] # Health!Idle /\ job[Health!Sweep].asset = a

\* What an asset may be assessed as.
May(a) == Health!Assessments(asset[a].life, Health!Weighing(node, a), reading)

\* Of the nodes whose breaches have been counted, all that an assessment was told is
\* what their readings say, and of the others how long they have been silent.
AsTold(w) ==
    /\ w.weight = Health!Weighing(node, w.asset)
    /\ \A n \in DOMAIN w.weight :
          /\ w.told[n].hours = reading[n].hours
          /\ n \notin w.left => w.told[n].breaches = reading[n].breaches /\ w.told[n].checks = reading[n].checks

\* What the sweep loaded, and what it works on, is as it was.
WorkIsCurrent(w) ==
    \/ w = Health!Idle
    \/ /\ w.asset \in Assets /\ Health!Exists(w.asset) /\ w.pending = <<>>
       /\ w.pc \in {"nodes", "counts"} /\ w.life = asset[w.asset].life
       /\ w.pc = "counts" => AsTold(w)

SweepCurrent ==
    /\ \A t \in todo : t.asset \in Assets /\ Health!Exists(t.asset) /\ t.life = asset[t.asset].life
    /\ WorkIsCurrent(job[Health!Sweep])

BehindFresh == \A a \in Assets : Health!Exists(a) => Ahead(a) \/ Health!Fresh(a)

\* What the assets, nodes and readings are decides.
LEMMA SameFresh ==
  ASSUME UNCHANGED <<asset, node, reading>>
  PROVE  /\ \A a : Health!Fresh(a)' <=> Health!Fresh(a)
         /\ \A a : Health!Exists(a)' <=> Health!Exists(a)
         /\ \A w : WorkIsCurrent(w)' <=> WorkIsCurrent(w)
BY DEF Health!Fresh, Health!Exists, Health!Weighing, WorkIsCurrent, AsTold

\* Nothing pending, an assessment reads what is committed.
LEMMA SeenIsCommitted == ASSUME Health!TypeOK PROVE Health!Seen(<<>>) = node
<1>1. DOMAIN <<>> = {}
  OBVIOUS
<1> QED BY <1>1 DEF Health!TypeOK, Health!Seen

\* What the attached nodes tell decides how an asset may be assessed.
LEMMA ToldDecides ==
  ASSUME NEW life, NEW w, NEW one, NEW other,
         \A n \in DOMAIN w : /\ one[n].hours = other[n].hours /\ one[n].breaches = other[n].breaches
                             /\ one[n].checks = other[n].checks
  PROVE  Health!Assessments(life, w, one) = Health!Assessments(life, w, other)
<1>1. [n \in DOMAIN w |-> Health!H!ConnectivityScore(one[n].hours)]
        = [n \in DOMAIN w |-> Health!H!ConnectivityScore(other[n].hours)]
  OBVIOUS
<1>2. /\ [n \in DOMAIN w |-> one[n].breaches] = [n \in DOMAIN w |-> other[n].breaches]
      /\ [n \in DOMAIN w |-> one[n].checks] = [n \in DOMAIN w |-> other[n].checks]
  OBVIOUS
<1>3. Health!PooledConnectivity(w, one) = Health!PooledConnectivity(w, other)
  BY <1>1 DEF Health!PooledConnectivity
<1>4. Health!PooledTelemetry(w, one) = Health!PooledTelemetry(w, other)
  BY <1>2 DEF Health!PooledTelemetry
<1> QED BY <1>3, <1>4 DEF Health!Assessments

\* The sweep reads the nodes of an asset, and counts their breaches,
LEMMA SweepReads ==
  ASSUME Health!TypeOK, SweepCurrent, Health!ReadNodes(Health!Sweep) \/ Health!CountBreaches(Health!Sweep)
  PROVE  /\ SweepCurrent' /\ UNCHANGED <<asset, node, reading, todo>>
         /\ \A a : Ahead(a) => Ahead(a)'
<1>0. Health!Sweep \in Health!Jobs /\ UNCHANGED <<asset, node, reading, todo>>
  BY DEF Health!Jobs, Health!ReadNodes, Health!CountBreaches
<1>1. PICK d \in Health!Job : d = job[Health!Sweep]
  BY <1>0 DEF Health!TypeOK
<1>2. /\ d.asset \in Assets /\ Health!Exists(d.asset) /\ d.pending = <<>>
      /\ d.life = asset[d.asset].life /\ d # Health!Idle
  BY <1>1 DEF SweepCurrent, WorkIsCurrent, Health!ReadNodes, Health!CountBreaches, Health!Idle
<1>3. PICK w : /\ job' = [job EXCEPT ![Health!Sweep] = w]
               /\ w.pc = "counts" /\ w.asset = d.asset /\ w.life = d.life /\ w.pending = d.pending /\ AsTold(w)
  <2>1. CASE Health!ReadNodes(Health!Sweep)
    <3>1. PICK weight, told, w :
            /\ weight = Health!Weighing(node, d.asset)
            /\ told = [n \in DOMAIN weight |-> Health!Tells(reading[n], Health!Unheard)]
            /\ w = [pc |-> "counts", asset |-> d.asset, life |-> d.life, weight |-> weight, told |-> told,
                    left |-> DOMAIN weight, pending |-> d.pending]
            /\ job' = [job EXCEPT ![Health!Sweep] = w]
      BY <1>1, <1>2, <2>1, SeenIsCommitted DEF Health!ReadNodes
    <3>2. AsTold(w)
      BY <3>1 DEF AsTold, Health!Tells
    <3> QED BY <3>1, <3>2
  <2>2. CASE Health!CountBreaches(Health!Sweep)
    <3>1. PICK ns \in SUBSET Nodes : d \in Health!Counting(ns)
      BY <1>1, <2>2, JobFields DEF Health!CountBreaches
    <3>2. AsTold(d)
      BY <1>1, <1>2, <2>2 DEF SweepCurrent, WorkIsCurrent, Health!CountBreaches
    <3>0. PICK n, left, told :
            /\ n \in d.left /\ left = d.left \ {n} /\ told = Health!Counted(d.told, n)
            /\ job' = [job EXCEPT ![Health!Sweep].left = left, ![Health!Sweep].told = told]
      BY <1>1, <2>2 DEF Health!CountBreaches
    <3>3. PICK w : w = [d EXCEPT !.left = left, !.told = told] /\ job' = [job EXCEPT ![Health!Sweep] = w]
      BY <1>0, <1>1, <3>0 DEF Health!TypeOK
    <3>4. /\ w.pc = "counts" /\ w.asset = d.asset /\ w.life = d.life /\ w.pending = d.pending
          /\ w.weight = d.weight /\ w.left = left /\ w.told = told
      BY <3>1, <3>3 DEF Health!Counting
    <3>5. DOMAIN d.weight = ns /\ DOMAIN d.told = ns
      BY <3>1 DEF Health!Counting
    <3>6. AsTold(w)
      BY <3>0, <3>2, <3>4, <3>5 DEF AsTold, Health!Counted, Health!Tells
    <3> QED BY <3>3, <3>4, <3>6
  <2> QED BY <2>1, <2>2
<1>4. job'[Health!Sweep] = w /\ w # Health!Idle
  BY <1>0, <1>3 DEF Health!TypeOK, Health!Idle
<1>5. WorkIsCurrent(w)
  BY <1>2, <1>3 DEF WorkIsCurrent
<1>6. SweepCurrent'
  BY <1>0, <1>4, <1>5, SameFresh DEF SweepCurrent, Health!Exists
<1>7. \A a : Ahead(a) => Ahead(a)'
  BY <1>0, <1>1, <1>3, <1>4 DEF Ahead
<1> QED BY <1>0, <1>6, <1>7

\* stores the index, which is that of the asset now,
LEMMA SweepStores ==
  ASSUME AssetBounds, Health!TypeOK, SweepCurrent, Health!StoreIndex(Health!Sweep)
  PROVE  /\ SweepCurrent' /\ UNCHANGED <<node, reading, todo>>
         /\ \A a \in Assets : /\ Health!Exists(a)' <=> Health!Exists(a)
                              /\ Health!Exists(a) /\ Health!Fresh(a) => Health!Fresh(a)'
                              /\ Health!Exists(a) /\ Ahead(a) => Ahead(a)' \/ Health!Fresh(a)'
<1>0. Health!Sweep \in Health!Jobs
  BY DEF Health!Jobs
<1>1. PICK d : d = job[Health!Sweep]
  OBVIOUS
<1>2. /\ d.asset \in Assets /\ Health!Exists(d.asset) /\ d.pending = <<>>
      /\ d.life = asset[d.asset].life /\ AsTold(d) /\ d.left = {}
  BY <1>1 DEF SweepCurrent, WorkIsCurrent, Health!StoreIndex, Health!Idle
<1>3. PICK h : h \in Health!Assessments(d.life, d.weight, d.told)
               /\ asset' = [asset EXCEPT ![d.asset] = Health!Assessed(h, d.asset)]
  BY <1>1 DEF Health!StoreIndex
<1>4. PICK x : x = d.asset /\ h \in May(x) /\ h \in IndexAndStatus
  <2>1. PICK ns \in SUBSET Nodes : d \in Health!Counting(ns)
    BY <1>0, <1>1, JobFields DEF Health!TypeOK, Health!StoreIndex
  <2>2. d.life \in Lives /\ d.weight \in [ns -> Weights] /\ \A n \in ns : d.told[n] \in Health!Told
    BY <2>1 DEF Health!Counting
  <2>3. h \in IndexAndStatus
    BY <1>3, <2>2, ToldType, AssessmentType
  <2>4. Health!Assessments(d.life, d.weight, d.told) = Health!Assessments(d.life, d.weight, reading)
    BY <1>2, ToldDecides DEF AsTold
  <2>5. h \in May(d.asset)
    BY <1>2, <1>3, <2>4 DEF May, AsTold
  <2> QED BY <2>3, <2>5
<1>5. PICK r : r = [asset[x] EXCEPT !.index = h.index, !.status = h.status]
  OBVIOUS
<1>6. /\ asset' = [asset EXCEPT ![x] = r] /\ UNCHANGED <<node, reading, todo>>
      /\ job' = [job EXCEPT ![Health!Sweep] = Health!Idle]
  BY <1>1, <1>2, <1>3, <1>4, <1>5, SeenIsCommitted DEF Health!StoreIndex, Health!Assessed
<1>7. asset[x] \in Health!AssetRow
  BY <1>2, <1>4 DEF Health!TypeOK, Health!Exists
<1>8. r.life = asset[x].life /\ [index |-> r.index, status |-> r.status] = h /\ r \in Health!AssetRow
  BY <1>4, <1>5, <1>7 DEF Health!AssetRow, IndexAndStatus
<1>9. asset'[x] = r /\ \A a \in Assets \ {x} : asset'[a] = asset[a]
  BY <1>2, <1>4, <1>6 DEF Health!TypeOK
<1>10. r \notin {Health!Unborn, Health!Gone}
  BY <1>8 DEF Health!AssetRow, Health!Unborn, Health!Gone
<1>11. \A a \in Assets : (Health!Exists(a)' <=> Health!Exists(a)) /\ asset'[a].life = asset[a].life
  BY <1>2, <1>4, <1>8, <1>9, <1>10 DEF Health!Exists
<1>12. Health!Fresh(x)'
  BY <1>2, <1>4, <1>6, <1>8, <1>9 DEF Health!Fresh, May, Health!Weighing
<1>13. \A a \in Assets \ {x} : Health!Fresh(a)' <=> Health!Fresh(a)
  BY <1>6, <1>9 DEF Health!Fresh, Health!Weighing
<1>14. job'[Health!Sweep] = Health!Idle
  BY <1>0, <1>6 DEF Health!TypeOK
<1>15. SweepCurrent'
  BY <1>6, <1>11, <1>14 DEF SweepCurrent, WorkIsCurrent
<1>16. \A a \in Assets \ {x} : Ahead(a) => Ahead(a)'
  BY <1>1, <1>4, <1>6 DEF Ahead
<1> QED BY <1>6, <1>11, <1>12, <1>13, <1>15, <1>16

\* goes on with the next,
LEMMA SweepGoesOn ==
  ASSUME Health!TypeOK, SweepCurrent, Health!SweepNext
  PROVE  /\ SweepCurrent' /\ UNCHANGED <<asset, node, reading>>
         /\ \A a : Ahead(a) => Ahead(a)'
<1>0. Health!Sweep \in Health!Jobs
  BY DEF Health!Jobs
<1>1. PICK t \in todo : /\ todo' = todo \ {t} /\ UNCHANGED <<asset, node, reading>>
                        /\ job' = [job EXCEPT ![Health!Sweep] = [pc |-> "nodes", asset |-> t.asset,
                                                                 life |-> t.life, pending |-> <<>>]]
  BY DEF Health!SweepNext
<1>2. PICK w : /\ w = [pc |-> "nodes", asset |-> t.asset, life |-> t.life, pending |-> <<>>]
               /\ job'[Health!Sweep] = w
  BY <1>0, <1>1 DEF Health!TypeOK
<1>3. WorkIsCurrent(w) /\ w # Health!Idle
  BY <1>2 DEF SweepCurrent, WorkIsCurrent, Health!Idle
<1>4. SweepCurrent'
  BY <1>1, <1>2, <1>3, SameFresh DEF SweepCurrent, Health!Exists
<1>5. job[Health!Sweep] = Health!Idle
  BY DEF Health!SweepNext
<1>6. \A a : Ahead(a) => Ahead(a)'
  BY <1>1, <1>2, <1>3, <1>5 DEF Ahead
<1> QED BY <1>1, <1>4, <1>6

\* A sweep loads each asset there is.
LEMMA LoadedAll ==
  ASSUME NEW a \in Assets, Health!Exists(a)
  PROVE  \E t \in Health!Loaded : t.asset = a
<1>1. [asset |-> a, life |-> asset[a].life] \in Health!Loaded
  BY DEF Health!Loaded
<1> QED BY <1>1

\* and comes again.
LEMMA SweepComesAgain ==
  ASSUME Health!TypeOK, SweepCurrent, Health!SweepStarts
  PROVE  /\ SweepCurrent' /\ UNCHANGED <<asset, node, reading>>
         /\ \A a \in Assets : Health!Exists(a) => Ahead(a)'
<1>1. UNCHANGED <<asset, node, reading, job>> /\ todo' = Health!Loaded
  BY DEF Health!SweepStarts
<1>2. SweepCurrent'
  BY <1>1, SameFresh DEF SweepCurrent, Health!Loaded, Health!Exists
<1>3. \A a \in Assets : Health!Exists(a) => Ahead(a)'
  BY <1>1, LoadedAll DEF Ahead
<1> QED BY <1>1, <1>2, <1>3

\* Each step of the sweep finds what it loaded as it was, leaves fresh what is fresh
\* and makes fresh what it leaves behind.
LEMMA SweepFreshens ==
  ASSUME AssetBounds, Health!TypeOK, SweepCurrent, [SweepSteps]_(Health!vars)
  PROVE  SweepCurrent' /\ (AllFresh => AllFresh') /\ (BehindFresh => BehindFresh')
<1>1. CASE Health!ReadNodes(Health!Sweep) \/ Health!CountBreaches(Health!Sweep)
  BY <1>1, SweepReads, SameFresh DEF AllFresh, BehindFresh
<1>2. CASE Health!StoreIndex(Health!Sweep)
  <2>1. AllFresh => AllFresh'
    BY <1>2, SweepStores DEF AllFresh
  <2>2. BehindFresh => BehindFresh'
    BY <1>2, SweepStores DEF BehindFresh
  <2> QED BY <1>2, <2>1, <2>2, SweepStores
<1>3. CASE Health!SweepNext
  BY <1>3, SweepGoesOn, SameFresh DEF AllFresh, BehindFresh
<1>4. CASE Health!SweepStarts
  BY <1>4, SweepComesAgain, SameFresh DEF AllFresh, BehindFresh
<1>5. CASE UNCHANGED Health!vars
  <2>1. UNCHANGED <<asset, node, reading, job, todo>>
    BY <1>5 DEF Health!vars
  <2>2. \A a : Ahead(a)' <=> Ahead(a)
    BY <2>1 DEF Ahead
  <2>3. SweepCurrent'
    BY <2>1, SameFresh DEF SweepCurrent, Health!Exists
  <2> QED BY <2>1, <2>2, <2>3, SameFresh DEF AllFresh, BehindFresh
<1>6. ASSUME Health!SaveAsset(Health!Sweep) \/ Health!WriteAsset(Health!Sweep)
                \/ Health!SaveNode(Health!Sweep) \/ Health!WriteNode(Health!Sweep)
      PROVE  FALSE
  BY <1>6 DEF SweepCurrent, WorkIsCurrent, Health!Idle, Health!SaveAsset, Health!WriteAsset,
     Health!SaveNode, Health!WriteNode
<1> QED BY <1>1, <1>2, <1>3, <1>4, <1>5, <1>6 DEF SweepSteps, Health!JobStep

\* A sweep that is done has left nothing behind that is not fresh.
LEMMA DoneIsFresh == ASSUME BehindFresh, SweepDone PROVE AllFresh
BY DEF BehindFresh, SweepDone, AllFresh, Ahead

\* IndexSettles without its "eventually": wherever the system comes to, if no request
\* is under way as a sweep begins, nothing changes and nothing fails, then every index
\* is fresh once that sweep is done, and for good: whatever was moved, edited or
\* stored late before, one sweep repairs it, and no later one spoils it.
THEOREM OneQuietSweepSettles ==
  ASSUME AssetBounds
  PROVE  Health!Spec => [](SweepBegins /\ [][SweepSteps]_(Health!vars) => [](SweepDone => []AllFresh))
<1>1. Health!Spec => []Health!TypeOK
  BY AssetTypeCorrect
<1>2. Health!TypeOK /\ SweepBegins => SweepCurrent /\ BehindFresh
  <2> SUFFICES ASSUME Health!TypeOK, SweepBegins PROVE SweepCurrent /\ BehindFresh
    OBVIOUS
  <2>1. SweepCurrent
    BY DEF SweepBegins, SweepCurrent, WorkIsCurrent, Health!Loaded
  <2>2. BehindFresh
    BY LoadedAll DEF SweepBegins, BehindFresh, Ahead
  <2> QED BY <2>1, <2>2
<1>3. Health!TypeOK /\ SweepCurrent /\ BehindFresh /\ [SweepSteps]_(Health!vars)
        => SweepCurrent' /\ BehindFresh'
  BY SweepFreshens
<1>4. Health!TypeOK /\ SweepCurrent /\ AllFresh /\ [SweepSteps]_(Health!vars) => SweepCurrent' /\ AllFresh'
  BY SweepFreshens
<1>5. BehindFresh /\ SweepDone => AllFresh
  BY DoneIsFresh
<1> QED BY <1>1, <1>2, <1>3, <1>4, <1>5, PTL

-----------------------------------------------------------------------------
(***************************************************************************)
(* Dead tokens.  While nobody edits the channel, no token dies and nothing *)
(* fails, prunings that overlap take the same tokens out of rows that      *)
(* differ in dead tokens only, so the last to write undoes none of them.   *)
(***************************************************************************)
Push == "WEB_PUSH"

PushIsAlive == config[Push] # Notify!Absent => config[Push].to \subseteq alive

\* The part of a warning on the push channel: what it loaded differs from the row in
\* dead tokens only, and it prunes all of those; if it has nothing to write, nobody has.
PushPart(part) ==
    /\ part.pc \in {"send", "save", "write"} =>
          /\ config[Push] # Notify!Absent /\ part.loaded # Notify!Absent /\ part.loaded.enabled
          /\ config[Push].to \subseteq part.loaded.to
          /\ part.loaded.to \cap alive \subseteq config[Push].to
    /\ part.pc \in {"save", "write"} => part.edit = [Notify!NoEdit EXCEPT !.drop = Notify!Dead(part.loaded.to)]
    /\ part.pc = "write" /\ "config" \notin part.columns => config[Push].to \subseteq alive

PushEnabled == config[Push] # Notify!Absent => config[Push].enabled

RunPrunes(r) == r.pc # "request" /\ (r.pc = "warn" => PushPart(r.parts[Push]))

OnlyWarnings == \A b \in Actors : RunPrunes(run[b])

\* The warning of a has still to prune, or need not.
HasToPrune(a) ==
    \/ run[a].pc = "find" /\ Push \in run[a].channels
    \/ run[a].pc = "warn" /\ run[a].parts[Push].pc \in {"send", "save", "write"}

Pruning(a) == PushIsAlive \/ HasToPrune(a)

\* A warning for the push channel begins, with nobody else further than that.
WarningBegins(a) ==
    /\ PushEnabled /\ Push \in Configured
    /\ run[a].pc = "find" /\ Push \in run[a].channels
    /\ \A b \in Actors : run[b] = Notify!Idle \/ run[b].pc = "find"

\* Any number of warnings and test messages go on, and nothing else.
WarnSteps ==
    \E b \in Actors :
       \/ \E channels \in SUBSET Notify!Channels : Notify!SendWarning(b, channels)
       \/ \E c \in Notify!Channels :
             Notify!SendTestMessage(b, c) \/ Notify!Send(b, c) \/ Notify!PartStep(b, c)
       \/ Notify!Find(b)

\* What a pruning may do to the row.
Shrinks ==
    \/ config'[Push] = config[Push]
    \/ /\ config[Push] # Notify!Absent /\ config'[Push] # Notify!Absent
       /\ config'[Push].enabled
       /\ config'[Push].to \subseteq config[Push].to
       /\ config[Push].to \cap alive \subseteq config'[Push].to

\* The other warnings do not mind.
LEMMA ShrinksFits ==
  ASSUME Shrinks, UNCHANGED alive
  PROVE  /\ \A part : PushPart(part) => PushPart(part)'
         /\ \A r : RunPrunes(r) => RunPrunes(r)'
         /\ PushEnabled => PushEnabled'
         /\ PushIsAlive => PushIsAlive'
<1>1. ASSUME NEW part, PushPart(part) PROVE PushPart(part)'
  <2>1. part.pc \in {"send", "save", "write"} =>
          /\ config'[Push] # Notify!Absent /\ part.loaded # Notify!Absent /\ part.loaded.enabled
          /\ config'[Push].to \subseteq part.loaded.to
          /\ part.loaded.to \cap alive \subseteq config'[Push].to
    BY <1>1 DEF PushPart, Shrinks
  <2>2. part.pc \in {"save", "write"} => part.edit = [Notify!NoEdit EXCEPT !.drop = Notify!Dead(part.loaded.to)']
    BY <1>1 DEF PushPart, Notify!Dead
  <2>3. part.pc = "write" /\ "config" \notin part.columns => config'[Push].to \subseteq alive
    BY <1>1 DEF PushPart, Shrinks
  <2>4. QED
    BY <2>1, <2>2, <2>3 DEF PushPart
<1>2. PushEnabled => PushEnabled'
  BY DEF Shrinks, PushEnabled
<1>3. PushIsAlive => PushIsAlive'
  BY DEF Shrinks, PushIsAlive
<1>4. ASSUME NEW r, RunPrunes(r) PROVE RunPrunes(r)'
  BY <1>1, <1>4 DEF RunPrunes
<1>5. QED
  BY <1>1, <1>2, <1>3, <1>4

\* Somebody goes on to r.
LEMMA WarningGoesOn ==
  ASSUME NotifyInv, OnlyWarnings, Shrinks, UNCHANGED alive,
         NEW b \in Actors, NEW r, Notify!GoesOn(b, r), RunPrunes(r)'
  PROVE  /\ OnlyWarnings' /\ run'[b] = r
         /\ \A a \in Actors \ {b} : HasToPrune(a) => HasToPrune(a)'
<1>1. run'[b] = r /\ \A a \in Actors \ {b} : run'[a] = run[a]
  BY DEF NotifyInv, RunsFit, Notify!GoesOn
<1>2. ASSUME NEW a \in Actors PROVE RunPrunes(run[a])'
  <2>1. CASE a = b
    BY <1>1, <2>1
  <2>2. CASE a # b
    BY <1>1, <2>2, ShrinksFits DEF OnlyWarnings
  <2>3. QED
    BY <2>1, <2>2
<1>3. OnlyWarnings'
  BY <1>2 DEF OnlyWarnings
<1>4. \A a \in Actors \ {b} : HasToPrune(a) => HasToPrune(a)'
  BY <1>1 DEF HasToPrune
<1>5. QED
  BY <1>1, <1>3, <1>4

\* A warning goes on with other parts.
LEMMA PartsGoOn ==
  ASSUME NotifyInv, OnlyWarnings, Shrinks, UNCHANGED alive,
         NEW b \in Actors, NEW parts, Notify!WarnsOn(b, parts), PushPart(parts[Push])'
  PROVE  /\ OnlyWarnings'
         /\ \A a \in Actors \ {b} : HasToPrune(a) => HasToPrune(a)'
         /\ parts[Push].pc \in {"send", "save", "write"} => HasToPrune(b)'
<1>1. PICK r : /\ r = IF \A c \in Notify!Channels : parts[c] = Notify!Idle THEN Notify!Idle
                      ELSE [pc |-> "warn", parts |-> parts, test |-> run[b].test]
               /\ Notify!GoesOn(b, r)
  BY DEF Notify!WarnsOn
<1>2. Push \in Notify!Channels /\ Notify!Idle.pc = "idle"
  BY DEF Push, Notify!Channels, Notify!Idle
<1>3. r.pc \in {"idle", "warn"} /\ (r.pc = "warn" => r.parts = parts)
  BY <1>1, <1>2
<1>4. /\ OnlyWarnings' /\ run'[b] = r
      /\ \A a \in Actors \ {b} : HasToPrune(a) => HasToPrune(a)'
  <2>1. RunPrunes(r)'
    BY <1>3 DEF RunPrunes
  <2>2. QED
    BY <1>1, <2>1, WarningGoesOn
<1>5. parts[Push].pc \in {"send", "save", "write"} => r.pc = "warn"
  BY <1>1, <1>2
<1>6. QED
  BY <1>3, <1>4, <1>5 DEF HasToPrune

\* One part goes on to another.
LEMMA OnePartGoesOn ==
  ASSUME NotifyInv, OnlyWarnings, Shrinks, UNCHANGED alive,
         NEW b \in Actors, run[b].pc = "warn", NEW c \in Notify!Channels, NEW next,
         Notify!PartGoesOn(b, c, next), c = Push => PushPart(next)'
  PROVE  /\ OnlyWarnings'
         /\ \A a \in Actors \ {b} : HasToPrune(a) => HasToPrune(a)'
         /\ c # Push /\ HasToPrune(b) => HasToPrune(b)'
         /\ c = Push /\ next.pc \in {"save", "write"} => HasToPrune(b)'
<1>1. run[b] \in Warning
  BY DEF NotifyInv, RunsFit, RunFits, Notify!Idle, Finding, Requesting
<1>2. PICK parts : parts = [run[b].parts EXCEPT ![c] = next] /\ Notify!WarnsOn(b, parts)
  BY DEF Notify!PartGoesOn
<1>3. Push \in Notify!Channels /\ parts[Push] = IF c = Push THEN next ELSE run[b].parts[Push]
  BY <1>1, <1>2 DEF Warning, Notify!Parts, Push, Notify!Channels
<1>4. PushPart(parts[Push])'
  BY <1>3, ShrinksFits DEF OnlyWarnings, RunPrunes
<1>5. /\ OnlyWarnings'
      /\ \A a \in Actors \ {b} : HasToPrune(a) => HasToPrune(a)'
      /\ parts[Push].pc \in {"send", "save", "write"} => HasToPrune(b)'
  BY <1>2, <1>4, PartsGoOn
<1>6. c # Push /\ HasToPrune(b) => HasToPrune(b)'
  BY <1>3, <1>5 DEF HasToPrune
<1>7. QED
  BY <1>3, <1>5, <1>6

\* What is preserved of a warning a.
Keeps(a) == OnlyWarnings' /\ PushEnabled' /\ (PushIsAlive => PushIsAlive') /\ (Pruning(a) => Pruning(a)')

\* The row a part of the push channel loaded, and the tokens of the row.
LEMMA PushTokens ==
  ASSUME NotifyInv, NEW b \in Actors, run[b].pc = "warn", run[b].parts[Push].pc \in {"send", "save", "write"}
  PROVE  /\ run[b].parts[Push].loaded.to \subseteq Tokens \/ run[b].parts[Push].loaded = Notify!Absent
         /\ run[b].parts[Push].loaded \in Notify!Row \cup {Notify!Absent}
         /\ PartFits(Push, run[b].parts[Push])
<1>1. Push \in Notify!Channels /\ Of(Push) = Tokens
  BY DEF Push, Notify!Channels, Of
<1>2. PartFits(Push, run[b].parts[Push])
  BY <1>1 DEF NotifyInv, RunsFit, RunFits, Notify!Idle, Finding, Requesting
<1>3. PICK part : part = run[b].parts[Push] /\ PartFits(Push, part)
  BY <1>2
<1>4. CASE part \in [pc : {"send"}, loaded : Notify!Row] /\ part.loaded.to \subseteq Of(Push)
  BY <1>1, <1>3, <1>4
<1>5. CASE Fits(Push, part)
  <2>1. part.loaded \in Notify!Row \cup {Notify!Absent}
    BY <1>5 DEF Fits, Notify!Saving
  <2>2. part.loaded # Notify!Absent => part.loaded.to \subseteq Tokens
    BY <1>1, <1>5 DEF Fits
  <2>3. QED
    BY <1>3, <2>1, <2>2
<1>6. part # Notify!Idle /\ part \notin [pc : {"record"}, status : {"SENT", "FAILED"}]
  <2>1. part.pc \in {"send", "save", "write"}
    BY <1>3
  <2>2. QED
    BY <2>1 DEF Notify!Idle
<1>7. QED
  BY <1>3, <1>4, <1>5, <1>6 DEF PartFits

\* A warning begins, and finds the row.
LEMMA BeginningsPrune ==
  ASSUME NotifyInv, OnlyWarnings, PushEnabled, NEW a \in Actors, NEW b \in Actors,
         \/ \E channels \in SUBSET Notify!Channels : Notify!SendWarning(b, channels)
         \/ \E c \in Notify!Channels : Notify!SendTestMessage(b, c)
         \/ Notify!Find(b)
  PROVE  Keeps(a)
<1>1. UNCHANGED <<config, alive>> /\ Shrinks
  BY DEF Notify!SendWarning, Notify!SendTestMessage, Notify!Find, Shrinks
<1>2. PushEnabled' /\ (PushIsAlive => PushIsAlive')
  BY <1>1, ShrinksFits
<1>3. CASE \/ \E channels \in SUBSET Notify!Channels : Notify!SendWarning(b, channels)
           \/ \E c \in Notify!Channels : Notify!SendTestMessage(b, c)
  <2>1. PICK channels, test : /\ run[b] = Notify!Idle
                              /\ Notify!GoesOn(b, [pc |-> "find", channels |-> channels, test |-> test])
    BY <1>3 DEF Notify!SendWarning, Notify!SendTestMessage
  <2>2. PICK r : r = [pc |-> "find", channels |-> channels, test |-> test]
    OBVIOUS
  <2>3. OnlyWarnings' /\ \A d \in Actors \ {b} : HasToPrune(d) => HasToPrune(d)'
    <3>1. RunPrunes(r)'
      BY <2>2 DEF RunPrunes
    <3>2. QED
      BY <1>1, <2>1, <2>2, <3>1, WarningGoesOn
  <2>4. ~ HasToPrune(b)
    BY <2>1 DEF HasToPrune, Notify!Idle
  <2>5. QED
    BY <1>2, <2>3, <2>4 DEF Keeps, Pruning
<1>4. CASE Notify!Find(b)
  <2>1. PICK parts : /\ parts = [c \in Notify!Channels |-> IF c \in run[b].channels /\ Notify!Target(c)
                                                           THEN [pc |-> "send", loaded |-> config[c]] ELSE Notify!Idle]
                     /\ Notify!WarnsOn(b, parts)
    BY <1>4 DEF Notify!Find
  <2>2. parts[Push] = IF Push \in run[b].channels /\ Notify!Target(Push)
                      THEN [pc |-> "send", loaded |-> config[Push]] ELSE Notify!Idle
    BY <2>1 DEF Push, Notify!Channels
  <2>3. PushPart(parts[Push])'
    BY <1>1, <2>2 DEF PushPart, Notify!Target, Notify!Idle
  <2>4. /\ OnlyWarnings'
        /\ \A d \in Actors \ {b} : HasToPrune(d) => HasToPrune(d)'
        /\ parts[Push].pc \in {"send", "save", "write"} => HasToPrune(b)'
    BY <1>1, <2>1, <2>3, PartsGoOn
  <2>5. HasToPrune(b) => HasToPrune(b)' \/ PushIsAlive
    <3>1. CASE Notify!Target(Push)
      BY <1>4, <2>2, <2>4, <3>1 DEF HasToPrune, Notify!Find
    <3>2. CASE ~ Notify!Target(Push)
      <4>1. config[Push] # Notify!Absent => config[Push].linked \/ config[Push].to = {}
        BY DEF NotifyInv, RowsFit, Notify!Row, Push, Notify!Channels
      <4>2. QED
        BY <3>2, <4>1 DEF Notify!Target, PushIsAlive, PushEnabled
    <3>3. QED
      BY <3>1, <3>2
  <2>6. QED
    BY <1>2, <2>4, <2>5 DEF Keeps, Pruning
<1>5. QED
  BY <1>3, <1>4

\* Sends on the push channel find what is dead of the row,
LEMMA SendPrunes ==
  ASSUME NotifyInv, OnlyWarnings, PushEnabled, Push \in Configured, NEW a \in Actors, NEW b \in Actors,
         Notify!Send(b, Push)
  PROVE  Keeps(a)
<1>1. UNCHANGED <<config, alive>> /\ Shrinks /\ run[b].pc = "warn" /\ Push \in Notify!Channels
  BY DEF Notify!Send, Notify!At, Shrinks, Push, Notify!Channels
<1>2. PICK part : part = run[b].parts[Push]
  OBVIOUS
<1>3. part.pc = "send" /\ PushPart(part)
  BY <1>1, <1>2 DEF Notify!Send, Notify!At, Notify!Part, OnlyWarnings, RunPrunes
<1>4. part.loaded.to \subseteq Tokens
  BY <1>1, <1>2, <1>3, PushTokens DEF PushPart
<1>5. PICK next : /\ next = IF Notify!Dead(part.loaded.to) # {}
                            THEN [pc |-> "save", loaded |-> part.loaded, columns |-> {},
                                  edit |-> [Notify!NoEdit EXCEPT !.drop = Notify!Dead(part.loaded.to)]]
                            ELSE Notify!Ends(b, "SENT")
                  /\ Notify!PartGoesOn(b, Push, next)
  BY <1>2 DEF Notify!Send, Notify!Part
<1>6. PushEnabled' /\ (PushIsAlive => PushIsAlive')
  BY <1>1, ShrinksFits
<1>7. CASE Notify!Dead(part.loaded.to) # {}
  <2>1. PushPart(next)
    BY <1>3, <1>5, <1>7 DEF PushPart
  <2>2. PushPart(next)' /\ next.pc = "save"
    BY <1>1, <1>5, <1>7, <2>1, ShrinksFits
  <2>3. OnlyWarnings' /\ HasToPrune(b)' /\ \A d \in Actors \ {b} : HasToPrune(d) => HasToPrune(d)'
    BY <1>1, <1>5, <2>2, OnePartGoesOn
  <2>4. QED
    BY <1>6, <2>3 DEF Keeps, Pruning
<1>8. CASE Notify!Dead(part.loaded.to) = {}
  <2>1. PushIsAlive
    BY <1>3, <1>4, <1>8 DEF Notify!Dead, PushPart, PushIsAlive
  <2>2. next.pc \in {"idle", "record"}
    BY <1>5, <1>8 DEF Notify!Ends, Notify!Idle
  <2>3. PushPart(next)'
    BY <2>2 DEF PushPart
  <2>4. OnlyWarnings'
    BY <1>1, <1>5, <2>3, OnePartGoesOn
  <2>5. QED
    BY <1>6, <2>1, <2>4 DEF Keeps, Pruning
<1>9. QED
  BY <1>7, <1>8

\* compare it with the row, write what is left of it, and record it.
LEMMA PushPartPrunes ==
  ASSUME NotifyInv, OnlyWarnings, PushEnabled, NEW a \in Actors, NEW b \in Actors, Notify!PartStep(b, Push)
  PROVE  Keeps(a)
<1>1. run[b].pc = "warn" /\ Push \in Notify!Channels /\ UNCHANGED alive
  BY DEF Notify!PartStep, Notify!ReadsForPruning, Notify!Prune, Notify!RecordMessage, Notify!At,
     Push, Notify!Channels
<1>2. PICK part : part = run[b].parts[Push] /\ PushPart(part)
  BY <1>1 DEF OnlyWarnings, RunPrunes
<1>3. CASE Notify!RecordMessage(b, Push)
  <2>1. part.pc = "record" /\ Notify!PartGoesOn(b, Push, Notify!Idle) /\ UNCHANGED config /\ Shrinks
    BY <1>2, <1>3 DEF Notify!RecordMessage, Notify!At, Notify!Part, Shrinks
  <2>2. PushPart(Notify!Idle)'
    BY DEF PushPart, Notify!Idle
  <2>3. OnlyWarnings' /\ \A d \in Actors \ {b} : HasToPrune(d) => HasToPrune(d)'
    BY <1>1, <2>1, <2>2, OnePartGoesOn
  <2>4. ~ HasToPrune(b)
    BY <1>1, <1>2, <2>1 DEF HasToPrune
  <2>5. QED
    BY <1>1, <2>1, <2>3, <2>4, ShrinksFits DEF Keeps, Pruning
<1>4. ASSUME part.pc \in {"save", "write"}
      PROVE  /\ part.loaded \in Notify!Row /\ part.loaded.to \subseteq Tokens /\ config[Push] \in Notify!Row
             /\ part \in Notify!Saving
             /\ \A entity : entity = Notify!Edited(part.loaded, part.edit) =>
                   /\ entity \in Notify!Row /\ entity.enabled
                   /\ entity.to = part.loaded.to \cap alive
  <2>1. part.loaded \in Notify!Row /\ part.loaded.to \subseteq Tokens /\ Fits(Push, part)
    BY <1>1, <1>2, <1>4, PushTokens DEF PushPart, PartFits, Notify!Idle
  <2>2. PICK loaded, edit, dead : loaded = part.loaded /\ edit = part.edit /\ dead = Notify!Dead(loaded.to)
    OBVIOUS
  <2>3. edit = [Notify!NoEdit EXCEPT !.drop = dead] /\ loaded.enabled /\ loaded # Notify!Absent
    BY <1>2, <1>4, <2>2 DEF PushPart
  <2>4. edit.add = {} /\ edit.drop = dead /\ edit.enabled = {}
    BY <2>3 DEF Notify!NoEdit
  <2>5. Notify!Edited(loaded, edit) \in Notify!Row
    BY <1>1, <2>1, <2>2, EditedFits
  <2>6. /\ Notify!Edited(loaded, edit).enabled = loaded.enabled
        /\ Notify!Edited(loaded, edit).to = (loaded.to \cup {}) \ dead
    BY <2>3, <2>4 DEF Notify!Edited, Notify!Created
  <2>7. (loaded.to \cup {}) \ dead = loaded.to \cap alive
    BY <2>1, <2>2 DEF Notify!Dead
  <2>8. config[Push] \in Notify!Row
    BY <1>1, <1>2, <1>4 DEF PushPart, NotifyInv, RowsFit
  <2>9. part \in Notify!Saving
    BY <2>1 DEF Fits
  <2>10. QED
    BY <2>1, <2>2, <2>3, <2>5, <2>6, <2>7, <2>8, <2>9
<1>5. PICK entity : entity = Notify!Edited(part.loaded, part.edit)
  OBVIOUS
<1>6. CASE Notify!ReadsForPruning(b, Push)
  <2>1. PICK next : /\ next = [part EXCEPT !.pc = "write", !.columns = Notify!Differing(entity, config[Push])]
                    /\ part.pc = "save" /\ Notify!PartGoesOn(b, Push, next)
                    /\ UNCHANGED config /\ Shrinks
    BY <1>2, <1>5, <1>6 DEF Notify!ReadsForPruning, Notify!At, Notify!Part, Notify!Compared, Notify!Reads, Shrinks
  <2>2. /\ next.pc = "write" /\ next.loaded = part.loaded /\ next.edit = part.edit
        /\ next.columns = Notify!Differing(entity, config[Push])
    BY <1>4, <2>1 DEF Notify!Saving
  <2>3. "config" \notin next.columns => entity.to = config[Push].to
    BY <2>2 DEF Notify!Differing, Notify!Columns
  <2>4. entity.to \subseteq alive
    BY <1>4, <1>5, <2>1
  <2>5. PushPart(next)
    BY <1>2, <2>1, <2>2, <2>3, <2>4 DEF PushPart
  <2>6. PushPart(next)'
    BY <1>1, <2>1, <2>5, ShrinksFits
  <2>7. OnlyWarnings' /\ HasToPrune(b)' /\ \A d \in Actors \ {b} : HasToPrune(d) => HasToPrune(d)'
    BY <1>1, <2>1, <2>2, <2>6, OnePartGoesOn
  <2>8. QED
    BY <1>1, <2>1, <2>7, ShrinksFits DEF Keeps, Pruning
<1>7. CASE Notify!Prune(b, Push)
  <2>1. PICK next : next = Notify!Ends(b, "SENT") /\ Notify!PartGoesOn(b, Push, next) /\ part.pc = "write"
    BY <1>2, <1>7 DEF Notify!Prune, Notify!At, Notify!Part
  <2>2. next.pc \in {"idle", "record"}
    BY <2>1 DEF Notify!Ends, Notify!Idle
  <2>3. config[Push] # Notify!Absent /\ part.loaded # Notify!Absent
    BY <1>2, <2>1 DEF PushPart
  <2>4. PICK written : /\ written = Notify!Written(entity, config[Push], part.columns)
                   /\ config' = [config EXCEPT ![Push] = written]
    BY <1>2, <1>5, <1>7, <2>3 DEF Notify!Prune, Notify!Part, Notify!Writes
  <2>5. entity \in Notify!Row /\ entity.enabled /\ entity.to = part.loaded.to \cap alive /\ config[Push] \in Notify!Row
    BY <1>4, <1>5, <2>1
  <2>6. /\ written.enabled = (IF "enabled" \in part.columns THEN entity.enabled ELSE config[Push].enabled)
        /\ written.to = (IF "config" \in part.columns THEN entity.to ELSE config[Push].to)
        /\ written # Notify!Absent
    BY <2>4 DEF Notify!Written, Notify!Absent
  <2>7. written.enabled /\ written.to = config[Push].to \cap alive
    <3>1. written.enabled
      BY <2>3, <2>5, <2>6 DEF PushEnabled
    <3>2. entity.to = config[Push].to \cap alive
      BY <1>2, <2>1, <2>5 DEF PushPart
    <3>3. "config" \notin part.columns => config[Push].to \subseteq alive
      BY <1>2, <2>1 DEF PushPart
    <3>4. QED
      BY <2>6, <3>1, <3>2, <3>3
  <2>8. config'[Push] = written
    BY <1>1, <2>4 DEF NotifyInv, RowsFit
  <2>9. Shrinks /\ PushIsAlive'
    BY <1>1, <2>3, <2>6, <2>7, <2>8 DEF Shrinks, PushIsAlive
  <2>10. PushPart(next)'
    BY <2>2 DEF PushPart
  <2>11. OnlyWarnings'
    BY <1>1, <2>1, <2>9, <2>10, OnePartGoesOn
  <2>12. QED
    BY <1>1, <2>9, <2>11, ShrinksFits DEF Keeps, Pruning
<1>8. QED
  BY <1>3, <1>6, <1>7 DEF Notify!PartStep

\* The other channel has a row of its own.
LEMMA OtherPartPrunes ==
  ASSUME NotifyInv, OnlyWarnings, PushEnabled, NEW a \in Actors, NEW b \in Actors,
         NEW c \in Notify!Channels, c # Push, Notify!Send(b, c) \/ Notify!PartStep(b, c)
  PROVE  Keeps(a)
<1>1. run[b].pc = "warn" /\ UNCHANGED alive
  BY DEF Notify!Send, Notify!PartStep, Notify!ReadsForPruning, Notify!Prune, Notify!RecordMessage, Notify!At
<1>2. Shrinks
  BY DEF Shrinks, Notify!Send, Notify!PartStep, Notify!ReadsForPruning, Notify!Reads, Notify!Prune, Notify!Writes,
     Notify!RecordMessage, NotifyInv, RowsFit, Push, Notify!Channels
<1>3. PICK next : Notify!PartGoesOn(b, c, next)
  BY DEF Notify!Send, Notify!PartStep, Notify!ReadsForPruning, Notify!Prune, Notify!RecordMessage
<1>4. /\ OnlyWarnings'
      /\ \A d \in Actors : HasToPrune(d) => HasToPrune(d)'
  BY <1>1, <1>2, <1>3, OnePartGoesOn
<1>5. QED
  BY <1>1, <1>2, <1>4, ShrinksFits DEF Keeps, Pruning

\* DeadTokensGo without its "eventually": if a warning begins on a channel that is
\* enabled, while no edit or pruning is under way, and from then on nobody edits, no
\* token dies and nothing fails, then once it is over no dead token is left, for good,
\* however many other warnings prune the same row.
THEOREM OneWarningPrunes ==
  ASSUME NotifyBounds, NEW a \in Actors
  PROVE  Notify!Spec => [](WarningBegins(a) /\ [][WarnSteps]_(Notify!vars)
                           => [](run[a] = Notify!Idle => []PushIsAlive))
<1> DEFINE Able == Push \in Configured
           Over == run[a] = Notify!Idle
<1>1. WarningBegins(a) => Able /\ OnlyWarnings /\ PushEnabled /\ Pruning(a)
  BY DEF WarningBegins, OnlyWarnings, RunPrunes, Pruning, HasToPrune, Notify!Idle
<1>2. NotifyInv /\ Able /\ OnlyWarnings /\ PushEnabled /\ Pruning(a) /\ [WarnSteps]_(Notify!vars)
        => Keeps(a)
  <2>1. SUFFICES ASSUME NotifyInv, Able, OnlyWarnings, PushEnabled, [WarnSteps]_(Notify!vars)
                 PROVE  Keeps(a)
    OBVIOUS
  <2>2. CASE UNCHANGED Notify!vars
    <3>1. UNCHANGED <<config, alive, run>> /\ Shrinks
      BY <2>2 DEF Notify!vars, Shrinks
    <3>2. OnlyWarnings'
      <4>1. ASSUME NEW b \in Actors PROVE RunPrunes(run[b])'
        BY <2>1, <3>1, ShrinksFits DEF OnlyWarnings
      <4>2. QED
        BY <4>1 DEF OnlyWarnings
    <3>3. HasToPrune(a) => HasToPrune(a)'
      BY <3>1 DEF HasToPrune
    <3>4. QED
      BY <2>1, <3>1, <3>2, <3>3, ShrinksFits DEF Keeps, Pruning
  <2>3. ASSUME NEW b \in Actors, NEW c \in Notify!Channels, Notify!Send(b, c) \/ Notify!PartStep(b, c)
        PROVE  Keeps(a)
    BY <2>1, <2>3, SendPrunes, PushPartPrunes, OtherPartPrunes
  <2>4. QED
    BY <2>1, <2>2, <2>3, BeginningsPrune DEF WarnSteps
<1>3. Pruning(a) /\ Over => PushIsAlive
  BY DEF Pruning, HasToPrune, Notify!Idle
<1>4. Able => Able'
  OBVIOUS
<1>5. Keeps(a) => OnlyWarnings' /\ PushEnabled' /\ (PushIsAlive => PushIsAlive') /\ (Pruning(a) => Pruning(a)')
  BY DEF Keeps
<1>6. PushIsAlive => Pruning(a)
  BY DEF Pruning
<1> HIDE DEF Able
<1>7. QED
  BY <1>1, <1>2, <1>3, <1>4, <1>5, <1>6, NotifyInvariant, PTL
=============================================================================
