# AIoT-Cloud in TLA+

A TLA+ model of AIoT-Cloud: its backend (`src/src`, a NestJS application) and the
part of its dashboard (`src/web`) that follows devices live, with the TLC runs that
check it on small instances and the proofs that TLAPS checks for every instance.
Paths below are relative to `src/src/modules/` unless they start with `src/`;
`PROJECT.json` maps every definition to its lines.

## 1. The system

Devices (nodes on MQTT, gateways on Kafka, anything on HTTP) report to one NestJS
process. It keeps all lasting state in PostgreSQL through TypeORM, passes events
inside the process (`EventEmitter2`) to a socket.io gateway, an SSE stream and the
notification listener, and sends commands over Kafka and MQTT. A React dashboard
uses the REST API and the sockets.

What makes it hard is the same everywhere:

* **No locks.** Every handler and request loads a row, computes, and writes in a
  later database call. JavaScript runs other callbacks at each `await`.
  `@Transactional` groups calls at READ COMMITTED; it does not make a read hold.
* **Two kinds of writes.** `update(id, {...})` writes the columns named.
  `save(entity)` selects the row again and writes *every* column in which the
  entity, possibly loaded long before, differs from it. It can put back old values
  of columns the request has nothing to do with, and half of a pair of columns.
* **Two kinds of handlers.** The Kafka consumer awaits one message before the next
  and swallows a handler's error (`kafka/kafka-consumer.service.ts:158, 175-228`).
  The MQTT controller starts a handler per message with `void` and waits for none
  (`mqtt/mqtt.controller.ts:45-64`), nor for its error: `src/src/main.ts` handles no
  unhandled rejection, so the error ends the process and all that is in progress in
  it. What is safe behind the first may not be behind the second, so the number of
  concurrent handlers is a constant of the models, and the end of the process one of
  their actions (`Crash`).
* **Messages and rows are separate.** A command is published before or after the
  row that describes it is saved, and the answer may overtake the save. Events are
  emitted after the write they announce. A mail is sent before the transaction that
  its link depends on commits, a cache cleared before the row it caches changes.
* **Timers.** Cron runs the offline sweep every ten seconds (a run does not wait for
  the previous one), the lifecycle sweep at 03:00, asset health later that night; the
  consumer, the socket and the panels have timers of their own.

### Inventory

| Component | State | Operations | Correct when | Modelled by |
|---|---|---|---|---|
| Device presence | `devices.status`, `last_seen_at` | `recordTelemetry`, `handleDeviceStatusMessage`, `handleDeviceChannelEvent`, `sweepOfflineDevices` | a silent device ends up OFFLINE, each outage is reported, what was heard stays | **DevicePresence** |
| Firmware updates | `devices.ota_*`, `firmware_version`, `device_ota_updates` | `triggerUpdate`, `handleOtaStatusReport` | an attempt moves forward and ends, its result stays, nobody is locked out | **DeviceOta** |
| Actions and channel states | `devices.channel_states`, command and event topics | `triggerDeviceAction`, its MQTT path, `handleDeviceChannelEvent` | no channel update is lost, the row settles on the device's state, panels are answered | **DeviceActions** |
| Lifecycle assessment | `lifecycle_stage`, `_score`, `decommissioned_at` | GET/PUT lifecycle, decommission, nightly sweep | stage fits score, a retired device stays retired, the sweep skips nobody | **DeviceLifecycle**, **HealthScoring** |
| Device configuration | `config`, `push_channel`, `config_version` | `updateDeviceConfig`, `getBootConfig`/`resolveKafkaConfig`, `pushConfigSync` | an edit stays, the gateway ends up running it | **DeviceConfig** (partly) |
| Asset health | `assets.health_*`, `devices.asset_id`, `health_weight` | create, edit, delete, attach, weight, detach, assess, sweep | the stored index is that of the nodes attached, no node belongs to an asset that is gone | **AssetHealth**, **AssetScoring** |
| Kafka transport | consumer, retry timer, topics | `onModuleInit`, `connectAndSubscribe`, crash handler, `onModuleDestroy`, topic creation, `send` | one live consumer in the end, never two, none after shutdown | **ConsumerLifecycle**; the handlers' side in the modules of the handlers |
| MQTT topic registry | hits and misses in memory | `resolveCustomTopic`, `recordHit/Miss`, `clear` | a cached topic is the device's, a configured one is found | **MqttIngress** |
| Registration, unclaimed devices | `devices`, `unclaimed_devices` | `registerDevice`, `deleteDevice`, sightings, (un)ignore | a sighted device is registered or listed, a dismissed one stays dismissed | **MqttIngress** |
| Notifications | `notification_configs`, recorded attempts | switches, links, tokens, `sendWarning`, `sendTestMessage`, pruning | saves add up, no channel holds up another, dead tokens go | **Notifications** (partly) |
| Realtime gateway, SSE | rooms | authenticate, subscribe, push | who is in the room hears everything, who lost it joins again | **DevicePanel** (partly) |
| Web dashboard | shared socket, optimistic values | click, receive, render, time out | the page shows what is persisted, a panel learns how its click ended | **DevicePanel** (partly) |
| Users, auth | `users`, `user_settings` | register, verify, resend, edit, change password, `validateUser` | a request changes what it was asked to, who keeps trying gets in | **UserAccounts** (partly) |
| Factories, templates, firmware catalogue, dashboards, secrets, health checks, migrations, shell | rows, or none | CRUD, wiring | | not modelled, see section 6 |

### How the parts interact

DevicePresence, DeviceOta, DeviceActions, DeviceLifecycle, DeviceConfig, AssetHealth
and MqttIngress all work on the `devices` row. `handleDeviceChannelEvent` belongs to
three modules: its refresh of `status` is in DevicePresence, its write of
`channelStates` in DeviceActions, what it pushes and what the page makes of it in
DevicePanel. MqttIngress ends where a handler knows its device; the handlers behind
it are DevicePresence's and DeviceActions'. ConsumerLifecycle decides whether there
is a consumer at all; one message at a time and redelivery are constants of the
handlers' modules. AssetScoring uses the scores of HealthScoring, as
`asset/asset-health.service.ts` uses `src/src/common/health-scoring.util.ts`. What
DevicePresence announces (`announced`) is what Notifications begins with, a warning.

## 2. Modules

| Module | What it is |
|---|---|
| `DevicePresence` | handlers, sweeps, saves, faults and the clock around `status`/`lastSeenAt` |
| `OutageReporting` | abstract: a device that went down is reported, or comes back first |
| `DevicePresence_proofs` | type correctness, two properties, what a sweep does for a silent device |
| `DeviceOta` | requests, device, broker and report handlers around one device's attempts |
| `OtaLifecycle` | abstract: an attempt only moves forward and ends |
| `DeviceOta_proofs` | type correctness, a completed attempt stays, the running version was confirmed |
| `DeviceActions`, `DeviceActions_proofs` | requests, gateway or MQTT device, handlers around `channelStates`; type correctness, two properties, that an answer is always left |
| `HealthScoring` | score arithmetic and stages |
| `DeviceLifecycle`, `MCDeviceLifecycle`, `DeviceLifecycle_proofs` | requests and the sweep around stage and score; symmetry for TLC; type correctness, three properties, range and monotonicity of the scores |
| `DeviceConfig` | edits, fetches and nudges around one gateway's configuration |
| `AssetScoring`, `AssetHealth`, `MCAssetHealth` | the index of an asset; assets and nodes, requests and the sweep; readings for TLC |
| `ConsumerLifecycle` | the Kafka consumer from boot to shutdown |
| `MqttIngress`, `MqttIngress_proofs` | topics, cache, sightings and registrations around MQTT messages; type correctness, three properties, that a lookup finds what is configured |
| `Notifications` | rows, warnings, senders and dead tokens of one user |
| `DevicePanel`, `DevicePanel_proofs` | one page's panels of one device, the socket and the room; type correctness, the page mirrors the row, that an answer always comes, and that a page comes back into the room |
| `UserAccounts`, `UserAccounts_proofs` | one account's requests, mails and tokens; type correctness, a request changes what it was asked to, mails and clicks lead in |
| `Backend_proofs` | ConsumerLifecycle, and instances of DeviceConfig, Notifications and AssetHealth: type correctness, their safety properties, the safety half of a liveness property of each; sums over a finite set, and the scores of an asset |

Conventions. An activation of a handler, a request or a sweep is a record with a
`pc`: the step it does next, named after what the code does there. One action is
the code between two `await`s that matter, so everything it sets it sets at once,
and what it read before is in its record (`loaded`, `entity`) and may be stale. A
TypeORM `save` is two steps, the select (`Differing`: the columns in which the
entity differs) and the update (`Written`: only those), where the properties depend
on it. Loggers, DTOs and response texts are left out. History variables
(in DevicePresence `announced`, `unreported`; DeviceOta `confirmed`, `overlapped`;
DeviceActions `applied`, `clean`; DeviceLifecycle `due`; DeviceConfig `latest`,
`overlapped`; ConsumerLifecycle `abandoned`; MqttIngress `seen`, `raced`; Notifications
`wanted`, `raced`; DevicePanel `heard`, `missed`; UserAccounts `raced`) are never read by a guard. A definition under a `mutant:` comment is a plausible bug; no
specification uses it.

**DevicePresence.** `lastSeen` is the age of `lastSeenAt` in ticks, capped just above
the threshold (only older-or-not matters to the sweep, and the order of two
timestamps is kept until both are expired), or `Never` (NULL). A handler finds the
device and takes its timestamp (`RecordTelemetry`, `HandleDeviceStatusMessage`,
`HandleDeviceChannelEvent`), updates the row by id (`WriteStatus`) and emits
(`EmitStatus`) if the status it had *read* says so. A sweep selects, updates and
emits (`SweepFind`, `SweepWrite`, `SweepEmit`). `Savers` are requests of any
component that save the whole device (`LoadEntity`, `DiffEntity`, `SaveEntity`).
`FailHandler` and `FailSweep` drop one activation at any point, as behind Kafka and in
the scheduler; `Crash`, which is also what the error of an MQTT handler comes to, all
of them.

**DeviceOta.** One device; devices do not share OTA state. `triggerUpdate` checks the
status, publishes, saves the whole device as PENDING and inserts the history row,
each a step (`BeginRequest`, `Publish`, `SavePending`, `InsertEntry`). The device
takes commands in order and reports, with or without a version; a stray report may
have a status of the backend's own (`DeviceStrays`), which `parseOtaStatus` accepts.
`handleOtaStatusReport` saves the device row it loaded, then looks for the latest
history row, then saves that (`TakeReport`, `SaveReport`, `FindLatest`,
`UpdateEntry`). `Redelivery` lets the broker repeat a report, `Patient` says that the
device starts only when no request is between its publish and its saves. `overlapped`
notes that two requests were in progress at a time. `OtaLifecycle` has a stage `LOST`:
the refinement maps to it once something failed, was repeated or overlapped (not
`Clean`), so the abstract promise is made until then.

**DeviceActions.** `triggerDeviceAction` sends the command (Kafka, or MQTT with the
in-process write), an audit record and an optimistic "ok" (`StartAction` ...
`Optimistic`). The gateway answers on the same topic; a gateway may change channels
itself on another topic. The handler loads `channelStates` and, in a later call,
writes the whole object with one channel replaced. `MayStart` is the consumer's
discipline: behind a gateway no second event is taken before the first is done. A
handler of a Kafka record that fails is logged and its record dropped
(`HandlerFails`); one of an MQTT message is an unhandled rejection, so it can only be
part of `Crash`: the process ends with every request, handler and in-process message
in it, Kafka delivers again what was not finished, MQTT loses what was in the process,
and a panel whose POST was in progress learns of it by the broken request.

**DeviceLifecycle, HealthScoring.** The scores use whole months, hours and percent
instead of JavaScript numbers. Weights such as 0.35 are binary fractions close to the
decimal ones, so a weighted sum lying exactly on a half may come out just below it:
`WeightedScores` has both roundings in that case and only there (some two thousand of
the 101^3 combinations do round down). An assessment chooses the device's age,
offline hours and readings from small sets; `installedAt` is what the user says, so an
age may be negative. `Assess` writes stage and score in one
`update`. An edit (`UpdateConfig`, `DiffConfig`, `SaveConfig`) saves the entity as
TypeORM does, so it may put back one of the two, and assesses afterwards. A
decommission loads, sets and saves (`Decommission`, `DiffDecommission`,
`SaveDecommission`).

**DeviceConfig.** `updateDeviceConfig` is `UpdateConfig`, `DiffUpdate` and
`CommitUpdate`; the nudge (`PushConfigSync`) is a request of its own that the user may
make or not, at any time. `getBootConfig` loads the device; the first time, for a
KAFKA device, it saves the whole entity with the Kafka settings it chose (`DiffKafka`,
`SaveKafka`); the answer is what the entity says. `config` is one JSON column, so a
save of the settings carries the Kafka part with it and the other way round. The
gateway polls, compares version numbers, and may restart (`GatewayRestarts`); the backend
goes on with a request whose answer nobody `Awaits` any more, save included.

**AssetHealth, AssetScoring.** The index pools connectivity and telemetry of the
attached nodes by their weights (community module folds over the set of nodes).
Attach, weight and detach save the device and assess the asset in one transaction:
its writes are visible to itself (`Seen`) before the others (`pending`), and its row locks are
held until it ends, which is how a deletion and a re-weighting can wait for each
other. A plain edit saves the whole asset and assesses nothing. An assessment loads the nodes,
their weights and their silence at once (`ReadNodes`), then counts the breaches of one
node after the other (`CountBreaches`), and stores what that comes to (`StoreIndex`): the
index may mix moments. `todo` is the list a sweep works through, as it loaded it.

**ConsumerLifecycle.** `connectAndSubscribe` (`Connect`, `Subscribe`, then `Join`, which
is kafkajs's), its catch block (`StartFails`, `Disconnect`, the timer with
`RetryDelays`), the crash listener (`Crash`), `onModuleDestroy` and the topics
initializer, which creates the topics next to it; a producer that sends to a missing
topic creates it too, but only of the topics the backend sends to (`SentTo`). `zombie` is a member left behind by
a killed process until its session expires; kafkajs and the broker are external.

**MqttIngress.** A topic of the default shape names its device; any other goes through
the cache and the database (`Query`, `Record`). `missed` has the three ages of a
miss. A registration runs in a transaction of three statements (`InsertDevice`,
`DeleteSighting`, `CommitRegister`). Any number of updates of the configuration, of the
topics, the push channel or both, save the device each loaded (`BeginUpdate`,
`CompareUpdate`, `WriteUpdate`), wait for each other's row locks, and clear the cache
before they commit (`CommitUpdate`); a row deleted meanwhile is inserted again, or
refused (`InsertUpdateFails`). Unique columns are database errors.

**Notifications.** `config` has one row per channel or none. A request loads, changes and
saves one (`ReadsForSave`, `SaveRequest`, or `InsertRefused` by the unique column). A
warning finds the user's channels (`Find`) and goes through them side by side, each
`Send`, for web push `Prune`, and `RecordMessage`. Zalo may never answer.

**DevicePanel.** The page's state is `optimistic` per panel, `latest` and `result` per
device, and `unseen`, what arrived since React last rendered; the socket's is `link`
and `asked`, the backend's `joined`. `wire` is what is on its way in the room. The
handler updates the row (`UpdateChannels`) and pushes in a later step (`EmitChannels`);
`handled` is the event in between, which a restart of the backend has delivered again.
A subscription that is refused is asked for again once the page's devices change
(`DevicesChange`). An accepted command leaves any events behind, in any order: how it
does is DeviceActions.

**UserAccounts.** A request is a record with the list of steps still to do (`plan`), the
entity it loaded and the columns it was asked to change (`sets`). `SaveUser` and
`SaveSettings` read a row again and note the differing columns; `Write` is the commit.
`UserSubscriber` takes a password that differs from the row as read again for a new
one and hashes it, even if it is a hash: a password hashed twice is `"garbled"`. An edit may
change the password, the activation or both.

## 3. Runs

Each run checks a different part; all pass, within five minutes on two workers.

| Run | Instance | States | Shows |
|---|---|---|---|
| `presence_kafka` | 2 devices, 1 handler, 2 overlapping sweeps, no saves, no faults | 144k | `OutageReported` and refinement of `OutageReporting` with its liveness (`OutagesAreReported`): with Kafka's one-at-a-time handlers presence does what its docs say although nothing is locked |
| `presence_faults` | 1 device, 2 MQTT handlers, 1 sweep, 1 save, 1 fault or crash | 902k | a device that falls silent ends up OFFLINE whatever was in progress, if its row has a `lastSeenAt` (`SeenThenSilentGoesOffline`), and it keeps one once no save holds a copy from before the first heartbeat (`StaysSweepable`) |
| `ota_ok` | 2 requests that may overlap, 2 attempts, patient device, redelivery and stray reports, 1 fault or crash | 247k | throughout, `CompletedStays` and `RunningWasConfirmed`; until the fault, `UpdateSettles`; until two requests overlap, `RunningIsNewest` and refinement of `OtaLifecycle` with its liveness (`FollowsLifecycle`) |
| `actions_ok` | 1 request at a time, 2 handlers, 2 channels, 2 commands, both push channels, 1 incident (the end of the process is one) | 1.26M | `NoLostUpdate`, `SettlesOnActual`, `Answered` |
| `lifecycle_ok` | 2 devices, 1 request at a time and the sweep, 1 fault, 2 ages | 2.9M | `StageFitsScore`, `NobodySkipped`, `RetiredForGood` |
| `config_ok` | 2 edits side by side, 2 fetches, 2 settings, both push channels, 1 incident | 1.77M | `EditsStay`: only saves that overlap can take an edit back; `GatewayCatchesUp`: polling makes up for lost nudges, answers and restarts |
| `assets_ok` | 2 assets, 2 nodes, 2 requests, the sweep, 2 changes, 1 fault | 750k | `AttachedExists` and `IndexSettles`: whatever was torn, mixed or stored late, the next sweep puts right |
| `consumer_ok` | 2 topics, one of them sent to, 5 failed starts, 4 faults | 14k | `OneConsumer`, `QuietAfterShutdown`, `ConsumesInTheEnd` |
| `ingress_ok` | 1 device, 1 custom topic, 1 handler, 1 registration, 2 updates side by side, 4 changes, 1 crash | 1.41M | `RegisteredOrListed`, `HitsAreCurrent`, `IgnoreSticks`, `TopicsAreFound` |
| `notify_ok` | 2 browsers, 1 chat, 2 requests or warnings side by side, 1 fault, a Zalo that may hang | 97k | `SavesAddUp`, `AnswersAreNotHeldUp`, `DeadTokensGo` |
| `panel_ok` | 2 channels, 1 click, 1 change by somebody else, 1 lost connection, restart or failed subscription | 210k | `Mirrors`, `ResolvedByAnswer`, `Rejoins` |
| `accounts_ok` | 2 requests side by side, 2 passwords, 6 tokens, 2 edits, 1 fault | 747k | `ChangesWhatItWasAsked`, `GetsIn` |

A type invariant is among the properties of the runs of DeviceLifecycle, DeviceConfig,
AssetHealth, ConsumerLifecycle, MqttIngress and Notifications, and is proved, not
repeated in a run, for the other modules.

Several properties are conditional, and what they leave out does happen in the code:
`overlapped` requests may confuse an update (`FollowsLifecycle`, `RunningIsNewest`), an
`overlapped` or `raced` save may take another one back (`EditsStay`, `GatewayCatchesUp`,
`SavesAddUp`, `ChangesWhatItWasAsked`), a `raced` lookup may cache the old topic for ever
(`HitsAreCurrent`), an answer overwritten between two renders leaves a panel to its timer
(`ResolvedByAnswer`). Each of these says that *nothing else* does it.

### 3.1 Bounds, and why they are enough

* Two devices suffice for everything a sweep can confuse between devices; the rows of
  different devices never depend on each other otherwise. OTA, actions, configuration,
  panels and accounts are per device or account. `ingress_ok` has one device and one
  topic, whose override comes and goes; two devices with the same override are not in the run. Four changes
  are what a registration, an update, a deletion and a registration anew need. It has one message and one
  registration at a time beside two updates; more of them are in the theorems.
* Two activations of a kind show every pairwise race; more of them race in pairs, as each
  holds one copy and writes once. `presence_kafka` overlaps two sweeps because cron does
  not wait for the previous run.
* `Threshold = 1` tells apart fresh, aging and expired heartbeats, which is all the sweep does.
* Two OTA attempts show a retry after either end, a report of the attempt before, and two requests
  that both passed the check; a second fault (2.9 million states) gives the same result. Commands, changes, faults
  and incidents are bounded (`MaxCommands`, `MaxChanges`, `MaxFaults`, `MaxIncidents` and the
  like): each is a single upset at any point of any behaviour. `consumer_ok` has four, so
  that outages, failed starts, crashes and killed processes meet.
* The ages -1 (installed next month) and 180 months, 72 hours offline and no readings outside
  their band give the scores 100, 75, 65 and 40: two scores share a stage, which the torn save of an
  edit needs. 180 is past the expected life of 60, and both ages are what the clamps are there for. `lifecycle_ok` uses
  symmetry on devices (all its properties are safety properties). `MCAssetHealth` has a
  new asset (installed in half a year) and a worn-out one, a healthy reading and one that is silent and out of its band, and
  weights 1 and 3, so every change shows in the index.
* `MaxAttempts = 5` failed starts is past the last of the four `RETRY_DELAYS_MS`.
* Six tokens in `accounts_ok` are more than two edits and one fault can use up, so running out
  of them never stops a user who keeps asking.
* A second click in `panel_ok` takes the states past eight million; the theorem `PageMirrors`
  covers any number of clicks.
* Deadlock is checked where the system cannot stop (time passes, GETs, polls and warnings
  arrive) and off where bounded commands, attempts, clicks or tokens simply run out (OTA,
  actions, panel, accounts).

### 3.2 Fairness

All of it is weak fairness but for two cases, on steps that an `await`, a timer or a queued
record has scheduled and that stay enabled until they run. No fairness is put on anything
that must *arrive* from somebody who need not send it (heartbeats, edits, clicks, gateway
changes) nor on any fault.

* DevicePresence: the clock, each started handler and save, and each sweep (cron).
* DeviceOta: each started request, the device working through its commands, and the handlers, as
  Kafka keeps the reports until the consumer takes them. DeviceActions: the same, for the
  handlers together, since only one need take an event.
* DeviceConfig: started edits and fetches, and the gateway's polling, which the docs ask of it
  (`docs/gateway-kafka-integration.md:481-485`).
* AssetHealth: started requests and the sweep, which comes every night. ConsumerLifecycle: starts,
  the retry timer, kafkajs joining the group, the expiry of a dead member's session; not the
  broker's recovery, which `ConsumesInTheEnd` has as a premise.
* MqttIngress: handlers and transactions, the expiry of misses, and strong fairness for messages on a
  custom topic: the number of handlers is the bound of the model, not of the code, and messages that
  keep coming must not find them busy each time. Notifications: what was begun, as far as
  providers answer, and for the same reason strong fairness for warnings.
* DevicePanel: the backend answers and handles events, the socket reconnects and delivers, React
  renders. Nobody has to click, and the panel's timer is not counted on.
* UserAccounts: requests go on, and somebody keeps trying (registers while there is no account, clicks
  a link that works, asks for a mail when none does), which is the premise of `GetsIn`.

## 4. Proofs

For all values of the constants, from the named assumptions of the modules (naturals for
bounds, a finite set of nodes, ranges of flags, markers that are not topics) and from what the table names.

| Theorem | States | Inductive invariant, and why it is needed |
|---|---|---|
| `DevicePresence_proofs!TypeCorrect` | `[]TypeOK` | itself |
| `HeardForGood` | `StaysSweepable`, with any number of handlers, sweeps, saves, errors and crashes | an action property, from the types: whoever writes `lastSeenAt` holds a timestamp, or is a save whose copy `Sweepable` covers |
| `OutagesReported` | `Serial` (one handler, no saves, no faults) implies `[]OutageReported` | `ReportInv`: a handler that read OFFLINE still finds OFFLINE when it writes. This is where one handler at a time and no saves are needed |
| `SilentIsSwept` | a sweep that starts after a device is silent for good (`Silent`, which is the premise of `SeenThenSilentGoesOffline`) and its heartbeat expired, and comes as far as its events, leaves it OFFLINE for good | `TakenBy`: the sweep has the device among those it found, or the device is OFFLINE; with `Lapsed`, nothing dates it again or writes it ONLINE, also no error or crash of others |
| `DeviceOta_proofs!TypeCorrect` | `[]TypeOK` | itself |
| `CompletedAttemptsStay` | one handler implies `CompletedStays` | `EntryInv`: a handler at "update" holds the current, still open entry, and requests, any number of them, only write entries nobody has |
| `RunningConfirmed` | `[]RunningWasConfirmed`, with no premise: any number of requests and handlers, an impatient device, redelivery, failures and crashes | `ConfirmedInv`: also every copy of the row that somebody will save whole runs a confirmed version. A version only requested is never in that column, so no order of saves can put it there |
| `DeviceActions_proofs!TypeCorrect` | `[]TypeOK` | itself |
| `NoUpdateIsLost` | `[]NoLostUpdate` | `ChannelInv`: at most one handler at work, its copy is current, and requests write nothing |
| `SettledOnActual` | `[]SettlesOnActual` | `SettlingInv`: where no command for a channel is left, the last event about it, else the handler writing it, else the row says what the device is in. The request that has still to announce a command has the last one for its channel |
| `NoPanelForgotten` | `[]AnswerIsLeft`: with a broker that is reached, and at most one failure, a waiting panel's command is being sent, or an answer for it is on its way or in progress | `AnswersInv`: before the first failure a sent command has *two* answers left, in different places (the command or its confirmation, and the companions of its request); each step moves an answer or hands it on, and a failure takes one. The end of the process, which is what an error of an MQTT handler comes to, takes all that is inside it at once, but the panels of the requests in progress learn of it, and what is left of the others is on Kafka. It is what `Answered` needs apart from fairness, and shows why the second failure is too many |
| `DeviceLifecycle_proofs!ScoreInRange`, `WorseNeverBetter` | score in 0..100; a worse device never gets a better score or stage | pure arithmetic, from integer division |
| `TypeCorrect` | `[]TypeOK` | itself, with `ScoreInRange` |
| `StagesFit` | `[]StageFitsScore` | `IInv`: a decommission in progress saves DECOMMISSIONED and no score, so a torn save of it cannot pair a stage with the wrong score |
| `RetirementIsFinal` | `RetiredForGood` | `Retired(d)` covers every copy of the row, so no step can leave it |
| `SweepSkipsNobody` | `[]NobodySkipped` | `Untried`: what a sweep has not tried is still on its list |
| `MqttIngress_proofs!TypeCorrect` | `[]TypeOK` | itself |
| `SightedIsKept` | `[]RegisteredOrListed` | itself: only a commit deletes a sighting, and it inserts the row |
| `DismissedStays` | `IgnoreSticks` | an action property, from the types |
| `HitsStayCurrent` | `[]HitsAreCurrent` | `OneInserter`: at most one transaction, a registration or an update of a row that is gone, is past the insert of a device (the unique column), so no commit replaces a row; and `NoStaleHit`: a lookup about to be recorded found what is still there, and before one of any number of updates commits the cache is empty and nobody looks up |
| `NextLookupFinds` | once a topic has a device, no miss is under way and nothing changes any more (`Unchanging`), a miss that has run out is the last one, and every lookup ends in a hit that stays | `~ MissUnderWay`: nobody holds an empty answer for the topic; what a lookup finds then is recorded as a hit, and only a change takes a hit away |
| `DevicePanel_proofs!TypeCorrect` | `[]TypeOK` | itself |
| `PageMirrors` | `[]Mirrors` | `Inv`: unless a row is updated and not pushed (`Behind`), the last `channelState` on the wire is the row, and without one the page has the row; outside of the room nothing is on the wire, and a channel once set is never unset (a push merges, it cannot remove) |
| `AnswerAlwaysComes` | `[]AnswerComes`: a waiting panel that missed nothing has a POST to be answered, an event to be handled, a push on the wire, or a state the next render reacts to | itself, with the types: a POST that is answered leaves an event about the clicked value or misses the channel, an event is pushed or missed, and what is received is kept until it is rendered. It is what `ResolvedByAnswer` needs apart from fairness, with no timer |
| `NeverLeftOutside` | a connected page that is not in the room, and was not refused, has still to ask or is being answered | `RoomIsNoted`: who is in the room or asks has noted it, once, and only on this connection; so has who was refused, until the page's devices change |
| `UserAccounts_proofs!TypeCorrect` | `[]TypeOK` | `Inv`, as a request about an account needs the account to be there |
| `OnlyWhatWasAsked` | `ChangesWhatItWasAsked` | `AllAgree`: a column that nobody else wrote is still what the request loaded, and it writes it only if it was asked to |
| `MailThenClickGetsIn` | from any moment at which nothing is under way and the account is active and has a password (`AtRest`), while somebody only clicks on links that work and asks for mails when none does (`Tries`), a mail leaves a link that works until it is used, and a click, once it is over, logs in for good | `Trying`: either one mail is under way, with a token that is in no mail yet, or any number of clicks, each of which would write the same row; what it writes leaves out nothing that differs (`OnTop`). `TokensInv`: tokens are generated in order, so a new one is neither mailed nor expired |
| `Backend_proofs!ConsumerTypeCorrect` | `[]TypeOK` of ConsumerLifecycle | itself; in particular no retry asks for a delay past the last |
| `OnlyOneConsumer`, `NothingAfterShutdown` | `[]OneConsumer`, `QuietAfterShutdown` | `OneStart`: `OneConsumer`, no timer is set while shutting down, and a process that is down has neither timer, start nor consumer |
| `NeverForgotten` | `[]LookedAfter`: while the process is up there is a live consumer, a start, or a timer for one | itself, with the types. It is what `ConsumesInTheEnd` needs apart from fairness: no failure is the last |
| `ConfigTypeCorrect` | `[]TypeOK` of DeviceConfig | with `VersionsCount`: a version is at most one more than the edits |
| `LastEditStays` | `[]EditsStay` | `EditsInv`: until two saves overlap at most one is in progress, and what it leaves out, or writes back, is as the row has it |
| `VersionsTell` | while no two saves overlapped, a gateway with the stored version runs what is stored, and none is ahead | `CopiesInv`: every copy of the row (a request's, a fetch's, the gateway's) has an older version or says what the row says. It is what `GatewayCatchesUp` needs apart from fairness: an equal version is a reason to do nothing |
| `NotifyTypeCorrect`, `SavesComeToTheirSum` | `[]TypeOK` and `[]SavesAddUp` of Notifications | `NotifyInv`: a row loaded is still a row, each channel holds only recipients of its own, and a save of a channel nobody raced for writes the columns in which its entity differs |
| `OneWarningPrunes` | from a moment with no edit and no pruning under way (`WarningBegins`), with only warnings and test messages going on, no dead token is left once the warning is over, for good | `OnlyWarnings`: what a warning loaded of the push channel differs from the row in dead tokens only, and it takes out all of them; and if it has found nothing to write, the row has none (`PushPart`). So the last of several prunings to write undoes no other (`Shrinks`) |
| `NodesAttachedToRows` | `[]AttachedExists` of AssetHealth | `AttachInv`: also the nodes a transaction has written and not committed belong to assets that exist, which is what their locks are for |
| `PooledBetween` | the connectivity of an asset lies between those of its worst and its best node | no invariant; induction over the nodes, see below |
| `WorseAssetNeverBetter` | an older asset with nodes silent for longer and more breaches is no better in any factor, nor in its index unless all factors are equal | the same, node by node; in between, a rounded ratio is monotone in its numerator. If all factors are equal, an exact half may be rounded either way (section 2), so the index may differ by one |
| `AssetTypeCorrect` | `[]TypeOK` of AssetHealth: also, an index is in 0..100 and a status goes with it | itself, with `AssessmentType`: what an assessment of any attached nodes computes is in range |
| `OneQuietSweepSettles` | wherever the system has come to, a sweep that begins with no request under way (`SweepBegins`), and beside which nothing changes and nothing fails (`SweepSteps`), leaves every index fresh once it is done, for good | `SweepCurrent`: what the sweep holds is the row, and what it was told of the nodes it has counted so far (`AsTold`) is what they report, as nobody else writes; `BehindFresh`: an asset with nodes is fresh, or ahead of it on its list. No assumption on how the rows came to be torn |

`Backend_proofs` takes three modules as instances, as their names for initial states and steps
would clash. `ConfigBounds`, `NotifyBounds`, `NodeWeights` and `AssetBounds` are those assumptions of
the modules that the theorems about them use. TLC checked every strengthened invariant on the instance of
the run before it was proved.

*Sums over a set.* An index is made of sums over the nodes, as folds of the community modules. What
such a sum is for every finite set is proved by induction, but not by the induction theorems of the
library, which take an operator: `AllNaturals` and `AllSubsets` state induction for a *set* of
naturals or of subsets, and follow from the well-foundedness of `<` (`WFMin`). With them,
`SumsExist` says that the recursive function inside the fold exists, `SumIsComputed` what one more
element adds, and `SumsCompare` and `SumAtLeast` what bounds a sum.

*Safety halves.* TLAPS does no fairness and no ENABLED, so a liveness property stays with TLC. What
it needs apart from fairness is often a safety property that is harder to get right than the
scheduling, and holds for every instance. That half is proved for ten of them: `NoPanelForgotten`
(`Answered`), `AnswerAlwaysComes` (`ResolvedByAnswer`), `NeverForgotten` (`ConsumesInTheEnd`),
`VersionsTell` (`GatewayCatchesUp`), `SilentIsSwept` (`SeenThenSilentGoesOffline`), `NextLookupFinds`
(`TopicsAreFound`), `OneWarningPrunes` (`DeadTokensGo`), `OneQuietSweepSettles`
(`IndexSettles`), `MailThenClickGetsIn` (`GetsIn`) and `NeverLeftOutside` (`Rejoins`). Those from
`SilentIsSwept` to `MailThenClickGetsIn` have the form `[](quiet from here on => [](done => []settled))`: the
premise is a behaviour without changes and faults, and it can begin in any reachable state.

Model-checked only: the liveness properties themselves, the two refinements (`OutagesAreReported`,
`FollowsLifecycle`), and `RunningIsNewest`. The refinements of the safety of the abstract specifications
are not proved: with the overlap, the saves and the failures that break them in the premise, a
proof for more handlers or attempts says no more than the run. What `AnswersAreNotHeldUp`
rests on is that the next step of an attempt is enabled, which is a matter of ENABLED. Every other safety
property of a run is proved. No module declares a RECURSIVE operator.

## 5. What the models leave out, and what they show of the code

### 5.1 Abstractions to know of

* DevicePresence, DeviceLifecycle, DeviceConfig, AssetHealth, Notifications and UserAccounts split
  a TypeORM `save` into its select and its update. In DeviceOta and DeviceActions a save is one
  step that writes the columns of the model as the entity had them: its select follows
  immediately, and the stale load before it is modelled.
* Whole-entity saves by other components (an edit of the configuration while a report is applied)
  are in DevicePresence, and between edits and fetches in DeviceConfig; the run of each other
  module says nothing about them.
* `presence_kafka` and the theorem `OutagesReported` leave out faults: a crash between the
  sweep's update and its event does lose the alert.
* `ota_ok` assumes a patient device; `FollowsLifecycle` and `RunningIsNewest` say nothing once two requests
  overlapped. A lost final report leaves an attempt open for ever: the code has no timeout, and no
  property claims one.
* DevicePanel leaves out whole-entity saves of the device, channels that telemetry carries too, and the telemetry, status, OTA and
  notification pushes, each one emit.
* UserAccounts: what a transaction writes takes effect at its commit; salts are left out, so the
  hashes of one password count as the same; a change of the password needs only the password.

### 5.2 Where the code does not do what it says

Met while modelling. They are left out by the conditions of the properties, or by the constants of
the runs. No run listed above shows them; where a sentence says how, TLC does find the behaviour.

* **Overtaken heartbeats.** Two MQTT handlers take their timestamps in one order and write in the
  other (`device/device.service.ts:866, 879`), so `lastSeenAt` goes back, and the sweep, which is to
  find devices that "haven't been heard from" (`:1045`), asks it of the older one. `presence_faults`
  has such behaviours; that `lastSeen` never goes back but by the clock is violated in it.
* **Swept although heard.** The sweep selects stale rows and then updates by id without asking again
  (`device/device.service.ts:1049, 1060`): a heartbeat written in between does not keep the device from being
  turned OFFLINE and its owner warned, although "a device is swept to OFFLINE once its lastSeenAt is
  older than this" (`src/src/constants/device-status.ts:6`).
* **Never swept.** A save of an entity loaded before the first heartbeat may write `lastSeenAt = NULL` onto a
  row that is ONLINE (`device/device.service.ts:307`); no sweep finds it (`:1050`). It is why
  `SeenThenSilentGoesOffline` asks for a `lastSeenAt`: without that premise `presence_faults` fails,
  with no fault needed.
* **Two commands at once.** `triggerUpdate` checks the status it loaded (`device/device-ota.service.ts:98`) and
  saves PENDING only after the command was published (`:137`): two requests that overlap both pass, and the
  device has two commands, although the statuses are "used to reject a second trigger until this one
  resolves" (`src/src/constants/device-ota-status.ts:23`). `ota_ok` has them; that `inbox` and `work`
  never hold two commands fails in it. The second save may also put back the version before the one just
  confirmed (`device/device.entity.ts:135`): `RunningIsNewest` without `~overlapped` fails, too.
* **An answer faster than the row.** `device/device-ota.service.ts:137` saves PENDING after the
  command was published. A device that reports its end before is overwritten, and every later update
  is refused, although a second trigger is rejected only "until this one resolves"
  (`src/src/constants/device-ota-status.ts:23`). `ota_ok` with `Patient = FALSE` and
  `MaxFaults = 0` violates `FollowsLifecycle`, and with one request `UpdateSettles`.
* **The matching history row.** `device/device-ota.service.ts:255` takes the *latest* entry, not the
  one of the report (`docs/gateway-kafka-integration.md:380-382`): a repeated report of the attempt
  before ends a new one.
* **Once per outage.** A sweep and a last-will message may both find the device ONLINE and both emit
  (`device/device.service.ts:927, 1060`; `notification/listeners/device-warning.listener.ts:20-22`).
* **A state never reached.** The optimistic ok of `device/device.service.ts:456-460` stores a value
  that a later error leaves in place (`:966-969`, against the comment at `:940-942`). `actions_ok`
  counts a refused command as not `clean`, so `SettlesOnActual` excuses it.
* **A failed MQTT publish is answered with ok**: the `ResponseCore` is dropped at
  `device/device.service.ts:426` (`docs/mqtt-bidirectional-commands.md:49-52`).
* **DECOMMISSIONED is sticky** only for who reads it: a sweep that loaded the device before puts it
  back in service (`device/device-lifecycle.service.ts:149`, comment at `:188`). `Retired` in
  `RetiredForGood` is there to exclude that copy.
* **Polling heals** unless two saves overlapped, when two configurations share a version
  (`docs/gateway-kafka-integration.md:481-485`, `device/device.service.ts:360`): `GatewayCatchesUp`
  without `<>overlapped` fails in `config_ok`.
* **Stale entries do linger.** `updateDeviceConfig` clears the topic cache before its transaction commits
  (`device/device.service.ts:312, 367-369`): a message in between caches the old topic for good, against
  `mqtt/mqtt-topic-registry.service.ts:50`. `HitsAreCurrent` without `raced` fails in `ingress_ok`.
* **Notifications.** An empty list of tokens still counts as linked
  (`notification/senders/firebase-notification.sender.ts:90`); Zalo's refusal is logged and
  recorded as SENT (`notification/senders/zalo-notification.sender.ts:62-64`).
* **Panels.** An actionResult overwritten between two renders leaves a refused command's panel to its
  eight-second timer (`src/web/src/features/dashboard/components/device-panel.tsx:139-146`); a failed
  subscription is asked for again only when the page's devices change, or not at all on that connection;
  a channelState carries the full map and overwrites
  fresher telemetry of the same channel (`use-device-socket.ts:134-145`); live points received
  while the history loads are replaced by it, and going to another range and back before that
  loads does not refresh it (`use-device-socket.ts:209`, `src/web/src/lib/time-range.ts:39-40`);
  REST answers rename channel keys with underscores, the socket does not
  (`src/web/src/lib/api-client.ts:66-75`); edits of the draft made while it is being saved are
  overwritten by the answer (`src/web/src/features/dashboard/index.tsx:136-156`).
* **Accounts.** Overlapping edits and changes of the password leave the hash of a hash
  (`src/src/entity-subscribers/user-subscriber.ts:20` has a FIXME); overlapping saves of the settings
  undo a verification or a deactivation; tokens of a deactivated user go on working
  (`auth/jwt.strategy.ts:24-39`); a failed start of the mail transport is kept for good
  (`src/src/shared/services/mail.service.ts:15-18`).

### 5.3 Hazards no property covers

A crash between the sweep's update and its events; a refused OTA publish, which leaves no trace; a lost
final OTA report; a Kafka record that was handled and is delivered again because the process ended before
its offset was committed; an edit that takes back
channel states written meanwhile; a GET on a decommissioned device, which stores a score; a shutdown
during the start of the consumer (it goes on to connect); the topics initializer, which is not
repeated; a message of the inbox deleted while it is marked as read, which is inserted again; a pruning
that fails after the delivery and is recorded as FAILED; an error that ends the asset sweep for the night; a deleted
device's topic, which stays in the cache (`device/device.service.ts:602`); a firmware file whose row
is refused (`device-template/firmware.service.ts`).

## 6. Not modelled, and what could follow

What carries state between two steps of the backend is modelled. The rest is most of the
repository by lines, and has no behaviour that a model could get wrong:

* **Factories, templates, firmware catalogue, dashboards, secrets**: create, read, update and delete of
  one row in one request. The check they make (a count before a delete) is backed by a foreign
  key, so the race it has ends in an error.
* **Health checks, application shell**: stateless; decorators, DTOs, filters, guards, configuration.
  **Migrations**: schema history; the resulting columns are the models' rows.
* **The SSE stream**: it merges and filters events and keeps nothing; the dashboard does not use it.
* **The pages of the dashboard** other than the panels: forms, lists and dialogs over the REST API,
  with the cache of a library. Generated code (`routeTree.gen.ts`) and UI components.
* **The tokens of a session** (signed, not stored), roles and permissions.

Worth adding, in this order: the inbox of Notifications with `DeviceWarningListener` in front of it
(the order of a warning, its message and its reading); the history buffer of the panels with its
seeding (`use-device-socket.ts:199-218`); `DeviceRow`, the columns of several components under whole saves,
to ask which component's promises survive the edits of another. Proofs: section 4 says what is model-checked only. What is left of
the liveness properties is mostly their fairness, which needs a prover with ENABLED.
