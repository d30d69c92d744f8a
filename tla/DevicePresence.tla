--------------------------- MODULE DevicePresence ---------------------------
(***************************************************************************)
(* Online/offline tracking of devices: the status and lastSeenAt columns   *)
(* of the devices table, the message handlers that refresh them, the cron  *)
(* sweep that marks silent devices OFFLINE, and the device.status events   *)
(* both emit.  No handler locks the row it works on: each reads it, then   *)
(* updates it by id in a later database call, then emits, and anything     *)
(* else may run in between.                                                *)
(*                                                                         *)
(* Handlers are the message-handler activations that can be in progress at *)
(* the same time.  The Kafka consumer awaits one message before it takes   *)
(* the next (one handler); the MQTT controller starts a handler per        *)
(* message and does not wait for it (several).                             *)
(***************************************************************************)
EXTENDS Integers

CONSTANTS
    Devices,    \* registered devices
    Handlers,   \* concurrent activations of the three message handlers
    Sweeps,     \* overlapping runs of the offline cron job
    Savers,     \* concurrent requests that save a whole device entity
    Threshold,  \* DEVICE_OFFLINE_THRESHOLD_MS in clock ticks
    MaxFaults   \* bound on database errors and process crashes

ASSUME ThresholdAssumption == Threshold \in Nat
ASSUME MaxFaultsAssumption == MaxFaults \in Nat

VARIABLES
    status,     \* devices.status
    lastSeen,   \* devices.last_seen_at, as its age in ticks
    handler,    \* what each message handler is doing
    sweep,      \* what each cron run is doing
    saver,      \* what each whole-entity save is doing
    faults,     \* database errors and crashes so far
    announced,  \* history: status of the last device.status event
    unreported  \* history: devices that went OFFLINE, no OFFLINE event since

vars == <<status, lastSeen, handler, sweep, saver, faults, announced, unreported>>

Status == {"ONLINE", "OFFLINE"}

(***************************************************************************)
(* A timestamp is kept as its age in ticks.  Ages past the threshold are   *)
(* told apart by nothing, so they stop growing there.  Never is the NULL   *)
(* timestamp of a device that was not heard from yet.                      *)
(***************************************************************************)
Expired == Threshold + 1
Age     == 0 .. Expired
Never   == -1
Older(a) == IF a \in 0 .. Threshold THEN a + 1 ELSE a

Idle == [pc |-> "idle"]

HandlerJob == [pc : {"write", "emit"}, device : Devices, target : Status,
               heard : BOOLEAN, found : Status, at : Age]
SweepJob   == [pc : {"write", "emit"}, devices : SUBSET Devices]
SaverJob   == [pc : {"loaded", "diffed"}, device : Devices, status : Status,
               lastSeen : Age \cup {Never}, columns : SUBSET {"status", "lastSeen"}]

TypeOK ==
    /\ status \in [Devices -> Status]
    /\ lastSeen \in [Devices -> Age \cup {Never}]
    /\ handler \in [Handlers -> HandlerJob \cup {Idle}]
    /\ sweep \in [Sweeps -> SweepJob \cup {Idle}]
    /\ saver \in [Savers -> SaverJob \cup {Idle}]
    /\ faults \in 0 .. MaxFaults
    /\ announced \in [Devices -> Status]
    /\ unreported \subseteq Devices

Init ==
    /\ status = [d \in Devices |-> "OFFLINE"]
    /\ lastSeen = [d \in Devices |-> Never]
    /\ handler = [h \in Handlers |-> Idle]
    /\ sweep = [s \in Sweeps |-> Idle]
    /\ saver = [v \in Savers |-> Idle]
    /\ faults = 0
    /\ announced = [d \in Devices |-> "OFFLINE"]
    /\ unreported = {}

-----------------------------------------------------------------------------
(***************************************************************************)
(* Time passes: every timestamp, stored or held by a job, gets older.      *)
(***************************************************************************)
Tick ==
    /\ lastSeen' = [d \in Devices |-> Older(lastSeen[d])]
    /\ handler' = [h \in Handlers |->
                     IF handler[h] = Idle THEN Idle
                     ELSE [handler[h] EXCEPT !.at = Older(@)]]
    /\ saver' = [v \in Savers |->
                   IF saver[v] = Idle THEN Idle
                   ELSE [saver[v] EXCEPT !.lastSeen = Older(@)]]
    /\ UNCHANGED <<status, sweep, faults, announced, unreported>>

-----------------------------------------------------------------------------
(***************************************************************************)
(* Message handlers.  A handler finds the device, notes the status it had  *)
(* and the time, and goes on to write.                                     *)
(***************************************************************************)
Find(h, d, target, heard) ==
    /\ handler[h] = Idle
    /\ handler' = [handler EXCEPT ![h] =
                     [pc |-> "write", device |-> d, target |-> target,
                      heard |-> heard, found |-> status[d], at |-> 0]]
    /\ UNCHANGED <<status, lastSeen, sweep, saver, faults, announced, unreported>>

\* Telemetry proves the device is up, whatever its status was.
RecordTelemetry(h, d) == Find(h, d, "ONLINE", TRUE)

\* A status announcement; the broker's last will is the OFFLINE one, and it
\* leaves lastSeenAt alone.
HandleDeviceStatusMessage(h, d) ==
    \E announcement \in Status : Find(h, d, announcement, announcement = "ONLINE")

\* A channel event, "ok" or "error", proves the gateway bridges the device.
HandleDeviceChannelEvent(h, d) == Find(h, d, "ONLINE", TRUE)

\* Whether the handler goes on to emit, decided from the status it found.
MustEmitRecovery(job) == job.found = "OFFLINE" /\ job.target = "ONLINE" \* mutant
MustEmit(job) == job.found # job.target

\* mutant: a device that goes OFFLINE loses its lastSeenAt.
WriteStatusForgets(h) ==
    /\ handler[h].pc = "write"
    /\ LET job == handler[h]
           d   == job.device
       IN /\ status' = [status EXCEPT ![d] = job.target]
          /\ lastSeen' = [lastSeen EXCEPT ![d] = IF job.heard THEN job.at ELSE Never]
          /\ unreported' = IF status[d] = "ONLINE" /\ job.target = "OFFLINE"
                             THEN unreported \cup {d} ELSE unreported
          /\ handler' = [handler EXCEPT ![h] =
                 IF MustEmit(job) THEN [job EXCEPT !.pc = "emit"] ELSE Idle]
    /\ UNCHANGED <<sweep, saver, faults, announced>>

\* UPDATE devices SET status [, last_seen_at] WHERE id: the row's current
\* status is not looked at.
WriteStatus(h) ==
    /\ handler[h].pc = "write"
    /\ LET job == handler[h]
           d   == job.device
       IN /\ status' = [status EXCEPT ![d] = job.target]
          /\ lastSeen' = IF job.heard THEN [lastSeen EXCEPT ![d] = job.at]
                                      ELSE lastSeen
          /\ unreported' = IF status[d] = "ONLINE" /\ job.target = "OFFLINE"
                             THEN unreported \cup {d} ELSE unreported
          /\ handler' = [handler EXCEPT ![h] =
                 IF MustEmit(job) THEN [job EXCEPT !.pc = "emit"] ELSE Idle]
    /\ UNCHANGED <<sweep, saver, faults, announced>>

\* eventEmitter.emit('device.status', ...).
EmitStatus(h) ==
    /\ handler[h].pc = "emit"
    /\ LET job == handler[h]
       IN /\ announced' = [announced EXCEPT ![job.device] = job.target]
          /\ unreported' = IF job.target = "OFFLINE"
                             THEN unreported \ {job.device} ELSE unreported
    /\ handler' = [handler EXCEPT ![h] = Idle]
    /\ UNCHANGED <<status, lastSeen, sweep, saver, faults>>

-----------------------------------------------------------------------------
(***************************************************************************)
(* The cron sweep.  It selects the ONLINE rows whose lastSeenAt is before  *)
(* the cutoff (NULL never is), updates them all by id, then emits for each *)
(* in one uninterrupted loop.                                              *)
(***************************************************************************)
StaleNull == {d \in Devices : status[d] = "ONLINE" /\ lastSeen[d] = Never} \* mutant
Stale == {d \in Devices : status[d] = "ONLINE" /\ lastSeen[d] = Expired}

SweepFind(s) ==
    /\ sweep[s] = Idle
    /\ Stale # {}
    /\ sweep' = [sweep EXCEPT ![s] = [pc |-> "write", devices |-> Stale]]
    /\ UNCHANGED <<status, lastSeen, handler, saver, faults, announced, unreported>>

SweepWrite(s) ==
    /\ sweep[s].pc = "write"
    /\ LET swept == sweep[s].devices
       IN /\ status' = [d \in Devices |-> IF d \in swept THEN "OFFLINE" ELSE status[d]]
          /\ unreported' = unreported \cup {d \in swept : status[d] = "ONLINE"}
    /\ sweep' = [sweep EXCEPT ![s].pc = "emit"]
    /\ UNCHANGED <<lastSeen, handler, saver, faults, announced>>

SweepEmit(s) ==
    /\ sweep[s].pc = "emit"
    /\ LET swept == sweep[s].devices
       IN /\ announced' = [d \in Devices |-> IF d \in swept THEN "OFFLINE" ELSE announced[d]]
          /\ unreported' = unreported \ swept
    /\ sweep' = [sweep EXCEPT ![s] = Idle]
    /\ UNCHANGED <<status, lastSeen, handler, saver, faults>>

-----------------------------------------------------------------------------
(***************************************************************************)
(* Requests that load a device, change columns of their own (config, OTA,  *)
(* lifecycle, asset) and save the entity.  TypeORM's save selects the row  *)
(* again and writes every column in which the entity differs from it, so a *)
(* status or lastSeenAt that moved since the load is written back as it    *)
(* was.  Two timestamps of one tick may differ too.                        *)
(***************************************************************************)
LoadEntity(v, d) ==
    /\ saver[v] = Idle
    /\ saver' = [saver EXCEPT ![v] =
                   [pc |-> "loaded", device |-> d, status |-> status[d],
                    lastSeen |-> lastSeen[d], columns |-> {}]]
    /\ UNCHANGED <<status, lastSeen, handler, sweep, faults, announced, unreported>>

DiffEntity(v) ==
    /\ saver[v].pc = "loaded"
    /\ LET job == saver[v]
           d   == job.device
       IN \E columns \in SUBSET {"status", "lastSeen"} :
             /\ "status" \in columns <=> job.status # status[d]
             /\ job.lastSeen # lastSeen[d] => "lastSeen" \in columns
             /\ "lastSeen" \in columns => ~(job.lastSeen = Never /\ lastSeen[d] = Never)
             /\ saver' = [saver EXCEPT ![v] =
                            [job EXCEPT !.pc = "diffed", !.columns = columns]]
    /\ UNCHANGED <<status, lastSeen, handler, sweep, faults, announced, unreported>>

SaveEntity(v) ==
    /\ saver[v].pc = "diffed"
    /\ LET job == saver[v]
           d   == job.device
           new == IF "status" \in job.columns THEN job.status ELSE status[d]
       IN /\ status' = [status EXCEPT ![d] = new]
          /\ lastSeen' = IF "lastSeen" \in job.columns
                           THEN [lastSeen EXCEPT ![d] = job.lastSeen] ELSE lastSeen
          /\ unreported' = IF status[d] = "ONLINE" /\ new = "OFFLINE"
                             THEN unreported \cup {d} ELSE unreported
    /\ saver' = [saver EXCEPT ![v] = Idle]
    /\ UNCHANGED <<handler, sweep, faults, announced>>

-----------------------------------------------------------------------------
(***************************************************************************)
(* A database error ends one handler or sweep where it stands: the Kafka   *)
(* consumer and the cron job log it, and nobody retries.  In a handler for *)
(* an MQTT message nobody catches it, and the process ends: a crash, which *)
(* takes everything in progress along.                                     *)
(***************************************************************************)
FailHandler(h) ==
    /\ faults < MaxFaults
    /\ handler[h] # Idle
    /\ handler' = [handler EXCEPT ![h] = Idle]
    /\ faults' = faults + 1
    /\ UNCHANGED <<status, lastSeen, sweep, saver, announced, unreported>>

FailSweep(s) ==
    /\ faults < MaxFaults
    /\ sweep[s] # Idle
    /\ sweep' = [sweep EXCEPT ![s] = Idle]
    /\ faults' = faults + 1
    /\ UNCHANGED <<status, lastSeen, handler, saver, announced, unreported>>

Crash ==
    /\ faults < MaxFaults
    /\ handler' = [h \in Handlers |-> Idle]
    /\ sweep' = [s \in Sweeps |-> Idle]
    /\ saver' = [v \in Savers |-> Idle]
    /\ faults' = faults + 1
    /\ UNCHANGED <<status, lastSeen, announced, unreported>>

-----------------------------------------------------------------------------
HandlerStep(h) == WriteStatus(h) \/ EmitStatus(h)
SweepStep(s)   == SweepFind(s) \/ SweepWrite(s) \/ SweepEmit(s)
SaverStep(v)   == DiffEntity(v) \/ SaveEntity(v)

Next ==
    \/ Tick
    \/ \E h \in Handlers, d \in Devices :
          \/ RecordTelemetry(h, d)
          \/ HandleDeviceStatusMessage(h, d)
          \/ HandleDeviceChannelEvent(h, d)
    \/ \E h \in Handlers : HandlerStep(h) \/ FailHandler(h)
    \/ \E s \in Sweeps : SweepStep(s) \/ FailSweep(s)
    \/ \E v \in Savers, d \in Devices : LoadEntity(v, d)
    \/ \E v \in Savers : SaverStep(v)
    \/ Crash

(***************************************************************************)
(* Time passes, a started handler or save finishes, and cron runs the      *)
(* sweep every ten seconds.  No message and no request has to arrive.      *)
(***************************************************************************)
Fairness ==
    /\ WF_vars(Tick)
    /\ \A h \in Handlers : WF_vars(HandlerStep(h))
    /\ \A s \in Sweeps : WF_vars(SweepStep(s))
    /\ \A v \in Savers : WF_vars(SaverStep(v))

Spec     == Init /\ [][Next]_vars
FairSpec == Spec /\ Fairness

-----------------------------------------------------------------------------
(***************************************************************************)
(* Properties                                                              *)
(***************************************************************************)

\* An OFFLINE event for d is still going to be emitted.
OfflineEventDue(d) ==
    \/ \E h \in Handlers : /\ handler[h].pc = "emit"
                           /\ handler[h].device = d
                           /\ handler[h].target = "OFFLINE"
    \/ \E s \in Sweeps : sweep[s].pc = "emit" /\ d \in sweep[s].devices

\* An outage is never swallowed: from the moment the row of a device turns from
\* ONLINE to OFFLINE until an OFFLINE event has been emitted, somebody is about
\* to emit one.  The handlers decide to emit from the status they read before
\* they wrote, so this depends on who else can write in between.
OutageReported == \A d \in unreported : OfflineEventDue(d)

\* The sweep can find the row of d once it is silent, and no save in progress holds
\* a copy from before the first heartbeat.
Sweepable(d) ==
    /\ lastSeen[d] # Never
    /\ \A v \in Savers : saver[v].pc # "idle" /\ saver[v].device = d => saver[v].lastSeen # Never

\* A row the sweep can find stays one: no message, overlapping save, sweep, error
\* or crash makes its lastSeenAt NULL again.
StaysSweepable == [][\A d \in Devices : Sweepable(d) => Sweepable(d)']_vars

\* Nobody is working on a message or a save of d.
Silent(d) == /\ \A h \in Handlers : handler[h].pc # "idle" => handler[h].device # d
             /\ \A v \in Savers : saver[v].pc # "idle" => saver[v].device # d

\* "Marks devices OFFLINE once they haven't been heard from": a device that falls
\* silent for good ends up OFFLINE for good, whatever was in progress, as long as
\* its row has a lastSeenAt: a status that a save of a whole entity brought back
\* from the past is swept again.
SeenThenSilentGoesOffline ==
    \A d \in Devices :
       (<>[](Silent(d) /\ lastSeen[d] # Never)) => (<>[](status[d] = "OFFLINE"))

\* Outages as the owner of the device sees them.
Outage == INSTANCE OutageReporting WITH
            phase <- [d \in Devices |-> IF d \in unreported THEN "down"
                                       ELSE IF status[d] = "ONLINE" THEN "up" ELSE "reported"]

\* Presence tracking implements outage reporting: a row cannot turn OFFLINE and
\* settle there without the event that triggers the owner's alert.
OutagesAreReported == Outage!Spec

=============================================================================
