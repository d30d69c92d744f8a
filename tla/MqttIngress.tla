----------------------------- MODULE MqttIngress -----------------------------
(***************************************************************************)
(* What becomes of a message from an MQTT device.  A topic of the default  *)
(* shape names its device; any other is looked up among the overrides of   *)
(* the registered devices, through an in-memory cache of hits, which never *)
(* expire, and of misses, which do.  A message of a device nobody has      *)
(* registered is recorded as a sighting, until somebody registers it.      *)
(* Nothing waits for a handler: any number of them interleave, with each   *)
(* other and with registrations, deletions and configuration updates.      *)
(***************************************************************************)
EXTENDS Integers

CONSTANTS
    Devices, Topics, \* devices, and topics of no default shape
    Handlers,        \* concurrent messages
    Requests,        \* concurrent registrations
    Updates,         \* concurrent configuration updates
    MaxChanges,      \* bound on registrations, deletions, updates and ignores
    MaxCrashes       \* bound on crashes of the process

ASSUME BoundsAssumption == MaxChanges \in Nat /\ MaxCrashes \in Nat
\* "none" stands for the absence of a topic.
ASSUME TopicsAssumption == "none" \notin Topics

VARIABLES
    device,   \* devices: the overridden topic, its role, and the push channel
    sighting, \* unclaimed_devices: none, listed or ignored
    resolved, \* MqttTopicRegistryService: hits ...
    missed,   \* ... and misses
    handler,  \* what each message's handler is doing
    request,  \* what each registerDevice is doing
    update,   \* what each updateDeviceConfig is doing
    count,    \* changes and crashes so far
    seen,     \* history: devices whose sighting was stored, and not deleted since
    raced     \* history: a hit may have been overtaken by a change of its device

vars == <<device, sighting, resolved, missed, handler, request, update, count, seen, raced>>

Roles == {"telemetry", "command"}
None  == [topic |-> "none", role |-> "none"]
\* The columns of a row: the topics are in the configuration.
Columns == {"id", "config", "pushChannel"}
Row   == [override : [topic : Topics, role : Roles] \cup {None}, mqtt : BOOLEAN]
Gone  == [gone |-> TRUE]
Hit   == [device : Devices, role : Roles]
Miss  == [miss |-> TRUE]
Idle  == [pc |-> "idle"]

Handling ==
    [pc : {"query"}, topic : Topics]
    \cup [pc : {"record"}, topic : Topics, found : Hit \cup {Miss}]
    \cup [pc : {"find", "sight", "update", "insert"}, device : Devices]

Updating ==
    [pc : {"compare", "write", "commit"}, device : Devices, entity : Row, topics : BOOLEAN,
     lost : BOOLEAN, columns : SUBSET Columns]

TypeOK ==
    /\ device \in [Devices -> Row \cup {Gone}]
    /\ sighting \in [Devices -> {"none", "listed", "ignored"}]
    /\ resolved \in [Topics -> Hit \cup {Miss}]
    /\ missed \in [Topics -> {"never", "recently", "earlier"}]
    /\ handler \in [Handlers -> Handling \cup {Idle}]
    /\ request \in [Requests -> [pc : {"insert", "delete", "commit"}, device : Devices, deletes : BOOLEAN] \cup {Idle}]
    /\ update \in [Updates -> Updating \cup {Idle}]
    /\ count \in [changes : 0 .. MaxChanges, crashes : 0 .. MaxCrashes]
    /\ seen \subseteq Devices /\ raced \in BOOLEAN

Registered(d) == device[d] # Gone

Empty    == [t \in Topics |-> Miss]
Unmissed == [t \in Topics |-> "never"]

Init ==
    /\ device = [d \in Devices |-> Gone]
    /\ sighting = [d \in Devices |-> "none"]
    /\ resolved = Empty /\ missed = Unmissed
    /\ handler = [h \in Handlers |-> Idle]
    /\ request = [q \in Requests |-> Idle]
    /\ update = [u \in Updates |-> Idle]
    /\ count = [changes |-> 0, crashes |-> 0]
    /\ seen = {} /\ raced = FALSE

Change == count.changes < MaxChanges /\ count' = [count EXCEPT !.changes = @ + 1]

HandlerGoesOn(h, next) == handler' = [handler EXCEPT ![h] = next]
AtDevice(pc, d)        == [pc |-> pc, device |-> d]

-----------------------------------------------------------------------------
(***************************************************************************)
(* handleAny and resolveCustomTopic                                        *)
(***************************************************************************)
DefaultTopicMessage(h, d) ==
    /\ handler[h] = Idle
    /\ HandlerGoesOn(h, AtDevice("find", d))
    /\ UNCHANGED <<device, sighting, resolved, missed, request, update, count, seen, raced>>

\* dispatchByRole: what is sent to devices is ignored when the broker echoes it.
Dispatched(hit) == IF hit.role = "command" THEN Idle ELSE AtDevice("find", hit.device)

\* mutant: a miss is remembered for good.
EverMissed(t) == missed[t] # "never"

RecentlyMissed(t) == missed[t] = "recently"

CustomTopicMessage(h, t) ==
    /\ handler[h] = Idle
    /\ \/ /\ resolved[t] # Miss
          /\ HandlerGoesOn(h, Dispatched(resolved[t]))
          /\ UNCHANGED raced
       \/ /\ resolved[t] = Miss /\ ~ RecentlyMissed(t)
          /\ HandlerGoesOn(h, [pc |-> "query", topic |-> t])
          /\ raced' = (raced \/ \E u \in Updates : update[u].pc = "commit" /\ update[u].topics)
    /\ UNCHANGED <<device, sighting, resolved, missed, request, update, count, seen>>

\* mutant: the query leaves the topic out.
OnMqtt(d, t) == Registered(d) /\ device[d].mqtt

\* resolveCustomMqttTopic: any device on the MQTT channel that names the topic.
Owner(d, t) == Registered(d) /\ device[d].mqtt /\ device[d].override.topic = t

Found(t)    == {[device |-> d, role |-> device[d].override.role] : d \in {d \in Devices : Owner(d, t)}}

Query(h) ==
    /\ handler[h].pc = "query"
    /\ LET t == handler[h].topic
       IN \E found \in IF Found(t) = {} THEN {Miss} ELSE Found(t) :
             HandlerGoesOn(h, [pc |-> "record", topic |-> t, found |-> found])
    /\ UNCHANGED <<device, sighting, resolved, missed, request, update, count, seen, raced>>

\* A hit forgets the miss; a miss leaves a hit that was recorded meanwhile.
Record(h) ==
    /\ handler[h].pc = "record"
    /\ LET t == handler[h].topic
           found == handler[h].found
       IN \/ /\ found = Miss
             /\ missed' = [missed EXCEPT ![t] = "recently"]
             /\ HandlerGoesOn(h, Idle)
             /\ UNCHANGED resolved
          \/ /\ found # Miss
             /\ resolved' = [resolved EXCEPT ![t] = found]
             /\ missed' = [missed EXCEPT ![t] = "never"]
             /\ HandlerGoesOn(h, Dispatched(found))
    /\ UNCHANGED <<device, sighting, request, update, count, seen, raced>>

\* NEGATIVE_TTL_MS pass.
MissExpires(t) ==
    /\ missed[t] = "recently"
    /\ missed' = [missed EXCEPT ![t] = "earlier"]
    /\ UNCHANGED <<device, sighting, resolved, handler, request, update, count, seen, raced>>

-----------------------------------------------------------------------------
(***************************************************************************)
(* recordTelemetry for a device that may be unknown                        *)
(***************************************************************************)
FindDevice(h) ==
    /\ handler[h].pc = "find"
    /\ LET d == handler[h].device
       IN HandlerGoesOn(h, IF Registered(d) THEN Idle ELSE AtDevice("sight", d))
    /\ UNCHANGED <<device, sighting, resolved, missed, request, update, count, seen, raced>>

FindSighting(h) ==
    /\ handler[h].pc = "sight"
    /\ LET d == handler[h].device
       IN HandlerGoesOn(h, AtDevice(IF sighting[d] = "none" THEN "insert" ELSE "update", d))
    /\ UNCHANGED <<device, sighting, resolved, missed, request, update, count, seen, raced>>

\* mutant: the sighting is saved as a new one.
SightedAnew(d) == "listed"

\* The topic, payload and time are replaced, by id, and nothing else.
Sighted(d) == sighting[d]

UpdateSighting(h) ==
    /\ handler[h].pc = "update"
    /\ LET d == handler[h].device
       IN /\ sighting' = [sighting EXCEPT ![d] = IF @ = "none" THEN @ ELSE Sighted(d)]
          /\ seen' = IF sighting[d] = "none" THEN seen ELSE seen \cup {d}
    /\ HandlerGoesOn(h, Idle)
    /\ UNCHANGED <<device, resolved, missed, request, update, count, raced>>

\* The unique column refuses a second row, and the handler fails.
InsertSighting(h) ==
    /\ handler[h].pc = "insert"
    /\ LET d == handler[h].device
       IN /\ sighting' = [sighting EXCEPT ![d] = IF @ = "none" THEN "listed" ELSE @]
          /\ seen' = seen \cup {d}
    /\ HandlerGoesOn(h, Idle)
    /\ UNCHANGED <<device, resolved, missed, request, update, count, raced>>

-----------------------------------------------------------------------------
(***************************************************************************)
(* registerDevice, deleteDevice and the ignore list                        *)
(***************************************************************************)
RequestGoesOn(q, next) == request' = [request EXCEPT ![q] = next]

BeginRegister(q, d) ==
    /\ request[q] = Idle /\ ~ Registered(d) /\ Change
    /\ RequestGoesOn(q, [pc |-> "insert", device |-> d, deletes |-> FALSE])
    /\ UNCHANGED <<device, sighting, resolved, missed, handler, update, seen, raced>>

\* Somebody has inserted the device and not committed.
Inserting(d) ==
    \/ \E q \in Requests : request[q].pc \in {"delete", "commit"} /\ request[q].device = d
    \/ \E u \in Updates : update[u].pc = "commit" /\ update[u].device = d /\ "id" \in update[u].columns

\* The update has written the row and not committed, and keeps others from it.
Holds(u, d) ==
    /\ update[u].pc = "commit" /\ update[u].device = d
    /\ update[u].lost => "id" \in update[u].columns

\* The unique column: waits for who is inserting, and fails if they commit.
InsertDevice(q) ==
    /\ request[q].pc = "insert"
    /\ ~ Inserting(request[q].device)
    /\ RequestGoesOn(q, IF Registered(request[q].device) THEN Idle ELSE [request[q] EXCEPT !.pc = "delete"])
    /\ UNCHANGED <<device, sighting, resolved, missed, handler, update, count, seen, raced>>

\* mutant: the sighting is deleted outside the transaction.
SightingsAtDelete(d) == [sighting EXCEPT ![d] = "none"]

\* Until the commit everybody else sees the sighting.
DeletedSightings(d) == sighting

DeleteSighting(q) ==
    /\ request[q].pc = "delete"
    /\ LET d == request[q].device
       IN /\ RequestGoesOn(q, [pc |-> "commit", device |-> d, deletes |-> sighting[d] # "none"])
          /\ sighting' = DeletedSightings(d)
    /\ UNCHANGED <<device, resolved, missed, handler, update, count, seen, raced>>

NewRow == [override |-> None, mqtt |-> TRUE]

CommitRegister(q) ==
    /\ request[q].pc = "commit"
    /\ LET d == request[q].device
       IN /\ device' = [device EXCEPT ![d] = NewRow]
          /\ sighting' = [sighting EXCEPT ![d] = IF request[q].deletes THEN "none" ELSE @]
    /\ RequestGoesOn(q, Idle)
    /\ UNCHANGED <<resolved, missed, handler, update, count, seen, raced>>

AbortRegister(q) ==
    /\ request[q] # Idle
    /\ RequestGoesOn(q, Idle)
    /\ UNCHANGED <<device, sighting, resolved, missed, handler, update, count, seen, raced>>

\* The cache is left as it is.  An update that holds the row is waited for.
DeleteDevice(d) ==
    /\ Registered(d) /\ Change
    /\ \A u \in Updates : ~ Holds(u, d)
    /\ device' = [device EXCEPT ![d] = Gone]
    /\ update' = [u \in Updates |-> IF update[u] # Idle /\ update[u].device = d
                                      THEN [update[u] EXCEPT !.lost = TRUE] ELSE update[u]]
    /\ seen' = seen \ {d}
    /\ raced' = TRUE
    /\ UNCHANGED <<sighting, resolved, missed, handler, request>>

Ignore(d) ==
    /\ sighting[d] = "listed" /\ Change
    /\ sighting' = [sighting EXCEPT ![d] = "ignored"]
    /\ UNCHANGED <<device, resolved, missed, handler, request, update, seen, raced>>

Unignore(d) ==
    /\ sighting[d] = "ignored" /\ Change
    /\ sighting' = [sighting EXCEPT ![d] = "listed"]
    /\ UNCHANGED <<device, resolved, missed, handler, request, update, seen, raced>>

-----------------------------------------------------------------------------
(***************************************************************************)
(* updateDeviceConfig, as far as topics are concerned                      *)
(***************************************************************************)
UpdateGoesOn(u, next) == update' = [update EXCEPT ![u] = next]

\* Loads the device and sets what the request names: topics, the push channel, both
\* or neither.
BeginUpdate(u, d) ==
    /\ update[u] = Idle /\ Registered(d) /\ Change
    /\ \E entity \in Row, topics \in BOOLEAN :
          /\ ~ topics => entity.override = device[d].override
          /\ UpdateGoesOn(u, [pc |-> "compare", device |-> d, entity |-> entity, topics |-> topics,
                              lost |-> FALSE, columns |-> {}])
    /\ UNCHANGED <<device, sighting, resolved, missed, handler, request, seen, raced>>

\* save: what differs from the row as it now is will be written, and all of it when
\* the row is gone.
CompareUpdate(u) ==
    /\ update[u].pc = "compare"
    /\ LET job == update[u]
           row == device[job.device]
           differs == (IF job.entity.override # row.override THEN {"config"} ELSE {})
                      \cup (IF job.entity.mqtt # row.mqtt THEN {"pushChannel"} ELSE {})
       IN UpdateGoesOn(u, [job EXCEPT !.pc = "write", !.columns = IF job.lost THEN Columns ELSE differs])
    /\ UNCHANGED <<device, sighting, resolved, missed, handler, request, count, seen, raced>>

\* mutant: the cache is not cleared.
Uncleared == resolved

Cleared == Empty

LookupInProgress == \E h \in Handlers : handler[h].pc \in {"query", "record"}

\* A device that is gone is inserted again, which fails if it was registered anew.
InsertUpdateFails(u) ==
    /\ update[u].pc = "write"
    /\ "id" \in update[u].columns /\ Registered(update[u].device)
    /\ UpdateGoesOn(u, Idle)
    /\ UNCHANGED <<device, sighting, resolved, missed, handler, request, count, seen, raced>>

\* The row is written once no other update holds it; the cache is cleared at once,
\* while others see the row as it was until the commit.
WriteUpdate(u) ==
    /\ update[u].pc = "write"
    /\ LET job == update[u]
       IN /\ \A v \in Updates : ~ Holds(v, job.device)
          /\ "id" \in job.columns => ~ Registered(job.device) /\ ~ Inserting(job.device)
          /\ UpdateGoesOn(u, [job EXCEPT !.pc = "commit"])
          /\ IF job.topics
               THEN resolved' = Cleared /\ missed' = Unmissed /\ raced' = (raced \/ LookupInProgress)
               ELSE raced' = (raced \/ job.columns # {}) /\ UNCHANGED <<resolved, missed>>
    /\ UNCHANGED <<device, sighting, handler, request, count, seen>>

\* What the write of job leaves of a row: nothing new when the one it was to update
\* is gone.
Written(job, row) ==
    CASE "id" \in job.columns -> job.entity
      [] "id" \notin job.columns /\ job.lost -> row
      [] OTHER -> [row EXCEPT !.override = IF "config" \in job.columns THEN job.entity.override ELSE @,
                              !.mqtt = IF "pushChannel" \in job.columns THEN job.entity.mqtt ELSE @]

CommitUpdate(u) ==
    /\ update[u].pc = "commit"
    /\ device' = [device EXCEPT ![update[u].device] = Written(update[u], @)]
    /\ UpdateGoesOn(u, Idle)
    /\ UNCHANGED <<sighting, resolved, missed, handler, request, count, seen, raced>>

\* A handler that fails is waited for by nobody and may end the process, which
\* starts anew with an empty cache; transactions roll back.
Crash ==
    /\ count.crashes < MaxCrashes
    /\ count' = [count EXCEPT !.crashes = @ + 1]
    /\ resolved' = Empty /\ missed' = Unmissed
    /\ handler' = [h \in Handlers |-> Idle]
    /\ request' = [q \in Requests |-> Idle]
    /\ update' = [u \in Updates |-> Idle]
    /\ UNCHANGED <<device, sighting, seen, raced>>

-----------------------------------------------------------------------------
HandlerStep(h) == \/ Query(h) \/ Record(h) \/ FindDevice(h) \/ FindSighting(h)
                  \/ UpdateSighting(h) \/ InsertSighting(h)
RequestStep(q) == InsertDevice(q) \/ DeleteSighting(q) \/ CommitRegister(q)
UpdateStep(u)  == CompareUpdate(u) \/ WriteUpdate(u) \/ InsertUpdateFails(u) \/ CommitUpdate(u)

Next ==
    \/ \E h \in Handlers :
          \/ HandlerStep(h)
          \/ \E d \in Devices : DefaultTopicMessage(h, d)
          \/ \E t \in Topics : CustomTopicMessage(h, t)
    \/ \E t \in Topics : MissExpires(t)
    \/ \E q \in Requests : RequestStep(q) \/ AbortRegister(q) \/ \E d \in Devices : BeginRegister(q, d)
    \/ \E d \in Devices : DeleteDevice(d) \/ Ignore(d) \/ Unignore(d)
    \/ \E u \in Updates : UpdateStep(u) \/ \E d \in Devices : BeginUpdate(u, d)
    \/ Crash

\* Handlers and transactions go on, misses expire, and messages keep coming on
\* every topic.
Fairness ==
    /\ \A h \in Handlers : WF_vars(HandlerStep(h))
    /\ \A q \in Requests : WF_vars(RequestStep(q))
    /\ \A u \in Updates : WF_vars(UpdateStep(u))
    /\ \A t \in Topics : WF_vars(MissExpires(t)) /\ SF_vars(\E h \in Handlers : CustomTopicMessage(h, t))

Spec     == Init /\ [][Next]_vars
FairSpec == Spec /\ Fairness

-----------------------------------------------------------------------------
(***************************************************************************)
(* Properties                                                              *)
(***************************************************************************)

\* A device that was sighted is not lost between the list of unclaimed devices and
\* the devices: whatever handlers and registrations overlap or are rolled back, it
\* is in one of them, or in both for a sighting that came late.
RegisteredOrListed == \A d \in seen : Registered(d) \/ sighting[d] # "none"

\* A hit names a device that has the topic, whatever updates of topics overlap, unless
\* a lookup was in progress while the cache was cleared and the update not committed,
\* a device was deleted, or an update that names no topics changed a row.
HitsAreCurrent == \A t \in Topics : resolved[t] # Miss /\ ~ raced => resolved[t] \in Found(t)

\* A dismissed device stays dismissed, however much it goes on sending, until it
\* is taken back or registered.
Kept(d) == sighting'[d] = "ignored" \/ (sighting'[d] = "none" /\ device'[d] # Gone) \/ Unignore(d)

IgnoreSticks == [][\A d \in Devices : sighting[d] = "ignored" => Kept(d)]_vars

\* "Misses are cached briefly": a topic that was missed before its device was
\* configured is found in the end, whatever lookups overlap.
TopicsAreFound == <>[](\A t \in Topics : Found(t) # {} => resolved[t] # Miss)
=============================================================================
