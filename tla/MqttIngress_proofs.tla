-------------------------- MODULE MqttIngress_proofs --------------------------
(***************************************************************************)
(* Proofs about MqttIngress, for any devices and topics, any number of     *)
(* concurrent messages and registrations, and any number of changes and    *)
(* crashes.                                                                *)
(***************************************************************************)
EXTENDS MqttIngress, TLAPS

\* A row is not the absence of one.
LEMMA RowIsThere == Gone \notin Row
<1> SUFFICES ASSUME Gone \in Row PROVE FALSE
  OBVIOUS
<1>1. DOMAIN Gone = {"gone"} /\ DOMAIN Gone = {"override", "mqtt"}
  BY DEF Gone, Row
<1>2. "mqtt" \notin {"gone"}
  OBVIOUS
<1>3. QED
  BY <1>1, <1>2

\* A registration inserts a row.
LEMMA NewRowType == NewRow \in Row
BY DEF NewRow, Row

\* A hit goes on to a device, if the role says so.
LEMMA DispatchedType ==
  ASSUME NEW hit \in Hit PROVE Dispatched(hit) \in Handling \cup {Idle}
BY DEF Dispatched, AtDevice, Hit, Handling

\* What the query finds are hits.
LEMMA FoundType ==
  ASSUME device \in [Devices -> Row \cup {Gone}], NEW t \in Topics PROVE Found(t) \subseteq Hit
<1> SUFFICES ASSUME NEW d \in Devices, Owner(d, t)
             PROVE [device |-> d, role |-> device[d].override.role] \in Hit
  BY DEF Found
<1>1. device[d] \in Row /\ device[d].override.topic = t
  BY DEF Owner, Registered
<1>2. device[d].override.role \in Roles
  BY <1>1, TopicsAssumption DEF Row, None
<1>3. QED
  BY <1>2 DEF Hit

\* The count of changes stays within its bound.
LEMMA ChangeType ==
  ASSUME count \in [changes : 0 .. MaxChanges, crashes : 0 .. MaxCrashes], Change
  PROVE  count' \in [changes : 0 .. MaxChanges, crashes : 0 .. MaxCrashes]
<1>1. count.changes \in 0 .. MaxChanges /\ count.crashes \in 0 .. MaxCrashes
  OBVIOUS
<1>2. count.changes + 1 \in 0 .. MaxChanges
  BY <1>1, BoundsAssumption DEF Change
<1>3. count' = [changes |-> count.changes + 1, crashes |-> count.crashes]
  BY DEF Change
<1>4. QED
  BY <1>1, <1>2, <1>3

RequestJob == [pc : {"insert", "delete", "commit"}, device : Devices, deletes : BOOLEAN]
Counts     == [changes : 0 .. MaxChanges, crashes : 0 .. MaxCrashes]

\* The commit of an update leaves a row there, or none where there was none.
LEMMA WrittenType ==
  ASSUME NEW job \in Updating, NEW row \in Row \cup {Gone}
  PROVE  Written(job, row) \in Row \cup {Gone} /\ (row # Gone => Written(job, row) \in Row)
<1> DEFINE merged == [row EXCEPT !.override = IF "config" \in job.columns THEN job.entity.override ELSE @,
                                 !.mqtt = IF "pushChannel" \in job.columns THEN job.entity.mqtt ELSE @]
<1>1. job.entity \in Row
  BY DEF Updating
<1>2. row \in Row => merged \in Row
  BY <1>1 DEF Row
<1>3. row = Gone => merged = Gone
  BY DEF Gone
<1>4. Written(job, row) \in {job.entity, row, merged}
  BY DEF Written
<1> HIDE DEF merged
<1>5. QED
  BY <1>1, <1>2, <1>3, <1>4

\* and one of an update that found nothing to write changes none.
LEMMA NothingWritten ==
  ASSUME NEW job \in Updating, NEW row \in Row \cup {Gone}, job.columns = {}
  PROVE  Written(job, row) = row
<1>1. [row EXCEPT !.override = @, !.mqtt = @] = row
  <2>1. CASE row \in Row
    BY <2>1 DEF Row
  <2>2. CASE row = Gone
    BY <2>2 DEF Gone
  <2>3. QED
    BY <2>1, <2>2
<1>2. QED
  BY <1>1 DEF Written

\* The state of the registry is well typed: messages, registrations and updates
\* only ever store rows, sightings and hits the others expect.
THEOREM TypeCorrect == Spec => []TypeOK
<1> USE BoundsAssumption
<1>1. Init => TypeOK
  <2> SUFFICES ASSUME Init PROVE TypeOK
    OBVIOUS
  <2>1. count \in Counts
    BY DEF Init, Counts
  <2>2. /\ device \in [Devices -> Row \cup {Gone}]
        /\ sighting \in [Devices -> {"none", "listed", "ignored"}]
        /\ resolved \in [Topics -> Hit \cup {Miss}]
        /\ missed \in [Topics -> {"never", "recently", "earlier"}]
        /\ handler \in [Handlers -> Handling \cup {Idle}]
        /\ request \in [Requests -> RequestJob \cup {Idle}]
        /\ update \in [Updates -> Updating \cup {Idle}]
        /\ seen \subseteq Devices /\ raced \in BOOLEAN
    BY DEF Init, Empty, Unmissed
  <2>3. QED
    BY <2>1, <2>2 DEF TypeOK, RequestJob, Counts
<1>2. TypeOK /\ [Next]_vars => TypeOK'
  <2> SUFFICES ASSUME TypeOK, [Next]_vars PROVE TypeOK'
    OBVIOUS
  <2>0. /\ device \in [Devices -> Row \cup {Gone}]
        /\ sighting \in [Devices -> {"none", "listed", "ignored"}]
        /\ resolved \in [Topics -> Hit \cup {Miss}]
        /\ missed \in [Topics -> {"never", "recently", "earlier"}]
        /\ handler \in [Handlers -> Handling \cup {Idle}]
        /\ request \in [Requests -> RequestJob \cup {Idle}]
        /\ update \in [Updates -> Updating \cup {Idle}]
        /\ count \in Counts /\ seen \subseteq Devices /\ raced \in BOOLEAN
    BY DEF TypeOK, RequestJob, Counts
  <2> SUFFICES /\ device' \in [Devices -> Row \cup {Gone}]
               /\ sighting' \in [Devices -> {"none", "listed", "ignored"}]
               /\ resolved' \in [Topics -> Hit \cup {Miss}]
               /\ missed' \in [Topics -> {"never", "recently", "earlier"}]
               /\ handler' \in [Handlers -> Handling \cup {Idle}]
               /\ request' \in [Requests -> RequestJob \cup {Idle}]
               /\ update' \in [Updates -> Updating \cup {Idle}]
               /\ count' \in Counts /\ seen' \subseteq Devices /\ raced' \in BOOLEAN
    BY DEF TypeOK, RequestJob, Counts
  <2> HIDE DEF TypeOK
  <2>1. ASSUME NEW h \in Handlers, NEW d \in Devices, DefaultTopicMessage(h, d)
        PROVE handler' \in [Handlers -> Handling \cup {Idle}]
    BY <2>0, <2>1 DEF DefaultTopicMessage, HandlerGoesOn, AtDevice, Handling
  <2>2. ASSUME NEW h \in Handlers, NEW t \in Topics, CustomTopicMessage(h, t)
        PROVE handler' \in [Handlers -> Handling \cup {Idle}] /\ raced' \in BOOLEAN
    <3>1. CASE resolved[t] # Miss /\ HandlerGoesOn(h, Dispatched(resolved[t])) /\ UNCHANGED raced
      <4>1. Dispatched(resolved[t]) \in Handling \cup {Idle}
        BY <2>0, <3>1, DispatchedType
      <4>2. QED
        BY <2>0, <3>1, <4>1 DEF HandlerGoesOn
    <3>2. CASE /\ HandlerGoesOn(h, [pc |-> "query", topic |-> t])
               /\ raced' = (raced \/ \E u \in Updates : update[u].pc = "commit" /\ update[u].topics)
      <4>1. [pc |-> "query", topic |-> t] \in Handling
        BY DEF Handling
      <4>2. QED
        BY <2>0, <3>2, <4>1 DEF HandlerGoesOn
    <3>3. QED
      BY <2>2, <3>1, <3>2 DEF CustomTopicMessage
  <2>3. ASSUME NEW h \in Handlers, Query(h)
        PROVE handler' \in [Handlers -> Handling \cup {Idle}]
    <3>1. handler[h].topic \in Topics
      BY <2>0, <2>3 DEF Query, Handling, Idle
    <3>2. PICK found \in IF Found(handler[h].topic) = {} THEN {Miss} ELSE Found(handler[h].topic) :
             HandlerGoesOn(h, [pc |-> "record", topic |-> handler[h].topic, found |-> found])
      BY <2>3 DEF Query
    <3>3. found \in Hit \cup {Miss}
      BY <2>0, <3>1, <3>2, FoundType
    <3>4. [pc |-> "record", topic |-> handler[h].topic, found |-> found] \in Handling
      BY <3>1, <3>3 DEF Handling
    <3>5. QED
      BY <2>0, <3>2, <3>4 DEF HandlerGoesOn
  <2>4. ASSUME NEW h \in Handlers, Record(h)
        PROVE /\ handler' \in [Handlers -> Handling \cup {Idle}]
              /\ resolved' \in [Topics -> Hit \cup {Miss}]
              /\ missed' \in [Topics -> {"never", "recently", "earlier"}]
    <3>1. handler[h].topic \in Topics /\ handler[h].found \in Hit \cup {Miss}
      BY <2>0, <2>4 DEF Record, Handling, Idle
    <3>2. handler[h].found # Miss => Dispatched(handler[h].found) \in Handling \cup {Idle}
      BY <3>1, DispatchedType
    <3>3. handler' \in [Handlers -> Handling \cup {Idle}]
      BY <2>0, <2>4, <3>2 DEF Record, HandlerGoesOn
    <3>4. QED
      BY <2>0, <2>4, <3>1, <3>3 DEF Record
  <2>5. ASSUME NEW t \in Topics, MissExpires(t)
        PROVE missed' \in [Topics -> {"never", "recently", "earlier"}]
    BY <2>0, <2>5 DEF MissExpires
  <2>6. ASSUME NEW h \in Handlers,
               FindDevice(h) \/ FindSighting(h) \/ UpdateSighting(h) \/ InsertSighting(h)
        PROVE /\ handler' \in [Handlers -> Handling \cup {Idle}]
              /\ sighting' \in [Devices -> {"none", "listed", "ignored"}]
              /\ seen' \subseteq Devices
    <3>1. handler[h].device \in Devices
      BY <2>0, <2>6 DEF FindDevice, FindSighting, UpdateSighting, InsertSighting, Handling, Idle
    <3>2. \A pc \in {"sight", "update", "insert"} : AtDevice(pc, handler[h].device) \in Handling
      BY <3>1 DEF AtDevice, Handling
    <3>3. PICK next \in Handling \cup {Idle} : HandlerGoesOn(h, next)
      BY <2>6, <3>2 DEF FindDevice, FindSighting, UpdateSighting, InsertSighting
    <3>4. handler' \in [Handlers -> Handling \cup {Idle}]
      BY <2>0, <3>3 DEF HandlerGoesOn
    <3>5. QED
      BY <2>0, <2>6, <3>1, <3>4
      DEF FindDevice, FindSighting, UpdateSighting, InsertSighting, Sighted
  <2>7. ASSUME NEW q \in Requests, NEW d \in Devices, BeginRegister(q, d)
        PROVE request' \in [Requests -> RequestJob \cup {Idle}] /\ count' \in Counts
    <3>1. [pc |-> "insert", device |-> d, deletes |-> FALSE] \in RequestJob
      BY DEF RequestJob
    <3>2. QED
      BY <2>0, <2>7, <3>1, ChangeType DEF BeginRegister, RequestGoesOn, Counts
  <2>8. ASSUME NEW q \in Requests, InsertDevice(q)
        PROVE request' \in [Requests -> RequestJob \cup {Idle}]
    <3>1. request[q] \in RequestJob
      BY <2>0, <2>8 DEF InsertDevice, Idle
    <3>2. [request[q] EXCEPT !.pc = "delete"] \in RequestJob
      BY <3>1 DEF RequestJob
    <3>3. QED
      BY <2>0, <2>8, <3>2 DEF InsertDevice, RequestGoesOn
  <2>9. ASSUME NEW q \in Requests, DeleteSighting(q)
        PROVE /\ request' \in [Requests -> RequestJob \cup {Idle}]
              /\ sighting' \in [Devices -> {"none", "listed", "ignored"}]
    <3>1. request[q].device \in Devices
      BY <2>0, <2>9 DEF DeleteSighting, Idle, RequestJob
    <3>2. [pc |-> "commit", device |-> request[q].device,
           deletes |-> sighting[request[q].device] # "none"] \in RequestJob
      BY <3>1 DEF RequestJob
    <3>3. QED
      BY <2>0, <2>9, <3>2 DEF DeleteSighting, RequestGoesOn, DeletedSightings
  <2>10. ASSUME NEW q \in Requests, CommitRegister(q)
         PROVE /\ request' \in [Requests -> RequestJob \cup {Idle}]
               /\ sighting' \in [Devices -> {"none", "listed", "ignored"}]
               /\ device' \in [Devices -> Row \cup {Gone}]
    BY <2>0, <2>10, NewRowType DEF CommitRegister, RequestGoesOn
  <2>11. ASSUME NEW q \in Requests, AbortRegister(q)
         PROVE request' \in [Requests -> RequestJob \cup {Idle}]
    BY <2>0, <2>11 DEF AbortRegister, RequestGoesOn
  <2>12. ASSUME NEW d \in Devices, DeleteDevice(d)
         PROVE /\ device' \in [Devices -> Row \cup {Gone}] /\ update' \in [Updates -> Updating \cup {Idle}]
               /\ count' \in Counts /\ seen' \subseteq Devices /\ raced' \in BOOLEAN
    <3>1. ASSUME NEW u \in Updates, update[u] # Idle PROVE [update[u] EXCEPT !.lost = TRUE] \in Updating
      BY <2>0, <3>1 DEF Updating
    <3>2. update' \in [Updates -> Updating \cup {Idle}]
      BY <2>0, <2>12, <3>1 DEF DeleteDevice
    <3>3. count' \in Counts
      BY <2>0, <2>12, ChangeType DEF DeleteDevice, Counts
    <3>4. QED
      BY <2>0, <2>12, <3>2, <3>3 DEF DeleteDevice
  <2>13. ASSUME NEW d \in Devices, Ignore(d) \/ Unignore(d)
         PROVE sighting' \in [Devices -> {"none", "listed", "ignored"}] /\ count' \in Counts
    BY <2>0, <2>13, ChangeType DEF Ignore, Unignore, Counts
  <2>14. ASSUME NEW u \in Updates, NEW d \in Devices, BeginUpdate(u, d)
         PROVE update' \in [Updates -> Updating \cup {Idle}] /\ count' \in Counts
    <3>1. PICK entity \in Row, topics \in BOOLEAN :
             UpdateGoesOn(u, [pc |-> "compare", device |-> d, entity |-> entity, topics |-> topics,
                              lost |-> FALSE, columns |-> {}])
      BY <2>14 DEF BeginUpdate
    <3>2. [pc |-> "compare", device |-> d, entity |-> entity, topics |-> topics,
           lost |-> FALSE, columns |-> {}] \in Updating
      BY DEF Updating
    <3>3. QED
      BY <2>0, <2>14, <3>1, <3>2, ChangeType DEF BeginUpdate, UpdateGoesOn, Counts
  <2>15. ASSUME NEW u \in Updates, CompareUpdate(u) \/ WriteUpdate(u) \/ InsertUpdateFails(u)
         PROVE /\ update' \in [Updates -> Updating \cup {Idle}]
               /\ resolved' \in [Topics -> Hit \cup {Miss}] /\ raced' \in BOOLEAN
               /\ missed' \in [Topics -> {"never", "recently", "earlier"}]
    <3>1. update[u] \in Updating
      BY <2>0, <2>15 DEF CompareUpdate, WriteUpdate, InsertUpdateFails, Idle
    <3>2. ASSUME NEW columns \in SUBSET Columns
          PROVE [update[u] EXCEPT !.pc = "write", !.columns = columns] \in Updating
      BY <3>1 DEF Updating
    <3>3. [update[u] EXCEPT !.pc = "commit"] \in Updating
      BY <3>1 DEF Updating
    <3>4. CASE CompareUpdate(u)
      <4>1. PICK columns \in SUBSET Columns :
               UpdateGoesOn(u, [update[u] EXCEPT !.pc = "write", !.columns = columns])
        BY <3>4 DEF CompareUpdate, Columns
      <4>2. QED
        BY <2>0, <3>2, <3>4, <4>1 DEF CompareUpdate, UpdateGoesOn
    <3>5. CASE WriteUpdate(u)
      BY <2>0, <3>3, <3>5 DEF WriteUpdate, UpdateGoesOn, Cleared, Empty, Unmissed
    <3>6. CASE InsertUpdateFails(u)
      BY <2>0, <3>6 DEF InsertUpdateFails, UpdateGoesOn
    <3>7. QED
      BY <2>15, <3>4, <3>5, <3>6
  <2>16. ASSUME NEW u \in Updates, CommitUpdate(u)
         PROVE /\ device' \in [Devices -> Row \cup {Gone}]
               /\ update' \in [Updates -> Updating \cup {Idle}]
    <3>1. update[u] \in Updating
      BY <2>0, <2>16 DEF CommitUpdate, Idle
    <3>2. update[u].device \in Devices
      BY <3>1 DEF Updating
    <3>3. Written(update[u], device[update[u].device]) \in Row \cup {Gone}
      BY <2>0, <3>1, <3>2, WrittenType
    <3>4. QED
      BY <2>0, <2>16, <3>3 DEF CommitUpdate, UpdateGoesOn
  <2>17. CASE Crash
    <3>1. count' \in Counts
      <4>1. count.changes \in 0 .. MaxChanges /\ count.crashes \in 0 .. MaxCrashes
        BY <2>0 DEF Counts
      <4>2. count' = [changes |-> count.changes, crashes |-> count.crashes + 1]
        BY <2>0, <2>17 DEF Crash, Counts
      <4>3. count.crashes + 1 \in 0 .. MaxCrashes
        BY <2>17, <4>1 DEF Crash
      <4>4. QED
        BY <4>1, <4>2, <4>3 DEF Counts
    <3>2. QED
      BY <2>0, <2>17, <3>1 DEF Crash, Empty, Unmissed
  <2>18. CASE UNCHANGED vars
    BY <2>0, <2>18 DEF vars
  <2>19. QED
    BY <2>0, <2>1, <2>2, <2>3, <2>4, <2>5, <2>6, <2>7, <2>8, <2>9, <2>10, <2>11, <2>12, <2>13,
       <2>14, <2>15, <2>16, <2>17, <2>18
    DEF Next, HandlerStep, RequestStep, DefaultTopicMessage, CustomTopicMessage, Query, Record,
        MissExpires, FindDevice, FindSighting, UpdateSighting, InsertSighting, BeginRegister,
        InsertDevice, DeleteSighting, CommitRegister, AbortRegister, DeleteDevice, Ignore,
        Unignore, BeginUpdate, UpdateStep, CompareUpdate, WriteUpdate, InsertUpdateFails, CommitUpdate
<1>3. QED
  BY <1>1, <1>2, PTL DEF Spec

-----------------------------------------------------------------------------
(***************************************************************************)
(* What a step may do to a sighting and to a device.                       *)
(***************************************************************************)
\* A sighting is taken out of the list by the commit that registers its device, is
\* dismissed and taken back on request, and is otherwise left as it is.
LEMMA SightingSteps ==
  ASSUME TypeOK, [Next]_vars, NEW d \in Devices
  PROVE  \/ sighting'[d] = sighting[d]
         \/ sighting[d] = "none" /\ sighting'[d] = "listed"
         \/ sighting'[d] = "none" /\ device'[d] # Gone
         \/ sighting[d] = "listed" /\ sighting'[d] = "ignored"
         \/ Unignore(d) /\ sighting'[d] = "listed"
<1> DEFINE Goal == \/ sighting'[d] = sighting[d]
                   \/ sighting[d] = "none" /\ sighting'[d] = "listed"
                   \/ sighting'[d] = "none" /\ device'[d] # Gone
                   \/ sighting[d] = "listed" /\ sighting'[d] = "ignored"
                   \/ Unignore(d) /\ sighting'[d] = "listed"
<1>0. sighting \in [Devices -> {"none", "listed", "ignored"}] /\ device \in [Devices -> Row \cup {Gone}]
  BY DEF TypeOK
<1>1. ASSUME NEW h \in Handlers, UpdateSighting(h) \/ InsertSighting(h) PROVE Goal
  BY <1>0, <1>1 DEF UpdateSighting, InsertSighting, Sighted
<1>2. ASSUME NEW q \in Requests, CommitRegister(q) PROVE Goal
  BY <1>0, <1>2, NewRowType, RowIsThere DEF CommitRegister
<1>3. ASSUME NEW e \in Devices, Ignore(e) \/ Unignore(e) PROVE Goal
  BY <1>0, <1>3 DEF Ignore, Unignore
<1>4. ASSUME UNCHANGED sighting PROVE Goal
  BY <1>4
<1>5. QED
  BY <1>1, <1>2, <1>3, <1>4
  DEF Next, vars, HandlerStep, RequestStep, DefaultTopicMessage, CustomTopicMessage, Query, Record,
      MissExpires, FindDevice, FindSighting, BeginRegister, InsertDevice, DeleteSighting,
      DeletedSightings, AbortRegister, DeleteDevice, BeginUpdate, UpdateStep, CompareUpdate,
      WriteUpdate, InsertUpdateFails, CommitUpdate, Crash

\* A registered device is only taken out by a deletion, which forgets its sightings;
\* a device is only counted as seen when its sighting is stored.
LEMMA DeviceSteps ==
  ASSUME TypeOK, [Next]_vars, NEW d \in Devices
  PROVE  /\ device[d] # Gone /\ device'[d] = Gone => d \notin seen'
         /\ d \in seen' => d \in seen \/ sighting'[d] # "none"
<1> DEFINE Goal == /\ device[d] # Gone /\ device'[d] = Gone => d \notin seen'
                   /\ d \in seen' => d \in seen \/ sighting'[d] # "none"
<1>0. sighting \in [Devices -> {"none", "listed", "ignored"}] /\ device \in [Devices -> Row \cup {Gone}]
  BY DEF TypeOK
<1>1. ASSUME NEW h \in Handlers, UpdateSighting(h) \/ InsertSighting(h) PROVE Goal
  BY <1>0, <1>1 DEF UpdateSighting, InsertSighting, Sighted
<1>2. ASSUME NEW q \in Requests, CommitRegister(q) PROVE Goal
  BY <1>0, <1>2, NewRowType, RowIsThere DEF CommitRegister
<1>3. ASSUME NEW e \in Devices, DeleteDevice(e) PROVE Goal
  BY <1>0, <1>3 DEF DeleteDevice
<1>4. ASSUME NEW u \in Updates, CommitUpdate(u) PROVE Goal
  <2>1. update[u] \in Updating /\ update[u].device \in Devices
    BY <1>4 DEF CommitUpdate, TypeOK, Idle, Updating
  <2>2. device[d] # Gone => device'[d] # Gone
    BY <1>0, <1>4, <2>1, WrittenType, RowIsThere DEF CommitUpdate
  <2>3. QED
    BY <1>4, <2>2 DEF CommitUpdate
<1>5. ASSUME UNCHANGED <<device, seen>> PROVE Goal
  BY <1>5
<1>6. QED
  BY <1>1, <1>2, <1>3, <1>4, <1>5
  DEF Next, vars, HandlerStep, RequestStep, DefaultTopicMessage, CustomTopicMessage, Query, Record,
      MissExpires, FindDevice, FindSighting, BeginRegister, InsertDevice, DeleteSighting,
      AbortRegister, Ignore, Unignore, BeginUpdate, UpdateStep, CompareUpdate, WriteUpdate,
      InsertUpdateFails, Crash

\* However handlers, registrations, deletions and crashes interleave, a device that
\* was sighted stays in the list of unclaimed devices or among the devices.
THEOREM SightedIsKept == Spec => []RegisteredOrListed
<1>1. Init => RegisteredOrListed
  BY DEF Init, RegisteredOrListed
<1>2. RegisteredOrListed /\ TypeOK /\ TypeOK' /\ [Next]_vars => RegisteredOrListed'
  <2> SUFFICES ASSUME RegisteredOrListed, TypeOK, TypeOK', [Next]_vars,
                      NEW d \in seen', device'[d] = Gone
               PROVE  sighting'[d] # "none"
    BY DEF RegisteredOrListed, Registered
  <2>1. d \in Devices
    BY DEF TypeOK
  <2>2. CASE d \in seen
    BY <2>1, <2>2, DeviceSteps, SightingSteps DEF RegisteredOrListed, Registered
  <2>3. CASE d \notin seen
    BY <2>1, <2>3, DeviceSteps
  <2>4. QED
    BY <2>2, <2>3
<1>3. QED
  BY <1>1, <1>2, TypeCorrect, PTL DEF Spec

\* However much a dismissed device goes on sending, and whatever else is going on,
\* it stays dismissed until it is taken back or registered.
THEOREM DismissedStays == Spec => IgnoreSticks
<1>1. TypeOK /\ [Next]_vars => [\A d \in Devices : sighting[d] = "ignored" => Kept(d)]_vars
  BY SightingSteps DEF Kept
<1>2. QED
  BY <1>1, TypeCorrect, PTL DEF Spec, IgnoreSticks

-----------------------------------------------------------------------------
(***************************************************************************)
(* A hit of the cache names a device that has the topic.  Entries outlive  *)
(* the rows they were made of in three ways only, which raced records; for *)
(* the rest, a row that is there is replaced by nothing but the commit of  *)
(* an update, before which the cache was cleared while nobody looked up.   *)
(* That a registration never replaces a row is what the unique column is   *)
(* for: only one of those that insert a device may be past the insert.     *)
(***************************************************************************)
Inserts(q) == request[q].pc \in {"delete", "commit"}
Anew(u)    == update[u].pc = "commit" /\ "id" \in update[u].columns

OneInserter ==
    /\ \A q \in Requests : Inserts(q) => ~Registered(request[q].device)
    /\ \A p, q \in Requests :
          Inserts(p) /\ Inserts(q) /\ request[p].device = request[q].device => p = q
    /\ \A u \in Updates : update[u] # Idle /\ ~update[u].lost => Registered(update[u].device)
    /\ \A u \in Updates : Anew(u) =>
          /\ ~Registered(update[u].device)
          /\ \A q \in Requests : Inserts(q) => request[q].device # update[u].device
    /\ \A u, v \in Updates : Anew(u) /\ Anew(v) /\ update[u].device = update[v].device => u = v

NoStaleHit ==
    ~raced =>
       /\ \A t \in Topics : resolved[t] # Miss => resolved[t] \in Found(t)
       /\ \A h \in Handlers : handler[h].pc = "record" /\ handler[h].found # Miss
                                 => handler[h].found \in Found(handler[h].topic)
       /\ \A u \in Updates : update[u].pc = "commit" =>
             IF update[u].topics THEN resolved = Empty /\ ~LookupInProgress
                                 ELSE update[u].columns = {}

\* What a step that leaves the rows, the requests and the update alone leaves true.
LEMMA InsertersUntouched ==
  ASSUME OneInserter, UNCHANGED <<device, request, update>> PROVE OneInserter'
BY DEF OneInserter, Inserts, Anew, Registered

\* No two registrations, and no registration and update, insert the same device.
LEMMA OneInserterInductive == Spec => []OneInserter
<1>1. Init => OneInserter
  BY DEF Init, OneInserter, Inserts, Anew, Idle
<1>2. OneInserter /\ TypeOK /\ TypeOK' /\ [Next]_vars => OneInserter'
  <2> SUFFICES ASSUME OneInserter, TypeOK, TypeOK', [Next]_vars PROVE OneInserter'
    OBVIOUS
  <2>0. /\ device \in [Devices -> Row \cup {Gone}]
        /\ request \in [Requests -> RequestJob \cup {Idle}]
        /\ update \in [Updates -> Updating \cup {Idle}]
    BY DEF TypeOK, RequestJob
  <2>1. ASSUME NEW q \in Requests, AbortRegister(q) \/ \E d \in Devices : BeginRegister(q, d)
        PROVE  OneInserter'
    <3>1. UNCHANGED <<device, update>>
      BY <2>1 DEF BeginRegister, AbortRegister
    <3>2. \A p \in Requests : Inserts(p)' => Inserts(p) /\ request'[p] = request[p]
      BY <2>0, <2>1 DEF BeginRegister, AbortRegister, RequestGoesOn, Inserts, Idle
    <3>3. QED
      BY <3>1, <3>2 DEF OneInserter, Anew, Registered
  <2>2. ASSUME NEW q \in Requests, InsertDevice(q) PROVE OneInserter'
    <3> DEFINE d == request[q].device
    <3>1. UNCHANGED <<device, update>> /\ ~Inserting(d)
      BY <2>2 DEF InsertDevice
    <3>2. \A p \in Requests : p # q => request'[p] = request[p]
      BY <2>0, <2>2 DEF InsertDevice, RequestGoesOn
    <3>3. Inserts(q)' => request'[q].device = d /\ ~Registered(d)
      <4>1. request[q] \in RequestJob
        BY <2>0, <2>2 DEF InsertDevice, Idle
      <4>2. [request[q] EXCEPT !.pc = "delete"].device = d
        BY <4>1 DEF RequestJob
      <4>3. request'[q] = IF Registered(d) THEN Idle ELSE [request[q] EXCEPT !.pc = "delete"]
        BY <2>0, <2>2 DEF InsertDevice, RequestGoesOn
      <4>4. QED
        BY <4>2, <4>3 DEF Inserts, Idle
    <3>4. \A p \in Requests : Inserts(p) => request[p].device # d
      BY <3>1 DEF Inserting, Inserts
    <3>5. \A p \in Requests : p # q => (Inserts(p)' <=> Inserts(p))
      BY <3>2 DEF Inserts
    <3>6. \A u \in Updates : Anew(u)' => Anew(u) /\ update[u].device # d
      BY <3>1 DEF Inserting, Anew
    <3> HIDE DEF d
    <3>7. QED
      BY <3>1, <3>2, <3>3, <3>4, <3>5, <3>6 DEF OneInserter, Registered
  <2>3. ASSUME NEW q \in Requests, DeleteSighting(q) PROVE OneInserter'
    <3>1. UNCHANGED <<device, update>>
      BY <2>3 DEF DeleteSighting
    <3>2. \A p \in Requests : /\ Inserts(p)' <=> Inserts(p)
                              /\ Inserts(p) => request'[p].device = request[p].device
      BY <2>0, <2>3 DEF DeleteSighting, RequestGoesOn, Inserts
    <3>3. QED
      BY <3>1, <3>2 DEF OneInserter, Anew, Registered
  <2>4. ASSUME NEW q \in Requests, CommitRegister(q) PROVE OneInserter'
    <3> DEFINE d == request[q].device
    <3>1. /\ UNCHANGED update /\ Inserts(q) /\ d \in Devices
          /\ request'[q] = Idle
          /\ \A p \in Requests : p # q => request'[p] = request[p]
      BY <2>0, <2>4 DEF CommitRegister, RequestGoesOn, Inserts, Idle, RequestJob
    <3>2. /\ device'[d] # Gone
          /\ \A e \in Devices : e # d => device'[e] = device[e]
      BY <2>0, <2>4, <3>1, NewRowType, RowIsThere DEF CommitRegister
    <3>3. \A p \in Requests : Inserts(p)' => p # q /\ Inserts(p) /\ request'[p].device = request[p].device
      BY <3>1 DEF Inserts, Idle
    <3>4. \A p \in Requests : Inserts(p) => request[p].device \in Devices
      BY <2>0 DEF Inserts, Idle, RequestJob
    <3>5. \A p \in Requests : Inserts(p)' => ~Registered(request[p].device)'
      BY <3>1, <3>2, <3>3, <3>4 DEF OneInserter, Registered
    <3>6. \A p, r \in Requests :
             Inserts(p)' /\ Inserts(r)' /\ request'[p].device = request'[r].device => p = r
      BY <3>3 DEF OneInserter
    <3>7. \A u \in Updates : update[u] # Idle => update[u].device \in Devices
      BY <2>0 DEF Updating
    <3>8. ASSUME NEW u \in Updates
          PROVE  /\ update[u] # Idle /\ ~update[u].lost => device'[update[u].device] # Gone
                 /\ Anew(u) => /\ device'[update[u].device] = Gone
                               /\ \A p \in Requests : Inserts(p)' => request'[p].device # update[u].device
      <4>1. Anew(u) => /\ update[u] # Idle /\ update[u].device # d /\ device[update[u].device] = Gone
                       /\ \A p \in Requests : Inserts(p) => request[p].device # update[u].device
        BY <3>1 DEF OneInserter, Registered, Anew, Idle
      <4>2. update[u] # Idle /\ ~update[u].lost => device[update[u].device] # Gone
        BY DEF OneInserter, Registered
      <4>3. QED
        BY <3>2, <3>3, <3>7, <4>1, <4>2
    <3>9. QED
      BY <3>1, <3>5, <3>6, <3>8 DEF OneInserter, Anew, Registered
  <2>5. ASSUME NEW d \in Devices, DeleteDevice(d) PROVE OneInserter'
    <3>1. /\ UNCHANGED request /\ device' = [device EXCEPT ![d] = Gone] /\ Registered(d)
          /\ update' = [u \in Updates |-> IF update[u] # Idle /\ update[u].device = d
                                            THEN [update[u] EXCEPT !.lost = TRUE] ELSE update[u]]
      BY <2>5 DEF DeleteDevice
    <3>2. \A e \in Devices : device'[e] = IF e = d THEN Gone ELSE device[e]
      BY <2>0, <3>1
    <3>3. \A p \in Requests : Inserts(p) => request[p].device \in Devices
      BY <2>0 DEF Inserts, Idle, RequestJob
    <3>4. /\ \A p \in Requests : Inserts(p)' => ~Registered(request[p].device)'
          /\ \A p, r \in Requests :
               Inserts(p)' /\ Inserts(r)' /\ request'[p].device = request'[r].device => p = r
      BY <3>1, <3>2, <3>3 DEF OneInserter, Inserts, Registered
    <3>5. ASSUME NEW u \in Updates
          PROVE  /\ update'[u] # Idle => update[u] # Idle /\ update'[u].device = update[u].device
                                         /\ update[u].device \in Devices
                 /\ update'[u] # Idle /\ ~update'[u].lost => ~update[u].lost /\ update[u].device # d
                 /\ Anew(u)' => Anew(u) /\ update'[u] # Idle
      <4>1. CASE update[u] # Idle /\ update[u].device = d
        <5>1. update'[u] = [update[u] EXCEPT !.lost = TRUE] /\ update[u] \in Updating
          BY <2>0, <3>1, <4>1
        <5>2. /\ update'[u].lost = TRUE /\ update'[u].device = update[u].device
              /\ update'[u].pc = update[u].pc /\ update'[u].columns = update[u].columns
              /\ update'[u].pc # "idle"
          BY <5>1 DEF Updating
        <5>3. QED
          BY <4>1, <5>2 DEF Anew, Idle
      <4>2. CASE ~(update[u] # Idle /\ update[u].device = d)
        <5>1. update'[u] = update[u]
          BY <3>1, <4>2
        <5>2. update[u] # Idle => update[u].device \in Devices
          BY <2>0 DEF Updating
        <5>3. QED
          BY <4>2, <5>1, <5>2 DEF Anew, Idle
      <4>3. QED
        BY <4>1, <4>2
    <3>6. ASSUME NEW u \in Updates, Anew(u)' PROVE update[u].device # d
      BY <3>1, <3>5, <3>6 DEF OneInserter
    <3>7. QED
      BY <3>1, <3>2, <3>4, <3>5, <3>6 DEF OneInserter, Inserts, Registered
  <2>6. ASSUME NEW u \in Updates,
               \/ \E d \in Devices : BeginUpdate(u, d)
               \/ CompareUpdate(u) \/ InsertUpdateFails(u)
        PROVE  OneInserter'
    <3>1. UNCHANGED <<device, request>>
      BY <2>6 DEF BeginUpdate, CompareUpdate, InsertUpdateFails
    <3>2. \A v \in Updates : v # u => update'[v] = update[v]
      BY <2>0, <2>6 DEF BeginUpdate, CompareUpdate, InsertUpdateFails, UpdateGoesOn
    <3>3. ~Anew(u)' /\ (update'[u] # Idle /\ ~update'[u].lost => Registered(update'[u].device))
      <4>1. CASE \E d \in Devices : BeginUpdate(u, d)
        BY <2>0, <4>1 DEF BeginUpdate, UpdateGoesOn, Anew
      <4>2. CASE CompareUpdate(u)
        <5>1. update[u] \in Updating /\ update[u] # Idle
          BY <2>0, <4>2 DEF CompareUpdate, Idle
        <5>2. PICK columns : update'[u] = [update[u] EXCEPT !.pc = "write", !.columns = columns]
          BY <2>0, <4>2 DEF CompareUpdate, UpdateGoesOn
        <5>3. update'[u].pc = "write" /\ update'[u].lost = update[u].lost /\ update'[u].device = update[u].device
          BY <5>1, <5>2 DEF Updating
        <5>4. QED
          BY <5>1, <5>3 DEF Anew, OneInserter
      <4>3. CASE InsertUpdateFails(u)
        BY <2>0, <4>3 DEF InsertUpdateFails, UpdateGoesOn, Anew, Idle
      <4>4. QED
        BY <2>6, <4>1, <4>2, <4>3
    <3>4. \A v \in Updates : Anew(v)' => Anew(v) /\ v # u
      BY <3>2, <3>3 DEF Anew
    <3>5. \A p \in Requests : Inserts(p)' <=> Inserts(p)
      BY <3>1 DEF Inserts
    <3>6. QED
      BY <3>1, <3>2, <3>3, <3>4, <3>5 DEF OneInserter, Registered
  <2>7. ASSUME NEW u \in Updates, WriteUpdate(u) PROVE OneInserter'
    <3>1. UNCHANGED <<device, request>> /\ update[u].pc = "write"
      BY <2>7 DEF WriteUpdate
    <3>2. update[u] \in Updating /\ update[u] # Idle
      BY <2>0, <3>1 DEF Idle
    <3>3. /\ update'[u] = [update[u] EXCEPT !.pc = "commit"]
          /\ \A v \in Updates : v # u => update'[v] = update[v]
      BY <2>0, <2>7 DEF WriteUpdate, UpdateGoesOn
    <3>4. /\ update'[u].device = update[u].device /\ update'[u].lost = update[u].lost
          /\ update'[u].columns = update[u].columns
      BY <3>2, <3>3 DEF Updating
    <3>5. Anew(u)' => /\ ~Registered(update[u].device)
                      /\ \A p \in Requests : Inserts(p) => request[p].device # update[u].device
                      /\ \A v \in Updates : Anew(v) => update[v].device # update[u].device
      BY <2>7, <3>4 DEF WriteUpdate, Anew, Holds, Inserting, Inserts
    <3>6. \A v \in Updates : v # u => (Anew(v)' <=> Anew(v))
      BY <3>3 DEF Anew
    <3>7. \A p \in Requests : Inserts(p)' <=> Inserts(p)
      BY <3>1 DEF Inserts
    <3>8. \A v \in Updates : update'[v].device = update[v].device
      BY <3>3, <3>4
    <3>9. \A v \in Updates : update'[v] # Idle /\ ~update'[v].lost => update[v] # Idle /\ ~update[v].lost
      BY <3>2, <3>3, <3>4
    <3>10. ASSUME NEW v \in Updates, Anew(v)'
           PROVE  /\ device[update[v].device] = Gone
                  /\ \A p \in Requests : Inserts(p) => request[p].device # update[v].device
                  /\ \A w \in Updates : Anew(w)' /\ update[w].device = update[v].device => v = w
      <4>1. CASE v = u
        BY <3>5, <3>6, <3>10, <4>1 DEF Registered
      <4>2. CASE v # u
        <5>1. Anew(v)
          BY <3>6, <3>10, <4>2
        <5>2. \A w \in Updates : w # u /\ Anew(w)' /\ update[w].device = update[v].device => v = w
          BY <3>6, <5>1 DEF OneInserter
        <5>3. Anew(u)' => update[u].device # update[v].device
          BY <3>5, <5>1
        <5>4. QED
          BY <5>1, <5>2, <5>3 DEF OneInserter, Registered
      <4>3. QED
        BY <4>1, <4>2
    <3>11. \A v \in Updates : update'[v] # Idle /\ ~update'[v].lost => device[update[v].device] # Gone
      BY <3>9 DEF OneInserter, Registered
    <3>12. /\ \A p \in Requests : Inserts(p)' => device[request[p].device] = Gone
           /\ \A p, r \in Requests :
                 Inserts(p)' /\ Inserts(r)' /\ request[p].device = request[r].device => p = r
      BY <3>7 DEF OneInserter, Registered
    <3>13. QED
      BY <3>1, <3>7, <3>8, <3>10, <3>11, <3>12 DEF OneInserter, Registered
  <2>8. ASSUME NEW u \in Updates, CommitUpdate(u) PROVE OneInserter'
    <3> DEFINE d == update[u].device
               row == Written(update[u], device[d])
    <3>1. /\ update[u].pc = "commit" /\ update[u] \in Updating /\ update[u] # Idle /\ d \in Devices
          /\ update'[u] = Idle /\ UNCHANGED request
          /\ \A v \in Updates : v # u => update'[v] = update[v]
          /\ device' = [device EXCEPT ![d] = row]
      BY <2>0, <2>8 DEF CommitUpdate, UpdateGoesOn, Idle, Updating
    <3>2. \A e \in Devices : device'[e] = IF e = d THEN row ELSE device[e]
      BY <2>0, <3>1
    <3>3. device[d] # Gone => row # Gone
      BY <2>0, <3>1, WrittenType, RowIsThere
    <3>4. device[d] = Gone /\ row # Gone => Anew(u)
      <4>1. device[d] = Gone => update[u].lost
        BY <3>1 DEF OneInserter, Registered
      <4>2. QED
        BY <3>1, <4>1 DEF Written, Anew
    <3> HIDE DEF row
    <3>5. \A p \in Requests : Inserts(p) => request[p].device \in Devices
      BY <2>0 DEF Inserts, Idle, RequestJob
    <3>6. \A v \in Updates : update[v] # Idle => update[v].device \in Devices
      BY <2>0 DEF Updating
    <3>7. \A p \in Requests : Inserts(p)' => Inserts(p) /\ device'[request[p].device] = Gone
      <4>1. \A p \in Requests : Inserts(p)' <=> Inserts(p)
        BY <3>1 DEF Inserts
      <4>2. \A p \in Requests : Inserts(p) => device[request[p].device] = Gone
        BY DEF OneInserter, Registered
      <4>3. Anew(u) => \A p \in Requests : Inserts(p) => request[p].device # d
        BY DEF OneInserter
      <4> HIDE DEF d
      <4>4. QED
        BY <3>2, <3>4, <3>5, <4>1, <4>2, <4>3
    <3>8. \A v \in Updates : /\ Anew(v)' => Anew(v) /\ v # u /\ update'[v] = update[v]
                             /\ update'[v] # Idle => v # u
      BY <3>1 DEF Anew, Idle
    <3>9. ASSUME NEW v \in Updates, Anew(v)' PROVE device'[update[v].device] = Gone
      <4>1. Anew(v) /\ v # u /\ update[v] # Idle
        BY <3>8, <3>9 DEF Anew, Idle
      <4>2. Anew(u) => update[v].device # d
        BY <4>1 DEF OneInserter
      <4>3. device[update[v].device] = Gone
        BY <4>1 DEF OneInserter, Registered
      <4> HIDE DEF d
      <4>4. QED
        BY <3>2, <3>4, <3>6, <4>1, <4>2, <4>3
    <3>10. ASSUME NEW v \in Updates, v # u, update[v] # Idle, ~update[v].lost
           PROVE  device'[update[v].device] # Gone
      <4>1. device[update[v].device] # Gone /\ update[v].device \in Devices
        BY <3>6, <3>10 DEF OneInserter, Registered
      <4> HIDE DEF d
      <4>2. QED
        BY <3>2, <3>3, <4>1
    <3> HIDE DEF d
    <3>11. \A p, r \in Requests :
              Inserts(p)' /\ Inserts(r)' /\ request'[p].device = request'[r].device => p = r
      BY <3>1, <3>7 DEF OneInserter
    <3>12. ASSUME NEW v \in Updates, Anew(v)'
           PROVE  /\ \A p \in Requests : Inserts(p)' => request'[p].device # update'[v].device
                  /\ \A w \in Updates : Anew(w)' /\ update'[w].device = update'[v].device => v = w
      BY <3>1, <3>7, <3>8, <3>12 DEF OneInserter
    <3>13. QED
      BY <3>1, <3>7, <3>8, <3>9, <3>10, <3>11, <3>12 DEF OneInserter, Registered
  <2>9. CASE Crash
    BY <2>9 DEF Crash, OneInserter, Inserts, Anew, Idle
  <2>10. CASE UNCHANGED <<device, request, update>>
    BY <2>10, InsertersUntouched
  <2>11. QED
    BY <2>1, <2>2, <2>3, <2>4, <2>5, <2>6, <2>7, <2>8, <2>9, <2>10
    DEF Next, vars, HandlerStep, RequestStep, DefaultTopicMessage, CustomTopicMessage, Query,
        Record, MissExpires, FindDevice, FindSighting, UpdateSighting, InsertSighting, Ignore,
        Unignore, UpdateStep
<1>3. QED
  BY <1>1, <1>2, TypeCorrect, PTL DEF Spec

\* Where no row that was there changes, what could be found still can.
LEMMA FoundGrows ==
  ASSUME \A d \in Devices : Registered(d) => device'[d] = device[d], NEW t
  PROVE  Found(t) \subseteq Found(t)'
<1> SUFFICES ASSUME NEW d \in Devices, Owner(d, t)
             PROVE  [device |-> d, role |-> device[d].override.role] \in Found(t)'
  BY DEF Found
<1>1. device'[d] = device[d] /\ Owner(d, t)'
  BY DEF Owner, Registered
<1>2. QED
  BY <1>1 DEF Found

\* Where the cache is left alone and no row that was there changes.
LEMMA HitsUntouched ==
  ASSUME NoStaleHit, ~raced, UNCHANGED resolved,
         \A d \in Devices : Registered(d) => device'[d] = device[d],
         \A h \in Handlers : handler'[h].pc \in {"query", "record"} => handler'[h] = handler[h],
         \A u \in Updates : update'[u].pc = "commit" =>
            update'[u] = update[u] \/ (~update'[u].topics /\ update'[u].columns = {})
  PROVE  NoStaleHit'
<1>1. \A t : Found(t) \subseteq Found(t)'
  BY FoundGrows
<1>2. LookupInProgress' => LookupInProgress
  BY DEF LookupInProgress
<1>3. QED
  BY <1>1, <1>2 DEF NoStaleHit

\* A row is only replaced by the commit of an update, unless raced records it.
LEMMA NoStaleHitInductive == Spec => []NoStaleHit
<1>1. Init => NoStaleHit
  BY DEF Init, NoStaleHit, Empty, Idle
<1>2. NoStaleHit /\ OneInserter /\ TypeOK /\ TypeOK' /\ [Next]_vars => NoStaleHit'
  <2> SUFFICES ASSUME NoStaleHit, OneInserter, TypeOK, TypeOK', [Next]_vars, ~raced'
               PROVE  NoStaleHit'
    BY DEF NoStaleHit
  <2>0. /\ device \in [Devices -> Row \cup {Gone}]
        /\ resolved \in [Topics -> Hit \cup {Miss}]
        /\ handler \in [Handlers -> Handling \cup {Idle}]
        /\ request \in [Requests -> RequestJob \cup {Idle}]
        /\ update \in [Updates -> Updating \cup {Idle}]
        /\ raced \in BOOLEAN
    BY DEF TypeOK, RequestJob
  <2>a. ~raced
    BY DEF Next, vars, HandlerStep, RequestStep, DefaultTopicMessage, CustomTopicMessage, Query,
        Record, MissExpires, FindDevice, FindSighting, UpdateSighting, InsertSighting,
        BeginRegister, InsertDevice, DeleteSighting, CommitRegister, AbortRegister, DeleteDevice,
        Ignore, Unignore, BeginUpdate, UpdateStep, CompareUpdate, WriteUpdate, InsertUpdateFails,
        CommitUpdate, Crash
  <2>1. ASSUME NEW h \in Handlers, NEW d \in Devices, DefaultTopicMessage(h, d) PROVE NoStaleHit'
    <3>1. \A g \in Handlers : handler'[g].pc \in {"query", "record"} => handler'[g] = handler[g]
      BY <2>0, <2>1 DEF DefaultTopicMessage, HandlerGoesOn, AtDevice
    <3>2. QED
      BY <2>1, <2>a, <3>1, HitsUntouched DEF DefaultTopicMessage
  <2>2. ASSUME NEW h \in Handlers, NEW t \in Topics, CustomTopicMessage(h, t) PROVE NoStaleHit'
    <3>1. UNCHANGED <<device, resolved, update>>
      BY <2>2 DEF CustomTopicMessage
    <3>2. CASE HandlerGoesOn(h, Dispatched(resolved[t]))
      <4>1. \A g \in Handlers : handler'[g].pc \in {"query", "record"} => handler'[g] = handler[g]
        BY <2>0, <3>2 DEF HandlerGoesOn, Dispatched, AtDevice, Idle
      <4>2. QED
        BY <2>a, <3>1, <4>1, HitsUntouched
    <3>3. CASE /\ HandlerGoesOn(h, [pc |-> "query", topic |-> t])
               /\ raced' = (raced \/ \E u \in Updates : update[u].pc = "commit" /\ update[u].topics)
      <4>1. \A u \in Updates : update[u].pc = "commit" => ~update[u].topics
        BY <3>3
      <4>2. \A g \in Handlers : handler'[g].pc = "record" => handler'[g] = handler[g]
        BY <2>0, <3>3 DEF HandlerGoesOn
      <4>3. \A u : Found(u)' = Found(u)
        BY <3>1 DEF Found, Owner, Registered
      <4>4. QED
        BY <2>a, <3>1, <4>1, <4>2, <4>3 DEF NoStaleHit
    <3>4. QED
      BY <2>2, <3>2, <3>3 DEF CustomTopicMessage
  <2>3. ASSUME NEW h \in Handlers, Query(h) PROVE NoStaleHit'
    <3> DEFINE t == handler[h].topic
    <3>1. UNCHANGED <<device, resolved, update>> /\ handler[h].pc = "query"
      BY <2>3 DEF Query
    <3>2. PICK found \in IF Found(t) = {} THEN {Miss} ELSE Found(t) :
             HandlerGoesOn(h, [pc |-> "record", topic |-> t, found |-> found])
      BY <2>3 DEF Query
    <3>3. /\ handler'[h].topic = t /\ handler'[h].found = found
          /\ \A g \in Handlers : g # h => handler'[g] = handler[g]
      BY <2>0, <3>2 DEF HandlerGoesOn
    <3>4. found # Miss => found \in Found(t)
      BY <3>2
    <3>5. \A u \in Updates : update[u].pc = "commit" => ~update[u].topics
      BY <2>a, <3>1 DEF NoStaleHit, LookupInProgress
    <3>6. \A u : Found(u)' = Found(u)
      BY <3>1 DEF Found, Owner, Registered
    <3> HIDE DEF t
    <3>7. QED
      BY <2>a, <3>1, <3>3, <3>4, <3>5, <3>6 DEF NoStaleHit
  <2>4. ASSUME NEW h \in Handlers, Record(h) PROVE NoStaleHit'
    <3> DEFINE t == handler[h].topic
               found == handler[h].found
    <3>1. UNCHANGED <<device, update>> /\ handler[h].pc = "record"
      BY <2>4 DEF Record
    <3>2. t \in Topics /\ found \in Hit \cup {Miss}
      BY <2>0, <3>1 DEF Handling, Idle
    <3>3. \A u \in Updates : update[u].pc = "commit" => ~update[u].topics
      BY <2>a, <3>1 DEF NoStaleHit, LookupInProgress
    <3>4. \A g \in Handlers : handler'[g].pc \in {"query", "record"} => handler'[g] = handler[g]
      BY <2>0, <2>4 DEF Record, HandlerGoesOn, Dispatched, AtDevice, Idle
    <3>5. \A u \in Topics : resolved'[u] = resolved[u] \/ (u = t /\ found # Miss /\ resolved'[u] = found)
      BY <2>0, <2>4, <3>2 DEF Record
    <3>6. found # Miss => found \in Found(t)
      BY <2>a, <3>1 DEF NoStaleHit
    <3>7. \A u : Found(u)' = Found(u)
      BY <3>1 DEF Found, Owner, Registered
    <3> HIDE DEF t, found
    <3>8. QED
      BY <2>a, <3>1, <3>3, <3>4, <3>5, <3>6, <3>7 DEF NoStaleHit
  <2>5. ASSUME NEW h \in Handlers,
               FindDevice(h) \/ FindSighting(h) \/ UpdateSighting(h) \/ InsertSighting(h)
        PROVE NoStaleHit'
    <3>1. \A g \in Handlers : handler'[g].pc \in {"query", "record"} => handler'[g] = handler[g]
      BY <2>0, <2>5 DEF FindDevice, FindSighting, UpdateSighting, InsertSighting, HandlerGoesOn,
                        AtDevice, Idle
    <3>2. UNCHANGED <<device, resolved, update>>
      BY <2>5 DEF FindDevice, FindSighting, UpdateSighting, InsertSighting
    <3>3. QED
      BY <2>a, <3>1, <3>2, HitsUntouched
  <2>6. ASSUME NEW q \in Requests, CommitRegister(q) PROVE NoStaleHit'
    <3>1. UNCHANGED <<resolved, handler, update>>
      BY <2>6 DEF CommitRegister
    <3>2. ~Registered(request[q].device) /\ request[q].device \in Devices
      BY <2>0, <2>6 DEF CommitRegister, OneInserter, Inserts, Idle, RequestJob
    <3>3. \A d \in Devices : Registered(d) => device'[d] = device[d]
      BY <2>0, <2>6, <3>2 DEF CommitRegister
    <3>4. QED
      BY <2>a, <3>1, <3>3, HitsUntouched
  <2>7. ASSUME NEW u \in Updates,
               \/ \E d \in Devices : BeginUpdate(u, d)
               \/ CompareUpdate(u) \/ InsertUpdateFails(u)
        PROVE  NoStaleHit'
    <3>1. UNCHANGED <<device, resolved, handler>>
      BY <2>7 DEF BeginUpdate, CompareUpdate, InsertUpdateFails
    <3>2. \A v \in Updates : v # u => update'[v] = update[v]
      BY <2>0, <2>7 DEF BeginUpdate, CompareUpdate, InsertUpdateFails, UpdateGoesOn
    <3>3. update'[u].pc # "commit"
      <4>1. CASE CompareUpdate(u)
        <5>1. update[u] \in Updating
          BY <2>0, <4>1 DEF CompareUpdate, Idle
        <5>2. PICK columns : update'[u] = [update[u] EXCEPT !.pc = "write", !.columns = columns]
          BY <2>0, <4>1 DEF CompareUpdate, UpdateGoesOn
        <5>3. QED
          BY <5>1, <5>2 DEF Updating
      <4>2. CASE \E d \in Devices : BeginUpdate(u, d)
        BY <2>0, <4>2 DEF BeginUpdate, UpdateGoesOn
      <4>3. CASE InsertUpdateFails(u)
        BY <2>0, <4>3 DEF InsertUpdateFails, UpdateGoesOn, Idle
      <4>4. QED
        BY <2>7, <4>1, <4>2, <4>3
    <3>4. QED
      BY <2>a, <3>1, <3>2, <3>3, HitsUntouched
  <2>8. ASSUME NEW u \in Updates, WriteUpdate(u) PROVE NoStaleHit'
    <3>1. UNCHANGED <<device, handler>>
      BY <2>8 DEF WriteUpdate
    <3>2. update[u] \in Updating
      BY <2>0, <2>8 DEF WriteUpdate, Idle
    <3>3. /\ update'[u] = [update[u] EXCEPT !.pc = "commit"]
          /\ \A v \in Updates : v # u => update'[v] = update[v]
      BY <2>0, <2>8 DEF WriteUpdate, UpdateGoesOn
    <3>4. update'[u].topics = update[u].topics /\ update'[u].columns = update[u].columns
      BY <3>2, <3>3 DEF Updating
    <3>5. CASE ~update[u].topics
      <4>1. UNCHANGED resolved /\ update[u].columns = {}
        BY <2>8, <3>5 DEF WriteUpdate
      <4>2. QED
        BY <2>a, <3>1, <3>3, <3>4, <3>5, <4>1, HitsUntouched
    <3>6. CASE update[u].topics
      <4>0. resolved' = Cleared /\ raced' = (raced \/ LookupInProgress)
        BY <2>8, <3>6 DEF WriteUpdate
      <4>1. ~LookupInProgress /\ ~LookupInProgress'
        BY <3>1, <4>0 DEF LookupInProgress
      <4>2. \A t \in Topics : resolved'[t] = Miss
        BY <4>0 DEF Cleared, Empty
      <4>3. \A h \in Handlers : handler'[h].pc # "record"
        BY <3>1, <4>1 DEF LookupInProgress
      <4>4. QED
        BY <2>a, <3>3, <3>4, <3>6, <4>0, <4>1, <4>2, <4>3 DEF NoStaleHit, Cleared
    <3>7. QED
      BY <3>5, <3>6
  <2>9. ASSUME NEW u \in Updates, CommitUpdate(u) PROVE NoStaleHit'
    <3>1. /\ UNCHANGED <<resolved, handler>> /\ update[u].pc = "commit" /\ update'[u] = Idle
          /\ \A v \in Updates : v # u => update'[v] = update[v]
      BY <2>0, <2>9 DEF CommitUpdate, UpdateGoesOn
    <3>2. CASE update[u].topics
      <4>1. resolved = Empty /\ ~LookupInProgress
        BY <2>a, <3>1, <3>2 DEF NoStaleHit
      <4>2. /\ \A t \in Topics : resolved'[t] = Miss
            /\ \A h \in Handlers : handler'[h].pc # "record"
            /\ ~LookupInProgress'
        BY <3>1, <4>1 DEF Empty, LookupInProgress
      <4>3. QED
        BY <2>a, <3>1, <4>1, <4>2 DEF NoStaleHit, Idle
    <3>3. CASE ~update[u].topics
      <4>1. update[u].columns = {} /\ update[u] \in Updating /\ update[u].device \in Devices
        BY <2>0, <2>a, <3>1, <3>3 DEF NoStaleHit, Idle, Updating
      <4>2. Written(update[u], device[update[u].device]) = device[update[u].device]
        BY <2>0, <4>1, NothingWritten
      <4>3. device' = device
        BY <2>0, <2>9, <4>2 DEF CommitUpdate
      <4>4. QED
        BY <2>a, <3>1, <4>3, HitsUntouched DEF Idle
    <3>4. QED
      BY <3>2, <3>3
  <2>10. CASE Crash
    <3>1. /\ \A t \in Topics : resolved'[t] = Miss
          /\ \A h \in Handlers : handler'[h].pc = "idle"
          /\ \A u \in Updates : update'[u].pc = "idle"
      BY <2>10 DEF Crash, Empty, Idle
    <3>2. QED
      BY <3>1 DEF NoStaleHit
  <2>11. CASE UNCHANGED <<device, resolved, handler, update>>
    BY <2>a, <2>11, HitsUntouched
  <2>12. \A d \in Devices : ~DeleteDevice(d)
    BY DEF DeleteDevice
  <2>13. QED
    BY <2>1, <2>2, <2>3, <2>4, <2>5, <2>6, <2>7, <2>8, <2>9, <2>10, <2>11, <2>12
    DEF Next, vars, HandlerStep, RequestStep, MissExpires, BeginRegister, InsertDevice,
        DeleteSighting, AbortRegister, Ignore, Unignore, UpdateStep
<1>3. QED
  BY <1>1, <1>2, OneInserterInductive, TypeCorrect, PTL DEF Spec

\* A topic the cache answers for belongs to the device it names, for any number of
\* concurrent messages, registrations and updates of topics, however their writes,
\* their waits for one another and their commits interleave, apart from the three
\* races.
THEOREM HitsStayCurrent == Spec => []HitsAreCurrent
<1>1. NoStaleHit => HitsAreCurrent
  BY DEF NoStaleHit, HitsAreCurrent
<1>2. QED
  BY <1>1, NoStaleHitInductive, PTL

-----------------------------------------------------------------------------
(***************************************************************************)
(* A topic once its device is configured.  A lookup that has queried       *)
(* before may still record a miss; no later one does, so the misses of the *)
(* topic run out, and a lookup that ends is a hit for good.                *)
(***************************************************************************)
\* h looks the topic up, or has found nothing and is about to record that.
LooksUp(h, t)   == handler[h].pc \in {"query", "record"} /\ handler[h].topic = t
MissUnderWay(t) == \E h \in Handlers : LooksUp(h, t) /\ handler[h].pc = "record" /\ handler[h].found = Miss

Unchanging == UNCHANGED <<device, count, update>>

\* A miss is no hit.
LEMMA MissIsNoHit == Miss \notin Hit
<1> SUFFICES ASSUME Miss \in Hit PROVE FALSE
  OBVIOUS
<1>1. DOMAIN Miss = {"miss"} /\ DOMAIN Miss = {"device", "role"}
  BY DEF Miss, Hit
<1>2. "role" \notin {"miss"}
  OBVIOUS
<1>3. QED
  BY <1>1, <1>2

\* While nothing is changed only messages touch the cache and its lookups: one more
\* begins to be looked up, or is dispatched, or a query or a record ends.
LEMMA QuietSteps ==
  ASSUME TypeOK, [Next]_vars, Unchanging
  PROVE  \/ \E h \in Handlers : Query(h) \/ Record(h)
         \/ \E h \in Handlers, u \in Topics : CustomTopicMessage(h, u)
         \/ \E u \in Topics : MissExpires(u)
         \/ /\ UNCHANGED <<resolved, missed>>
            /\ \/ UNCHANGED handler
               \/ \E h \in Handlers, next \in Handling \cup {Idle} :
                     /\ HandlerGoesOn(h, next) /\ next.pc \notin {"query", "record"}
                     /\ handler[h].pc \notin {"query", "record"}
<1>1. ASSUME NEW h \in Handlers,
             \/ \E d \in Devices : DefaultTopicMessage(h, d)
             \/ FindDevice(h) \/ FindSighting(h) \/ UpdateSighting(h) \/ InsertSighting(h)
      PROVE  /\ UNCHANGED <<resolved, missed>>
             /\ \E next \in Handling \cup {Idle} :
                   /\ HandlerGoesOn(h, next) /\ next.pc \notin {"query", "record"}
                   /\ handler[h].pc \notin {"query", "record"}
  <2>1. \A d \in Devices, pc \in {"find", "sight", "update", "insert"} :
           AtDevice(pc, d) \in Handling /\ AtDevice(pc, d).pc = pc
    BY DEF AtDevice, Handling
  <2>2. Idle.pc = "idle"
    BY DEF Idle
  <2>3. CASE \E d \in Devices : DefaultTopicMessage(h, d)
    BY <2>1, <2>2, <2>3 DEF DefaultTopicMessage
  <2>4. handler[h].pc \in {"find", "sight"} => handler[h].device \in Devices
    BY DEF TypeOK, Handling, Idle
  <2>5. CASE FindDevice(h)
    BY <2>1, <2>2, <2>4, <2>5 DEF FindDevice
  <2>6. CASE FindSighting(h)
    BY <2>1, <2>2, <2>4, <2>6 DEF FindSighting
  <2>7. CASE UpdateSighting(h) \/ InsertSighting(h)
    BY <2>2, <2>7 DEF UpdateSighting, InsertSighting
  <2>8. QED
    BY <1>1, <2>3, <2>5, <2>6, <2>7
<1>2. ASSUME \/ \E q \in Requests : RequestStep(q) \/ AbortRegister(q) \/ \E d \in Devices : BeginRegister(q, d)
             \/ \E d \in Devices : DeleteDevice(d) \/ Ignore(d) \/ Unignore(d)
             \/ \E u \in Updates : CompareUpdate(u) \/ InsertUpdateFails(u) \/ CommitUpdate(u)
                                   \/ \E d \in Devices : BeginUpdate(u, d)
             \/ UNCHANGED vars
      PROVE  UNCHANGED <<resolved, missed, handler>>
  BY <1>2 DEF RequestStep, InsertDevice, DeleteSighting, CommitRegister, AbortRegister, BeginRegister,
     DeleteDevice, Ignore, Unignore, BeginUpdate, CompareUpdate, InsertUpdateFails, CommitUpdate, vars
<1>3. ASSUME NEW u \in Updates, WriteUpdate(u) PROVE FALSE
  <2>1. update[u] \in Updating /\ update[u].pc = "write"
    BY <1>3 DEF WriteUpdate, TypeOK, Idle
  <2>2. update'[u] = [update[u] EXCEPT !.pc = "commit"]
    BY <1>3 DEF WriteUpdate, UpdateGoesOn, TypeOK
  <2>3. update'[u].pc = "commit"
    BY <2>1, <2>2 DEF Updating
  <2>4. QED
    BY <2>1, <2>3 DEF Unchanging
<1>4. ~ Crash
  <2>1. count.crashes \in Nat /\ DOMAIN count = {"changes", "crashes"}
    BY BoundsAssumption DEF TypeOK
  <2>2. QED
    BY <2>1 DEF Crash, Unchanging
<1>5. QED
  BY <1>1, <1>2, <1>3, <1>4 DEF Next, HandlerStep, UpdateStep

\* A topic that has a device and no miss under way.
LEMMA LookupsHit ==
  ASSUME TypeOK, [Next]_vars, Unchanging, NEW t \in Topics, NEW h \in Handlers,
         Found(t) # {}, ~ MissUnderWay(t)
  PROVE  /\ Found(t)' # {} /\ ~ MissUnderWay(t)'
         /\ missed[t] # "recently" => missed'[t] # "recently"
         /\ resolved[t] # Miss => resolved'[t] # Miss
         /\ LooksUp(h, t) => LooksUp(h, t)' \/ resolved'[t] # Miss
<1>1. Found(t)' = Found(t)
  BY DEF Unchanging, Found, Owner, Registered
<1>2. Idle.pc = "idle" /\ \A hit \in Hit : Dispatched(hit).pc \in {"idle", "find"}
  BY DEF Idle, Dispatched, AtDevice
<1>3. ASSUME NEW g \in Handlers, Query(g)
      PROVE  /\ UNCHANGED <<resolved, missed>> /\ ~ MissUnderWay(t)'
             /\ LooksUp(h, t) => LooksUp(h, t)'
  <2>1. PICK u, found : /\ u = handler[g].topic /\ found \in IF Found(u) = {} THEN {Miss} ELSE Found(u)
                        /\ handler' = [handler EXCEPT ![g] = [pc |-> "record", topic |-> u, found |-> found]]
                        /\ UNCHANGED <<resolved, missed>> /\ handler[g].pc = "query"
    BY <1>3 DEF Query, HandlerGoesOn
  <2>2. u = t => found # Miss
    BY <2>1, FoundType, MissIsNoHit DEF TypeOK
  <2>3. handler'[g] = [pc |-> "record", topic |-> u, found |-> found]
        /\ \A k \in Handlers \ {g} : handler'[k] = handler[k]
    BY <2>1 DEF TypeOK
  <2>4. LooksUp(h, t) => LooksUp(h, t)'
    BY <2>1, <2>3 DEF LooksUp
  <2>5. ~ MissUnderWay(t)'
    BY <2>2, <2>3 DEF MissUnderWay, LooksUp
  <2>6. QED
    BY <2>1, <2>4, <2>5
<1>4. ASSUME NEW g \in Handlers, Record(g)
      PROVE  /\ ~ MissUnderWay(t)'
             /\ missed[t] # "recently" => missed'[t] # "recently"
             /\ resolved[t] # Miss => resolved'[t] # Miss
             /\ LooksUp(h, t) => LooksUp(h, t)' \/ resolved'[t] # Miss
  <2>1. PICK u, found : /\ u = handler[g].topic /\ found = handler[g].found /\ handler[g].pc = "record"
                        /\ \/ /\ found = Miss /\ missed' = [missed EXCEPT ![u] = "recently"]
                              /\ UNCHANGED resolved /\ handler' = [handler EXCEPT ![g] = Idle]
                           \/ /\ found # Miss /\ resolved' = [resolved EXCEPT ![u] = found]
                              /\ missed' = [missed EXCEPT ![u] = "never"]
                              /\ handler' = [handler EXCEPT ![g] = Dispatched(found)]
    BY <1>4 DEF Record, HandlerGoesOn
  <2>2. u \in Topics /\ found \in Hit \cup {Miss} /\ (u = t => found # Miss)
    BY <2>1 DEF TypeOK, Handling, Idle, MissUnderWay, LooksUp
  <2>3. handler'[g].pc \in {"idle", "find"} /\ \A k \in Handlers \ {g} : handler'[k] = handler[k]
    BY <1>2, <2>1, <2>2 DEF TypeOK
  <2>4. /\ u = t => resolved'[t] # Miss /\ missed'[t] = "never"
        /\ u # t => resolved'[t] = resolved[t] /\ missed'[t] = missed[t]
    BY <2>1, <2>2 DEF TypeOK
  <2>5. ~ MissUnderWay(t)'
    BY <2>3 DEF MissUnderWay, LooksUp
  <2>6. LooksUp(h, t) => LooksUp(h, t)' \/ resolved'[t] # Miss
    BY <2>1, <2>3, <2>4 DEF LooksUp
  <2>7. QED
    BY <2>4, <2>5, <2>6
<1>5. ASSUME NEW g \in Handlers, NEW u \in Topics, CustomTopicMessage(g, u)
      PROVE  /\ UNCHANGED <<resolved, missed>> /\ ~ MissUnderWay(t)'
             /\ LooksUp(h, t) => LooksUp(h, t)'
  <2>1. PICK next : /\ next.pc # "record" /\ handler[g] = Idle
                    /\ handler' = [handler EXCEPT ![g] = next] /\ UNCHANGED <<resolved, missed>>
    <3>1. resolved[u] # Miss => resolved[u] \in Hit
      BY DEF TypeOK
    <3>2. QED
      BY <1>2, <1>5, <3>1 DEF CustomTopicMessage, HandlerGoesOn
  <2>2. handler'[g].pc # "record" /\ \A k \in Handlers \ {g} : handler'[k] = handler[k]
    BY <2>1 DEF TypeOK
  <2>3. QED
    BY <1>2, <2>1, <2>2 DEF MissUnderWay, LooksUp
<1>6. ASSUME NEW u \in Topics, MissExpires(u)
      PROVE  /\ UNCHANGED <<resolved, handler>>
             /\ missed[t] # "recently" => missed'[t] # "recently"
  BY <1>6 DEF MissExpires, TypeOK
<1>7. ASSUME NEW g \in Handlers, NEW next, HandlerGoesOn(g, next),
             next.pc \notin {"query", "record"}, handler[g].pc \notin {"query", "record"}
      PROVE  ~ MissUnderWay(t)' /\ (LooksUp(h, t) => LooksUp(h, t)')
  <2>1. handler'[g] = next /\ \A k \in Handlers \ {g} : handler'[k] = handler[k]
    BY <1>7 DEF HandlerGoesOn, TypeOK
  <2>2. QED
    BY <1>7, <2>1 DEF MissUnderWay, LooksUp
<1>8. ASSUME UNCHANGED handler
      PROVE  ~ MissUnderWay(t)' /\ (LooksUp(h, t) => LooksUp(h, t)')
  BY <1>8 DEF MissUnderWay, LooksUp
<1>9. QED
  BY <1>1, <1>3, <1>4, <1>5, <1>6, <1>7, <1>8, QuietSteps

\* TopicsAreFound without its "eventually": once a topic has a device, what was queried
\* before is recorded and nothing is changed any more, a miss that runs out is the last
\* one, and every lookup that is or gets under way ends in a hit that stays.
THEOREM NextLookupFinds ==
  ASSUME NEW t \in Topics, NEW h \in Handlers
  PROVE  Spec => [](Found(t) # {} /\ ~ MissUnderWay(t) /\ [][Unchanging]_vars
                    => /\ [](missed[t] # "recently" => [](missed[t] # "recently"))
                       /\ [](LooksUp(h, t) => [](LooksUp(h, t) \/ [](resolved[t] # Miss))))
<1>1. TypeOK /\ [Next]_vars /\ [Unchanging]_vars /\ Found(t) # {} /\ ~ MissUnderWay(t)
        => /\ (Found(t) # {})' /\ ~ MissUnderWay(t)'
           /\ missed[t] # "recently" => (missed[t] # "recently")'
           /\ resolved[t] # Miss => (resolved[t] # Miss)'
           /\ LooksUp(h, t) => LooksUp(h, t)' \/ (resolved[t] # Miss)'
  <2>1. UNCHANGED vars => Unchanging
    BY DEF vars, Unchanging
  <2>2. QED
    BY <2>1, LookupsHit
<1>2. QED
  BY <1>1, TypeCorrect, PTL DEF Spec
=============================================================================
