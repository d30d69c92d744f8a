------------------------- MODULE DeviceActions_proofs -------------------------
(***************************************************************************)
(* Proofs about DeviceActions, for any channels and values, any number of  *)
(* concurrent requests, commands, gateway changes and failures.            *)
(***************************************************************************)
EXTENDS DeviceActions, TLAPS

(***************************************************************************)
(* Every event writes all channels, from a copy its handler took before.   *)
(* No write is lost because nothing writes between the copy and its use:   *)
(* for a device behind a gateway only one handler is at work at a time,    *)
(* its copy is what the row still holds, and no request writes the row.    *)
(***************************************************************************)
OneAtATime == \A g, h \in Handlers : handler[g] # Idle /\ handler[h] # Idle => g = h

CopyIsCurrent == \A h \in Handlers : handler[h] # Idle => handler[h].loaded = channelStates

RequestsDoNotWrite == \A q \in Requests : request[q].pc \in {"idle", "send", "audit", "optimistic"}

ChannelInv ==
    push = "KAFKA" =>
       /\ channelStates = applied
       /\ OneAtATime
       /\ CopyIsCurrent
       /\ RequestsDoNotWrite

\* What the invariant needs to know of the types.
FunctionsOK == /\ DOMAIN request = Requests
               /\ DOMAIN handler = Handlers

\* One handler at a time, whose copy is current, in every reachable state.
LEMMA ChannelInvInductive == Spec => [](FunctionsOK /\ ChannelInv)
<1>1. Init => FunctionsOK /\ ChannelInv
  BY DEF Init, FunctionsOK, ChannelInv, OneAtATime, CopyIsCurrent, RequestsDoNotWrite, Idle
<1>2. FunctionsOK /\ ChannelInv /\ [Next]_vars => FunctionsOK' /\ ChannelInv'
  <2> SUFFICES ASSUME FunctionsOK, ChannelInv, [Next]_vars
               PROVE FunctionsOK' /\ ChannelInv'
    OBVIOUS
  <2> USE DEF FunctionsOK, Idle
  <2>1. ASSUME NEW q \in Requests,
               StartAction(q) \/ SendCommand(q) \/ SendFails(q) \/ PublishMqtt(q)
               \/ PublishMqttFails(q) \/ FindForRequest(q) \/ Audit(q) \/ Optimistic(q)
               \/ CompanionFails(q)
        PROVE FunctionsOK' /\ ChannelInv'
    <3>1. UNCHANGED <<push, channelStates, applied, handler>>
      BY <2>1 DEF StartAction, SendCommand, SendFails, PublishMqtt, PublishMqttFails,
                  FindForRequest, Audit, Optimistic, CompanionFails
    <3>2. PICK job : request' = [request EXCEPT ![q] = job]
      BY <2>1 DEF StartAction, SendCommand, SendFails, PublishMqtt, PublishMqttFails,
                  FindForRequest, Audit, Optimistic, CompanionFails, Continue, Return
    <3>3. push = "KAFKA" => RequestsDoNotWrite'
      <4> SUFFICES ASSUME push = "KAFKA", NEW p \in Requests
                   PROVE request'[p].pc \in {"idle", "send", "audit", "optimistic"}
        BY DEF RequestsDoNotWrite
      <4>1. request[q].pc \in {"idle", "send", "audit", "optimistic"}
        BY DEF ChannelInv, RequestsDoNotWrite
      <4>2. request'[q].pc \in {"idle", "send", "audit", "optimistic"}
        BY <2>1, <4>1 DEF StartAction, SendCommand, SendFails, PublishMqtt, PublishMqttFails,
                  FindForRequest, Audit, Optimistic, CompanionFails, Continue, Return
      <4>3. QED
        BY <3>2, <4>2 DEF ChannelInv, RequestsDoNotWrite
    <3>4. QED
      BY <3>1, <3>2, <3>3 DEF ChannelInv, OneAtATime, CopyIsCurrent
  <2>2. ASSUME NEW q \in Requests, ApplyForRequest(q) PROVE FunctionsOK' /\ ChannelInv'
    BY <2>2 DEF ApplyForRequest, Continue, ChannelInv, RequestsDoNotWrite
  <2>3. CASE DeviceObeys \/ DeviceRefuses \/ DeviceFails \/ GatewayChange
    BY <2>3 DEF DeviceObeys, DeviceRefuses, DeviceFails, GatewayChange,
                ChannelInv, OneAtATime, CopyIsCurrent, RequestsDoNotWrite
  <2>4. ASSUME NEW h \in Handlers, TakeEvent(h) PROVE FunctionsOK' /\ ChannelInv'
    <3>1. UNCHANGED <<push, channelStates, applied, request>>
      BY <2>4 DEF TakeEvent
    <3>2. PICK job : /\ handler' = [handler EXCEPT ![h] = job]
                     /\ job.loaded = channelStates
      BY <2>4 DEF TakeEvent, Load
    <3>3. push = "KAFKA" => \A g \in Handlers : handler[g] = Idle
      BY <2>4 DEF TakeEvent, MayStart, IsRecord
    <3>4. push = "KAFKA" => OneAtATime' /\ CopyIsCurrent'
      BY <3>1, <3>2, <3>3 DEF OneAtATime, CopyIsCurrent
    <3>5. QED
      BY <3>1, <3>2, <3>4 DEF ChannelInv, RequestsDoNotWrite
  <2>5. ASSUME NEW h \in Handlers, UpdateStates(h) PROVE FunctionsOK' /\ ChannelInv'
    <3>1. UNCHANGED <<push, request>> /\ handler' = [handler EXCEPT ![h] = Idle] /\ handler[h] # Idle
      BY <2>5 DEF UpdateStates
    <3>2. push = "KAFKA" => channelStates' = applied'
      BY <2>5, <3>1 DEF UpdateStates, ChannelInv, CopyIsCurrent
    <3>3. push = "KAFKA" => \A g \in Handlers : handler'[g] = Idle
      BY <3>1 DEF ChannelInv, OneAtATime
    <3>4. QED
      BY <3>1, <3>2, <3>3 DEF ChannelInv, OneAtATime, CopyIsCurrent, RequestsDoNotWrite
  <2>6. ASSUME NEW h \in Handlers, HandlerFails(h) PROVE FunctionsOK' /\ ChannelInv'
    BY <2>6 DEF HandlerFails, ChannelInv, OneAtATime, CopyIsCurrent, RequestsDoNotWrite
  <2>7. CASE Crash
    BY <2>7 DEF Crash, ChannelInv, OneAtATime, CopyIsCurrent, RequestsDoNotWrite
  <2>8. CASE UNCHANGED vars
    BY <2>8 DEF vars, ChannelInv, OneAtATime, CopyIsCurrent, RequestsDoNotWrite
  <2>9. QED
    BY <2>1, <2>2, <2>3, <2>4, <2>5, <2>6, <2>7, <2>8
       DEF Next, RequestStep, RequestFault, DeviceStep, HandlerStep
<1>3. QED
  BY <1>1, <1>2, PTL DEF Spec

\* For a device behind a gateway no channel's state is ever lost to an event
\* about another channel, whatever is in progress and whatever fails.
THEOREM NoUpdateIsLost == Spec => []NoLostUpdate
<1>1. FunctionsOK /\ ChannelInv => NoLostUpdate
  BY DEF ChannelInv, NoLostUpdate
<1>2. QED
  BY <1>1, ChannelInvInductive, PTL
-----------------------------------------------------------------------------
\* The head and the rest of a non-empty queue.
LEMMA HeadTail ==
  ASSUME NEW S, NEW s \in Seq(S), s # <<>> PROVE Head(s) \in S /\ Tail(s) \in Seq(S)
OBVIOUS

\* Appending keeps the elements' type.
LEMMA AppendType ==
  ASSUME NEW S, NEW s \in Seq(S), NEW e \in S PROVE Append(s, e) \in Seq(S)
OBVIOUS

\* The job a request goes on with.
LEMMA ContinueType ==
  ASSUME NEW q \in Requests, NEW pc \in {"mqtt", "find", "audit", "optimistic"},
         request \in [Requests -> RequestJob \cup {Idle}], request[q] # Idle, Continue(q, pc)
  PROVE  request' \in [Requests -> RequestJob \cup {Idle}]
<1>1. request[q].command \in Command
  BY DEF RequestJob
<1>2. [pc |-> pc, command |-> request[q].command] \in RequestJob
  BY <1>1 DEF RequestJob
<1>3. QED
  BY <1>2 DEF Continue

\* The count of incidents stays within its bound.
LEMMA IncidentType == ASSUME count \in Counts, Incident PROVE count' \in Counts /\ clean' \in BOOLEAN
<1> USE BoundsAssumption
<1>1. count.commands \in 0 .. MaxCommands /\ count.incidents \in 0 .. MaxIncidents
  BY DEF Counts
<1>2. count.incidents + 1 \in 0 .. MaxIncidents
  BY <1>1 DEF Incident
<1>3. count' = [commands |-> count.commands, incidents |-> count.incidents + 1]
  BY DEF Incident, Counts
<1>4. count' \in Counts
  BY <1>1, <1>2, <1>3 DEF Counts
<1>5. clean' \in BOOLEAN
  BY DEF Incident
<1>6. QED
  BY <1>4, <1>5

\* The count of commands stays within its bound.
LEMMA CommandCountType ==
  ASSUME count \in Counts, count.commands < MaxCommands,
         count' = [count EXCEPT !.commands = @ + 1]
  PROVE  count' \in Counts
<1> USE BoundsAssumption
<1>1. count.commands \in 0 .. MaxCommands /\ count.incidents \in 0 .. MaxIncidents
  BY DEF Counts
<1>2. count' = [commands |-> count.commands + 1, incidents |-> count.incidents]
  BY DEF Counts
<1>3. QED
  BY <1>1, <1>2 DEF Counts

\* Writing a channel keeps the states' type.
LEMMA WriteType ==
  ASSUME NEW s \in States, NEW k \in Keys, NEW v \in Values PROVE [s EXCEPT ![k] = v] \in States
BY DEF States, Value

\* A queue keeps its type when an unfinished record is put back.
LEMMA RedeliveredType ==
  ASSUME handler \in [Handlers -> HandlerJob \cup {Idle}], NEW from, NEW s \in Seq(Event)
  PROVE  Redelivered(from, s) \in Seq(Event)
<1>1. CASE Unfinished(from) = {}
  BY <1>1 DEF Redelivered
<1>2. CASE Unfinished(from) # {}
  <2> DEFINE g == CHOOSE h \in Unfinished(from) : TRUE
  <2>1. g \in Handlers /\ handler[g] # Idle
    BY <1>2 DEF Unfinished
  <2>2. handler[g].event \in Event
    BY <2>1 DEF HandlerJob
  <2> HIDE DEF g
  <2>3. <<handler[g].event>> \o s \in Seq(Event)
    BY <2>2
  <2>4. QED
    BY <1>2, <2>3 DEF Redelivered, g
<1>3. QED
  BY <1>1, <1>2

\* The state of actions and channels is well typed: requests, devices and handlers
\* only ever exchange and store values of the device's channels.
THEOREM TypeCorrect == Spec => []TypeOK
<1> USE BoundsAssumption
<1>1. Init => TypeOK
  BY DEF Init, TypeOK, States, Value, Counts
<1>2. TypeOK /\ [Next]_vars => TypeOK'
  <2> SUFFICES ASSUME TypeOK, [Next]_vars PROVE TypeOK'
    OBVIOUS
  <2> USE DEF TypeOK
  <2>1. ASSUME NEW q \in Requests, StartAction(q) PROVE TypeOK'
    <3>1. PICK c \in Command :
             /\ request' = [request EXCEPT ![q] = [pc |-> "send", command |-> c]]
             /\ waiting' = waiting \cup {c.key}
      BY <2>1 DEF StartAction
    <3>2. request' \in [Requests -> RequestJob \cup {Idle}]
      BY <3>1 DEF RequestJob
    <3>3. waiting' \subseteq Keys
      BY <3>1 DEF Command
    <3>4. count' \in Counts
      BY <2>1, CommandCountType DEF StartAction
    <3>5. clean' \in BOOLEAN
      BY <2>1 DEF StartAction
    <3>6. QED
      BY <2>1, <3>2, <3>3, <3>4, <3>5 DEF StartAction
  <2>2. ASSUME NEW q \in Requests, SendCommand(q) \/ PublishMqtt(q) PROVE TypeOK'
    <3>1. request[q] # Idle /\ request[q].command \in Command
      BY <2>2 DEF SendCommand, PublishMqtt, Idle, RequestJob
    <3>2. PICK pc \in {"mqtt", "find", "audit"} : Continue(q, pc)
      BY <2>2 DEF SendCommand, PublishMqtt
    <3>3. request' \in [Requests -> RequestJob \cup {Idle}]
      BY <3>1, <3>2, ContinueType
    <3>4. commands' \in Seq(Command)
      <4>1. Append(commands, request[q].command) \in Seq(Command)
        BY <3>1, AppendType
      <4>2. QED
        BY <2>2, <4>1 DEF SendCommand, PublishMqtt
    <3>5. QED
      BY <2>2, <3>3, <3>4 DEF SendCommand, PublishMqtt
  <2>3. ASSUME NEW q \in Requests, SendFails(q) PROVE TypeOK'
    <3>1. request' \in [Requests -> RequestJob \cup {Idle}]
      BY <2>3 DEF SendFails, Return
    <3>2. count' \in Counts /\ clean' \in BOOLEAN
      BY <2>3, IncidentType DEF SendFails
    <3>3. QED
      BY <2>3, <3>1, <3>2 DEF SendFails
  <2>4. ASSUME NEW q \in Requests, Audit(q) PROVE TypeOK'
    <3>1. request' \in [Requests -> RequestJob \cup {Idle}]
      BY <2>4, ContinueType DEF Audit, Idle
    <3>2. QED
      BY <2>4, <3>1 DEF Audit
  <2>5. ASSUME NEW q \in Requests, PublishMqttFails(q) \/ CompanionFails(q) PROVE TypeOK'
    <3>0. count' \in Counts /\ clean' \in BOOLEAN
      BY <2>5, IncidentType DEF PublishMqttFails, CompanionFails
    <3>1. CASE Continue(q, "audit") /\ request[q] # Idle
      <4>1. request' \in [Requests -> RequestJob \cup {Idle}]
        BY <3>1, ContinueType
      <4>2. QED
        BY <2>5, <3>0, <4>1 DEF PublishMqttFails, CompanionFails
    <3>2. CASE Return(q)
      <4>1. request' \in [Requests -> RequestJob \cup {Idle}]
        BY <3>2 DEF Return
      <4>2. QED
        BY <2>5, <3>0, <4>1 DEF PublishMqttFails, CompanionFails
    <3>3. QED
      BY <2>5, <3>1, <3>2 DEF PublishMqttFails, CompanionFails, Idle
  <2>6. ASSUME NEW q \in Requests, FindForRequest(q) PROVE TypeOK'
    <3>1. request[q].command \in Command
      BY <2>6 DEF FindForRequest, Idle, RequestJob
    <3>2. [pc |-> "apply", command |-> request[q].command, loaded |-> channelStates] \in RequestJob
      BY <3>1 DEF RequestJob
    <3>3. request' \in [Requests -> RequestJob \cup {Idle}]
      BY <2>6, <3>2 DEF FindForRequest
    <3>4. QED
      BY <2>6, <3>3 DEF FindForRequest
  <2>7. ASSUME NEW q \in Requests, ApplyForRequest(q) PROVE TypeOK'
    <3>1. request[q] \in RequestJob /\ request[q].pc = "apply"
      BY <2>7 DEF ApplyForRequest, Idle
    <3>2. request[q].command \in Command /\ request[q].loaded \in States
      BY <3>1 DEF RequestJob
    <3>3. request[q].command.key \in Keys /\ request[q].command.value \in Values
      BY <3>2 DEF Command
    <3>4. channelStates' \in States /\ applied' \in States
      BY <2>7, <3>2, <3>3, WriteType DEF ApplyForRequest
    <3>5. request' \in [Requests -> RequestJob \cup {Idle}]
      BY <2>7, <3>1, ContinueType DEF ApplyForRequest, Idle
    <3>6. QED
      BY <2>7, <3>4, <3>5 DEF ApplyForRequest
  <2>8. ASSUME NEW q \in Requests, Optimistic(q) PROVE TypeOK'
    <3>1. request[q].command \in Command
      BY <2>8 DEF Optimistic, Idle, RequestJob
    <3>2. [key |-> request[q].command.key, value |-> request[q].command.value, status |-> "ok"] \in Event
      BY <3>1 DEF Command, Event
    <3>3. events' \in Seq(Event)
      BY <2>8, <3>2, AppendType DEF Optimistic
    <3>4. request' \in [Requests -> RequestJob \cup {Idle}]
      BY <2>8 DEF Optimistic, Return
    <3>5. QED
      BY <2>8, <3>3, <3>4 DEF Optimistic
  <2>9. ASSUME DeviceObeys \/ DeviceRefuses \/ DeviceFails PROVE TypeOK'
    <3>1. Head(commands) \in Command /\ Tail(commands) \in Seq(Command)
      BY <2>9, HeadTail DEF DeviceObeys, DeviceRefuses, DeviceFails
    <3>2. Head(commands).key \in Keys /\ Head(commands).value \in Values
      BY <3>1 DEF Command
    <3>3. actual' \in States
      BY <2>9, <3>2, WriteType DEF DeviceObeys, DeviceRefuses, DeviceFails
    <3>4. ASSUME NEW status \in {"ok", "error"}, Confirm(Head(commands), status)
          PROVE events' \in Seq(Event) /\ others' \in Seq(Event)
      <4>1. [key |-> Head(commands).key, value |-> Head(commands).value, status |-> status] \in Event
        BY <3>2 DEF Event
      <4>2. /\ Append(events, [key |-> Head(commands).key, value |-> Head(commands).value,
                               status |-> status]) \in Seq(Event)
            /\ Append(others, [key |-> Head(commands).key, value |-> Head(commands).value,
                               status |-> status]) \in Seq(Event)
        BY <4>1, AppendType
      <4>3. QED
        BY <3>4, <4>2 DEF Confirm
    <3>5. events' \in Seq(Event) /\ others' \in Seq(Event)
      BY <2>9, <3>4 DEF DeviceObeys, DeviceRefuses, DeviceFails
    <3>6. commands' \in Seq(Command)
      BY <2>9, <3>1 DEF DeviceObeys, DeviceRefuses, DeviceFails
    <3>7. count' \in Counts /\ clean' \in BOOLEAN
      BY <2>9, IncidentType DEF DeviceObeys, DeviceRefuses, DeviceFails
    <3>8. QED
      BY <2>9, <3>3, <3>5, <3>6, <3>7 DEF DeviceObeys, DeviceRefuses, DeviceFails
  <2>10. CASE GatewayChange
    <3>1. PICK c \in Command :
             /\ actual' = [actual EXCEPT ![c.key] = c.value]
             /\ others' = Append(others, [key |-> c.key, value |-> c.value, status |-> "ok"])
      BY <2>10 DEF GatewayChange
    <3>2. actual' \in States
      BY <3>1, WriteType DEF Command
    <3>3. [key |-> c.key, value |-> c.value, status |-> "ok"] \in Event
      BY DEF Command, Event
    <3>4. others' \in Seq(Event)
      BY <3>1, <3>3, AppendType
    <3>5. count' \in Counts /\ clean' \in BOOLEAN
      BY <2>10, IncidentType DEF GatewayChange
    <3>6. QED
      BY <2>10, <3>2, <3>4, <3>5 DEF GatewayChange
  <2>11. ASSUME NEW h \in Handlers, TakeEvent(h) PROVE TypeOK'
    <3>1. PICK e \in Event, from \in {"events", "others"} : Load(h, from, e)
      BY <2>11, HeadTail DEF TakeEvent
    <3>2. [pc |-> "update", from |-> from, event |-> e, loaded |-> channelStates] \in HandlerJob
      BY DEF HandlerJob
    <3>3. handler' \in [Handlers -> HandlerJob \cup {Idle}]
      BY <3>1, <3>2 DEF Load
    <3>4. events' \in Seq(Event) /\ others' \in Seq(Event)
      <4>1. events # <<>> => Tail(events) \in Seq(Event)
        BY HeadTail
      <4>2. others # <<>> => Tail(others) \in Seq(Event)
        BY HeadTail
      <4>3. QED
        BY <2>11, <4>1, <4>2 DEF TakeEvent
    <3>5. QED
      BY <2>11, <3>3, <3>4 DEF TakeEvent
  <2>12. ASSUME NEW h \in Handlers, UpdateStates(h) PROVE TypeOK'
    <3>1. handler[h].event \in Event /\ handler[h].loaded \in States
      BY <2>12 DEF UpdateStates, Idle, HandlerJob
    <3>2. handler[h].event.key \in Keys /\ handler[h].event.value \in Values
      BY <3>1 DEF Event
    <3>3. channelStates' \in States /\ applied' \in States
      BY <2>12, <3>1, <3>2, WriteType DEF UpdateStates
    <3>4. handler' \in [Handlers -> HandlerJob \cup {Idle}]
      BY <2>12 DEF UpdateStates
    <3>5. QED
      BY <2>12, <3>3, <3>4 DEF UpdateStates
  <2>13. ASSUME NEW h \in Handlers, HandlerFails(h) PROVE TypeOK'
    <3>1. handler' \in [Handlers -> HandlerJob \cup {Idle}]
      BY <2>13 DEF HandlerFails
    <3>2. count' \in Counts /\ clean' \in BOOLEAN
      BY <2>13, IncidentType DEF HandlerFails
    <3>3. QED
      BY <2>13, <3>1, <3>2 DEF HandlerFails
  <2>14. CASE Crash
    <3>1. ASSUME NEW n \in 0 .. Len(others) PROVE SubSeq(others, n + 1, Len(others)) \in Seq(Event)
      OBVIOUS
    <3>2. others' \in Seq(Event)
      BY <2>14, <3>1, RedeliveredType DEF Crash
    <3>3. events' \in Seq(Event)
      BY <2>14, RedeliveredType DEF Crash
    <3>4. count' \in Counts /\ clean' \in BOOLEAN
      BY <2>14, IncidentType DEF Crash
    <3>5. QED
      BY <2>14, <3>2, <3>3, <3>4 DEF Crash
  <2>15. CASE UNCHANGED vars
    BY <2>15 DEF vars
  <2>16. QED
    BY <2>1, <2>2, <2>3, <2>4, <2>5, <2>6, <2>7, <2>8, <2>9, <2>10, <2>11, <2>12, <2>13, <2>14, <2>15
       DEF Next, RequestStep, RequestFault, DeviceStep, HandlerStep
<1>3. QED
  BY <1>1, <1>2, PTL DEF Spec

-----------------------------------------------------------------------------
(***************************************************************************)
(* The dashboard ends up with the actual state although every command is   *)
(* announced twice.  While commands do not overlap and each is obeyed, the *)
(* request that still has to announce a command has the last command for   *)
(* its channel; and where nothing more will come for a channel, the last   *)
(* event about it, if any is left, says what the device is in.             *)
(***************************************************************************)
Absent(s, k)    == \A i \in 1 .. Len(s) : s[i].key # k
EndsOn(s, k, v) == \A i \in 1 .. Len(s) :
                      s[i].key = k /\ (\A j \in 1 .. Len(s) : j > i => s[j].key # k) => s[i].value = v

Announces(q, k) == request[q].pc \in {"audit", "optimistic"} /\ request[q].command.key = k
Writes(h, k)    == handler[h].pc = "update" /\ handler[h].event.key = k

RequestsDoNotOverlap == \A p, q \in Requests : request[p] # Idle /\ request[q] # Idle => p = q

AllObeyed ==
    /\ others = <<>>
    /\ \A i \in 1 .. Len(events) : events[i].status = "ok"
    /\ \A h \in Handlers : handler[h].pc = "update" => handler[h].event.status = "ok"

AnnouncesLast ==
    \A q \in Requests, k \in Keys : Announces(q, k) =>
        /\ EndsOn(commands, k, request[q].command.value)
        /\ Absent(commands, k) => actual[k] = request[q].command.value

EndsOnActual(k) ==
    Absent(commands, k) /\ (\A q \in Requests : ~Announces(q, k)) =>
        /\ EndsOn(events, k, actual[k])
        /\ Absent(events, k) =>
              /\ \A h \in Handlers : Writes(h, k) => handler[h].event.value = actual[k]
              /\ (\A h \in Handlers : ~Writes(h, k)) => channelStates[k] = actual[k]

SettlingInv ==
    push = "KAFKA" /\ clean =>
        /\ RequestsDoNotOverlap
        /\ AllObeyed
        /\ AnnouncesLast
        /\ \A k \in Keys : EndsOnActual(k)

\* What Append and Tail do to the last element about a channel.
LEMMA AppendEnds ==
  ASSUME NEW S, NEW s \in Seq(S), NEW e \in S, NEW k, NEW v
  PROVE  /\ Absent(Append(s, e), k) <=> e.key # k /\ Absent(s, k)
         /\ e.key = k /\ e.value = v => EndsOn(Append(s, e), k, v)
         /\ e.key # k /\ EndsOn(s, k, v) => EndsOn(Append(s, e), k, v)
<1>1. /\ Len(Append(s, e)) = Len(s) + 1 /\ Append(s, e)[Len(s) + 1] = e /\ Len(s) \in Nat
      /\ \A i \in 1 .. Len(s) : Append(s, e)[i] = s[i]
  OBVIOUS
<1>2. \A i \in 1 .. Len(s) + 1 : i = Len(s) + 1 \/ (i \in 1 .. Len(s) /\ Len(s) + 1 > i)
  BY <1>1
<1>3. Absent(Append(s, e), k) <=> e.key # k /\ Absent(s, k)
  BY <1>1, <1>2 DEF Absent
<1>4. ASSUME e.key = k, e.value = v PROVE EndsOn(Append(s, e), k, v)
  BY <1>1, <1>2, <1>4 DEF EndsOn
<1>5. ASSUME e.key # k, EndsOn(s, k, v) PROVE EndsOn(Append(s, e), k, v)
  BY <1>1, <1>2, <1>5 DEF EndsOn
<1>6. QED
  BY <1>3, <1>4, <1>5

\* What a queue says last about a key, its tail says, if it says anything about it.
LEMMA TailEnds ==
  ASSUME NEW S, NEW s \in Seq(S), s # <<>>, NEW k, NEW v
  PROVE  /\ Absent(s, k) <=> Head(s).key # k /\ Absent(Tail(s), k)
         /\ EndsOn(s, k, v) => EndsOn(Tail(s), k, v)
         /\ EndsOn(s, k, v) /\ Head(s).key = k /\ Absent(Tail(s), k) => Head(s).value = v
<1>1. /\ Len(s) \in Nat \ {0} /\ Len(Tail(s)) = Len(s) - 1 /\ Head(s) = s[1]
      /\ \A i \in 1 .. Len(s) - 1 : Tail(s)[i] = s[i + 1]
  OBVIOUS
<1>2. /\ 1 \in 1 .. Len(s)
      /\ \A i \in 1 .. Len(s) : i = 1 \/ (i - 1 \in 1 .. Len(s) - 1 /\ s[i] = Tail(s)[i - 1])
      /\ \A i \in 1 .. Len(s) - 1 : i + 1 \in 1 .. Len(s) /\ i + 1 > 1
      /\ \A i \in 1 .. Len(s), j \in 1 .. Len(s) - 1 : i > j + 1 => i # 1 /\ i - 1 > j
  BY <1>1
<1>3. Absent(s, k) <=> Head(s).key # k /\ Absent(Tail(s), k)
  BY <1>1, <1>2 DEF Absent
<1>4. ASSUME EndsOn(s, k, v) PROVE EndsOn(Tail(s), k, v)
  <2> SUFFICES ASSUME NEW i \in 1 .. Len(s) - 1, Tail(s)[i].key = k,
                      \A j \in 1 .. Len(s) - 1 : j > i => Tail(s)[j].key # k
               PROVE  Tail(s)[i].value = v
    BY <1>1 DEF EndsOn
  <2>1. i + 1 \in 1 .. Len(s) /\ s[i + 1] = Tail(s)[i]
    BY <1>1, <1>2
  <2>2. \A j \in 1 .. Len(s) : j > i + 1 => s[j].key # k
    BY <1>2
  <2>3. QED
    BY <1>4, <2>1, <2>2 DEF EndsOn
<1>5. ASSUME EndsOn(s, k, v), Head(s).key = k, Absent(Tail(s), k) PROVE Head(s).value = v
  <2>1. ASSUME NEW j \in 1 .. Len(s), j > 1 PROVE s[j].key # k
    <3>1. j - 1 \in 1 .. Len(Tail(s)) /\ s[j] = Tail(s)[j - 1]
      BY <1>1, <1>2, <2>1
    <3>2. QED
      BY <1>5, <3>1 DEF Absent
  <2>2. QED
    BY <1>1, <1>2, <1>5, <2>1 DEF EndsOn
<1>6. QED
  BY <1>3, <1>4, <1>5

\* An event at the end of the queue settles its own channel and no other.
LEMMA EventAppended ==
  ASSUME TypeOK, NEW e \in Event, e.status = "ok", events' = Append(events, e),
         AllObeyed, UNCHANGED <<others, handler>>
  PROVE  /\ AllObeyed'
         /\ \A k : Absent(events', k) <=> e.key # k /\ Absent(events, k)
         /\ EndsOn(events', e.key, e.value)
         /\ \A k, v : e.key # k /\ EndsOn(events, k, v) => EndsOn(events', k, v)
<1>1. events \in Seq(Event)
  BY DEF TypeOK
<1>2. /\ \A k : Absent(events', k) <=> e.key # k /\ Absent(events, k)
      /\ EndsOn(events', e.key, e.value)
      /\ \A k, v : e.key # k /\ EndsOn(events, k, v) => EndsOn(events', k, v)
  BY <1>1, AppendEnds
<1>3. \A i \in 1 .. Len(events') : events'[i] = e \/ (i \in 1 .. Len(events) /\ events'[i] = events[i])
  BY <1>1
<1>4. AllObeyed'
  BY <1>3 DEF AllObeyed
<1>5. QED
  BY <1>2, <1>4

\* What is on its way about a channel ends on what the device is in, in every state.
LEMMA SettlingInvInductive == Spec => []SettlingInv
<1> DEFINE Settling == /\ RequestsDoNotOverlap /\ AllObeyed /\ AnnouncesLast
                       /\ \A k \in Keys : EndsOnActual(k)
<1>1. Init => SettlingInv
  BY DEF Init, SettlingInv, RequestsDoNotOverlap, AllObeyed, AnnouncesLast, EndsOnActual,
         Announces, Writes, Absent, EndsOn, Idle
<1>2. SettlingInv /\ TypeOK /\ TypeOK' /\ ChannelInv /\ [Next]_vars => SettlingInv'
  <2> SUFFICES ASSUME SettlingInv, TypeOK, TypeOK', ChannelInv, [Next]_vars,
                      push' = "KAFKA", clean'
               PROVE Settling'
    BY DEF SettlingInv
  <2>0. push = "KAFKA" /\ clean /\ Settling
    <3>1. push' = push /\ (clean' => clean)
      BY DEF Next, vars, RequestStep, RequestFault, DeviceStep, HandlerStep, StartAction,
         SendCommand, SendFails, PublishMqtt, PublishMqttFails, FindForRequest, ApplyForRequest,
         Audit, Optimistic, CompanionFails, DeviceObeys, DeviceRefuses, DeviceFails,
         GatewayChange, TakeEvent, UpdateStates, HandlerFails, Crash, Incident
    <3>2. QED
      BY <3>1 DEF SettlingInv
  <2>a. RequestsDoNotOverlap /\ AllObeyed /\ AnnouncesLast /\ \A k \in Keys : EndsOnActual(k)
    BY <2>0
  <2>1. ASSUME NEW q \in Requests, StartAction(q) PROVE Settling'
    <3>1. /\ \A p \in Requests : request[p] = Idle
          /\ UNCHANGED <<channelStates, handler, commands, actual, events, others>>
      BY <2>1 DEF StartAction
    <3>2. \A p \in Requests : request'[p] = request[p] \/ (p = q /\ request'[p].pc = "send")
      BY <2>1 DEF StartAction, TypeOK
    <3>3. \A k : \A p \in Requests : ~Announces(p, k)' /\ ~Announces(p, k)
      BY <3>1, <3>2 DEF Announces, Idle
    <3>4. RequestsDoNotOverlap' /\ AllObeyed' /\ AnnouncesLast'
      BY <2>a, <3>1, <3>2, <3>3 DEF RequestsDoNotOverlap, AllObeyed, AnnouncesLast
    <3>5. \A k \in Keys : EndsOnActual(k)'
      BY <2>a, <3>1, <3>3 DEF EndsOnActual, Writes
    <3>6. QED
      BY <3>4, <3>5
  <2>2. ASSUME NEW q \in Requests, SendCommand(q) PROVE Settling'
    <3> DEFINE c == request[q].command
    <3>1. /\ request[q].pc = "send" /\ c \in Command /\ commands \in Seq(Command)
          /\ commands' = Append(commands, c)
          /\ request' = [request EXCEPT ![q] = [pc |-> "audit", command |-> c]]
          /\ UNCHANGED <<channelStates, handler, actual, events, others>>
      BY <2>0, <2>2 DEF SendCommand, Continue, TypeOK, RequestJob, Idle
    <3>2. /\ request'[q] = [pc |-> "audit", command |-> c]
          /\ \A p \in Requests : p # q => request'[p] = request[p] /\ request[p] = Idle
      BY <2>a, <3>1 DEF RequestsDoNotOverlap, TypeOK, Idle
    <3> HIDE DEF c
    <3>3. /\ \A k : Absent(commands', k) <=> c.key # k /\ Absent(commands, k)
          /\ EndsOn(commands', c.key, c.value)
      BY <3>1, AppendEnds
    <3>4. /\ \A k : Announces(q, k)' <=> c.key = k
          /\ \A k : ~Announces(q, k)
          /\ \A k : \A p \in Requests : p # q => ~Announces(p, k)' /\ ~Announces(p, k)
      BY <3>1, <3>2 DEF Announces, Idle
    <3>5. RequestsDoNotOverlap'
      BY <3>2 DEF RequestsDoNotOverlap
    <3>6. AllObeyed'
      BY <2>a, <3>1 DEF AllObeyed
    <3>7. AnnouncesLast'
      BY <3>2, <3>3, <3>4 DEF AnnouncesLast
    <3>8. ASSUME NEW k \in Keys PROVE EndsOnActual(k)'
      BY <2>a, <3>1, <3>3, <3>4 DEF EndsOnActual, Writes
    <3>9. QED
      BY <3>5, <3>6, <3>7, <3>8
  <2>3. ASSUME NEW q \in Requests, Audit(q) PROVE Settling'
    <3>1. /\ request[q].pc = "audit" /\ UNCHANGED <<channelStates, handler, commands, actual, events, others>>
          /\ request'[q] = [pc |-> "optimistic", command |-> request[q].command]
          /\ \A p \in Requests : p # q => request'[p] = request[p]
      BY <2>3 DEF Audit, Continue, TypeOK
    <3>2. \A p \in Requests : /\ \A k : Announces(p, k)' <=> Announces(p, k)
                              /\ request'[p].command = request[p].command \/ p # q
                              /\ request'[p] # Idle => request[p] # Idle
      BY <3>1 DEF Announces, Idle
    <3>3. \A p \in Requests : request'[p].command = request[p].command
      BY <3>1
    <3>4. RequestsDoNotOverlap' /\ AllObeyed' /\ AnnouncesLast'
      BY <2>a, <3>1, <3>2, <3>3 DEF RequestsDoNotOverlap, AllObeyed, AnnouncesLast
    <3>5. \A k \in Keys : EndsOnActual(k)'
      BY <2>a, <3>1, <3>2 DEF EndsOnActual, Writes
    <3>6. QED
      BY <3>4, <3>5
  <2>4. ASSUME NEW q \in Requests, Optimistic(q) PROVE Settling'
    <3> DEFINE c == request[q].command
               e == [key |-> c.key, value |-> c.value, status |-> "ok"]
    <3>1. /\ request[q].pc = "optimistic" /\ c \in Command /\ request[q] # Idle
          /\ events' = Append(events, e)
          /\ request' = [request EXCEPT ![q] = Idle]
          /\ UNCHANGED <<channelStates, handler, actual, commands, others>>
      BY <2>4 DEF Optimistic, Return, TypeOK, RequestJob, Idle
    <3>2. e \in Event /\ e.status = "ok" /\ e.key = c.key /\ e.value = c.value /\ c.key \in Keys
      BY <3>1 DEF Command, Event
    <3>3. /\ Announces(q, c.key)
          /\ \A k : Announces(q, k) => c.key = k
          /\ \A p \in Requests : p # q => request[p] = Idle
          /\ \A p \in Requests : request'[p] = Idle
      BY <2>a, <3>1 DEF Announces, RequestsDoNotOverlap, TypeOK
    <3> HIDE DEF e, c
    <3>4. /\ AllObeyed'
          /\ \A k : Absent(events', k) <=> e.key # k /\ Absent(events, k)
          /\ EndsOn(events', e.key, e.value)
          /\ \A k, v : e.key # k /\ EndsOn(events, k, v) => EndsOn(events', k, v)
      BY <2>a, <3>1, <3>2, EventAppended
    <3>5. /\ \A k : \A p \in Requests : ~Announces(p, k)'
          /\ \A k : \A p \in Requests : c.key # k => ~Announces(p, k)
      BY <3>3 DEF Announces, Idle
    <3>6. RequestsDoNotOverlap' /\ AnnouncesLast'
      BY <3>3, <3>5 DEF RequestsDoNotOverlap, AnnouncesLast
    <3>7. ASSUME NEW k \in Keys PROVE EndsOnActual(k)'
      <4>1. CASE k = c.key
        <5>1. Absent(commands, k) => actual[k] = c.value
          BY <2>a, <3>3, <4>1 DEF AnnouncesLast, c
        <5>2. QED
          BY <3>1, <3>2, <3>4, <4>1, <5>1 DEF EndsOnActual
      <4>2. CASE k # c.key
        BY <2>a, <3>1, <3>2, <3>4, <3>5, <4>2 DEF EndsOnActual, Writes
      <4>3. QED
        BY <4>1, <4>2
    <3>8. QED
      BY <3>4, <3>6, <3>7
  <2>5. CASE DeviceObeys
    <3> DEFINE c == Head(commands)
               e == [key |-> c.key, value |-> c.value, status |-> "ok"]
    <3>1. /\ commands # <<>> /\ commands \in Seq(Command) /\ commands' = Tail(commands)
          /\ actual' = [actual EXCEPT ![c.key] = c.value] /\ events' = Append(events, e)
          /\ UNCHANGED <<channelStates, handler, request, others>>
      BY <2>0, <2>5 DEF DeviceObeys, Confirm, TypeOK
    <3>2. c \in Command
      BY <3>1, HeadTail
    <3>3. e \in Event /\ e.status = "ok" /\ e.key = c.key /\ e.value = c.value /\ c.key \in Keys
      BY <3>2 DEF Command, Event
    <3>4. /\ actual'[c.key] = c.value
          /\ \A k \in Keys : k # c.key => actual'[k] = actual[k]
      BY <3>1, <3>3 DEF TypeOK, States
    <3>5. /\ \A k : Absent(commands, k) <=> c.key # k /\ Absent(commands', k)
          /\ \A k, v : EndsOn(commands, k, v) => EndsOn(commands', k, v)
          /\ \A k, v : EndsOn(commands, k, v) /\ c.key = k /\ Absent(commands', k) => c.value = v
      BY <3>1, TailEnds
    <3> HIDE DEF e, c
    <3>6. /\ AllObeyed'
          /\ \A k : Absent(events', k) <=> e.key # k /\ Absent(events, k)
          /\ EndsOn(events', e.key, e.value)
          /\ \A k, v : e.key # k /\ EndsOn(events, k, v) => EndsOn(events', k, v)
      BY <2>a, <3>1, <3>3, EventAppended
    <3>7. RequestsDoNotOverlap'
      BY <2>a, <3>1 DEF RequestsDoNotOverlap
    <3>8. \A k : \A p \in Requests : Announces(p, k)' <=> Announces(p, k)
      BY <3>1 DEF Announces
    <3>9. AnnouncesLast'
      <4> SUFFICES ASSUME NEW p \in Requests, NEW k \in Keys, Announces(p, k)
                   PROVE  /\ EndsOn(commands', k, request[p].command.value)
                          /\ Absent(commands', k) => actual'[k] = request[p].command.value
        BY <3>1, <3>8 DEF AnnouncesLast
      <4>1. /\ EndsOn(commands, k, request[p].command.value)
            /\ Absent(commands, k) => actual[k] = request[p].command.value
        BY <2>a DEF AnnouncesLast
      <4>2. QED
        BY <3>4, <3>5, <4>1
    <3>10. ASSUME NEW k \in Keys PROVE EndsOnActual(k)'
      <4>1. CASE k = c.key
        BY <3>3, <3>4, <3>6, <4>1 DEF EndsOnActual
      <4>2. CASE k # c.key
        BY <2>a, <3>1, <3>3, <3>4, <3>5, <3>6, <3>8, <4>2 DEF EndsOnActual, Writes
      <4>3. QED
        BY <4>1, <4>2
    <3>11. QED
      BY <3>6, <3>7, <3>9, <3>10
  <2>6. ASSUME NEW h \in Handlers, TakeEvent(h) PROVE Settling'
    <3> DEFINE e == Head(events)
    <3>1. /\ \A g \in Handlers : handler[g].pc = "idle"
          /\ events # <<>> /\ events \in Seq(Event) /\ events' = Tail(events)
          /\ handler' = [handler EXCEPT ![h] = [pc |-> "update", from |-> "events", event |-> e,
                                                loaded |-> channelStates]]
          /\ UNCHANGED <<channelStates, request, commands, actual, others>>
      BY <2>0, <2>6, <2>a DEF TakeEvent, Load, MayStart, IsRecord, AllObeyed, TypeOK, Idle
    <3>2. /\ handler'[h].pc = "update" /\ handler'[h].event = e
          /\ \A g \in Handlers : g # h => handler'[g].pc = "idle"
      BY <3>1 DEF TypeOK
    <3>3. /\ \A k : Absent(events, k) <=> e.key # k /\ Absent(events', k)
          /\ \A k, v : EndsOn(events, k, v) => EndsOn(events', k, v)
          /\ \A k, v : EndsOn(events, k, v) /\ e.key = k /\ Absent(events', k) => e.value = v
      BY <3>1, TailEnds
    <3>4. e.status = "ok" /\ \A i \in 1 .. Len(events') : events'[i].status = "ok"
      <4>1. /\ Len(events') = Len(events) - 1 /\ Len(events) \in Nat \ {0}
            /\ e = events[1] /\ \A i \in 1 .. Len(events) - 1 : events'[i] = events[i + 1]
        BY <3>1
      <4>2. QED
        BY <2>a, <4>1 DEF AllObeyed
    <3> HIDE DEF e
    <3>5. AllObeyed'
      BY <2>a, <3>1, <3>2, <3>4 DEF AllObeyed
    <3>6. RequestsDoNotOverlap' /\ AnnouncesLast'
      BY <2>a, <3>1 DEF RequestsDoNotOverlap, AnnouncesLast, Announces
    <3>7. ASSUME NEW k \in Keys PROVE EndsOnActual(k)'
      <4>1. /\ \A g \in Handlers : ~Writes(g, k)
            /\ Writes(h, k)' <=> e.key = k
            /\ \A g \in Handlers : g # h => ~Writes(g, k)'
        BY <3>1, <3>2 DEF Writes
      <4>2. SUFFICES ASSUME Absent(commands, k), \A q \in Requests : ~Announces(q, k)
                     PROVE  /\ EndsOn(events', k, actual[k])
                            /\ Absent(events', k) =>
                                 /\ \A g \in Handlers : Writes(g, k)' => handler'[g].event.value = actual[k]
                                 /\ (\A g \in Handlers : ~Writes(g, k)') => channelStates[k] = actual[k]
        BY <3>1 DEF EndsOnActual, Announces
      <4>3. EndsOn(events, k, actual[k]) /\ (Absent(events, k) => channelStates[k] = actual[k])
        BY <2>a, <4>1, <4>2 DEF EndsOnActual
      <4>4. QED
        BY <3>2, <3>3, <4>1, <4>3
    <3>8. QED
      BY <3>5, <3>6, <3>7
  <2>7. ASSUME NEW h \in Handlers, UpdateStates(h) PROVE Settling'
    <3> DEFINE e == handler[h].event
    <3>1. /\ handler[h].pc = "update" /\ handler[h] # Idle /\ e \in Event
          /\ UNCHANGED <<request, commands, actual, events, others>>
          /\ handler' = [handler EXCEPT ![h] = Idle]
      BY <2>7 DEF UpdateStates, TypeOK, Idle, HandlerJob
    <3>2. channelStates' = [channelStates EXCEPT ![e.key] = e.value] /\ e.key \in Keys
      <4>1. e.status = "ok" /\ handler[h].loaded = channelStates
        BY <2>0, <2>a, <3>1 DEF AllObeyed, ChannelInv, CopyIsCurrent
      <4>2. QED
        BY <2>7, <3>1, <4>1 DEF UpdateStates, Event
    <3>3. /\ \A g \in Handlers : handler'[g].pc = "idle"
          /\ \A g \in Handlers : g # h => handler[g] = Idle
      BY <2>0, <3>1 DEF ChannelInv, OneAtATime, TypeOK, Idle
    <3>4. /\ channelStates'[e.key] = e.value
          /\ \A k \in Keys : k # e.key => channelStates'[k] = channelStates[k]
      BY <3>2 DEF TypeOK, States
    <3> HIDE DEF e
    <3>5. AllObeyed' /\ RequestsDoNotOverlap' /\ AnnouncesLast'
      BY <2>a, <3>1, <3>3 DEF AllObeyed, RequestsDoNotOverlap, AnnouncesLast, Announces
    <3>6. ASSUME NEW k \in Keys PROVE EndsOnActual(k)'
      <4>1. /\ \A g \in Handlers : ~Writes(g, k)'
            /\ Writes(h, k) <=> e.key = k
            /\ \A g \in Handlers : g # h => ~Writes(g, k)
        BY <3>1, <3>3 DEF Writes, e, Idle
      <4>2. SUFFICES ASSUME Absent(commands, k), \A q \in Requests : ~Announces(q, k)
                     PROVE  /\ EndsOn(events, k, actual[k])
                            /\ Absent(events, k) => channelStates'[k] = actual[k]
        BY <3>1, <4>1 DEF EndsOnActual, Announces
      <4>3. /\ EndsOn(events, k, actual[k])
            /\ Absent(events, k) => /\ \A g \in Handlers : Writes(g, k) => handler[g].event.value = actual[k]
                                    /\ (\A g \in Handlers : ~Writes(g, k)) => channelStates[k] = actual[k]
        BY <2>a, <4>2 DEF EndsOnActual
      <4>4. QED
        BY <3>4, <4>1, <4>3 DEF e
    <3>7. QED
      BY <3>5, <3>6
  <2>8. CASE UNCHANGED vars
    BY <2>a, <2>8 DEF vars, RequestsDoNotOverlap, AllObeyed, AnnouncesLast, EndsOnActual,
                      Announces, Writes
  <2>9. /\ \A q \in Requests : ~SendFails(q) /\ ~PublishMqttFails(q) /\ ~CompanionFails(q)
        /\ \A h \in Handlers : ~HandlerFails(h)
        /\ ~DeviceRefuses /\ ~DeviceFails /\ ~GatewayChange /\ ~Crash
    BY DEF SendFails, PublishMqttFails, CompanionFails, HandlerFails, DeviceRefuses, DeviceFails,
           GatewayChange, Crash, Incident
  <2>10. \A q \in Requests : ~PublishMqtt(q) /\ ~FindForRequest(q) /\ ~ApplyForRequest(q)
    BY <2>0 DEF PublishMqtt, FindForRequest, ApplyForRequest, ChannelInv, RequestsDoNotWrite
  <2>11. QED
    BY <2>1, <2>2, <2>3, <2>4, <2>5, <2>6, <2>7, <2>8, <2>9, <2>10
    DEF Next, RequestStep, RequestFault, DeviceStep, HandlerStep
<1>3. QED
  BY <1>1, <1>2, TypeCorrect, ChannelInvInductive, PTL DEF Spec

\* For a device behind a gateway, any number of commands that did not overlap and
\* were obeyed, each announced twice and in any order: when everything is handled,
\* the dashboard shows the state the device is in.
THEOREM SettledOnActual == Spec => []SettlesOnActual
<1>1. TypeOK /\ SettlingInv => SettlesOnActual
  <2> SUFFICES ASSUME TypeOK, SettlingInv, push = "KAFKA", clean, Quiet
               PROVE channelStates = actual
    BY DEF SettlesOnActual
  <2>1. ASSUME NEW k \in Keys PROVE channelStates[k] = actual[k]
    <3>1. EndsOnActual(k)
      BY DEF SettlingInv
    <3>2. Absent(commands, k) /\ Absent(events, k)
      BY DEF Quiet, Absent
    <3>3. (\A q \in Requests : ~Announces(q, k)) /\ (\A h \in Handlers : ~Writes(h, k))
      BY DEF Quiet, Announces, Writes, Idle
    <3>4. QED
      BY <3>1, <3>2, <3>3 DEF EndsOnActual
  <2>2. QED
    BY <2>1 DEF TypeOK, States
<1>2. QED
  BY <1>1, TypeCorrect, SettlingInvInductive, PTL

-----------------------------------------------------------------------------
(***************************************************************************)
(* A panel that waits is told by whoever comes first: the device through   *)
(* its event, or the request through its optimistic "ok", which for a      *)
(* device on MQTT is a call in the process as well.  A command that has    *)
(* been sent leaves two such answers, of which one failure takes one; one  *)
(* that has not been sent fails with an error that the panel is shown, or  *)
(* still leaves the optimistic "ok".  When the process ends, so does what  *)
(* an MQTT device sent, and every answer a request still owed; but a panel *)
(* whose request is cut short is shown that, and while nothing has failed  *)
(* no other panel of an MQTT device waits.                                 *)
(***************************************************************************)
\* The i-th of a queue, and the companion of a request, speak of channel k.
Speaks(s, i, k)  == i \in 1 .. Len(s) /\ s[i].key = k
Companion(q, k)  == request[q].pc \in {"find", "apply", "audit", "optimistic"} /\ request[q].command.key = k

\* Something at x in w will become an answer about channel k.
At(w, x, k) ==
    \/ w = "commands" /\ Speaks(commands, x, k)
    \/ w = "events" /\ Speaks(events, x, k)
    \/ w = "others" /\ Speaks(others, x, k)
    \/ w = "handler" /\ x \in Handlers /\ Writes(x, k)
    \/ w = "request" /\ x \in Requests /\ Companion(x, k)

One(k)     == \E w, x : At(w, x, k)
Two(k)     == \E w, x, v, y : At(w, x, k) /\ At(v, y, k) /\ (w # v \/ x # y)
Sending(k) == \E q \in Requests : request[q].pc \in {"send", "mqtt"} /\ request[q].command.key = k

\* Two answers are left before the first failure, and one after it.
Left(k) == /\ count.incidents = 0 => Sending(k) \/ Two(k)
           /\ count.incidents = 1 => Sending(k) \/ One(k)

\* The message goes out over a connection there is.
Reaches  == push = "MQTT" => link = "ready"
MqttOnly == \A q \in Requests : request[q].pc = "mqtt" => push = "MQTT"

\* The request that asked for channel k has not told its panel yet.
Asks(q, k) == request[q].pc \in {"send", "mqtt", "find", "apply"} /\ request[q].command.key = k

AsksInv == Reaches /\ push = "MQTT" /\ count.incidents = 0 =>
              \A k \in waiting : \E q \in Requests : Asks(q, k)

AnswersInv == MqttOnly /\ AsksInv /\ (Reaches => \A k \in waiting : Left(k))

\* Two are one.
LEMMA TwoAreOne == ASSUME NEW k, Two(k) PROVE One(k)
BY DEF One, Two

\* Answers that stay where they are stay as many.
LEMMA PlacesStay ==
  ASSUME NEW k, \A w, x : At(w, x, k) => At(w, x, k)'
  PROVE  (One(k) => One(k)') /\ (Two(k) => Two(k)')
BY DEF One, Two

\* So do they when one of them goes where none was,
LEMMA PlaceMoves ==
  ASSUME NEW k, NEW w0, NEW x0, NEW w1, NEW x1,
         \A w, x : At(w, x, k) /\ (w # w0 \/ x # x0) => At(w, x, k)' /\ (w # w1 \/ x # x1),
         At(w0, x0, k) => At(w1, x1, k)'
  PROVE  (One(k) => One(k)') /\ (Two(k) => Two(k)')
<1>1. ASSUME One(k) PROVE One(k)'
  <2>1. PICK w, x : At(w, x, k)
    BY <1>1 DEF One
  <2>2. QED
    BY <2>1 DEF One
<1>2. ASSUME Two(k) PROVE Two(k)'
  <2>1. PICK w, x, v, y : At(w, x, k) /\ At(v, y, k) /\ (w # v \/ x # y)
    BY <1>2 DEF Two
  <2>2. CASE w = w0 /\ x = x0
    BY <2>1, <2>2 DEF Two
  <2>3. CASE v = w0 /\ y = x0
    BY <2>1, <2>3 DEF Two
  <2>4. CASE (w # w0 \/ x # x0) /\ (v # w0 \/ y # x0)
    BY <2>1, <2>4 DEF Two
  <2>5. QED
    BY <2>2, <2>3, <2>4
<1>3. QED
  BY <1>1, <1>2

\* The answer at the head of a queue w0 moves to x1 of w1; the others of w0 move up,
\* and those of the other places stay.
HeadTo(w0, w1, x1, k) ==
    /\ w0 # w1
    /\ \A w, x : At(w, x, k) /\ w # w0 => At(w, x, k)' /\ (w # w1 \/ x # x1)
    /\ \A x : At(w0, x, k) => x \in Int /\ (x = 1 => At(w1, x1, k)') /\ (x # 1 => At(w0, x - 1, k)')

\* Answers that move so stay as many.
LEMMA HeadMoves ==
  ASSUME NEW k, NEW w0, NEW w1, NEW x1, HeadTo(w0, w1, x1, k)
  PROVE  (One(k) => One(k)') /\ (Two(k) => Two(k)')
<1> USE DEF HeadTo
<1>1. ASSUME One(k) PROVE One(k)'
  <2>1. PICK w, x : At(w, x, k)
    BY <1>1 DEF One
  <2>2. QED
    BY <2>1 DEF One
<1>2. ASSUME Two(k) PROVE Two(k)'
  <2>1. PICK w, x, v, y : At(w, x, k) /\ At(v, y, k) /\ (w # v \/ x # y)
    BY <1>2 DEF Two
  <2>2. CASE w # w0 /\ v # w0
    BY <2>1, <2>2 DEF Two
  <2>3. CASE w = w0 /\ v # w0
    <3>1. At(v, y, k)' /\ (v # w1 \/ y # x1) /\ (x = 1 => At(w1, x1, k)') /\ (x # 1 => At(w0, x - 1, k)')
      BY <2>1, <2>3
    <3>2. QED
      BY <2>3, <3>1 DEF Two
  <2>4. CASE w # w0 /\ v = w0
    <3>1. At(w, x, k)' /\ (w # w1 \/ x # x1) /\ (y = 1 => At(w1, x1, k)') /\ (y # 1 => At(w0, y - 1, k)')
      BY <2>1, <2>4
    <3>2. QED
      BY <2>4, <3>1 DEF Two
  <2>5. CASE w = w0 /\ v = w0
    <3>1. /\ x \in Int /\ y \in Int /\ x # y
          /\ (x = 1 => At(w1, x1, k)') /\ (x # 1 => At(w0, x - 1, k)')
          /\ (y = 1 => At(w1, x1, k)') /\ (y # 1 => At(w0, y - 1, k)')
      BY <2>1, <2>5
    <3>2. x - 1 # y - 1
      BY <3>1
    <3>3. CASE x = 1
      BY <3>1, <3>3 DEF Two
    <3>4. CASE y = 1
      BY <3>1, <3>4 DEF Two
    <3>5. CASE x # 1 /\ y # 1
      BY <3>1, <3>2, <3>5 DEF Two
    <3>6. QED
      BY <3>3, <3>4, <3>5
  <2>6. QED
    BY <2>2, <2>3, <2>4, <2>5
<1>3. QED
  BY <1>1, <1>2

\* Of two answers a failure takes one.
LEMMA PlaceLost ==
  ASSUME NEW k, NEW w0, NEW x0, \A w, x : At(w, x, k) /\ (w # w0 \/ x # x0) => One(k)', Two(k)
  PROVE  One(k)'
<1>1. PICK w, x, v, y : At(w, x, k) /\ At(v, y, k) /\ (w # v \/ x # y)
  BY DEF Two
<1>2. QED
  BY <1>1

\* The head of a queue is taken,
LEMMA TailSpeaks ==
  ASSUME NEW S, NEW s \in Seq(S), s # <<>>, NEW k, NEW i, Speaks(s, i, k)
  PROVE  i \in Int /\ (i = 1 => Head(s).key = k) /\ (i # 1 => Speaks(Tail(s), i - 1, k))
BY DEF Speaks

\* or something is appended to it.
LEMMA AppendSpeaks ==
  ASSUME NEW S, NEW s \in Seq(S), NEW e \in S, NEW k
  PROVE  /\ \A i : Speaks(s, i, k) => Speaks(Append(s, e), i, k) /\ i # Len(s) + 1
         /\ e.key = k => Speaks(Append(s, e), Len(s) + 1, k)
BY DEF Speaks

\* Enough is left after a step that is no failure and takes no answer,
LEMMA LeftOn ==
  ASSUME NEW k, Left(k), count'.incidents = count.incidents,
         Sending(k) => Sending(k)' \/ Two(k)', One(k) => One(k)', Two(k) => Two(k)'
  PROVE  Left(k)'
<1>1. Two(k)' => One(k)'
  BY DEF One, Two
<1>2. QED
  BY <1>1 DEF Left

\* and after a failure that takes one of two.
LEMMA LeftAfter ==
  ASSUME NEW k, Left(k), TypeOK, Incident, Sending(k) => Sending(k)' \/ One(k)', Two(k) => One(k)'
  PROVE  Left(k)'
<1>1. count.incidents \in Nat /\ count'.incidents = count.incidents + 1
  BY BoundsAssumption DEF Incident, TypeOK, Counts
<1>2. QED
  BY <1>1 DEF Left

\* What changes no job of a request leaves every one of them sending what it sends.
LEMMA SendingStays == ASSUME NEW k, UNCHANGED request PROVE Sending(k) => Sending(k)'
BY DEF Sending

\* A click, and the steps of a request.
LEMMA RequestAnswers ==
  ASSUME TypeOK, MqttOnly, Reaches, NEW q \in Requests, StartAction(q) \/ RequestStep(q),
         \A k \in waiting : Left(k), NEW k \in waiting'
  PROVE  Left(k)'
<1> USE DEF At, Companion, Writes
<1>0. /\ request \in [Requests -> RequestJob \cup {Idle}] /\ Idle.pc = "idle"
      /\ commands \in Seq(Command) /\ events \in Seq(Event)
  BY DEF TypeOK, Idle
<1>1. CASE StartAction(q)
  <2>1. PICK c \in Command : /\ request' = [request EXCEPT ![q] = [pc |-> "send", command |-> c]]
                             /\ waiting' = waiting \cup {c.key}
    BY <1>1 DEF StartAction
  <2>2. request[q] = Idle /\ UNCHANGED <<commands, events, others, handler>>
        /\ count'.incidents = count.incidents
    BY <1>1 DEF StartAction, TypeOK, Counts
  <2>3. CASE k = c.key
    BY <1>0, <2>1, <2>3 DEF Sending, Left
  <2>4. CASE k # c.key
    <3>1. Left(k)
      BY <2>1, <2>4
    <3>2. \A w, x : At(w, x, k) => At(w, x, k)'
      BY <1>0, <2>1, <2>2
    <3>3. Sending(k) => Sending(k)'
      BY <1>0, <2>1, <2>2 DEF Sending
    <3>4. QED
      BY <2>2, <3>1, <3>2, <3>3, PlacesStay, LeftOn
  <2>5. QED
    BY <2>3, <2>4
<1>2. CASE (SendCommand(q) /\ push = "KAFKA") \/ PublishMqtt(q)
  <2> DEFINE c == request[q].command
  <2> DEFINE pc == IF push = "KAFKA" /\ request[q].pc = "send" THEN "audit" ELSE "find"
  <2>1. /\ request[q].pc \in {"send", "mqtt"} /\ commands' = Append(commands, c)
        /\ UNCHANGED <<events, others, handler, waiting>> /\ count'.incidents = count.incidents
        /\ request' = [request EXCEPT ![q] = [pc |-> pc, command |-> c]]
    <3>1. CASE SendCommand(q) /\ push = "KAFKA"
      BY <1>0, <3>1 DEF SendCommand, Continue
    <3>2. CASE PublishMqtt(q)
      <4>1. request[q].pc = "mqtt" /\ link = "ready"
        BY <3>2 DEF PublishMqtt, Reaches, MqttOnly
      <4>2. QED
        BY <1>0, <3>2, <4>1 DEF PublishMqtt, Continue
    <3>3. QED
      BY <1>2, <3>1, <3>2
  <2>2. c \in Command
    BY <1>0, <2>1 DEF RequestJob
  <2>3. \A w, x : At(w, x, k) => At(w, x, k)'
    <3>1. \A i : Speaks(commands, i, k) => Speaks(commands', i, k)
      BY <1>0, <2>1, <2>2, AppendSpeaks
    <3>2. \A p \in Requests : Companion(p, k) => Companion(p, k)'
      BY <1>0, <2>1
    <3>3. QED
      BY <2>1, <3>1, <3>2 DEF Speaks
  <2>4. PICK n : n = Len(commands) + 1
    OBVIOUS
  <2>5. c.key = k => Two(k)'
    <3> SUFFICES ASSUME c.key = k PROVE Two(k)'
      OBVIOUS
    <3>1. Speaks(commands', n, k)
      BY <1>0, <2>1, <2>2, <2>4, AppendSpeaks
    <3>2. Companion(q, k)'
      BY <1>0, <2>1
    <3>3. At("commands", n, k)' /\ At("request", q, k)' /\ "commands" # "request"
      BY <3>1, <3>2
    <3> HIDE DEF At
    <3>4. QED
      BY <3>3, Zenon DEF Two
  <2>6. c.key # k => (Sending(k) => Sending(k)')
    BY <1>0, <2>1 DEF Sending
  <2>7. (One(k) => One(k)') /\ (Two(k) => Two(k)')
    BY <2>3, PlacesStay
  <2>8. QED
    BY <2>1, <2>5, <2>6, <2>7, LeftOn
<1>3. CASE SendCommand(q) /\ push = "MQTT"
  <2>1. /\ request[q].pc = "send" /\ request' = [request EXCEPT ![q] = [pc |-> "mqtt", command |-> @.command]]
        /\ UNCHANGED <<commands, events, others, handler, waiting>> /\ count'.incidents = count.incidents
    BY <1>3 DEF SendCommand, Continue
  <2>2. \A w, x : At(w, x, k) => At(w, x, k)'
    BY <1>0, <2>1
  <2>3. Sending(k) => Sending(k)'
    BY <1>0, <2>1 DEF Sending
  <2>4. QED
    BY <2>1, <2>2, <2>3, PlacesStay, LeftOn
<1>4. CASE FindForRequest(q) \/ ApplyForRequest(q) \/ Audit(q)
  <2>1. /\ request[q].pc \in {"find", "apply", "audit"} /\ waiting' \subseteq waiting
        /\ request'[q].pc \in {"apply", "audit", "optimistic"} /\ request'[q].command = request[q].command
        /\ \A p \in Requests : p # q => request'[p] = request[p]
        /\ UNCHANGED <<commands, events, others, handler>> /\ count'.incidents = count.incidents
    BY <1>0, <1>4 DEF FindForRequest, ApplyForRequest, Audit, Continue
  <2>2. \A w, x : At(w, x, k) => At(w, x, k)'
    BY <1>0, <2>1
  <2>3. Sending(k) => Sending(k)'
    BY <1>0, <2>1 DEF Sending
  <2>4. QED
    BY <2>1, <2>2, <2>3, PlacesStay, LeftOn
<1>5. CASE Optimistic(q)
  <2> DEFINE e == [key |-> request[q].command.key, value |-> request[q].command.value, status |-> "ok"]
  <2>1. /\ request[q].pc = "optimistic" /\ request' = [request EXCEPT ![q] = Idle]
        /\ events' = Append(events, e)
        /\ UNCHANGED <<commands, others, handler, waiting>> /\ count'.incidents = count.incidents
    BY <1>5 DEF Optimistic, Return
  <2>2. e \in Event
    BY <1>0, <2>1 DEF RequestJob, Command, Event
  <2>3. PICK n : n = Len(events) + 1
    OBVIOUS
  <2>4. \A w, x : At(w, x, k) /\ (w # "request" \/ x # q) => At(w, x, k)' /\ (w # "events" \/ x # n)
    <3> HIDE DEF e
    <3>1. \A i : Speaks(events, i, k) => Speaks(events', i, k) /\ i # n
      BY <1>0, <2>1, <2>2, <2>3, AppendSpeaks
    <3>2. \A p \in Requests : Companion(p, k) /\ p # q => Companion(p, k)'
      BY <1>0, <2>1
    <3>3. QED
      BY <2>1, <3>1, <3>2 DEF Speaks
  <2>5. At("request", q, k) => At("events", n, k)'
    <3>1. At("request", q, k) => e.key = k
      OBVIOUS
    <3> HIDE DEF e
    <3>2. e.key = k => Speaks(events', n, k)
      BY <1>0, <2>1, <2>2, <2>3, AppendSpeaks
    <3>3. QED
      BY <3>1, <3>2
  <2>a. (One(k) => One(k)') /\ (Two(k) => Two(k)')
    <3> HIDE DEF At
    <3>1. QED
      BY <2>4, <2>5, PlaceMoves
  <2>6. Sending(k) => Sending(k)'
    BY <1>0, <2>1 DEF Sending
  <2>7. QED
    BY <2>1, <2>a, <2>6, LeftOn
<1>6. QED
  BY <1>1, <1>2, <1>3, <1>4, <1>5 DEF RequestStep, SendCommand

\* The failures of a request.
LEMMA RequestFaultAnswers ==
  ASSUME TypeOK, NEW q \in Requests, RequestFault(q), \A k \in waiting : Left(k), NEW k \in waiting'
  PROVE  Left(k)'
<1> USE DEF Companion, Writes
<1>0. /\ request \in [Requests -> RequestJob \cup {Idle}] /\ Idle.pc = "idle"
      /\ Incident /\ UNCHANGED <<commands, events, others, handler>> /\ waiting' \subseteq waiting
  BY DEF TypeOK, Idle, RequestFault, SendFails, PublishMqttFails, CompanionFails
<1>1. CASE SendFails(q)
  <2>1. request[q].pc = "send" /\ request[q].command.key # k /\ request' = [request EXCEPT ![q] = Idle]
    BY <1>1 DEF SendFails, Return
  <2>2. \A p \in Requests : Companion(p, k) => Companion(p, k)'
    BY <1>0, <2>1
  <2>3. \A w, x : At(w, x, k) => At(w, x, k)'
    BY <1>0, <2>2 DEF At, Speaks
  <2>4. Sending(k) => Sending(k)'
    BY <1>0, <2>1 DEF Sending
  <2>5. Two(k) => One(k)'
    BY <2>3, TwoAreOne, PlacesStay
  <2>6. QED
    BY <1>0, <2>4, <2>5, LeftAfter
<1>2. CASE \/ PublishMqttFails(q)
           \/ CompanionFails(q) /\ request[q].pc \in {"find", "apply"}
  <2>1. /\ request[q].pc \in {"mqtt", "find", "apply"}
        /\ request' = [request EXCEPT ![q] = [pc |-> "audit", command |-> @.command]]
    BY <1>2 DEF PublishMqttFails, CompanionFails, Continue
  <2>2. \A p \in Requests : Companion(p, k) => Companion(p, k)'
    BY <1>0, <2>1
  <2>3. \A w, x : At(w, x, k) => At(w, x, k)'
    BY <1>0, <2>2 DEF At, Speaks
  <2>4. request[q].command.key = k => One(k)'
    <3>1. request[q].command.key = k => Companion(q, k)'
      BY <1>0, <2>1
    <3>2. request[q].command.key = k => At("request", q, k)'
      BY <3>1 DEF At
    <3>3. QED
      BY <3>2 DEF One
  <2>5. Sending(k) => Sending(k)' \/ One(k)'
    BY <1>0, <2>1, <2>4 DEF Sending
  <2>6. Two(k) => One(k)'
    BY <2>3, TwoAreOne, PlacesStay
  <2>7. QED
    BY <1>0, <2>5, <2>6, LeftAfter
<1>3. CASE CompanionFails(q) /\ request[q].pc \in {"audit", "optimistic"}
  <2>1. request' = [request EXCEPT ![q] = Idle]
    BY <1>3 DEF CompanionFails, Return
  <2>2. \A p \in Requests : Companion(p, k) /\ p # q => Companion(p, k)'
    BY <1>0, <2>1
  <2>3. \A w, x : At(w, x, k) /\ (w # "request" \/ x # q) => At(w, x, k)'
    BY <1>0, <2>2 DEF At, Speaks
  <2>4. \A w, x : At(w, x, k) /\ (w # "request" \/ x # q) => One(k)'
    BY <2>3 DEF One
  <2>5. Two(k) => One(k)'
    BY <2>4, PlaceLost
  <2>6. Sending(k) => Sending(k)'
    BY <1>0, <1>3, <2>1 DEF Sending
  <2>7. QED
    BY <1>0, <2>5, <2>6, LeftAfter
<1>4. QED
  BY <1>1, <1>2, <1>3 DEF RequestFault, CompanionFails

\* The device takes a command and answers it, or fails with it; a gateway speaks
\* of what nobody asked for.
LEMMA DeviceAnswers ==
  ASSUME TypeOK, DeviceStep \/ DeviceFails \/ GatewayChange, \A k \in waiting : Left(k), NEW k \in waiting'
  PROVE  Left(k)'
<1>0. /\ UNCHANGED <<request, handler, waiting>> /\ Left(k) /\ (Sending(k) => Sending(k)')
      /\ commands \in Seq(Command) /\ events \in Seq(Event) /\ others \in Seq(Event)
  BY SendingStays DEF DeviceStep, DeviceObeys, DeviceRefuses, DeviceFails, GatewayChange, TypeOK
<1>1. CASE DeviceStep
  <2> DEFINE c == Head(commands)
  <2>1. /\ commands # <<>> /\ commands' = Tail(commands) /\ count' = count
        /\ \E status \in {"ok", "error"} : Confirm(c, status)
    BY <1>1 DEF DeviceStep, DeviceObeys, DeviceRefuses
  <2>2. PICK status \in {"ok", "error"} : Confirm(c, status)
    BY <2>1
  <2>3. c \in Command
    BY <1>0, <2>1, HeadTail
  <2>4. PICK e \in Event : e.key = c.key /\ \/ events' = Append(events, e) /\ UNCHANGED others
                                            \/ others' = Append(others, e) /\ UNCHANGED events
    BY <2>2, <2>3 DEF Confirm, Command, Event
  <2>5. \A x : At("commands", x, k) => /\ x \in Int /\ (x = 1 => e.key = k)
                                       /\ (x # 1 => At("commands", x - 1, k)')
    BY <1>0, <2>1, <2>4, TailSpeaks DEF At
  <2>6. CASE events' = Append(events, e) /\ UNCHANGED others
    <3>1. PICK n : n = Len(events) + 1
      OBVIOUS
    <3>2. /\ \A i : Speaks(events, i, k) => Speaks(events', i, k) /\ i # n
          /\ e.key = k => Speaks(events', n, k)
      BY <1>0, <2>6, <3>1, AppendSpeaks
    <3>3. \A w, x : At(w, x, k) /\ w # "commands" => At(w, x, k)' /\ (w # "events" \/ x # n)
      BY <1>0, <2>6, <3>2 DEF At, Speaks, Companion, Writes
    <3>4. e.key = k => At("events", n, k)'
      BY <3>2 DEF At
    <3>5. HeadTo("commands", "events", n, k)
      BY <2>5, <3>3, <3>4 DEF HeadTo
    <3>6. (One(k) => One(k)') /\ (Two(k) => Two(k)')
      BY <3>5, HeadMoves
    <3>7. QED
      BY <1>0, <2>1, <3>6, LeftOn
  <2>7. CASE others' = Append(others, e) /\ UNCHANGED events
    <3>1. PICK n : n = Len(others) + 1
      OBVIOUS
    <3>2. /\ \A i : Speaks(others, i, k) => Speaks(others', i, k) /\ i # n
          /\ e.key = k => Speaks(others', n, k)
      BY <1>0, <2>7, <3>1, AppendSpeaks
    <3>3. \A w, x : At(w, x, k) /\ w # "commands" => At(w, x, k)' /\ (w # "others" \/ x # n)
      BY <1>0, <2>7, <3>2 DEF At, Speaks, Companion, Writes
    <3>4. e.key = k => At("others", n, k)'
      BY <3>2 DEF At
    <3>5. HeadTo("commands", "others", n, k)
      BY <2>5, <3>3, <3>4 DEF HeadTo
    <3>6. (One(k) => One(k)') /\ (Two(k) => Two(k)')
      BY <3>5, HeadMoves
    <3>7. QED
      BY <1>0, <2>1, <3>6, LeftOn
  <2>8. QED
    BY <2>4, <2>6, <2>7
<1>2. CASE DeviceFails
  <2>1. Incident /\ commands # <<>> /\ commands' = Tail(commands) /\ UNCHANGED <<events, others>>
    BY <1>2 DEF DeviceFails
  <2>2. \A i : Speaks(commands, i, k) /\ i # 1 => Speaks(commands', i - 1, k)
    BY <1>0, <2>1, TailSpeaks
  <2>3. \A x : At("commands", x, k) /\ x # 1 => At("commands", x - 1, k)'
    BY <2>2 DEF At
  <2>4. \A w, x : At(w, x, k) /\ w # "commands" => At(w, x, k)'
    BY <1>0, <2>1 DEF At, Speaks, Companion, Writes
  <2>5. \A w, x : At(w, x, k) /\ (w # "commands" \/ x # 1) => One(k)'
    BY <2>3, <2>4 DEF One
  <2>6. Two(k) => One(k)'
    BY <2>5, PlaceLost
  <2>7. QED
    BY <1>0, <2>1, <2>6, LeftAfter
<1>3. CASE GatewayChange
  <2>1. PICK e \in Event : others' = Append(others, e)
    BY <1>3 DEF GatewayChange, Command, Event
  <2>2. Incident /\ UNCHANGED <<commands, events>>
    BY <1>3 DEF GatewayChange
  <2>3. \A i : Speaks(others, i, k) => Speaks(others', i, k)
    BY <1>0, <2>1, AppendSpeaks
  <2>4. \A w, x : At(w, x, k) => At(w, x, k)'
    BY <1>0, <2>2, <2>3 DEF At, Speaks, Companion, Writes
  <2>5. Two(k) => One(k)'
    BY <2>4, TwoAreOne, PlacesStay
  <2>6. QED
    BY <1>0, <2>2, <2>5, LeftAfter
<1>4. QED
  BY <1>1, <1>2, <1>3

\* A handler takes an event and tells the panel, or fails.
LEMMA HandlerAnswers ==
  ASSUME TypeOK, NEW h \in Handlers, HandlerStep(h) \/ HandlerFails(h), \A k \in waiting : Left(k),
         NEW k \in waiting'
  PROVE  Left(k)'
<1>0. /\ UNCHANGED <<request, commands>> /\ Left(k) /\ (Sending(k) => Sending(k)') /\ Idle.pc = "idle"
      /\ handler \in [Handlers -> HandlerJob \cup {Idle}] /\ events \in Seq(Event) /\ others \in Seq(Event)
  BY SendingStays DEF HandlerStep, TakeEvent, UpdateStates, HandlerFails, TypeOK, Idle
<1>1. CASE TakeEvent(h)
  <2>0. handler[h] = Idle /\ count' = count
    BY <1>1 DEF TakeEvent
  <2>1. CASE events # <<>> /\ events' = Tail(events) /\ UNCHANGED others
             /\ Load(h, "events", Head(events))
    <3>1. \A g \in Handlers : Writes(g, k) => g # h /\ Writes(g, k)'
      BY <1>0, <2>0, <2>1 DEF Writes, Load
    <3>2. Head(events).key = k => Writes(h, k)'
      BY <1>0, <2>1 DEF Writes, Load
    <3>3. \A x : At("events", x, k) => /\ x \in Int /\ (x = 1 => At("handler", h, k)')
                                       /\ (x # 1 => At("events", x - 1, k)')
      BY <1>0, <2>1, <3>2, TailSpeaks DEF At
    <3>4. \A w, x : At(w, x, k) /\ w # "events" => At(w, x, k)' /\ (w # "handler" \/ x # h)
      BY <1>0, <2>1, <3>1 DEF At, Speaks, Companion
    <3>5. HeadTo("events", "handler", h, k)
      BY <3>3, <3>4 DEF HeadTo
    <3>6. (One(k) => One(k)') /\ (Two(k) => Two(k)')
      BY <3>5, HeadMoves
    <3>7. QED
      BY <1>0, <2>0, <3>6, LeftOn
  <2>2. CASE others # <<>> /\ others' = Tail(others) /\ UNCHANGED events
             /\ Load(h, "others", Head(others))
    <3>1. \A g \in Handlers : Writes(g, k) => g # h /\ Writes(g, k)'
      BY <1>0, <2>0, <2>2 DEF Writes, Load
    <3>2. Head(others).key = k => Writes(h, k)'
      BY <1>0, <2>2 DEF Writes, Load
    <3>3. \A x : At("others", x, k) => /\ x \in Int /\ (x = 1 => At("handler", h, k)')
                                       /\ (x # 1 => At("others", x - 1, k)')
      BY <1>0, <2>2, <3>2, TailSpeaks DEF At
    <3>4. \A w, x : At(w, x, k) /\ w # "others" => At(w, x, k)' /\ (w # "handler" \/ x # h)
      BY <1>0, <2>2, <3>1 DEF At, Speaks, Companion
    <3>5. HeadTo("others", "handler", h, k)
      BY <3>3, <3>4 DEF HeadTo
    <3>6. (One(k) => One(k)') /\ (Two(k) => Two(k)')
      BY <3>5, HeadMoves
    <3>7. QED
      BY <1>0, <2>0, <3>6, LeftOn
  <2>3. QED
    BY <1>1, <2>1, <2>2 DEF TakeEvent
<1>2. CASE UpdateStates(h)
  <2>1. /\ ~Writes(h, k) /\ handler' = [handler EXCEPT ![h] = Idle]
        /\ UNCHANGED <<events, others>> /\ count' = count
    BY <1>2 DEF UpdateStates, Writes
  <2>2. \A g \in Handlers : Writes(g, k) => Writes(g, k)'
    BY <1>0, <2>1 DEF Writes
  <2>3. \A w, x : At(w, x, k) => At(w, x, k)'
    BY <1>0, <2>1, <2>2 DEF At, Speaks, Companion
  <2>4. QED
    BY <1>0, <2>1, <2>3, PlacesStay, LeftOn
<1>3. CASE HandlerFails(h)
  <2>1. Incident /\ handler' = [handler EXCEPT ![h] = Idle] /\ UNCHANGED <<events, others>>
    BY <1>3 DEF HandlerFails
  <2>2. \A g \in Handlers : Writes(g, k) /\ g # h => Writes(g, k)'
    BY <1>0, <2>1 DEF Writes
  <2>3. \A w, x : At(w, x, k) /\ (w # "handler" \/ x # h) => At(w, x, k)'
    BY <1>0, <2>1, <2>2 DEF At, Speaks, Companion
  <2>4. \A w, x : At(w, x, k) /\ (w # "handler" \/ x # h) => One(k)'
    BY <2>3 DEF One
  <2>5. Two(k) => One(k)'
    BY <2>4, PlaceLost
  <2>6. QED
    BY <1>0, <2>1, <2>5, LeftAfter
<1>4. QED
  BY <1>1, <1>2, <1>3 DEF HandlerStep

\* What a queue says it still says with an unfinished record put back,
LEMMA RedeliveredKeeps ==
  ASSUME handler \in [Handlers -> HandlerJob \cup {Idle}], NEW from, NEW s \in Seq(Event),
         NEW k, NEW i, Speaks(s, i, k)
  PROVE  \E j : Speaks(Redelivered(from, s), j, k)
<1>1. CASE Unfinished(from) = {}
  BY <1>1 DEF Redelivered
<1>2. CASE Unfinished(from) # {}
  <2> DEFINE e == handler[CHOOSE h \in Unfinished(from) : TRUE].event
  <2>1. Redelivered(from, s) = <<e>> \o s
    BY <1>2 DEF Redelivered
  <2> HIDE DEF e
  <2>2. i \in 1 .. Len(s) /\ s[i].key = k
    BY DEF Speaks
  <2>3. i + 1 \in 1 .. Len(<<e>> \o s) /\ (<<e>> \o s)[i + 1] = s[i]
    BY <2>2
  <2>4. Speaks(Redelivered(from, s), i + 1, k)
    BY <2>1, <2>2, <2>3 DEF Speaks
  <2>5. QED
    BY <2>4
<1>3. QED
  BY <1>1, <1>2

\* and it says what that record says.
LEMMA RedeliveredSpeaks ==
  ASSUME NEW h \in Handlers, handler[h] # Idle, \A g \in Handlers : handler[g] # Idle => g = h,
         NEW s \in Seq(Event), NEW k, handler[h].event.key = k
  PROVE  \E j : Speaks(Redelivered(handler[h].from, s), j, k)
<1>1. Unfinished(handler[h].from) = {h}
  BY DEF Unfinished
<1>2. Redelivered(handler[h].from, s) = <<handler[h].event>> \o s
  BY <1>1 DEF Redelivered
<1>3. /\ 1 \in 1 .. Len(<<handler[h].event>> \o s)
      /\ (<<handler[h].event>> \o s)[1] = handler[h].event
  OBVIOUS
<1>4. QED
  BY <1>2, <1>3 DEF Speaks

\* When the process ends, the panels it cuts off are shown so, and the answers that
\* others still wait for are commands, or records that are delivered again.
LEMMA CrashAnswers ==
  ASSUME TypeOK, ChannelInv, AsksInv, Reaches, Crash, \A k \in waiting : Left(k), NEW k \in waiting'
  PROVE  Left(k)'
<1>0. /\ events \in Seq(Event) /\ others \in Seq(Event) /\ k \in waiting /\ Left(k) /\ Incident
      /\ UNCHANGED <<push, commands>>
      /\ handler \in [Handlers -> HandlerJob \cup {Idle}]
  BY DEF TypeOK, Crash
<1>1. \A q \in Requests : request[q] # Idle => request[q].command.key # k
  BY DEF Crash, InProgress
<1>2. ~Sending(k) /\ \A q \in Requests : ~Companion(q, k) /\ ~Asks(q, k)
  BY <1>1 DEF Sending, Companion, Asks, Idle
<1>3. CASE count.incidents # 0
  <2>1. count.incidents \in Nat /\ count'.incidents = count.incidents + 1
    BY <1>0, BoundsAssumption DEF Incident, TypeOK, Counts
  <2>2. QED
    BY <1>3, <2>1 DEF Left
<1>4. CASE count.incidents = 0
  <2>1. push = "KAFKA"
    BY <1>0, <1>2, <1>4, PushAssumption DEF AsksInv, TypeOK
  <2>2. Two(k)
    BY <1>0, <1>2, <1>4 DEF Left
  <2>3. PICK w, x : At(w, x, k)
    BY <2>2 DEF Two
  <2>4. One(k)'
    <3>1. CASE w = "commands"
      BY <1>0, <2>3, <3>1 DEF At, One
    <3>2. CASE w = "events"
      <4>1. PICK i : Speaks(events', i, k)
        BY <1>0, <2>3, <3>2, RedeliveredKeeps DEF At, Crash
      <4>2. QED
        BY <4>1 DEF At, One
    <3>3. CASE w = "others"
      <4>1. PICK i : Speaks(others', i, k)
        BY <1>0, <2>1, <2>3, <3>3, RedeliveredKeeps DEF At, Crash, IsRecord
      <4>2. QED
        BY <4>1 DEF At, One
    <3>4. CASE w = "handler"
      <4>1. x \in Handlers /\ Writes(x, k) /\ handler[x] # Idle
        BY <2>3, <3>4 DEF At, Writes, Idle
      <4>2. \A g \in Handlers : handler[g] # Idle => g = x
        BY <2>1, <4>1 DEF ChannelInv, OneAtATime
      <4>3. handler[x].from \in {"events", "others"} /\ handler[x].event.key = k
            /\ handler[x].event \in Event
        BY <1>0, <4>1 DEF HandlerJob, Writes
      <4>4. CASE handler[x].from = "events"
        <5>1. PICK i : Speaks(events', i, k)
          BY <1>0, <4>1, <4>2, <4>3, <4>4, RedeliveredSpeaks DEF Crash
        <5>2. QED
          BY <5>1 DEF At, One
      <4>5. CASE handler[x].from = "others"
        <5>1. PICK i : Speaks(others', i, k)
          BY <1>0, <2>1, <4>1, <4>2, <4>3, <4>5, RedeliveredSpeaks DEF Crash, IsRecord
        <5>2. QED
          BY <5>1 DEF At, One
      <4>6. QED
        BY <4>3, <4>4, <4>5
    <3>5. QED
      BY <1>2, <2>3, <3>1, <3>2, <3>3, <3>4 DEF At
  <2>5. QED
    BY <1>0, <1>2, <2>4, LeftAfter
<1>5. QED
  BY <1>3, <1>4

\* While nothing has failed, a waiting panel of an MQTT device has its request in
\* progress: it is told in the process before the request goes on.
LEMMA AsksFirst ==
  ASSUME TypeOK, MqttOnly, AsksInv, [Next]_vars, UNCHANGED push, Reaches' <=> Reaches
  PROVE  AsksInv'
<1> SUFFICES ASSUME Reaches, push = "MQTT", count'.incidents = 0, NEW k \in waiting'
             PROVE  \E q \in Requests : Asks(q, k)'
  BY DEF AsksInv
<1>0. /\ request \in [Requests -> RequestJob \cup {Idle}] /\ Idle.pc = "idle" /\ link = "ready"
      /\ ~Incident
  BY BoundsAssumption DEF TypeOK, Idle, Reaches, Incident, Counts
<1>1. count.incidents = 0
  BY <1>0, BoundsAssumption DEF Next, vars, RequestStep, RequestFault, DeviceStep, HandlerStep, StartAction,
     SendCommand, SendFails, PublishMqtt, PublishMqttFails, FindForRequest, ApplyForRequest, Audit, Optimistic,
     CompanionFails, DeviceObeys, DeviceRefuses, DeviceFails, GatewayChange, TakeEvent,
     UpdateStates, HandlerFails, Crash, TypeOK, Counts
<1>2. k \in waiting => \E q \in Requests : Asks(q, k)
  BY <1>1 DEF AsksInv
<1>3. ASSUME NEW q \in Requests, StartAction(q) PROVE \E p \in Requests : Asks(p, k)'
  <2>1. PICK c \in Command : /\ request' = [request EXCEPT ![q] = [pc |-> "send", command |-> c]]
                             /\ waiting' = waiting \cup {c.key}
    BY <1>3 DEF StartAction
  <2>2. request[q] = Idle
    BY <1>3 DEF StartAction
  <2>3. QED
    BY <1>0, <1>2, <2>1, <2>2 DEF Asks
<1>4. ASSUME NEW q \in Requests, SendCommand(q) \/ PublishMqtt(q) \/ FindForRequest(q)
                                  \/ Audit(q) \/ Optimistic(q)
      PROVE \E p \in Requests : Asks(p, k)'
  <2>1. k \in waiting
    BY <1>4 DEF SendCommand, PublishMqtt, FindForRequest, Audit, Optimistic
  <2>2. PICK p \in Requests : Asks(p, k)
    BY <1>2, <2>1
  <2>3. Asks(p, k)'
    BY <1>0, <1>4, <2>2 DEF SendCommand, PublishMqtt, FindForRequest, Audit, Optimistic,
                            Continue, Return, Asks
  <2>4. QED
    BY <2>3
<1>5. ASSUME NEW q \in Requests, ApplyForRequest(q) PROVE \E p \in Requests : Asks(p, k)'
  <2>1. k \in waiting /\ k # request[q].command.key
    BY <1>5 DEF ApplyForRequest
  <2>2. PICK p \in Requests : Asks(p, k)
    BY <1>2, <2>1
  <2>3. Asks(p, k)'
    BY <1>0, <1>5, <2>1, <2>2 DEF ApplyForRequest, Continue, Asks
  <2>4. QED
    BY <2>3
<1>6. ASSUME UNCHANGED request, k \in waiting PROVE \E p \in Requests : Asks(p, k)'
  BY <1>2, <1>6 DEF Asks
<1>7. QED
  BY <1>0, <1>3, <1>4, <1>5, <1>6 DEF Next, vars, RequestStep, RequestFault, DeviceStep, HandlerStep, SendFails,
     PublishMqttFails, CompanionFails, DeviceObeys, DeviceRefuses, DeviceFails, GatewayChange,
     TakeEvent, UpdateStates, HandlerFails, Crash

\* Each step leaves enough answers.
LEMMA AnswersInvInductive == Spec => []AnswersInv
<1>1. Init => AnswersInv
  BY DEF Init, AnswersInv, MqttOnly, AsksInv, Idle
<1>2. TypeOK /\ ChannelInv /\ AnswersInv /\ [Next]_vars => AnswersInv'
  <2> SUFFICES ASSUME TypeOK, ChannelInv, AnswersInv, [Next]_vars PROVE AnswersInv'
    OBVIOUS
  <2>1. /\ Reaches' <=> Reaches
        /\ UNCHANGED push
    BY DEF Next, vars, RequestStep, RequestFault, DeviceStep, HandlerStep, StartAction, SendCommand,
       SendFails, PublishMqtt, PublishMqttFails, FindForRequest, ApplyForRequest, Audit, Optimistic,
       CompanionFails, DeviceObeys, DeviceRefuses, DeviceFails, GatewayChange, TakeEvent,
       UpdateStates, HandlerFails, Crash, Reaches
  <2>2. MqttOnly'
    <3> USE DEF AnswersInv, MqttOnly, Idle, Continue, Return
    <3>1. ASSUME NEW q \in Requests, StartAction(q) \/ RequestStep(q) \/ RequestFault(q) PROVE MqttOnly'
      BY <2>1, <3>1 DEF TypeOK, RequestStep, RequestFault, StartAction, SendCommand, SendFails, PublishMqtt,
         PublishMqttFails, FindForRequest, ApplyForRequest, Audit, Optimistic, CompanionFails
    <3>2. CASE UNCHANGED request
      BY <2>1, <3>2
    <3>3. CASE Crash
      BY <3>3 DEF Crash
    <3>4. QED
      BY <3>1, <3>2, <3>3 DEF Next, vars, DeviceStep, HandlerStep, DeviceObeys, DeviceRefuses, DeviceFails,
         GatewayChange, TakeEvent, UpdateStates, HandlerFails
  <2>3. ASSUME Reaches, NEW k \in waiting' PROVE Left(k)'
    <3>0. MqttOnly /\ AsksInv /\ \A j \in waiting : Left(j)
      BY <2>3 DEF AnswersInv
    <3>1. ASSUME NEW q \in Requests, StartAction(q) \/ RequestStep(q) PROVE Left(k)'
      BY <2>3, <3>0, <3>1, RequestAnswers
    <3>2. ASSUME NEW q \in Requests, RequestFault(q) PROVE Left(k)'
      BY <2>3, <3>0, <3>2, RequestFaultAnswers
    <3>3. CASE DeviceStep \/ DeviceFails \/ GatewayChange
      BY <2>3, <3>0, <3>3, DeviceAnswers
    <3>4. ASSUME NEW h \in Handlers, HandlerStep(h) \/ HandlerFails(h) PROVE Left(k)'
      BY <2>3, <3>0, <3>4, HandlerAnswers
    <3>5. CASE Crash
      BY <2>3, <3>0, <3>5, CrashAnswers
    <3>6. CASE UNCHANGED vars
      <4>1. /\ UNCHANGED <<request, handler, commands, events, others, waiting>> /\ count' = count
            /\ Left(k) /\ (Sending(k) => Sending(k)')
        BY <2>3, <3>0, <3>6 DEF vars, Sending
      <4>2. \A w, x : At(w, x, k) => At(w, x, k)'
        BY <4>1 DEF At, Speaks, Writes, Companion
      <4>3. QED
        BY <4>1, <4>2, PlacesStay, LeftOn
    <3>7. QED
      BY <3>1, <3>2, <3>3, <3>4, <3>5, <3>6 DEF Next
  <2>4. AsksInv'
    BY <2>1, AsksFirst DEF AnswersInv
  <2>5. QED
    BY <2>1, <2>2, <2>3, <2>4 DEF AnswersInv
<1>3. QED
  BY <1>1, <1>2, TypeCorrect, ChannelInvInductive, PTL DEF Spec

\* A panel waits only as long as its command is being sent, or something that will
\* tell it is on its way or in progress.
AnswerIsLeft ==
    Reaches /\ count.incidents <= 1 => \A k \in waiting : Sending(k) \/ One(k)

\* Whatever one failure does, to a command, to its confirmation, to its companions,
\* to a handler or to the process with all that is in it, no panel is left waiting
\* for nothing: for any number of overlapping requests and concurrent handlers,
\* behind a gateway or on MQTT.
THEOREM NoPanelForgotten == Spec => []AnswerIsLeft
<1>1. TypeOK /\ AnswersInv => AnswerIsLeft
  <2> SUFFICES ASSUME TypeOK, AnswersInv, Reaches, count.incidents <= 1, NEW k \in waiting
               PROVE  Sending(k) \/ One(k)
    BY DEF AnswerIsLeft
  <2>1. Left(k)
    BY DEF AnswersInv
  <2>2. count.incidents \in {0, 1}
    BY BoundsAssumption DEF TypeOK, Counts
  <2>3. QED
    BY <2>1, <2>2, TwoAreOne DEF Left
<1>2. QED
  BY <1>1, TypeCorrect, AnswersInvInductive, PTL
=============================================================================
