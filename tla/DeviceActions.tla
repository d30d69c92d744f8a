---------------------------- MODULE DeviceActions ----------------------------
(***************************************************************************)
(* Actuator commands to one device and the channelStates column the        *)
(* dashboard shows.  A request sends the command, then an optimistic "ok"  *)
(* of its own; the device or its gateway applies or refuses the command    *)
(* and says so; a gateway also changes channels by itself.  All of these   *)
(* end in the same handler, which loads the device, and in a later call    *)
(* writes the whole channelStates object with one channel replaced.        *)
(*                                                                         *)
(* A KAFKA device sits behind a gateway: its events are records of two     *)
(* Kafka topics, which one consumer takes one at a time.  An MQTT device   *)
(* is connected to the broker: its events start handlers that nobody waits *)
(* for, and the request writes channelStates in-process as well.  An error *)
(* in a handler of a record is logged; one in a handler of an MQTT message *)
(* is nobody's to catch and ends the process.                              *)
(*                                                                         *)
(* The status the handler refreshes is the subject of DevicePresence.      *)
(***************************************************************************)
EXTENDS Integers, Sequences

CONSTANTS
    Requests,     \* concurrent activations of triggerDeviceAction
    Handlers,     \* concurrent activations of handleDeviceChannelEvent
    Keys,         \* channels of the device
    Values,       \* values of a channel
    PushChannels, \* push channels considered
    Links,        \* states of the MQTT connection considered
    MaxCommands,  \* bound on the commands
    MaxIncidents  \* bound on the changes a gateway makes by itself and on publish,
                  \* database, device and process failures, together

ASSUME PushAssumption == PushChannels \subseteq {"KAFKA", "MQTT"}
ASSUME LinksAssumption == Links \subseteq {"ready", "unavailable"}
ASSUME BoundsAssumption == MaxCommands \in Nat /\ MaxIncidents \in Nat
ASSUME ValuesAssumption == "unset" \notin Values

VARIABLES
    push,          \* devices.push_channel
    link,          \* "unavailable": MQTT is disabled or the device has no topic,
                   \* or it is behind a gateway
    channelStates, \* devices.channel_states
    request,       \* what each triggerDeviceAction is doing
    handler,       \* what each handleDeviceChannelEvent is doing
    commands,      \* commands on their way to the device
    actual,        \* the state the device's channels are in
    events,        \* records of devices.cloud.events
    others,        \* events published elsewhere: records of devices.cloud.commands
                   \* (gateway changes), for an MQTT device its messages
    waiting,       \* channels whose panel waits for a device.actionResult
    count,         \* commands, and gateway changes and failures, so far
    applied,       \* history: value of the last "ok" written for each channel
    clean          \* history: commands did not overlap, each was obeyed

vars == <<push, link, channelStates, request, handler, commands, actual, events, others,
          waiting, count, applied, clean>>

Value  == Values \cup {"unset"}
States == [Keys -> Value]
Command == [key : Keys, value : Values]
Event  == [key : Keys, value : Values, status : {"ok", "error"}]

Idle       == [pc |-> "idle"]
RequestJob == [pc : {"send", "mqtt", "find", "audit", "optimistic"}, command : Command]
              \cup [pc : {"apply"}, command : Command, loaded : States]
HandlerJob == [pc : {"update"}, from : {"events", "others"}, event : Event, loaded : States]
Counts     == [commands : 0 .. MaxCommands, incidents : 0 .. MaxIncidents]

TypeOK ==
    /\ push \in PushChannels /\ link \in Links
    /\ channelStates \in States /\ actual \in States /\ applied \in States
    /\ request \in [Requests -> RequestJob \cup {Idle}]
    /\ handler \in [Handlers -> HandlerJob \cup {Idle}]
    /\ commands \in Seq(Command)
    /\ events \in Seq(Event) /\ others \in Seq(Event)
    /\ waiting \subseteq Keys
    /\ count \in Counts
    /\ clean \in BOOLEAN

Init ==
    /\ push \in PushChannels /\ link \in Links
    /\ push = "KAFKA" => link = "unavailable"
    /\ channelStates = [k \in Keys |-> "unset"]
    /\ actual = channelStates /\ applied = channelStates
    /\ request = [q \in Requests |-> Idle]
    /\ handler = [h \in Handlers |-> Idle]
    /\ commands = <<>> /\ events = <<>> /\ others = <<>>
    /\ waiting = {}
    /\ count = [commands |-> 0, incidents |-> 0]
    /\ clean = TRUE

Incident ==
    /\ count.incidents < MaxIncidents
    /\ count' = [count EXCEPT !.incidents = @ + 1]
    /\ clean' = FALSE

-----------------------------------------------------------------------------
(***************************************************************************)
(* triggerDeviceAction                                                     *)
(***************************************************************************)
Continue(q, pc) == request' = [request EXCEPT ![q] = [pc |-> pc, command |-> @.command]]
Return(q)       == request' = [request EXCEPT ![q] = Idle]

\* The user clicks, the panel waits; the key is in the template's schema.
StartAction(q) ==
    /\ request[q] = Idle
    /\ count.commands < MaxCommands
    /\ count' = [count EXCEPT !.commands = @ + 1]
    /\ \E c \in Command :
          /\ request' = [request EXCEPT ![q] = [pc |-> "send", command |-> c]]
          /\ waiting' = waiting \cup {c.key}
    /\ clean' = (clean /\ \A p \in Requests : request[p] = Idle)
    /\ UNCHANGED <<push, link, channelStates, handler, commands, actual, events, others, applied>>

\* The command goes to Kafka whatever the push channel; only a gateway reads it.
SendCommand(q) ==
    /\ request[q].pc = "send"
    /\ \/ push = "KAFKA" /\ commands' = Append(commands, request[q].command) /\ Continue(q, "audit")
       \/ push = "MQTT" /\ Continue(q, "mqtt") /\ UNCHANGED commands
    /\ UNCHANGED <<push, link, channelStates, handler, actual, events, others, waiting, count,
                   applied, clean>>

\* The request fails with deviceActionPublishFailed, which the panel shows.
SendFails(q) ==
    /\ request[q].pc = "send"
    /\ Incident
    /\ waiting' = waiting \ {request[q].command.key}
    /\ Return(q)
    /\ UNCHANGED <<push, link, channelStates, handler, commands, actual, events, others, applied>>

\* The result of triggerDeviceActionViaMqtt is not looked at: without a topic or
\* a connection the request goes on as if the command had been published.
PublishMqtt(q) ==
    /\ request[q].pc = "mqtt"
    /\ \/ /\ link = "ready"
          /\ commands' = Append(commands, request[q].command)
          /\ Continue(q, "find")
       \/ link = "unavailable" /\ Continue(q, "audit") /\ UNCHANGED commands
    /\ UNCHANGED <<push, link, channelStates, handler, actual, events, others, waiting, count,
                   applied, clean>>

PublishMqttFails(q) ==
    /\ request[q].pc = "mqtt" /\ link = "ready"
    /\ Incident
    /\ Continue(q, "audit")
    /\ UNCHANGED <<push, link, channelStates, handler, commands, actual, events, others, waiting, applied>>

\* handleDeviceChannelEvent called in-process, with an "ok".
FindForRequest(q) ==
    /\ request[q].pc = "find"
    /\ request' = [request EXCEPT ![q] = [pc |-> "apply", command |-> @.command, loaded |-> channelStates]]
    /\ UNCHANGED <<push, link, channelStates, handler, commands, actual, events, others, waiting,
                   count, applied, clean>>

ApplyForRequest(q) ==
    /\ request[q].pc = "apply"
    /\ LET c == request[q].command
       IN /\ channelStates' = [request[q].loaded EXCEPT ![c.key] = c.value]
          /\ applied' = [applied EXCEPT ![c.key] = c.value]
          /\ waiting' = waiting \ {c.key}
    /\ Continue(q, "audit")
    /\ UNCHANGED <<push, link, handler, commands, actual, events, others, count, clean>>

\* The audit record, which this backend never reads.
Audit(q) ==
    /\ request[q].pc = "audit"
    /\ Continue(q, "optimistic")
    /\ UNCHANGED <<push, link, channelStates, handler, commands, actual, events, others, waiting,
                   count, applied, clean>>

\* The optimistic "ok", then the answer to the user.
Optimistic(q) ==
    /\ request[q].pc = "optimistic"
    /\ events' = Append(events, [key |-> request[q].command.key, value |-> request[q].command.value,
                                 status |-> "ok"])
    /\ Return(q)
    /\ UNCHANGED <<push, link, channelStates, handler, commands, actual, others, waiting, count,
                   applied, clean>>

\* Neither record is needed: a failure is logged and the user gets the same
\* answer.  The database call of the in-process "ok" is only logged as well.
CompanionFails(q) ==
    /\ Incident
    /\ \/ request[q].pc \in {"audit", "optimistic"} /\ Return(q)
       \/ request[q].pc \in {"find", "apply"} /\ Continue(q, "audit")
    /\ UNCHANGED <<push, link, channelStates, handler, commands, actual, events, others, waiting, applied>>

-----------------------------------------------------------------------------
(***************************************************************************)
(* The device, or the gateway in front of it                               *)
(***************************************************************************)
\* A gateway confirms on devices.cloud.events, an MQTT device on its own topic.
Confirm(c, status) ==
    LET event == [key |-> c.key, value |-> c.value, status |-> status]
    IN \/ push = "KAFKA" /\ events' = Append(events, event) /\ UNCHANGED others
       \/ push = "MQTT" /\ others' = Append(others, event) /\ UNCHANGED events

DeviceObeys ==
    /\ commands # <<>>
    /\ commands' = Tail(commands)
    /\ LET c == Head(commands)
       IN actual' = [actual EXCEPT ![c.key] = c.value] /\ Confirm(c, "ok")
    /\ UNCHANGED <<push, link, channelStates, request, handler, waiting, count, applied, clean>>

DeviceRefuses ==
    /\ commands # <<>>
    /\ commands' = Tail(commands)
    /\ Confirm(Head(commands), "error")
    /\ clean' = FALSE
    /\ UNCHANGED <<push, link, channelStates, request, handler, actual, waiting, count, applied>>

\* The command or its confirmation is lost.
DeviceFails ==
    /\ commands # <<>>
    /\ Incident
    /\ commands' = Tail(commands)
    /\ \/ actual' = [actual EXCEPT ![Head(commands).key] = Head(commands).value]
       \/ UNCHANGED actual
    /\ UNCHANGED <<push, link, channelStates, request, handler, events, others, waiting, applied>>

\* A local rule or a button: devices.cloud.commands carries no status.
GatewayChange ==
    /\ Incident
    /\ \E c \in Command :
          /\ actual' = [actual EXCEPT ![c.key] = c.value]
          /\ others' = Append(others, [key |-> c.key, value |-> c.value, status |-> "ok"])
    /\ UNCHANGED <<push, link, channelStates, request, handler, commands, events, waiting, applied>>

-----------------------------------------------------------------------------
(***************************************************************************)
(* handleDeviceChannelEvent                                                *)
(***************************************************************************)
\* What a handler got from the Kafka consumer; the rest are MQTT messages.
IsRecord(from) == from = "events" \/ push = "KAFKA"

\* mutant: the consumer does not wait for the handler either.
MayStartAlways(from) == TRUE

\* The consumer finishes one record before it takes the next, of any topic; what
\* arrives by MQTT does not wait.
MayStart(from) ==
    IsRecord(from) => \A h \in Handlers : handler[h] # Idle => ~IsRecord(handler[h].from)

Load(h, from, event) ==
    handler' = [handler EXCEPT ![h] =
                  [pc |-> "update", from |-> from, event |-> event, loaded |-> channelStates]]

TakeEvent(h) ==
    /\ handler[h] = Idle
    /\ \/ /\ events # <<>> /\ MayStart("events")
          /\ events' = Tail(events) /\ UNCHANGED others
          /\ Load(h, "events", Head(events))
       \/ /\ others # <<>> /\ MayStart("others")
          /\ others' = Tail(others) /\ UNCHANGED events
          /\ Load(h, "others", Head(others))
    /\ UNCHANGED <<push, link, channelStates, request, commands, actual, waiting, count, applied, clean>>

\* mutant: no device.actionResult for a refused command.
UpdateStatesSilent(h) ==
    /\ handler[h].pc = "update"
    /\ LET e == handler[h].event
       IN \/ /\ e.status = "ok"
             /\ channelStates' = [handler[h].loaded EXCEPT ![e.key] = e.value]
             /\ applied' = [applied EXCEPT ![e.key] = e.value]
             /\ waiting' = waiting \ {e.key}
          \/ e.status = "error" /\ UNCHANGED <<channelStates, applied, waiting>>
    /\ handler' = [handler EXCEPT ![h] = Idle]
    /\ UNCHANGED <<push, link, request, commands, actual, events, others, count, clean>>

\* The channels it loaded, with the event's replaced, are written; an "error"
\* leaves them alone.  Both tell the panel (device.actionResult).
UpdateStates(h) ==
    /\ handler[h].pc = "update"
    /\ LET e == handler[h].event
       IN /\ \/ /\ e.status = "ok"
                /\ channelStates' = [handler[h].loaded EXCEPT ![e.key] = e.value]
                /\ applied' = [applied EXCEPT ![e.key] = e.value]
             \/ e.status = "error" /\ UNCHANGED <<channelStates, applied>>
          /\ waiting' = waiting \ {e.key}
    /\ handler' = [handler EXCEPT ![h] = Idle]
    /\ UNCHANGED <<push, link, request, commands, actual, events, others, count, clean>>

\* The consumer logs a database error and takes the next record: this one is gone.
HandlerFails(h) ==
    /\ handler[h].pc = "update"
    /\ IsRecord(handler[h].from)
    /\ Incident
    /\ handler' = [handler EXCEPT ![h] = Idle]
    /\ UNCHANGED <<push, link, channelStates, request, commands, actual, events, others, waiting, applied>>

-----------------------------------------------------------------------------
(***************************************************************************)
(* The process ends: a database error in the handler of an MQTT message is *)
(* a rejection nobody handles.  Requests in progress end without an answer *)
(* to their POST, which the panel is shown; Kafka delivers an unfinished   *)
(* record again, what MQTT delivered is gone, and what it delivers while   *)
(* the process is down may be.                                             *)
(***************************************************************************)
InProgress == {q \in Requests : request[q] # Idle}

Unfinished(from) == {h \in Handlers : handler[h] # Idle /\ handler[h].from = from}

\* A queue of records with the one that was taken from it, and not finished, back
\* in front: the consumer takes one at a time.
Redelivered(from, queue) ==
    IF Unfinished(from) = {}
      THEN queue
      ELSE <<handler[CHOOSE h \in Unfinished(from) : TRUE].event>> \o queue

Crash ==
    /\ Incident
    /\ request' = [q \in Requests |-> Idle]
    /\ handler' = [h \in Handlers |-> Idle]
    /\ waiting' = waiting \ {request[q].command.key : q \in InProgress}
    /\ events' = Redelivered("events", events)
    /\ IF IsRecord("others")
         THEN others' = Redelivered("others", others)
         ELSE \E n \in 0 .. Len(others) : others' = SubSeq(others, n + 1, Len(others))
    /\ UNCHANGED <<push, link, channelStates, commands, actual, applied>>

-----------------------------------------------------------------------------
RequestStep(q) == \/ SendCommand(q) \/ PublishMqtt(q) \/ FindForRequest(q) \/ ApplyForRequest(q)
                  \/ Audit(q) \/ Optimistic(q)
RequestFault(q) == SendFails(q) \/ PublishMqttFails(q) \/ CompanionFails(q)
HandlerStep(h) == TakeEvent(h) \/ UpdateStates(h)
DeviceStep     == DeviceObeys \/ DeviceRefuses

Next ==
    \/ \E q \in Requests : StartAction(q) \/ RequestStep(q) \/ RequestFault(q)
    \/ DeviceStep \/ DeviceFails \/ GatewayChange
    \/ \E h \in Handlers : HandlerStep(h) \/ HandlerFails(h)
    \/ Crash

(***************************************************************************)
(* A request that started goes on, the device answers commands and the     *)
(* consumer takes events; nobody has to click and no gateway has to change *)
(* anything by itself.                                                     *)
(***************************************************************************)
Fairness ==
    /\ \A q \in Requests : WF_vars(RequestStep(q))
    /\ WF_vars(DeviceStep)
    /\ WF_vars(\E h \in Handlers : HandlerStep(h))

Spec     == Init /\ [][Next]_vars
FairSpec == Spec /\ Fairness

-----------------------------------------------------------------------------
(***************************************************************************)
(* Properties                                                              *)
(***************************************************************************)

Quiet == /\ \A q \in Requests : request[q] = Idle
         /\ \A h \in Handlers : handler[h] = Idle
         /\ commands = <<>> /\ events = <<>> /\ others = <<>>

\* channelStates "describes the channel's newly-applied actuator state": although
\* every event writes all channels, none takes back what another wrote.  This
\* needs the consumer to handle one record at a time.
NoLostUpdate == push = "KAFKA" => channelStates = applied

\* Each command is announced twice, by the request and by the gateway, on one
\* topic in any order.  When commands do not overlap and each is obeyed, the
\* dashboard still ends up with the state the device is in.
SettlesOnActual == push = "KAFKA" /\ clean /\ Quiet => channelStates = actual

\* The panel shows its optimistic value until a device.actionResult names its
\* channel or its request fails: whatever one failure does to the command, to its
\* confirmation, to its companions, to a handler or to the whole process, the panel
\* gets an answer.
Answered == (push = "MQTT" => link = "ready") => \A k \in Keys : k \in waiting ~> k \notin waiting

=============================================================================
