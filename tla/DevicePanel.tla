----------------------------- MODULE DevicePanel -----------------------------
(***************************************************************************)
(* The dashboard page of a browser: the ACTION panels of one device behind *)
(* a gateway, one panel per channel, and the socket they share.  A click   *)
(* shows its value at once and posts the command; the backend's handler    *)
(* pushes channelState and actionResult to the device's room; the page     *)
(* keeps the latest of each and, when React renders, every panel compares  *)
(* its optimistic value with them.  What is pushed while the socket is not *)
(* in the room is gone, and of two pushes between two renders a panel sees *)
(* only the last.                                                          *)
(*                                                                         *)
(* How a command becomes events is the subject of DeviceActions; here an   *)
(* accepted command leaves any of them behind, in any order.  Channels     *)
(* that a telemetry payload carries as well are left out.                  *)
(***************************************************************************)
EXTENDS Integers, Sequences

CONSTANTS
    Keys,      \* channels of the device, each with a panel
    Values,    \* values of a channel
    MaxClicks, \* bound on the clicks
    MaxOthers, \* bound on the changes others make (a gateway, another user)
    MaxDrops   \* bound on lost connections and failed subscriptions, together

ASSUME ValuesAssumption == "none" \notin Values
ASSUME BoundsAssumption == MaxClicks \in Nat /\ MaxOthers \in Nat /\ MaxDrops \in Nat

VARIABLES
    states,     \* devices.channel_states
    due,        \* channel events the backend has not handled
    handled,    \* the event whose row is updated and which is not pushed yet
    link,       \* whether the socket is connected
    asked,      \* subscribedRef has the device
    asking,     \* subscribe:device is on its way or being looked up
    joined,     \* the socket is in the device's room
    wire,       \* pushes on their way to the page
    latest,     \* latestByDevice
    result,     \* actionResultByDevice
    unseen,     \* which of the two changed since the last render
    optimistic, \* each panel's optimisticValue
    http,       \* each panel's POST: none, the value sent, or its answer
    count,      \* clicks, changes by others and drops so far
    heard,      \* history: a channelState arrived on this connection
    refused,    \* the subscription failed on this connection, and was not asked for again
    missed      \* history: channels an answer of which no render saw

server == <<states, due, handled>>
socket == <<link, asked, asking, joined, refused>>
page   == <<latest, result, unseen, optimistic, http>>
vars   == <<server, socket, wire, page, count, heard, missed>>

Value   == Values \cup {"none"}
States  == [Keys -> Value]
Click   == 0 .. MaxClicks
Event   == [key : Keys, value : Values, status : {"ok", "error"},
            by : {"request", "gateway", "other"}, click : Click]
NoEvent == [status |-> "none"]
Push    == [type : {"channelState"}, key : Keys, states : States]
           \cup [type : {"actionResult"}, key : Keys, status : {"ok", "error"}]
Result  == [key : Keys, status : {"ok", "error"}]
NoResult == [status |-> "none"]
Post    == [pc : {"none", "accepted", "failed"}] \cup [pc : {"sent"}, value : Values, click : Click]
NoPost  == [pc |-> "none"]
Nothing == [k \in Keys |-> "none"]

TypeOK ==
    /\ states \in States /\ latest \in States /\ optimistic \in States
    /\ due \subseteq Event /\ handled \in Event \cup {NoEvent}
    /\ link \in {"up", "down"}
    /\ asked \in BOOLEAN /\ asking \in BOOLEAN /\ joined \in BOOLEAN
    /\ wire \in Seq(Push)
    /\ result \in Result \cup {NoResult}
    /\ unseen \subseteq {"channelState", "actionResult"}
    /\ http \in [Keys -> Post]
    /\ count \in [clicks : 0 .. MaxClicks, others : 0 .. MaxOthers, drops : 0 .. MaxDrops]
    /\ heard \in BOOLEAN /\ refused \in BOOLEAN
    /\ missed \subseteq Keys

\* The page has fetched the device and has not connected yet.
Init ==
    /\ states = Nothing
    /\ due = {} /\ handled = NoEvent
    /\ link = "down" /\ asked = FALSE /\ asking = FALSE /\ joined = FALSE
    /\ wire = <<>>
    /\ latest = Nothing /\ result = NoResult /\ unseen = {}
    /\ optimistic = Nothing
    /\ http = [k \in Keys |-> NoPost]
    /\ count = [clicks |-> 0, others |-> 0, drops |-> 0]
    /\ heard = FALSE /\ refused = FALSE /\ missed = {}

Drop == /\ count.drops < MaxDrops
        /\ count' = [count EXCEPT !.drops = @ + 1]

-----------------------------------------------------------------------------
(***************************************************************************)
(* The panels: a click, the answer to its POST, the timer                  *)
(***************************************************************************)
Waits(k) == optimistic[k] # "none"

\* The buttons of a panel are disabled while its POST is pending.
HandleTrigger(k) ==
    /\ http[k] = NoPost
    /\ count.clicks < MaxClicks
    /\ count' = [count EXCEPT !.clicks = @ + 1]
    /\ \E v \in Values :
          /\ optimistic' = [optimistic EXCEPT ![k] = v]
          /\ http' = [http EXCEPT ![k] = [pc |-> "sent", value |-> v, click |-> count'.clicks]]
    /\ missed' = missed \ {k}
    /\ UNCHANGED <<server, socket, wire, latest, result, unseen, heard>>

\* onSuccess only toasts; onError: nothing to wait a confirmation for.
OnAnswer(k) ==
    /\ http[k].pc \in {"accepted", "failed"}
    /\ optimistic' = IF http[k].pc = "failed" THEN [optimistic EXCEPT ![k] = "none"] ELSE optimistic
    /\ http' = [http EXCEPT ![k] = NoPost]
    /\ UNCHANGED <<server, socket, wire, latest, result, unseen, count, heard, missed>>

\* OPTIMISTIC_ACTION_TIMEOUT_MS after the click.
Timeout(k) ==
    /\ Waits(k)
    /\ optimistic' = [optimistic EXCEPT ![k] = "none"]
    /\ UNCHANGED <<server, socket, wire, latest, result, unseen, http, count, heard, missed>>

-----------------------------------------------------------------------------
(***************************************************************************)
(* The backend                                                             *)
(***************************************************************************)
\* triggerDeviceAction answered ok: its own "ok" and the gateway's event may both
\* follow, either of them, or, when both are lost, none.
Accept(k) ==
    /\ http[k].pc = "sent"
    /\ LET Said(by, status) == [key |-> k, value |-> http[k].value, status |-> status, by |-> by,
                                click |-> http[k].click]
       IN \E mine \in {{}, {Said("request", "ok")}},
             gateways \in {{}, {Said("gateway", "ok")}, {Said("gateway", "error")}} :
             /\ due' = due \cup mine \cup gateways
             /\ missed' = IF mine = {} /\ gateways = {} THEN missed \cup {k} ELSE missed
    /\ http' = [http EXCEPT ![k] = [pc |-> "accepted"]]
    /\ UNCHANGED <<states, handled, socket, wire, latest, result, unseen, optimistic, count, heard>>

\* The command could not be published.
Reject(k) ==
    /\ http[k].pc = "sent"
    /\ http' = [http EXCEPT ![k] = [pc |-> "failed"]]
    /\ UNCHANGED <<server, socket, wire, latest, result, unseen, optimistic, count, heard, missed>>

OthersChange ==
    /\ count.others < MaxOthers
    /\ count' = [count EXCEPT !.others = @ + 1]
    /\ \E k \in Keys, v \in Values :
          due' = due \cup {[key |-> k, value |-> v, status |-> "ok", by |-> "other", click |-> 0]}
    /\ UNCHANGED <<states, handled, socket, wire, page, heard, missed>>

\* To the room; a socket that is not in it gets nothing.
PushAll(k, pushes) ==
    IF joined THEN wire' = wire \o pushes /\ UNCHANGED missed
              ELSE missed' = missed \cup {k} /\ UNCHANGED wire

Told(k, s)         == [type |-> "channelState", key |-> k, states |-> s]
Answered(k, status) == [type |-> "actionResult", key |-> k, status |-> status]

\* handleDeviceChannelEvent up to its await: an "error" changes no channel.  The
\* consumer handles one event at a time.
UpdateChannels ==
    /\ handled = NoEvent
    /\ \E e \in due :
          /\ due' = due \ {e}
          /\ handled' = e
          /\ states' = IF e.status = "ok" THEN [states EXCEPT ![e.key] = e.value] ELSE states
    /\ UNCHANGED <<socket, wire, page, count, heard, missed>>

\* mutant: only the channel that changed is pushed.
PushesOne(e) ==
    IF e.status = "ok" THEN <<Told(e.key, [Nothing EXCEPT ![e.key] = e.value]), Answered(e.key, "ok")>>
    ELSE <<Answered(e.key, "error")>>

\* mutant: a refused command is answered by nothing.
PushesOk(e) ==
    IF e.status = "ok" THEN <<Told(e.key, states), Answered(e.key, "ok")>> ELSE <<>>

\* All channels are pushed with an "ok"; an "error" has a result only.
Pushes(e) ==
    IF e.status = "ok" THEN <<Told(e.key, states), Answered(e.key, "ok")>> ELSE <<Answered(e.key, "error")>>

\* The rest of it.
EmitChannels ==
    /\ handled # NoEvent
    /\ handled' = NoEvent
    /\ PushAll(handled.key, Pushes(handled))
    /\ UNCHANGED <<states, due, socket, page, count, heard>>

-----------------------------------------------------------------------------
(***************************************************************************)
(* The socket                                                              *)
(***************************************************************************)
Connect ==
    /\ link = "down"
    /\ link' = "up"
    /\ UNCHANGED <<server, asked, asking, joined, refused, wire, page, count, heard, missed>>

\* The backend is restarted as well, and is given the event again; or it is not.
MayRestart ==
    \/ UNCHANGED <<due, handled>>
    \/ handled # NoEvent /\ due' = due \cup {handled} /\ handled' = NoEvent

\* mutant: subscribedRef outlives the connection.
DisconnectAsked ==
    /\ link = "up"
    /\ Drop /\ MayRestart
    /\ link' = "down" /\ asking' = FALSE /\ joined' = FALSE
    /\ wire' = <<>>
    /\ missed' = missed \cup {wire[i].key : i \in DOMAIN wire}
    /\ refused' = FALSE /\ heard' = FALSE
    /\ UNCHANGED <<states, asked, page>>

\* What was on its way is gone.
Disconnect ==
    /\ link = "up"
    /\ Drop /\ MayRestart
    /\ link' = "down" /\ asked' = FALSE /\ asking' = FALSE /\ joined' = FALSE
    /\ wire' = <<>>
    /\ missed' = missed \cup {wire[i].key : i \in DOMAIN wire}
    /\ refused' = FALSE /\ heard' = FALSE
    /\ UNCHANGED <<states, page>>

\* The effect that runs once the page knows that it is connected.
Subscribe ==
    /\ link = "up" /\ ~asked /\ ~refused
    /\ asked' = TRUE /\ asking' = TRUE
    /\ UNCHANGED <<server, link, joined, refused, wire, page, count, heard, missed>>

\* It runs again when the dashboard's set of devices changes.
DevicesChange ==
    /\ refused /\ ~asked
    /\ asked' = TRUE /\ asking' = TRUE /\ refused' = FALSE
    /\ UNCHANGED <<server, link, joined, wire, page, count, heard, missed>>

HandleSubscribeDevice ==
    /\ asking
    /\ asking' = FALSE /\ joined' = TRUE
    /\ UNCHANGED <<server, link, asked, refused, wire, page, count, heard, missed>>

\* The device is not found, which the page is told and forgets that it asked, or the
\* lookup fails, which it is not told.
SubscribeFails ==
    /\ asking
    /\ Drop
    /\ asking' = FALSE /\ refused' = TRUE
    /\ asked' \in BOOLEAN
    /\ UNCHANGED <<server, link, joined, wire, page, heard, missed>>

-----------------------------------------------------------------------------
(***************************************************************************)
(* The page                                                                *)
(***************************************************************************)
\* What the next render will find.
Caught(k)  == Waits(k) /\ optimistic[k] = latest[k]
Refused(k) == "actionResult" \in unseen /\ result = [key |-> k, status |-> "error"]

\* A channel the push does not name keeps its value.
Merged(s) == [k \in Keys |-> IF s[k] = "none" THEN latest[k] ELSE s[k]]

Receive ==
    /\ wire # <<>>
    /\ wire' = Tail(wire)
    /\ LET m == Head(wire)
       IN /\ unseen' = unseen \cup {m.type}
          /\ \/ /\ m.type = "channelState"
                /\ latest' = Merged(m.states) /\ heard' = TRUE
                /\ missed' = missed \cup {k \in Keys : Caught(k) /\ latest'[k] # latest[k]}
                /\ UNCHANGED result
             \/ /\ m.type = "actionResult"
                /\ result' = [key |-> m.key, status |-> m.status]
                /\ missed' = missed \cup {k \in Keys : Refused(k)}
                /\ UNCHANGED <<latest, heard>>
    /\ UNCHANGED <<server, socket, optimistic, http, count>>

\* The effects of every panel: the value caught up with the click, or the result
\* is an error of this panel's channel.
Render ==
    /\ unseen # {} \/ \E k \in Keys : Caught(k)
    /\ optimistic' = [k \in Keys |-> IF Caught(k) \/ Refused(k) THEN "none" ELSE optimistic[k]]
    /\ unseen' = {}
    /\ UNCHANGED <<server, socket, wire, latest, result, http, count, heard, missed>>

-----------------------------------------------------------------------------
Answer(k) == Accept(k) \/ Reject(k) \/ OnAnswer(k)

Next ==
    \/ \E k \in Keys : HandleTrigger(k) \/ Answer(k) \/ Timeout(k)
    \/ OthersChange \/ UpdateChannels \/ EmitChannels
    \/ Connect \/ Disconnect \/ Subscribe \/ DevicesChange \/ HandleSubscribeDevice \/ SubscribeFails
    \/ Receive \/ Render

(***************************************************************************)
(* The backend answers and handles events, the socket reconnects by itself *)
(* and delivers, and React renders.  Nobody has to click or to focus the   *)
(* window or to edit the dashboard, and the timer is not counted on.       *)
(***************************************************************************)
Fairness ==
    /\ \A k \in Keys : WF_vars(Answer(k))
    /\ WF_vars(UpdateChannels) /\ WF_vars(EmitChannels)
    /\ WF_vars(Connect) /\ WF_vars(Subscribe) /\ WF_vars(HandleSubscribeDevice)
    /\ WF_vars(Receive) /\ WF_vars(Render)

Spec     == Init /\ [][Next]_vars
FairSpec == Spec /\ Fairness

-----------------------------------------------------------------------------
(***************************************************************************)
(* Properties                                                              *)
(***************************************************************************)

\* "channelStates is the device's full accumulated map": the first push on a new
\* connection makes up for all that was missed, whatever was updated and not pushed
\* before, and from then on the page shows the persisted channels as soon as the wire
\* is empty and no row is updated that is still to be pushed.
Mirrors == heard /\ wire = <<>> /\ handled = NoEvent => latest = states

\* An actionResult is for "an ACTION panel to resolve its own optimistic value
\* immediately instead of waiting out its confirmation timeout": without its timer,
\* a waiting panel stops waiting, unless something that was said of its channel
\* since the click was lost, or overwritten before a render.
ResolvedByAnswer == \A k \in Keys : Waits(k) ~> ~Waits(k) \/ k \in missed

\* The page subscribes again after every reconnection, although it subscribes to
\* a device only once.
Rejoins == link = "up" ~> joined \/ refused \/ link = "down"

=============================================================================
