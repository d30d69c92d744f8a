-------------------------- MODULE DevicePanel_proofs --------------------------
(***************************************************************************)
(* Proofs about DevicePanel: type correctness and, for any channels,       *)
(* values and numbers of clicks, changes and lost connections, that a page *)
(* which heard of the device shows its channels once the wire is empty,    *)
(* that a waiting panel has an answer before it, and that a connected page *)
(* outside of the room has somebody to bring it back.                      *)
(***************************************************************************)
EXTENDS DevicePanel, TLAPS

Tells(m) == m.type = "channelState"

\* A channel the page, or a push, knows a value of is set in the database: no
\* channel is ever unset.
OnlySetChannels ==
    /\ \A k \in Keys : latest[k] # "none" => states[k] # "none"
    /\ \A i \in 1 .. Len(wire) : Tells(wire[i]) =>
          \A k \in Keys : wire[i].states[k] # "none" => states[k] # "none"

\* Outside of the room nothing is on its way and nothing was heard.
OutsideIsSilent == ~joined => wire = <<>> /\ ~heard

\* A row is updated and not pushed.
Behind == handled # NoEvent /\ handled.status = "ok"

\* The last channelState on the wire is the row.
LastTells == ~Behind =>
    \A i \in 1 .. Len(wire) :
       Tells(wire[i]) /\ (\A j \in 1 .. Len(wire) : j > i => ~Tells(wire[j])) => wire[i].states = states

\* When none is on its way, the page has the row.
NothingToTell == ~Behind => (heard /\ (\A i \in 1 .. Len(wire) : ~Tells(wire[i])) => latest = states)

Inv == TypeOK /\ OnlySetChannels /\ OutsideIsSilent /\ LastTells /\ NothingToTell

(***************************************************************************)
(* Pushes are messages, and the value of an event is not "none".           *)
(***************************************************************************)
LEMMA PushesAreTyped ==
    ASSUME NEW k \in Keys, NEW s \in States, NEW status \in {"ok", "error"}
    PROVE  Told(k, s) \in Push /\ Answered(k, status) \in Push
  BY DEF Told, Answered, Push

\* Merging two maps of channels gives a map of channels,
LEMMA MergedTyped ==
    ASSUME TypeOK, NEW s \in States
    PROVE  Merged(s) \in States
  BY DEF TypeOK, Merged, States

\* pushing puts pushes on the wire,
LEMMA PushAllTyped ==
    ASSUME TypeOK, NEW k \in Keys, NEW pushes \in Seq(Push), PushAll(k, pushes)
    PROVE  wire' \in Seq(Push) /\ missed' \subseteq Keys
<1>1. wire \o pushes \in Seq(Push)
  BY DEF TypeOK
<1> QED BY <1>1 DEF TypeOK, PushAll

\* what is pushed of an event is a few pushes,
LEMMA PushesTyped ==
    ASSUME TypeOK, NEW e \in Event
    PROVE  Pushes(e) \in Seq(Push)
<1>1. states \in States /\ e.key \in Keys /\ e.status \in {"ok", "error"}
  BY DEF TypeOK, Event
<1>2. Told(e.key, states) \in Push /\ Answered(e.key, e.status) \in Push
  BY <1>1, PushesAreTyped
<1> DEFINE told == Told(e.key, states)
<1> DEFINE answered == Answered(e.key, e.status)
<1> HIDE DEF told, answered
<1>3. <<told, answered>> \in Seq(Push) /\ <<answered>> \in Seq(Push)
  BY <1>2 DEF told, answered
<1>4. Pushes(e) = IF e.status = "ok" THEN <<told, answered>> ELSE <<answered>>
  BY <1>1 DEF Pushes, told, answered
<1> QED BY <1>3, <1>4

Counts == [clicks : 0 .. MaxClicks, others : 0 .. MaxOthers, drops : 0 .. MaxDrops]

\* and a dropped connection is counted.
LEMMA DropTyped == TypeOK /\ Drop => count' \in Counts
  BY BoundsAssumption DEF TypeOK, Drop, Counts

\* A page that was just opened.
LEMMA InitInv == Init => Inv
<1> SUFFICES ASSUME Init PROVE Inv
  OBVIOUS
<1>1. Nothing \in States
  BY DEF Nothing, States, Value
<1>2. http \in [Keys -> Post]
  BY DEF Init, NoPost, Post
<1>3. wire \in Seq(Push) /\ Len(wire) = 0
  BY DEF Init
<1>4. count \in Counts
  BY BoundsAssumption DEF Init, Counts
<1>5. result \in Result \cup {NoResult} /\ unseen \subseteq {"channelState", "actionResult"}
  BY DEF Init
<1>6. TypeOK
  BY <1>1, <1>2, <1>3, <1>4, <1>5 DEF Init, TypeOK, Counts
<1>7. OnlySetChannels /\ OutsideIsSilent /\ LastTells /\ NothingToTell
  BY <1>3 DEF Init, OnlySetChannels, OutsideIsSilent, LastTells, NothingToTell, Nothing
<1> QED BY <1>6, <1>7 DEF Inv

(***************************************************************************)
(* Type correctness is inductive by itself.                                *)
(***************************************************************************)
LEMMA TypeStep == TypeOK /\ [Next]_vars => TypeOK'
<1> SUFFICES ASSUME TypeOK, [Next]_vars PROVE TypeOK'
  OBVIOUS
<1> USE DEF TypeOK
<1>1. ASSUME NEW k \in Keys, HandleTrigger(k) PROVE TypeOK'
  <2>1. count'.clicks \in Click
    BY <1>1, BoundsAssumption DEF HandleTrigger, Click
  <2>2. http' \in [Keys -> Post]
    BY <1>1, <2>1 DEF HandleTrigger, Post
  <2> QED BY <1>1, <2>2, BoundsAssumption DEF HandleTrigger, server, socket, States, Value
<1>2. ASSUME NEW k \in Keys, Accept(k) PROVE TypeOK'
  <2>1. http[k] \in Post /\ http[k].pc = "sent"
    BY <1>2 DEF Accept
  <2>2. http[k].value \in Values /\ http[k].click \in Click
    BY <2>1 DEF Post
  <2>3. due' \subseteq Event
    BY <1>2, <2>2 DEF Accept, Event
  <2>4. http' \in [Keys -> Post]
    BY <1>2 DEF Accept, Post
  <2> QED BY <1>2, <2>3, <2>4 DEF Accept, socket
<1>3. ASSUME NEW k \in Keys, Reject(k) PROVE TypeOK'
  BY <1>3 DEF Reject, Post, server, socket
<1>4. ASSUME NEW k \in Keys, OnAnswer(k) PROVE TypeOK'
  BY <1>4 DEF OnAnswer, Post, NoPost, States, Value, server, socket
<1>5. ASSUME NEW k \in Keys, Timeout(k) PROVE TypeOK'
  BY <1>5 DEF Timeout, States, Value, server, socket
<1>6. CASE OthersChange
  <2>1. due' \subseteq Event
    BY <1>6, BoundsAssumption DEF OthersChange, Event, Click
  <2> QED BY <1>6, <2>1, BoundsAssumption DEF OthersChange, socket, page
<1>7. CASE UpdateChannels
  <2>1. PICK e \in due : /\ due' = due \ {e} /\ handled' = e
                         /\ states' = IF e.status = "ok" THEN [states EXCEPT ![e.key] = e.value] ELSE states
    BY <1>7 DEF UpdateChannels
  <2>2. e \in Event /\ e.key \in Keys /\ e.value \in Value
    BY DEF Event, Value
  <2>3. states' \in States
    BY <2>1, <2>2 DEF States
  <2> QED BY <1>7, <2>1, <2>2, <2>3 DEF UpdateChannels, socket, page
<1>16. CASE EmitChannels
  <2>1. handled \in Event /\ handled.key \in Keys
    BY <1>16 DEF EmitChannels, Event
  <2>2. Pushes(handled) \in Seq(Push)
    BY <2>1, PushesTyped
  <2>3. wire' \in Seq(Push) /\ missed' \subseteq Keys
    BY <1>16, <2>1, <2>2, PushAllTyped DEF EmitChannels
  <2> QED BY <1>16, <2>3 DEF EmitChannels, socket, page
<1>8. CASE Connect
  BY <1>8 DEF Connect, server, page
<1>9. CASE Disconnect
  <2>1. \A i \in DOMAIN wire : wire[i].key \in Keys
    BY DEF Push
  <2>2. count' \in Counts
    BY <1>9, DropTyped DEF Disconnect
  <2>3. missed' \subseteq Keys
    BY <1>9, <2>1 DEF Disconnect
  <2>4. wire' \in Seq(Push)
    BY <1>9 DEF Disconnect
  <2>5. due' \subseteq Event /\ handled' \in Event \cup {NoEvent}
    BY <1>9 DEF Disconnect, MayRestart
  <2> QED BY <1>9, <2>2, <2>3, <2>4, <2>5 DEF Disconnect, Counts, page
<1>10. CASE Subscribe
  BY <1>10 DEF Subscribe, server, page
<1>17. CASE DevicesChange
  BY <1>17 DEF DevicesChange, server, page
<1>11. CASE HandleSubscribeDevice
  BY <1>11 DEF HandleSubscribeDevice, server, page
<1>12. CASE SubscribeFails
  <2>1. count' \in Counts
    BY <1>12, DropTyped DEF SubscribeFails
  <2> QED BY <1>12, <2>1 DEF SubscribeFails, Counts, server, page
<1>13. CASE Receive
  <2>1. Head(wire) \in Push /\ wire' \in Seq(Push)
    BY <1>13 DEF Receive
  <2>2. Head(wire).type = "channelState" => Merged(Head(wire).states) \in States
    BY <2>1, MergedTyped DEF Push
  <2>3. Head(wire).type = "actionResult" =>
           [key |-> Head(wire).key, status |-> Head(wire).status] \in Result
    BY <2>1 DEF Push, Result
  <2>4. Head(wire).type \in {"channelState", "actionResult"}
    BY <2>1 DEF Push
  <2> QED BY <1>13, <2>1, <2>2, <2>3, <2>4 DEF Receive, server, socket
<1>14. CASE Render
  BY <1>14 DEF Render, States, Value, server, socket
<1>15. CASE UNCHANGED vars
  BY <1>15 DEF vars, server, socket, page
<1> QED BY <1>1, <1>2, <1>3, <1>4, <1>5, <1>6, <1>7, <1>8, <1>9, <1>10, <1>11, <1>12, <1>13, <1>14,
           <1>15, <1>16, <1>17 DEF Next, Answer

\* Every variable has its type in every reachable state, whatever the channels and
\* the bounds.
THEOREM TypeCorrect == Spec => []TypeOK
<1>1. Init => TypeOK
  BY InitInv DEF Inv
<1> QED BY <1>1, TypeStep, PTL DEF Spec

(***************************************************************************)
(* The invariant: everything that sets a channel pushes all of them, in    *)
(* order, to a page that is in the room.                                   *)
(***************************************************************************)
\* What leaves the row, the wire and the page's copy alone keeps the invariant.
Same == UNCHANGED <<states, handled, wire, latest, heard, joined>>

\* Steps of the backend's requests and of rendering touch nothing of it.
LEMMA SameKeeps == Inv /\ TypeOK' /\ Same => Inv'
  BY DEF Inv, Same, OnlySetChannels, OutsideIsSilent, LastTells, NothingToTell, Tells, Behind

\* The handler writes a row,
LEMMA UpdateKeeps == Inv /\ TypeOK' /\ UpdateChannels => Inv'
<1> SUFFICES ASSUME Inv, TypeOK', UpdateChannels PROVE Inv'
  OBVIOUS
<1> USE DEF Inv
<1>1. PICK e \in due : /\ handled' = e
                       /\ states' = IF e.status = "ok" THEN [states EXCEPT ![e.key] = e.value] ELSE states
  BY DEF UpdateChannels
<1>2. e \in Event /\ states \in States /\ ~Behind /\ e # NoEvent
  BY DEF TypeOK, UpdateChannels, Behind, Event, NoEvent
<1>3. UNCHANGED <<wire, latest, heard, joined>>
  BY DEF UpdateChannels, socket, page
<1>4. \A k \in Keys : states[k] # "none" => states'[k] # "none"
  BY <1>1, <1>2, ValuesAssumption DEF Event, States
<1>5. OnlySetChannels' /\ OutsideIsSilent'
  BY <1>3, <1>4 DEF OnlySetChannels, OutsideIsSilent, Tells
<1>6. ~Behind' => states' = states
  BY <1>1, <1>2 DEF Behind
<1> QED BY <1>2, <1>3, <1>5, <1>6 DEF LastTells, NothingToTell, Tells

\* and pushes what it has written.
LEMMA EmitKeeps == Inv /\ TypeOK' /\ EmitChannels => Inv'
<1> SUFFICES ASSUME Inv, TypeOK', EmitChannels PROVE Inv'
  OBVIOUS
<1> USE DEF Inv
<1> DEFINE e == handled
<1>2. e \in Event /\ states \in States /\ wire \in Seq(Push)
  BY DEF TypeOK, EmitChannels
<1>3. UNCHANGED <<states, latest, heard, joined>> /\ handled' = NoEvent /\ PushAll(e.key, Pushes(e))
  BY DEF EmitChannels, socket, page
<1>5. CASE ~joined
  <2>1. wire' = <<>> /\ wire = <<>> /\ ~heard
    BY <1>3, <1>5 DEF OutsideIsSilent, PushAll
  <2> QED BY <1>3, <2>1 DEF OnlySetChannels, OutsideIsSilent, LastTells, NothingToTell
<1>6. CASE joined /\ e.status = "ok"
  <2> DEFINE told == Told(e.key, states)
  <2> DEFINE answered == Answered(e.key, e.status)
  <2>2. Tells(told) /\ told.states = states /\ ~Tells(answered)
    BY DEF Told, Answered, Tells
  <2>a. Pushes(e) = <<told, answered>>
    BY <1>6 DEF Pushes
  <2> HIDE DEF told, answered
  <2>1. wire' = wire \o <<told, answered>>
    BY <1>3, <1>6, <2>a DEF PushAll
  <2>3. /\ Len(wire') = Len(wire) + 2
        /\ \A i \in 1 .. Len(wire) : wire'[i] = wire[i]
        /\ wire'[Len(wire) + 1] = told /\ wire'[Len(wire) + 2] = answered
    BY <1>2, <2>1
  <2>4. Len(wire) \in Nat
    BY <1>2
  <2>5. OnlySetChannels'
    BY <1>3, <2>2, <2>3, <2>4 DEF OnlySetChannels, Tells
  <2>6. LastTells'
    BY <1>3, <2>2, <2>3, <2>4 DEF LastTells, Tells
  <2>7. NothingToTell'
    BY <2>2, <2>3, <2>4 DEF NothingToTell, Tells
  <2> QED BY <1>3, <1>6, <2>5, <2>6, <2>7 DEF OutsideIsSilent
<1>7. CASE joined /\ e.status = "error"
  <2> DEFINE answered == Answered(e.key, e.status)
  <2>2. ~Tells(answered)
    BY DEF Answered, Tells
  <2>a. Pushes(e) = <<answered>>
    BY <1>7 DEF Pushes
  <2>b. ~Behind
    BY <1>7 DEF Behind
  <2> HIDE DEF answered
  <2>1. wire' = wire \o <<answered>>
    BY <1>3, <1>7, <2>a DEF PushAll
  <2>3. /\ Len(wire') = Len(wire) + 1
        /\ \A i \in 1 .. Len(wire) : wire'[i] = wire[i]
        /\ wire'[Len(wire) + 1] = answered
    BY <1>2, <2>1
  <2>4. Len(wire) \in Nat
    BY <1>2
  <2>5. OnlySetChannels'
    BY <1>3, <2>2, <2>3, <2>4 DEF OnlySetChannels, Tells
  <2>6. LastTells'
    BY <1>3, <2>b, <2>2, <2>3, <2>4 DEF LastTells, Tells
  <2>7. NothingToTell'
    BY <1>3, <2>b, <2>2, <2>3, <2>4 DEF NothingToTell, Tells
  <2> QED BY <1>3, <1>7, <2>5, <2>6, <2>7 DEF OutsideIsSilent
<1> QED BY <1>2, <1>5, <1>6, <1>7 DEF Event

\* The page takes over what a push tells.
LEMMA ReceiveKeeps == Inv /\ TypeOK' /\ Receive => Inv'
<1> SUFFICES ASSUME Inv, TypeOK', Receive PROVE Inv'
  OBVIOUS
<1> USE DEF Inv
<1> DEFINE m == Head(wire)
<1>1. wire \in Seq(Push) /\ wire # <<>> /\ states \in States /\ latest \in States
  BY DEF Receive, TypeOK
<1>2. /\ Len(wire) \in Nat \ {0} /\ m = wire[1] /\ m \in Push
      /\ Len(wire') = Len(wire) - 1
      /\ \A i \in 1 .. Len(wire') : wire'[i] = wire[i + 1]
  BY <1>1 DEF Receive
<1>3. UNCHANGED <<states, joined>> /\ Behind' = Behind
  BY DEF Receive, server, socket, Behind
<1>4. joined
  BY <1>1 DEF OutsideIsSilent, TypeOK
<1>5. LastTells'
  <2> SUFFICES ASSUME ~Behind, NEW i \in 1 .. Len(wire'), Tells(wire'[i]),
                      \A j \in 1 .. Len(wire') : j > i => ~Tells(wire'[j])
               PROVE  wire'[i].states = states'
    BY <1>3 DEF LastTells, Tells
  <2>1. i + 1 \in 1 .. Len(wire) /\ Tells(wire[i + 1])
    BY <1>2 DEF Tells
  <2>2. ASSUME NEW j \in 1 .. Len(wire), j > i + 1 PROVE ~Tells(wire[j])
    <3>1. j - 1 \in 1 .. Len(wire') /\ j - 1 > i /\ wire'[j - 1] = wire[j]
      BY <1>2, <2>2
    <3> QED BY <3>1 DEF Tells
  <2> QED BY <1>2, <1>3, <2>1, <2>2 DEF LastTells
<1>6. CASE m.type = "channelState"
  <2>1. latest' = Merged(m.states) /\ heard'
    BY <1>6 DEF Receive
  <2>2. m.states \in States
    BY <1>2, <1>6 DEF Push
  <2>3. \A k \in Keys : m.states[k] # "none" => states[k] # "none"
    BY <1>2, <1>6 DEF OnlySetChannels, Tells
  <2>4. OnlySetChannels'
    <3>1. \A k \in Keys : latest'[k] # "none" => states'[k] # "none"
      BY <1>3, <2>1, <2>2, <2>3 DEF OnlySetChannels, Merged
    <3>2. \A i \in 1 .. Len(wire') : Tells(wire'[i]) =>
             \A k \in Keys : wire'[i].states[k] # "none" => states'[k] # "none"
      <4>1. \A i \in 1 .. Len(wire') : i + 1 \in 1 .. Len(wire) /\ wire'[i] = wire[i + 1]
        BY <1>2
      <4> QED BY <1>3, <4>1 DEF OnlySetChannels, Tells
    <3> QED BY <3>1, <3>2 DEF OnlySetChannels, Tells
  <2>5. NothingToTell'
    <3> SUFFICES ASSUME ~Behind, \A i \in 1 .. Len(wire') : ~Tells(wire'[i]) PROVE latest' = states'
      BY <1>3 DEF NothingToTell, Tells
    <3>1. ASSUME NEW j \in 1 .. Len(wire), j > 1 PROVE ~Tells(wire[j])
      <4>1. j - 1 \in 1 .. Len(wire') /\ wire'[j - 1] = wire[j]
        BY <1>2, <3>1
      <4> QED BY <4>1 DEF Tells
    <3>2. m.states = states
      BY <1>2, <1>6, <3>1 DEF LastTells, Tells
    <3>3. \A k \in Keys : states[k] = "none" => latest[k] = "none"
      BY DEF OnlySetChannels
    <3>4. \A k \in Keys : Merged(states)[k] = states[k]
      BY <3>3 DEF Merged
    <3>5. Merged(states) = states
      BY <1>1, <3>4 DEF Merged, States
    <3> QED BY <1>3, <2>1, <3>2, <3>5
  <2> QED BY <1>3, <1>4, <1>5, <2>4, <2>5 DEF OutsideIsSilent
<1>7. CASE m.type = "actionResult"
  <2>1. UNCHANGED <<latest, heard>>
    BY <1>7 DEF Receive
  <2>2. OnlySetChannels'
    BY <1>2, <1>3, <2>1 DEF OnlySetChannels, Tells
  <2>3. NothingToTell'
    <3> SUFFICES ASSUME ~Behind, heard, \A i \in 1 .. Len(wire') : ~Tells(wire'[i]) PROVE latest = states
      BY <1>3, <2>1 DEF NothingToTell, Tells
    <3>1. ASSUME NEW j \in 1 .. Len(wire) PROVE ~Tells(wire[j])
      <4>1. CASE j = 1
        BY <1>2, <1>7, <4>1 DEF Tells
      <4>2. CASE j > 1
        <5>1. j - 1 \in 1 .. Len(wire') /\ wire'[j - 1] = wire[j]
          BY <1>2, <4>2
        <5> QED BY <5>1 DEF Tells
      <4> QED BY <4>1, <4>2
    <3> QED BY <3>1 DEF NothingToTell
  <2> QED BY <1>3, <1>4, <1>5, <2>2, <2>3 DEF OutsideIsSilent
<1> QED BY <1>2, <1>6, <1>7 DEF Push

\* Each step keeps the invariant.
LEMMA InvStep == Inv /\ [Next]_vars => Inv'
<1> SUFFICES ASSUME Inv, [Next]_vars PROVE Inv'
  OBVIOUS
<1>1. TypeOK'
  BY TypeStep DEF Inv
<1>2. ASSUME NEW k \in Keys, HandleTrigger(k) \/ Answer(k) \/ Timeout(k) PROVE Same
  BY <1>2 DEF HandleTrigger, Answer, Accept, Reject, OnAnswer, Timeout, Same, server, socket
<1>3. ASSUME OthersChange \/ Connect \/ Subscribe \/ DevicesChange \/ SubscribeFails \/ Render \/ UNCHANGED vars
      PROVE  Same
  BY <1>3 DEF OthersChange, Connect, Subscribe, DevicesChange, SubscribeFails, Render, vars, Same, server,
              socket, page
<1>4. CASE Disconnect
  <2>1. /\ wire' = <<>> /\ ~heard' /\ ~joined' /\ UNCHANGED <<states, latest>>
    BY <1>4 DEF Disconnect, server, page
  <2>2. Len(wire') = 0
    BY <2>1
  <2> QED BY <1>1, <2>1, <2>2 DEF Inv, OnlySetChannels, OutsideIsSilent, LastTells, NothingToTell
<1>5. CASE HandleSubscribeDevice
  <2>1. joined' /\ UNCHANGED <<states, handled, wire, latest, heard>>
    BY <1>5 DEF HandleSubscribeDevice, server, page
  <2> QED BY <1>1, <2>1 DEF Inv, OnlySetChannels, OutsideIsSilent, LastTells, NothingToTell, Tells, Behind
<1> QED BY <1>1, <1>2, <1>3, <1>4, <1>5, SameKeeps, UpdateKeeps, EmitKeeps, ReceiveKeeps DEF Next

\* Whatever was missed before, once a page has heard of the device on its current
\* connection, the wire is empty and no row waits to be pushed, it shows the persisted channels.
THEOREM PageMirrors == Spec => []Mirrors
<1>1. Inv => Mirrors
  BY DEF Inv, NothingToTell, Mirrors, Behind
<1> QED BY <1>1, InitInv, InvStep, PTL DEF Spec

-----------------------------------------------------------------------------
(***************************************************************************)
(* Whatever ends the waiting of a panel is on its way: its POST, an event  *)
(* the backend has not handled, a push on the wire, or something the page  *)
(* has and has not rendered.  Nothing of it is lost without the channel    *)
(* being missed.  An event or a push counts only if it speaks of this      *)
(* channel, and of the value that was clicked or of an error.              *)
(***************************************************************************)
\* An event, and a push, that the panel of channel k will stop waiting for.
Resolves(e, k) == e.key = k /\ (e.status = "error" \/ e.value = optimistic[k])
Names(m, k)    == m.key = k /\ \/ m.type = "channelState" /\ m.states[k] = optimistic[k]
                               \/ m.type = "actionResult" /\ m.status = "error"

Posting(k) == http[k].pc = "failed" \/ (http[k].pc = "sent" /\ http[k].value = optimistic[k])
Sent(k)    == \E i \in 1 .. Len(wire) : Names(wire[i], k)
Events     == due \cup ({handled} \ {NoEvent})
Coming(k)  == Posting(k) \/ (\E e \in Events : Resolves(e, k)) \/ Sent(k) \/ Caught(k) \/ Refused(k)

AnswerComes == \A k \in Keys : Waits(k) /\ k \notin missed => Coming(k)

\* What is coming for a panel that goes on waiting stays, if the wire and the page's
\* copies do and nothing happens to its POST.
LEMMA ComingStays ==
    ASSUME NEW k \in Keys, Coming(k), optimistic'[k] = optimistic[k],
           http'[k] = http[k] \/ ~Posting(k), Events \subseteq Events',
           UNCHANGED <<wire, latest, result, unseen>>
    PROVE  Coming(k)'
<1>1. Posting(k) => Posting(k)'
  BY DEF Posting
<1>2. \A e \in Events : Resolves(e, k) => e \in Events' /\ Resolves(e, k)'
  BY DEF Resolves
<1>3. Sent(k) => Sent(k)'
  BY DEF Sent, Names
<1>4. (Caught(k) => Caught(k)') /\ (Refused(k) => Refused(k)')
  BY DEF Caught, Waits, Refused
<1> QED BY <1>1, <1>2, <1>3, <1>4 DEF Coming

\* A click posts its value, and the answer to the POST leaves events behind, or the
\* channel is missed.
LEMMA PostKeeps ==
    ASSUME TypeOK, AnswerComes, NEW j \in Keys, HandleTrigger(j) \/ Answer(j) \/ Timeout(j)
    PROVE  AnswerComes'
<1> SUFFICES ASSUME NEW k \in Keys, Waits(k)', k \notin missed' PROVE Coming(k)'
  BY DEF AnswerComes
<1>0. optimistic \in [Keys -> Value] /\ http \in [Keys -> Post]
  BY DEF TypeOK, States
<1>1. UNCHANGED <<wire, latest, result, unseen, handled>> /\ due \subseteq due' /\ Events \subseteq Events'
  BY DEF HandleTrigger, Answer, Accept, Reject, OnAnswer, Timeout, server, socket, Events
<1>2. CASE j # k
  <2>1. optimistic'[k] = optimistic[k] /\ http'[k] = http[k] /\ k \notin missed
    BY <1>0, <1>2 DEF HandleTrigger, Answer, Accept, Reject, OnAnswer, Timeout
  <2> QED BY <1>1, <2>1, ComingStays DEF AnswerComes, Waits
<1>3. CASE j = k /\ HandleTrigger(k)
  <2>1. PICK v \in Values : optimistic'[k] = v /\ http'[k].pc = "sent" /\ http'[k].value = v
    BY <1>0, <1>3 DEF HandleTrigger
  <2> QED BY <2>1 DEF Coming, Posting
<1>4. CASE j = k /\ Accept(k)
  <2>1. http[k].pc = "sent" /\ optimistic' = optimistic
    BY <1>4 DEF Accept
  <2>2. k \notin missed /\ Coming(k)
    BY <1>4, <2>1 DEF Accept, AnswerComes, Waits
  <2>3. CASE Posting(k)
    <3>1. http[k].value = optimistic[k]
      BY <2>1, <2>3 DEF Posting
    <3>2. PICK e \in due' : e.key = k /\ (e.status = "error" \/ e.value = http[k].value)
      BY <1>4 DEF Accept
    <3> QED BY <2>1, <3>1, <3>2 DEF Coming, Resolves, Events
  <2>4. CASE ~Posting(k)
    BY <1>1, <2>1, <2>2, <2>4, ComingStays
  <2> QED BY <2>3, <2>4
<1>5. CASE j = k /\ Reject(k)
  BY <1>0, <1>5 DEF Reject, Coming, Posting
<1>6. CASE j = k /\ OnAnswer(k)
  <2>1. http[k].pc = "accepted" /\ optimistic' = optimistic /\ k \notin missed
    BY <1>0, <1>6 DEF OnAnswer, Waits
  <2> QED BY <1>1, <2>1, ComingStays DEF AnswerComes, Posting, Waits
<1>7. CASE j = k /\ Timeout(k)
  BY <1>0, <1>7 DEF Timeout, Waits
<1> QED BY <1>2, <1>3, <1>4, <1>5, <1>6, <1>7 DEF Answer

\* The handler keeps an event until it has pushed it,
LEMMA UpdatedIsKept == TypeOK /\ AnswerComes /\ UpdateChannels => AnswerComes'
<1> SUFFICES ASSUME TypeOK, AnswerComes, UpdateChannels, NEW k \in Keys, Waits(k)', k \notin missed'
             PROVE  Coming(k)'
  BY DEF AnswerComes
<1>1. UNCHANGED <<wire, latest, result, unseen, optimistic, http, missed>>
  BY DEF UpdateChannels, page
<1>2. Events \subseteq Events'
  <2>1. PICK e \in due : due' = due \ {e} /\ handled' = e /\ handled = NoEvent
    BY DEF UpdateChannels
  <2>2. e # NoEvent
    BY DEF TypeOK, Event, NoEvent
  <2> QED BY <2>1, <2>2 DEF Events
<1>3. Coming(k)
  BY <1>1 DEF AnswerComes, Waits
<1> QED BY <1>1, <1>2, <1>3, ComingStays

\* and pushes what the panel waits for, or the page is not in the room.  The row is
\* then what the event says.
LEMMA HandledIsSent ==
    ASSUME TypeOK, AnswerComes, EmitChannels, Behind => states[handled.key] = handled.value
    PROVE  AnswerComes'
<1> SUFFICES ASSUME NEW k \in Keys, Waits(k)', k \notin missed'
             PROVE  Coming(k)'
  BY DEF AnswerComes
<1> DEFINE e == handled
<1>1. PushAll(e.key, Pushes(e)) /\ handled' = NoEvent
  BY DEF EmitChannels
<1>2. UNCHANGED <<latest, result, unseen, optimistic, http, due, states, joined>>
  BY DEF EmitChannels, page, socket
<1>3. e \in Event /\ e # NoEvent /\ wire \in Seq(Push)
  BY DEF TypeOK, EmitChannels
<1>4. k \notin missed
  BY <1>1 DEF PushAll
<1>5. Coming(k)
  BY <1>2, <1>4 DEF AnswerComes, Waits
<1>6. \A i \in 1 .. Len(wire) : i \in 1 .. Len(wire') /\ wire'[i] = wire[i]
  <2>1. Pushes(e) \in Seq(Push)
    BY <1>3, PushesTyped
  <2>2. wire' = wire \/ wire' = wire \o Pushes(e)
    BY <1>1 DEF PushAll
  <2> QED BY <1>3, <2>1, <2>2
<1>7. CASE Resolves(e, k) /\ joined /\ e.status = "ok"
  <2> DEFINE told == Told(e.key, states)
  <2> DEFINE answered == Answered(e.key, e.status)
  <2>1. Pushes(e) = <<told, answered>>
    BY <1>7 DEF Pushes
  <2>2. /\ told.key = k /\ told.type = "channelState"
        /\ told.states[k] = optimistic'[k]
    BY <1>2, <1>3, <1>7 DEF Told, Resolves, Behind
  <2> HIDE DEF told, answered
  <2>3. wire' = wire \o <<told, answered>>
    BY <1>1, <1>7, <2>1 DEF PushAll
  <2>4. Len(wire) + 1 \in 1 .. Len(wire') /\ wire'[Len(wire) + 1] = told
    BY <1>3, <2>3
  <2> QED BY <2>2, <2>4 DEF Coming, Sent, Names
<1>8. CASE Resolves(e, k) /\ joined /\ e.status = "error"
  <2> DEFINE answered == Answered(e.key, e.status)
  <2>1. Pushes(e) = <<answered>>
    BY <1>8 DEF Pushes
  <2>2. answered.key = k /\ answered.type = "actionResult" /\ answered.status = "error"
    BY <1>8 DEF Resolves, Answered
  <2> HIDE DEF answered
  <2>3. wire' = wire \o <<answered>>
    BY <1>1, <1>8, <2>1 DEF PushAll
  <2>4. Len(wire) + 1 \in 1 .. Len(wire') /\ wire'[Len(wire) + 1] = answered
    BY <1>3, <2>3
  <2> QED BY <2>2, <2>4 DEF Coming, Sent, Names
<1>9. CASE Resolves(e, k) /\ ~joined
  BY <1>1, <1>9 DEF Resolves, PushAll
<1>10. CASE ~Resolves(e, k)
  <2>1. Posting(k) => Posting(k)'
    BY <1>2 DEF Posting
  <2>2. \A f \in Events : Resolves(f, k) => f \in Events' /\ Resolves(f, k)'
    BY <1>2, <1>10 DEF Resolves, Events
  <2>3. Sent(k) => Sent(k)'
    BY <1>2, <1>6 DEF Sent, Names
  <2>4. (Caught(k) => Caught(k)') /\ (Refused(k) => Refused(k)')
    BY <1>2 DEF Caught, Waits, Refused
  <2> QED BY <1>5, <2>1, <2>2, <2>3, <2>4 DEF Coming
<1> QED BY <1>3, <1>7, <1>8, <1>9, <1>10 DEF Event

\* The page has what it receives, and misses what that overwrites.
LEMMA ReceivedIsSeen == TypeOK /\ AnswerComes /\ Receive => AnswerComes'
<1> SUFFICES ASSUME TypeOK, AnswerComes, Receive, NEW k \in Keys, Waits(k)', k \notin missed'
             PROVE  Coming(k)'
  BY DEF AnswerComes
<1> DEFINE m == Head(wire)
<1>1. wire \in Seq(Push) /\ wire # <<>>
  BY DEF Receive, TypeOK
<1>2. /\ Len(wire) \in Nat \ {0} /\ m = wire[1] /\ m \in Push
      /\ Len(wire') = Len(wire) - 1
      /\ \A i \in 1 .. Len(wire') : wire'[i] = wire[i + 1]
  BY <1>1 DEF Receive
<1>3. UNCHANGED <<due, handled, optimistic, http>> /\ k \notin missed /\ unseen' = unseen \cup {m.type}
  BY DEF Receive, server
<1>4. Coming(k)
  BY <1>3 DEF AnswerComes, Waits
<1>5. CASE Posting(k) \/ \E e \in Events : Resolves(e, k)
  BY <1>3, <1>5 DEF Coming, Posting, Resolves, Events
<1>6. CASE Caught(k)
  BY <1>2, <1>3, <1>6 DEF Receive, Caught, Waits, Coming
<1>7. CASE Refused(k)
  BY <1>2, <1>3, <1>7 DEF Receive, Refused, Coming
<1>8. CASE Names(m, k)
  <2>1. CASE m.type = "channelState"
    <3>1. latest'[k] = m.states[k] /\ m.states[k] = optimistic[k]
      BY <1>3, <1>8, <2>1 DEF Receive, Merged, Names, Waits
    <3> QED BY <1>3, <3>1 DEF Caught, Waits, Coming
  <2>2. CASE m.type = "actionResult"
    BY <1>3, <1>8, <2>2 DEF Receive, Names, Refused, Coming
  <2> QED BY <1>2, <2>1, <2>2 DEF Push
<1>9. CASE Sent(k) /\ ~Names(m, k)
  <2>1. PICK i \in 1 .. Len(wire) : Names(wire[i], k)
    BY <1>9 DEF Sent
  <2>2. i # 1
    BY <1>2, <1>9, <2>1
  <2>3. i - 1 \in 1 .. Len(wire') /\ wire'[i - 1] = wire[i]
    BY <1>2, <2>2
  <2> QED BY <1>3, <2>1, <2>3 DEF Coming, Sent, Names
<1> QED BY <1>4, <1>5, <1>6, <1>7, <1>8, <1>9 DEF Coming

\* Until an event is pushed, the row is what it says.
RowSaysIt == Behind => states[handled.key] = handled.value

LEMMA RowSaysItStep == TypeOK /\ RowSaysIt /\ [Next]_vars => RowSaysIt'
<1> SUFFICES ASSUME TypeOK, RowSaysIt, [Next]_vars PROVE RowSaysIt'
  OBVIOUS
<1>1. CASE UpdateChannels
  <2>1. PICK e \in due : /\ handled' = e
                         /\ states' = IF e.status = "ok" THEN [states EXCEPT ![e.key] = e.value] ELSE states
    BY <1>1 DEF UpdateChannels
  <2>2. e.key \in Keys /\ states \in States
    BY DEF TypeOK, Event
  <2> QED BY <2>1, <2>2 DEF RowSaysIt, Behind, States
<1>2. CASE EmitChannels
  BY <1>2 DEF EmitChannels, RowSaysIt, Behind
<1>3. CASE Disconnect
  BY <1>3 DEF Disconnect, MayRestart, RowSaysIt, Behind
<1>4. CASE UNCHANGED <<states, handled>>
  BY <1>4 DEF RowSaysIt, Behind
<1> QED BY <1>1, <1>2, <1>3, <1>4 DEF Next, vars, HandleTrigger, Answer, Accept, Reject, OnAnswer, Timeout,
      OthersChange, Connect, Subscribe, DevicesChange, HandleSubscribeDevice, SubscribeFails, Receive, Render, server

\* Each step leaves something coming.
LEMMA AnswerComesStep == TypeOK /\ RowSaysIt /\ AnswerComes /\ [Next]_vars => AnswerComes'
<1> SUFFICES ASSUME TypeOK, RowSaysIt, AnswerComes, [Next]_vars PROVE AnswerComes'
  OBVIOUS
<1>1. ASSUME NEW j \in Keys, HandleTrigger(j) \/ Answer(j) \/ Timeout(j) PROVE AnswerComes'
  BY <1>1, PostKeeps
<1>2. CASE \/ OthersChange \/ Connect \/ Subscribe \/ DevicesChange \/ HandleSubscribeDevice
           \/ SubscribeFails \/ UNCHANGED vars
  <2>1. UNCHANGED <<wire, latest, result, unseen, optimistic, http, missed>> /\ Events \subseteq Events'
    BY <1>2 DEF OthersChange, Connect, Subscribe, DevicesChange, HandleSubscribeDevice, SubscribeFails, vars,
                server, page, Events
  <2> SUFFICES ASSUME NEW k \in Keys, Waits(k)', k \notin missed' PROVE Coming(k)'
    BY DEF AnswerComes
  <2>2. Coming(k)
    BY <2>1 DEF AnswerComes, Waits
  <2> QED BY <2>1, <2>2, ComingStays
<1>3. CASE Disconnect
  <2> SUFFICES ASSUME NEW k \in Keys, Waits(k)', k \notin missed' PROVE Coming(k)'
    BY DEF AnswerComes
  <2>1. UNCHANGED <<latest, result, unseen, optimistic, http>> /\ k \notin missed /\ Events \subseteq Events'
    BY <1>3 DEF Disconnect, MayRestart, page, Events
  <2>2. \A i \in DOMAIN wire : wire[i].key # k
    BY <1>3 DEF Disconnect
  <2>3. ~Sent(k)
    <3>1. wire \in Seq(Push)
      BY DEF TypeOK
    <3> QED BY <2>2, <3>1 DEF Sent, Names
  <2>4. Posting(k) \/ (\E e \in Events : Resolves(e, k)) \/ Caught(k) \/ Refused(k)
    BY <2>1, <2>3 DEF AnswerComes, Coming, Waits
  <2> QED BY <2>1, <2>4 DEF Coming, Posting, Resolves, Caught, Waits, Refused
<1>4. CASE Render
  <2> SUFFICES ASSUME NEW k \in Keys, Waits(k)', k \notin missed' PROVE Coming(k)'
    BY DEF AnswerComes
  <2>1. /\ UNCHANGED <<due, handled, wire, latest, result, http, missed>>
        /\ ~Caught(k) /\ ~Refused(k) /\ optimistic'[k] = optimistic[k]
    BY <1>4 DEF Render, Waits, server
  <2>2. Posting(k) \/ (\E e \in Events : Resolves(e, k)) \/ Sent(k)
    BY <2>1 DEF AnswerComes, Coming, Waits
  <2> QED BY <2>1, <2>2 DEF Coming, Posting, Resolves, Sent, Names, Events
<1>5. EmitChannels => AnswerComes'
  BY HandledIsSent DEF RowSaysIt
<1> QED BY <1>1, <1>2, <1>3, <1>4, <1>5, UpdatedIsKept, ReceivedIsSeen DEF Next

\* A panel that waits, and no answer of which was lost, has what ends its waiting
\* before it, however many clicks, changes and reconnections there are: it never
\* depends on its timer.
THEOREM AnswerAlwaysComes == Spec => []AnswerComes
<1>1. Init => AnswerComes
  BY DEF Init, AnswerComes, Waits, Nothing
<1>2. Init => RowSaysIt
  BY DEF Init, RowSaysIt, Behind
<1> QED BY <1>1, <1>2, TypeCorrect, RowSaysItStep, AnswerComesStep, PTL DEF Spec

-----------------------------------------------------------------------------
\* Who is in the room or asks to be has noted that it asked, once, and only on this
\* connection; only a refusal is forgotten, and only of this connection, too.
RoomIsNoted ==
    /\ joined \/ asking => asked
    /\ asked \/ refused => link = "up"
    /\ ~(asking /\ joined) /\ ~(asking /\ refused) /\ ~(joined /\ refused)

\* Somebody brings a connected page back that is neither in the room nor refused.
SomebodyBringsItBack == link = "up" => joined \/ refused \/ asking \/ ~asked

\* Rejoins without its "eventually": a connected page that is not in the room, and was
\* not refused, has still to ask or is being answered, after any reconnections, as what
\* it noted of a connection does not outlive it.
THEOREM NeverLeftOutside == Spec => [](SomebodyBringsItBack /\ RoomIsNoted)
<1>1. Init => SomebodyBringsItBack /\ RoomIsNoted
  BY DEF Init, SomebodyBringsItBack, RoomIsNoted
<1>2. TypeOK /\ SomebodyBringsItBack /\ RoomIsNoted /\ [Next]_vars => (SomebodyBringsItBack /\ RoomIsNoted)'
  <2> SUFFICES ASSUME TypeOK, SomebodyBringsItBack, RoomIsNoted, [Next]_vars
               PROVE  SomebodyBringsItBack' /\ RoomIsNoted'
    OBVIOUS
  <2> USE DEF SomebodyBringsItBack, RoomIsNoted, socket
  <2>1. ASSUME UNCHANGED socket PROVE SomebodyBringsItBack' /\ RoomIsNoted'
    BY <2>1
  <2>2. ASSUME NEW k \in Keys, HandleTrigger(k) \/ Answer(k) \/ Timeout(k) PROVE UNCHANGED socket
    BY <2>2 DEF HandleTrigger, Answer, Accept, Reject, OnAnswer, Timeout
  <2>3. OthersChange \/ UpdateChannels \/ EmitChannels \/ Receive \/ Render \/ UNCHANGED vars => UNCHANGED socket
    BY DEF OthersChange, UpdateChannels, EmitChannels, Receive, Render, vars
  <2>4. CASE Connect \/ Disconnect
    BY <2>4 DEF Connect, Disconnect, TypeOK
  <2>5. CASE Subscribe \/ DevicesChange \/ HandleSubscribeDevice \/ SubscribeFails
    BY <2>5 DEF Subscribe, DevicesChange, HandleSubscribeDevice, SubscribeFails, TypeOK
  <2> QED BY <2>1, <2>2, <2>3, <2>4, <2>5 DEF Next
<1> QED BY <1>1, <1>2, TypeCorrect, PTL DEF Spec
=============================================================================
