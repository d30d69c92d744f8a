-------------------------- MODULE DeviceOta_proofs --------------------------
(***************************************************************************)
(* Proofs about DeviceOta, for any number of concurrent requests, any      *)
(* number of attempts and faults, with and without redelivery.             *)
(***************************************************************************)
EXTENDS DeviceOta, TLAPS

USE DEF Attempt, Version, InProgress, Final, Statuses, Row, NoEntry, Entry, Report,
        Idle, RequestJob, HandlerJob, Work

\* What a report makes of a row is a row.
LEMMA AppliedType ==
  ASSUME NEW loaded \in Row, NEW report \in Report PROVE Applied(loaded, report) \in Row
BY MaxAttemptsAssumption DEF Applied, Names

\* At most one entry is the latest.
LEMMA LatestUnique ==
  ASSUME NEW a \in Attempt, NEW b \in Attempt, Latest(a), Latest(b) PROVE a = b
BY MaxAttemptsAssumption DEF Latest

\* The head and the rest of a non-empty queue.
LEMMA HeadTail ==
  ASSUME NEW S, NEW s \in Seq(S), s # <<>> PROVE Head(s) \in S /\ Tail(s) \in Seq(S)
OBVIOUS

\* Appending keeps the elements' type.
LEMMA AppendType ==
  ASSUME NEW S, NEW s \in Seq(S), NEW e \in S PROVE Append(s, e) \in Seq(S)
OBVIOUS

\* The initial state is well typed.
LEMMA InitType == Init => TypeOK
<1> SUFFICES ASSUME Init PROVE TypeOK
  OBVIOUS
<1>1. attempts \in 0 .. MaxAttempts /\ faults \in 0 .. MaxFaults /\ confirmed \subseteq Version
  BY MaxAttemptsAssumption, MaxFaultsAssumption DEF Init
<1>2. row \in Row /\ inbox \in Seq(Attempt) /\ reports \in Seq(Report)
  BY MaxAttemptsAssumption DEF Init
<1>3. /\ history \in [Attempt -> Entry \cup {NoEntry}]
      /\ request \in [Requests -> RequestJob \cup {Idle}]
      /\ work \in Work \cup {Idle}
      /\ handler \in [Handlers -> HandlerJob \cup {Idle}]
  BY DEF Init
<1>4. overlapped \in BOOLEAN
  BY DEF Init
<1>5. QED
  BY <1>1, <1>2, <1>3, <1>4 DEF TypeOK

\* The state of OTA updates is well typed: requests, reports, retries and failures
\* only ever store values the other side expects.
THEOREM TypeCorrect == Spec => []TypeOK
<1> USE MaxAttemptsAssumption, MaxFaultsAssumption
<1>1. Init => TypeOK
  BY InitType
<1>2. TypeOK /\ [Next]_vars => TypeOK'
  <2> SUFFICES ASSUME TypeOK, [Next]_vars PROVE TypeOK'
    OBVIOUS
  <2>1. ASSUME NEW q \in Requests, BeginRequest(q) PROVE TypeOK'
    BY <2>1 DEF TypeOK, BeginRequest
  <2>2. ASSUME NEW q \in Requests, Publish(q) PROVE TypeOK'
    <3>1. request[q] \in RequestJob
      BY <2>2 DEF TypeOK, Publish
    <3>2. [request[q] EXCEPT !.pc = "save"] \in RequestJob
      BY <3>1
    <3>3. request' \in [Requests -> RequestJob \cup {Idle}]
      BY <2>2, <3>2 DEF TypeOK, Publish
    <3>4. inbox' \in Seq(Attempt)
      BY <2>2, <3>1 DEF TypeOK, Publish
    <3>5. QED
      BY <2>2, <3>3, <3>4 DEF TypeOK, Publish
  <2>3. ASSUME NEW q \in Requests, PublishFails(q) PROVE TypeOK'
    BY <2>3 DEF TypeOK, PublishFails
  <2>4. ASSUME NEW q \in Requests, SavePending(q) PROVE TypeOK'
    <3>1. request[q] \in RequestJob
      BY <2>4 DEF TypeOK, SavePending
    <3>2. [request[q] EXCEPT !.pc = "insert"] \in RequestJob
      BY <3>1
    <3>3. request' \in [Requests -> RequestJob \cup {Idle}]
      BY <2>4, <3>2 DEF TypeOK, SavePending
    <3>4. row' \in Row
      BY <2>4, <3>1 DEF SavePending
    <3>5. QED
      BY <2>4, <3>3, <3>4 DEF TypeOK, SavePending
  <2>5. ASSUME NEW q \in Requests, InsertEntry(q) PROVE TypeOK'
    BY <2>5 DEF TypeOK, InsertEntry
  <2>6. ASSUME NEW q \in Requests, RequestFails(q) PROVE TypeOK'
    BY <2>6 DEF TypeOK, RequestFails
  <2>7. CASE DeviceStart
    <3>1. [status |-> "DOWNLOADING", version |-> Head(inbox)] \in Report
      BY <2>7 DEF TypeOK, DeviceStart
    <3>2. reports' \in Seq(Report)
      <4>1. reports \in Seq(Report)
        BY DEF TypeOK
      <4> HIDE DEF Report
      <4>2. QED
        BY <2>7, <3>1, <4>1, AppendType DEF DeviceStart, Send
    <3>3. work' \in Work /\ inbox' \in Seq(Attempt)
      BY <2>7 DEF TypeOK, DeviceStart
    <3>4. QED
      BY <2>7, <3>2, <3>3 DEF TypeOK, DeviceStart
  <2>8. CASE DeviceInstall
    <3>1. work \in Work
      BY <2>8 DEF TypeOK, DeviceInstall
    <3>2. [status |-> "INSTALLING", version |-> work.attempt] \in Report
      BY <3>1
    <3>3. reports' \in Seq(Report)
      <4>1. reports \in Seq(Report)
        BY DEF TypeOK
      <4> HIDE DEF Report
      <4>2. QED
        BY <2>8, <3>2, <4>1, AppendType DEF DeviceInstall, Send
    <3>4. QED
      BY <2>8, <3>1, <3>3 DEF TypeOK, DeviceInstall
  <2>9. CASE DeviceSettle \/ DeviceStrays
    <3>1. PICK report \in Report : reports' = Append(reports, report)
      <4>1. CASE DeviceSettle
        <5>1. work.attempt \in Version
          BY <4>1 DEF TypeOK, DeviceSettle
        <5>2. PICK status \in Final, version \in {0, work.attempt} :
                reports' = Append(reports, [status |-> status, version |-> version])
          BY <4>1 DEF DeviceSettle, Send
        <5>3. [status |-> status, version |-> version] \in Report
          BY <5>1
        <5>4. QED
          BY <5>2, <5>3
      <4>2. CASE DeviceStrays
        <5>1. PICK status \in {"IDLE", "PENDING"} :
                reports' = Append(reports, [status |-> status, version |-> 0])
          BY <4>2 DEF DeviceStrays, Send
        <5>2. [status |-> status, version |-> 0] \in Report
          OBVIOUS
        <5>3. QED
          BY <5>1, <5>2
      <4>3. QED
        BY <2>9, <4>1, <4>2
    <3>2. reports' \in Seq(Report)
      <4>1. reports \in Seq(Report)
        BY DEF TypeOK
      <4> HIDE DEF Report
      <4>2. QED
        BY <3>1, <4>1, AppendType
    <3>3. work' \in Work \cup {Idle} /\ faults' \in 0 .. MaxFaults
      BY <2>9 DEF TypeOK, DeviceSettle, DeviceStrays
    <3>4. UNCHANGED <<row, history, request, attempts, inbox, handler, confirmed, overlapped>>
      BY <2>9 DEF DeviceSettle, DeviceStrays
    <3>5. QED
      BY <3>2, <3>3, <3>4 DEF TypeOK
  <2>10. ASSUME NEW h \in Handlers, TakeReport(h) PROVE TypeOK'
    <3>1. Head(reports) \in Report /\ Tail(reports) \in Seq(Report)
      <4>1. reports \in Seq(Report) /\ reports # <<>>
        BY <2>10 DEF TypeOK, TakeReport
      <4> HIDE DEF Report
      <4>2. QED
        BY <4>1, HeadTail
    <3>2. [pc |-> "save", report |-> Head(reports), loaded |-> row] \in HandlerJob
      BY <3>1 DEF TypeOK
    <3>3. handler' \in [Handlers -> HandlerJob \cup {Idle}]
      BY <2>10, <3>2 DEF TypeOK, TakeReport
    <3>4. reports' \in Seq(Report) /\ faults' \in 0 .. MaxFaults
      <4>1. reports' \in {Tail(reports), Append(Tail(reports), Head(reports))}
        BY <2>10 DEF TakeReport
      <4>2. faults' \in 0 .. MaxFaults
        BY <2>10 DEF TypeOK, TakeReport
      <4> HIDE DEF Report
      <4>3. QED
        BY <3>1, <4>1, <4>2, AppendType
    <3>5. QED
      BY <2>10, <3>3, <3>4 DEF TypeOK, TakeReport
  <2>11. ASSUME NEW h \in Handlers, SaveReport(h) PROVE TypeOK'
    <3>1. handler[h].report \in Report /\ handler[h].loaded \in Row
      BY <2>11 DEF TypeOK, SaveReport
    <3>2. row' \in Row
      BY <2>11, <3>1, AppliedType DEF SaveReport
    <3>3. handler' \in [Handlers -> HandlerJob \cup {Idle}]
      BY <2>11, <3>1 DEF TypeOK, SaveReport
    <3>4. confirmed' \subseteq Version
      BY <2>11, <3>1 DEF TypeOK, SaveReport
    <3>5. QED
      BY <2>11, <3>2, <3>3, <3>4 DEF TypeOK, SaveReport
  <2>12. ASSUME NEW h \in Handlers, FindLatest(h) PROVE TypeOK'
    <3>1. handler[h].report \in Report
      BY <2>12 DEF TypeOK, FindLatest
    <3>2. CASE \E a \in Attempt : Latest(a) /\ ~history[a].done
      <4> DEFINE a == CHOOSE b \in Attempt : Latest(b)
      <4>1. a \in Attempt /\ Latest(a)
        BY <3>2
      <4>2. history[a] \in Entry
        BY <4>1 DEF TypeOK, Latest
      <4>3. handler' = [handler EXCEPT ![h] = [pc |-> "update", report |-> handler[h].report,
                                               entry |-> a, loaded |-> history[a]]]
        BY <2>12, <3>2 DEF FindLatest
      <4>4. [pc |-> "update", report |-> handler[h].report,
             entry |-> a, loaded |-> history[a]] \in HandlerJob
        BY <3>1, <4>1, <4>2, AppendType
      <4> HIDE DEF a
      <4>5. QED
        <5>1. handler' \in [Handlers -> HandlerJob \cup {Idle}]
          BY <2>12, <4>3, <4>4 DEF TypeOK
        <5>2. QED
          BY <2>12, <5>1 DEF TypeOK, FindLatest
    <3>3. CASE ~ \E a \in Attempt : Latest(a) /\ ~history[a].done
      <4>1. handler' = [handler EXCEPT ![h] = Idle]
        BY <2>12, <3>3 DEF FindLatest
      <4>2. QED
        BY <2>12, <4>1 DEF TypeOK, FindLatest
    <3>4. QED
      BY <3>2, <3>3
  <2>13. ASSUME NEW h \in Handlers, UpdateEntry(h) PROVE TypeOK'
    BY <2>13 DEF TypeOK, UpdateEntry
  <2>14. ASSUME NEW h \in Handlers, HandlerFails(h) PROVE TypeOK'
    BY <2>14 DEF TypeOK, HandlerFails
  <2>15. CASE Crash
    <3>1. reports' \in Seq(Report)
      <4>1. reports \in Seq(Report)
        BY DEF TypeOK
      <4>2. CASE UNCHANGED reports
        BY <4>1, <4>2
      <4>3. ASSUME NEW h \in Handlers, handler[h] # Idle, reports' = <<handler[h].report>> \o reports
            PROVE  reports' \in Seq(Report)
        <5>1. handler[h].report \in Report
          BY <4>3 DEF TypeOK
        <5> HIDE DEF Report
        <5>2. QED
          BY <4>1, <4>3, <5>1
      <4>4. QED
        BY <2>15, <4>2, <4>3 DEF Crash
    <3>2. QED
      BY <2>15, <3>1 DEF TypeOK, Crash
  <2>16. CASE UNCHANGED vars
    BY <2>16 DEF TypeOK, vars
  <2>17. QED
    BY <2>1, <2>2, <2>3, <2>4, <2>5, <2>6, <2>7, <2>8, <2>9, <2>10, <2>11, <2>12,
       <2>13, <2>14, <2>15, <2>16 DEF Next, RequestStep, DeviceStep, HandlerStep
<1>3. QED
  BY <1>1, <1>2, PTL DEF Spec

-----------------------------------------------------------------------------
(***************************************************************************)
(* A completed entry is never touched again where reports are handled one  *)
(* at a time.  The invariant says who may still write an entry: a request  *)
(* that has not inserted its own yet, and a handler that found an entry    *)
(* open, which nobody else can have completed meanwhile.                   *)
(***************************************************************************)
Requested ==
    \A q \in Requests : request[q] # Idle =>
        /\ request[q].attempt \in 1 .. attempts
        /\ history[request[q].attempt] = NoEntry

OneAttemptEach ==
    \A p, q \in Requests :
        p # q /\ request[p] # Idle /\ request[q] # Idle => request[p].attempt # request[q].attempt

FutureUnused == \A a \in Attempt : a > attempts => history[a] = NoEntry

UpdatesOpenEntry ==
    \A h \in Handlers : handler[h].pc = "update" =>
        /\ history[handler[h].entry] # NoEntry
        /\ ~history[handler[h].entry].done
        /\ handler[h].loaded.done = FALSE

EntryInv == TypeOK /\ Requested /\ OneAttemptEach /\ FutureUnused /\ UpdatesOpenEntry

OneHandler == \A g, h \in Handlers : g = h

\* With one handler, whoever updates an entry has the current and open one.
LEMMA EntryInvInductive == ASSUME OneHandler PROVE Spec => []EntryInv
<1> USE MaxAttemptsAssumption, MaxFaultsAssumption
<1>1. Init => EntryInv
  BY InitType DEF Init, EntryInv, Requested, OneAttemptEach, FutureUnused, UpdatesOpenEntry
<1>2. EntryInv /\ TypeOK' /\ [Next]_vars => EntryInv'
  <2> SUFFICES ASSUME EntryInv, TypeOK', [Next]_vars
               PROVE Requested' /\ OneAttemptEach' /\ FutureUnused' /\ UpdatesOpenEntry'
    BY DEF EntryInv
  <2> USE DEF EntryInv
  <2>1. ASSUME NEW q \in Requests, BeginRequest(q)
        PROVE Requested' /\ OneAttemptEach' /\ FutureUnused' /\ UpdatesOpenEntry'
    <3>1. /\ attempts \in Nat /\ attempts' = attempts + 1 /\ attempts' \in Attempt
          /\ UNCHANGED <<history, handler>>
      BY <2>1 DEF BeginRequest, TypeOK
    <3>2. /\ request'[q] # Idle /\ request'[q].attempt = attempts + 1
          /\ \A p \in Requests : p # q => request'[p] = request[p]
      BY <2>1 DEF BeginRequest, TypeOK
    <3>3. history[attempts + 1] = NoEntry
      BY <3>1 DEF FutureUnused
    <3>4. Requested'
      BY <3>1, <3>2, <3>3 DEF Requested
    <3>5. OneAttemptEach'
      BY <3>1, <3>2 DEF OneAttemptEach, Requested
    <3>6. FutureUnused' /\ UpdatesOpenEntry'
      BY <3>1 DEF FutureUnused, UpdatesOpenEntry
    <3>7. QED
      BY <3>4, <3>5, <3>6
  <2>2. ASSUME NEW q \in Requests, Publish(q) \/ PublishFails(q) \/ SavePending(q) \/ RequestFails(q)
        PROVE Requested' /\ OneAttemptEach' /\ FutureUnused' /\ UpdatesOpenEntry'
    <3> DEFINE Kept(p) == request'[p] # Idle =>
                 request[p] # Idle /\ request'[p].attempt = request[p].attempt
    <3>1. UNCHANGED <<history, attempts, handler>> /\ \A p \in Requests : Kept(p)
      <4>1. CASE Publish(q) \/ SavePending(q)
        <5>1. request[q] \in RequestJob
          BY <4>1 DEF Publish, SavePending, TypeOK
        <5>2. PICK pc \in {"save", "insert"} : request' = [request EXCEPT ![q] = [@ EXCEPT !.pc = pc]]
          BY <4>1 DEF Publish, SavePending
        <5>3. Kept(q)
          <6>1. request[q] # Idle
            BY <5>1
          <6>2. request'[q] = [request[q] EXCEPT !.pc = pc]
            BY <5>2 DEF TypeOK
          <6>3. request'[q].attempt = request[q].attempt
            BY <5>1, <6>2
          <6>4. QED
            BY <6>1, <6>3
        <5>4. \A p \in Requests : p # q => request'[p] = request[p]
          BY <5>2 DEF TypeOK
        <5>5. QED
          BY <4>1, <5>3, <5>4 DEF Publish, SavePending
      <4>2. CASE PublishFails(q) \/ RequestFails(q)
        BY <4>2 DEF PublishFails, RequestFails, TypeOK
      <4>3. QED
        BY <2>2, <4>1, <4>2
    <3>2. QED
      BY <3>1 DEF Requested, OneAttemptEach, FutureUnused, UpdatesOpenEntry
  <2>3. ASSUME NEW q \in Requests, InsertEntry(q)
        PROVE Requested' /\ OneAttemptEach' /\ FutureUnused' /\ UpdatesOpenEntry'
    <3> DEFINE a == request[q].attempt
    <3>1. /\ request[q] # Idle /\ a \in 1 .. attempts /\ history[a] = NoEntry
          /\ attempts \in Nat /\ UNCHANGED <<attempts, handler>>
      BY <2>3 DEF InsertEntry, Requested, TypeOK
    <3>2. \A b \in Attempt : b # a => history'[b] = history[b]
      BY <2>3 DEF InsertEntry, TypeOK
    <3>3. /\ request'[q] = Idle
          /\ \A p \in Requests : p # q => request'[p] = request[p]
      BY <2>3 DEF InsertEntry, TypeOK
    <3>4. /\ \A p \in Requests : request[p] # Idle => request[p].attempt \in Attempt
          /\ \A h \in Handlers : handler[h].pc = "update" => handler[h].entry \in Attempt
      <4>1. ASSUME NEW p \in Requests, request[p] # Idle PROVE request[p].attempt \in Attempt
        BY <4>1 DEF TypeOK
      <4>2. ASSUME NEW h \in Handlers, handler[h].pc = "update" PROVE handler[h].entry \in Attempt
        <5>1. handler[h] \in HandlerJob \cup {Idle}
          BY DEF TypeOK
        <5>2. QED
          BY <4>2, <5>1
      <4>3. QED
        BY <4>1, <4>2
    <3> HIDE DEF a
    <3>5. Requested'
      BY <3>1, <3>2, <3>3, <3>4 DEF Requested, OneAttemptEach, a
    <3>6. OneAttemptEach'
      BY <3>3 DEF OneAttemptEach
    <3>7. FutureUnused'
      BY <3>1, <3>2 DEF FutureUnused
    <3>8. UpdatesOpenEntry'
      BY <3>1, <3>2, <3>4 DEF UpdatesOpenEntry
    <3>9. QED
      BY <3>5, <3>6, <3>7, <3>8
  <2>4. CASE DeviceStep \/ DeviceStrays
    BY <2>4 DEF DeviceStep, DeviceStart, DeviceInstall, DeviceSettle, DeviceStrays,
                Requested, OneAttemptEach, FutureUnused, UpdatesOpenEntry
  <2>5. ASSUME NEW h \in Handlers, TakeReport(h) \/ SaveReport(h) \/ HandlerFails(h)
        PROVE Requested' /\ OneAttemptEach' /\ FutureUnused' /\ UpdatesOpenEntry'
    <3>1. UNCHANGED <<history, attempts, request>> /\ \A g \in Handlers : handler'[g].pc # "update"
      BY <2>5, OneHandler DEF TakeReport, SaveReport, HandlerFails, TypeOK, OneHandler
    <3>2. QED
      BY <3>1 DEF Requested, OneAttemptEach, FutureUnused, UpdatesOpenEntry
  <2>6. ASSUME NEW h \in Handlers, FindLatest(h)
        PROVE Requested' /\ OneAttemptEach' /\ FutureUnused' /\ UpdatesOpenEntry'
    <3>1. UNCHANGED <<history, attempts, request>>
      BY <2>6 DEF FindLatest
    <3>2. UpdatesOpenEntry'
      <4>1. CASE \E a \in Attempt : Latest(a) /\ ~history[a].done
        <5> DEFINE a == CHOOSE b \in Attempt : Latest(b)
        <5>1. PICK b \in Attempt : Latest(b) /\ ~history[b].done
          BY <4>1
        <5>2. a \in Attempt /\ Latest(a)
          BY <5>1
        <5>3. a = b
          BY <5>1, <5>2, LatestUnique
        <5>4. history[a] \in Entry /\ history[a] # NoEntry
          BY <5>2 DEF Latest, TypeOK
        <5>5. handler' = [handler EXCEPT ![h] = [pc |-> "update", report |-> handler[h].report,
                                                 entry |-> a, loaded |-> history[a]]]
          BY <2>6, <4>1 DEF FindLatest
        <5> HIDE DEF a
        <5>6. \A g \in Handlers : handler'[g].entry = a /\ handler'[g].loaded = history[a]
          BY <5>5, OneHandler DEF OneHandler, TypeOK
        <5>7. history[a].done = FALSE
          BY <5>1, <5>3, <5>4
        <5>8. QED
          BY <3>1, <5>4, <5>6, <5>7 DEF UpdatesOpenEntry
      <4>2. CASE ~ \E a \in Attempt : Latest(a) /\ ~history[a].done
        <5>1. \A g \in Handlers : handler'[g].pc = "idle"
          BY <2>6, <4>2, OneHandler DEF FindLatest, OneHandler, TypeOK
        <5>2. QED
          BY <5>1 DEF UpdatesOpenEntry
      <4>3. QED
        BY <4>1, <4>2
    <3>3. QED
      BY <3>1, <3>2 DEF Requested, OneAttemptEach, FutureUnused
  <2>7. ASSUME NEW h \in Handlers, UpdateEntry(h)
        PROVE Requested' /\ OneAttemptEach' /\ FutureUnused' /\ UpdatesOpenEntry'
    <3>1. /\ handler[h].entry \in Attempt /\ history[handler[h].entry] # NoEntry
          /\ UNCHANGED <<attempts, request>>
          /\ \A a \in Attempt : a # handler[h].entry => history'[a] = history[a]
      BY <2>7 DEF UpdateEntry, UpdatesOpenEntry, TypeOK
    <3>2. \A g \in Handlers : handler'[g].pc = "idle"
      BY <2>7, OneHandler DEF UpdateEntry, OneHandler, TypeOK
    <3>3. Requested' /\ OneAttemptEach'
      BY <3>1 DEF Requested, OneAttemptEach, TypeOK
    <3>4. FutureUnused' /\ UpdatesOpenEntry'
      BY <3>1, <3>2 DEF FutureUnused, UpdatesOpenEntry
    <3>5. QED
      BY <3>3, <3>4
  <2>8. CASE Crash
    BY <2>8 DEF Crash, Requested, OneAttemptEach, FutureUnused, UpdatesOpenEntry
  <2>9. CASE UNCHANGED vars
    BY <2>9 DEF vars, Requested, OneAttemptEach, FutureUnused, UpdatesOpenEntry
  <2>10. QED
    BY <2>1, <2>2, <2>3, <2>4, <2>5, <2>6, <2>7, <2>8, <2>9 DEF Next, RequestStep, HandlerStep
<1>3. QED
  BY <1>1, <1>2, TypeCorrect, PTL DEF Spec

\* With one handler, whatever requests, redelivered reports and failures do, a
\* completed attempt keeps its result.
THEOREM CompletedAttemptsStay == ASSUME OneHandler PROVE Spec => CompletedStays
<1>1. EntryInv /\ [Next]_vars
        => [\A a \in Attempt : history[a].done => history'[a] = history[a]]_vars
  <2> SUFFICES ASSUME EntryInv, Next, NEW a \in Attempt, history[a].done
               PROVE history'[a] = history[a]
    OBVIOUS
  <2> USE MaxAttemptsAssumption DEF EntryInv
  <2>1. ASSUME NEW q \in Requests, InsertEntry(q) PROVE history'[a] = history[a]
    BY <2>1 DEF InsertEntry, Requested, TypeOK
  <2>2. ASSUME NEW h \in Handlers, UpdateEntry(h) PROVE history'[a] = history[a]
    BY <2>2 DEF UpdateEntry, UpdatesOpenEntry, TypeOK
  <2>3. ASSUME UNCHANGED history PROVE history'[a] = history[a]
    BY <2>3
  <2>4. QED
    BY <2>1, <2>2, <2>3 DEF Next, RequestStep, DeviceStep, HandlerStep, BeginRequest, Publish,
       PublishFails, SavePending, RequestFails, DeviceStart, DeviceInstall, DeviceSettle,
       DeviceStrays, TakeReport, SaveReport, FindLatest, HandlerFails, Crash
<1>2. QED
  BY <1>1, EntryInvInductive, PTL DEF Spec, CompletedStays

-----------------------------------------------------------------------------
(***************************************************************************)
(* firmwareVersion never runs ahead of the device.  Requests and handlers  *)
(* save the version they loaded, which was confirmed when they loaded it,  *)
(* and what was confirmed once stays so.                                   *)
(***************************************************************************)
HeldWereConfirmed ==
    /\ \A q \in Requests : request[q] # Idle => request[q].loaded.running \in confirmed
    /\ \A h \in Handlers : handler[h].pc = "save" => handler[h].loaded.running \in confirmed

ConfirmedInv == TypeOK /\ RunningWasConfirmed /\ HeldWereConfirmed

\* With any number of overlapping requests and handlers, redelivered and stray
\* reports, failures and crashes, firmwareVersion is the version the device was
\* shipped with or one that a SUCCESS report named.
THEOREM RunningConfirmed == Spec => []RunningWasConfirmed
<1>1. Init => RunningWasConfirmed /\ HeldWereConfirmed
  BY DEF Init, RunningWasConfirmed, HeldWereConfirmed
<1>2. ConfirmedInv /\ TypeOK' /\ [Next]_vars => ConfirmedInv'
  <2> SUFFICES ASSUME ConfirmedInv, TypeOK', [Next]_vars
               PROVE RunningWasConfirmed' /\ HeldWereConfirmed'
    BY DEF ConfirmedInv
  <2> USE DEF ConfirmedInv, RunningWasConfirmed, HeldWereConfirmed
  <2>1. ASSUME NEW q \in Requests, BeginRequest(q)
        PROVE RunningWasConfirmed' /\ HeldWereConfirmed'
    BY <2>1 DEF TypeOK, BeginRequest
  <2>2. ASSUME NEW q \in Requests, Publish(q)
        PROVE RunningWasConfirmed' /\ HeldWereConfirmed'
    <3>1. request[q] \in RequestJob
      BY <2>2 DEF TypeOK, Publish
    <3>2. request' = [request EXCEPT ![q] = [request[q] EXCEPT !.pc = "save"]]
      BY <2>2 DEF Publish
    <3>3. request'[q].loaded = request[q].loaded
      BY <3>1, <3>2 DEF TypeOK
    <3>4. \A p \in Requests : p # q => request'[p] = request[p]
      BY <3>2 DEF TypeOK
    <3>5. request[q] # Idle /\ UNCHANGED <<row, handler, confirmed>>
      BY <2>2, <3>1 DEF Publish
    <3>6. QED
      BY <3>3, <3>4, <3>5
  <2>3. ASSUME NEW q \in Requests, SavePending(q)
        PROVE RunningWasConfirmed' /\ HeldWereConfirmed'
    <3>1. request[q] \in RequestJob
      BY <2>3 DEF TypeOK, SavePending
    <3>2. request' = [request EXCEPT ![q] = [request[q] EXCEPT !.pc = "insert"]]
      BY <2>3 DEF SavePending
    <3>3. request'[q].loaded = request[q].loaded
      BY <3>1, <3>2 DEF TypeOK
    <3>4. \A p \in Requests : p # q => request'[p] = request[p]
      BY <3>2 DEF TypeOK
    <3>5. request[q] # Idle /\ row'.running = request[q].loaded.running /\ UNCHANGED <<handler, confirmed>>
      BY <2>3, <3>1 DEF SavePending
    <3>6. QED
      BY <3>3, <3>4, <3>5
  <2>4. ASSUME NEW q \in Requests, InsertEntry(q) \/ PublishFails(q) \/ RequestFails(q)
        PROVE RunningWasConfirmed' /\ HeldWereConfirmed'
    BY <2>4 DEF TypeOK, InsertEntry, PublishFails, RequestFails
  <2>5. ASSUME NEW h \in Handlers, TakeReport(h)
        PROVE RunningWasConfirmed' /\ HeldWereConfirmed'
    BY <2>5 DEF TypeOK, TakeReport
  <2>6. ASSUME NEW h \in Handlers, SaveReport(h)
        PROVE RunningWasConfirmed' /\ HeldWereConfirmed'
    BY <2>6 DEF TypeOK, SaveReport, Applied
  <2>7. ASSUME NEW h \in Handlers, FindLatest(h)
        PROVE RunningWasConfirmed' /\ HeldWereConfirmed'
    <3>1. /\ UNCHANGED <<row, request, confirmed>>
          /\ \A g \in Handlers : handler'[g].pc = "save" => handler'[g] = handler[g]
      BY <2>7 DEF TypeOK, FindLatest
    <3>2. QED
      BY <3>1
  <2>8. ASSUME NEW h \in Handlers, UpdateEntry(h) \/ HandlerFails(h)
        PROVE RunningWasConfirmed' /\ HeldWereConfirmed'
    <3>1. /\ UNCHANGED <<row, request, confirmed>>
          /\ \A g \in Handlers : handler'[g].pc = "save" => handler'[g] = handler[g]
      BY <2>8 DEF TypeOK, UpdateEntry, HandlerFails
    <3>2. QED
      BY <3>1
  <2>9. CASE Crash
    <3>1. /\ UNCHANGED <<row, confirmed>>
          /\ \A q \in Requests : request'[q] = Idle
          /\ \A h \in Handlers : handler'[h].pc = "idle"
      BY <2>9 DEF Crash
    <3>2. QED
      BY <3>1
  <2>10. CASE UNCHANGED <<row, request, handler, confirmed>>
    BY <2>10
  <2>11. QED
    BY <2>1, <2>2, <2>3, <2>4, <2>5, <2>6, <2>7, <2>8, <2>9, <2>10
    DEF Next, RequestStep, DeviceStep, DeviceStart, DeviceInstall, DeviceSettle, DeviceStrays,
        HandlerStep, vars
<1>3. ConfirmedInv => RunningWasConfirmed
  BY DEF ConfirmedInv
<1>4. TypeOK /\ RunningWasConfirmed /\ HeldWereConfirmed => ConfirmedInv
  BY DEF ConfirmedInv
<1>5. QED
  BY <1>1, <1>2, <1>3, <1>4, TypeCorrect, PTL DEF Spec
=============================================================================
