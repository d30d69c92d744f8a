------------------------------ MODULE DeviceOta ------------------------------
(***************************************************************************)
(* Over-the-air firmware updates of one device (devices do not interact).  *)
(* A request publishes the update command, then saves PENDING in the       *)
(* device row, then inserts a row in the attempt history; the device works *)
(* through the commands it received and reports its progress; a handler    *)
(* applies each report to the device row, then to the latest attempt.      *)
(* Every one of these is a database or broker call of its own, in no       *)
(* transaction, and both sides save the whole entity they loaded first.    *)
(*                                                                         *)
(* An attempt is numbered when its request takes requestedAt, which is     *)
(* also what orders the history, and installs the version of that number.  *)
(***************************************************************************)
EXTENDS Integers, Sequences

CONSTANTS
    Requests,    \* concurrent activations of triggerUpdate
    Handlers,    \* concurrent activations of handleOtaStatusReport
    MaxAttempts, \* bound on the attempts
    MaxFaults,   \* bound on publish failures, database errors, crashes,
                 \* redeliveries and stray reports, together
    Redelivery,  \* whether the broker may deliver a report again
    Patient      \* the device starts only once the request has saved its rows

ASSUME MaxAttemptsAssumption == MaxAttempts \in Nat \ {0}
ASSUME MaxFaultsAssumption == MaxFaults \in Nat
ASSUME FlagsAssumption == Redelivery \in BOOLEAN /\ Patient \in BOOLEAN

VARIABLES
    row,       \* the ota columns and firmwareVersion of the devices row
    history,   \* the device_ota_updates rows, by attempt
    request,   \* what each triggerUpdate is doing
    attempts,  \* attempts numbered so far
    inbox,     \* commands published and not started by the device
    work,      \* the command the device is working on and its stage
    reports,   \* reports the device sent and no handler took
    handler,   \* what each handleOtaStatusReport is doing
    faults,    \* failures so far
    confirmed, \* history: versions that SUCCESS reports applied so far named
    overlapped \* history: two requests were in progress at a time

vars == <<row, history, request, attempts, inbox, work, reports, handler, faults, confirmed, overlapped>>

Attempt    == 1 .. MaxAttempts
Version    == 0 .. MaxAttempts          \* 0: the one it was shipped with; in a report, none
InProgress == {"PENDING", "DOWNLOADING", "INSTALLING"}
Final      == {"SUCCESS", "FAILED"}
Statuses   == {"IDLE"} \cup InProgress \cup Final

Row     == [status : Statuses, target : Version, running : Version, error : {"none", "reported"}]
NoEntry == [status |-> "NONE", done |-> FALSE]
Entry   == [status : Statuses, done : BOOLEAN]
Report  == [status : Statuses, version : Version]

Idle       == [pc |-> "idle"]
RequestJob == [pc : {"publish", "save", "insert"}, attempt : Attempt, loaded : Row]
HandlerJob == [pc : {"save"}, report : Report, loaded : Row]
              \cup [pc : {"find"}, report : Report]
              \cup [pc : {"update"}, report : Report, entry : Attempt, loaded : Entry]
Work       == [attempt : Attempt, stage : {"DOWNLOADING", "INSTALLING"}]

TypeOK ==
    /\ row \in Row
    /\ history \in [Attempt -> Entry \cup {NoEntry}]
    /\ request \in [Requests -> RequestJob \cup {Idle}]
    /\ attempts \in 0 .. MaxAttempts
    /\ inbox \in Seq(Attempt)
    /\ work \in Work \cup {Idle}
    /\ reports \in Seq(Report)
    /\ handler \in [Handlers -> HandlerJob \cup {Idle}]
    /\ faults \in 0 .. MaxFaults
    /\ confirmed \subseteq Version
    /\ overlapped \in BOOLEAN

Init ==
    /\ row = [status |-> "IDLE", target |-> 0, running |-> 0, error |-> "none"]
    /\ history = [a \in Attempt |-> NoEntry]
    /\ request = [q \in Requests |-> Idle]
    /\ attempts = 0
    /\ inbox = <<>>
    /\ work = Idle
    /\ reports = <<>>
    /\ handler = [h \in Handlers |-> Idle]
    /\ faults = 0
    /\ confirmed = {0}
    /\ overlapped = FALSE

-----------------------------------------------------------------------------
(***************************************************************************)
(* triggerUpdate                                                           *)
(***************************************************************************)
\* Loads the device, rejects the request while an update is in progress.
BeginRequest(q) ==
    /\ request[q] = Idle
    /\ attempts < MaxAttempts
    /\ row.status \notin InProgress
    /\ attempts' = attempts + 1
    /\ request' = [request EXCEPT ![q] = [pc |-> "publish", attempt |-> attempts', loaded |-> row]]
    /\ overlapped' = (overlapped \/ \E p \in Requests : request[p] # Idle)
    /\ UNCHANGED <<row, history, inbox, work, reports, handler, faults, confirmed>>

\* The command goes out before anything is saved.
Publish(q) ==
    /\ request[q].pc = "publish"
    /\ inbox' = Append(inbox, request[q].attempt)
    /\ request' = [request EXCEPT ![q] = [@ EXCEPT !.pc = "save"]]
    /\ UNCHANGED <<row, history, attempts, work, reports, handler, faults, confirmed, overlapped>>

\* The broker refuses, or MQTT is disabled: the request answers with an error.
PublishFails(q) ==
    /\ request[q].pc = "publish"
    /\ faults < MaxFaults
    /\ faults' = faults + 1
    /\ request' = [request EXCEPT ![q] = Idle]
    /\ UNCHANGED <<row, history, attempts, inbox, work, reports, handler, confirmed, overlapped>>

\* mutant: the requested version is taken for the one that runs.
SavePendingRuns(q) ==
    /\ request[q].pc = "save"
    /\ row' = [status |-> "PENDING", target |-> request[q].attempt,
               running |-> request[q].attempt, error |-> "none"]
    /\ request' = [request EXCEPT ![q] = [@ EXCEPT !.pc = "insert"]]
    /\ UNCHANGED <<history, attempts, inbox, work, reports, handler, faults, confirmed, overlapped>>

\* The entity it loaded, with the columns of the new attempt, is saved whole.
SavePending(q) ==
    /\ request[q].pc = "save"
    /\ row' = [status |-> "PENDING", target |-> request[q].attempt,
               running |-> request[q].loaded.running, error |-> "none"]
    /\ request' = [request EXCEPT ![q] = [@ EXCEPT !.pc = "insert"]]
    /\ UNCHANGED <<history, attempts, inbox, work, reports, handler, faults, confirmed, overlapped>>

InsertEntry(q) ==
    /\ request[q].pc = "insert"
    /\ history' = [history EXCEPT ![request[q].attempt] = [status |-> "PENDING", done |-> FALSE]]
    /\ request' = [request EXCEPT ![q] = Idle]
    /\ UNCHANGED <<row, attempts, inbox, work, reports, handler, faults, confirmed, overlapped>>

\* A database error ends the request between two of its calls.
RequestFails(q) ==
    /\ request[q].pc \in {"save", "insert"}
    /\ faults < MaxFaults
    /\ faults' = faults + 1
    /\ request' = [request EXCEPT ![q] = Idle]
    /\ UNCHANGED <<row, history, attempts, inbox, work, reports, handler, confirmed, overlapped>>

-----------------------------------------------------------------------------
(***************************************************************************)
(* The device: one command at a time, in the order received.  It reports   *)
(* DOWNLOADING, INSTALLING, and in the end SUCCESS or, from any stage,     *)
(* FAILED.  A report need not name a version.                              *)
(***************************************************************************)
Saving == \E q \in Requests : request[q].pc \in {"save", "insert"}

Send(status, v) == reports' = Append(reports, [status |-> status, version |-> v])

DeviceStart ==
    /\ work = Idle
    /\ inbox # <<>>
    /\ Patient => ~Saving
    /\ work' = [attempt |-> Head(inbox), stage |-> "DOWNLOADING"]
    /\ inbox' = Tail(inbox)
    /\ Send("DOWNLOADING", Head(inbox))
    /\ UNCHANGED <<row, history, request, attempts, handler, faults, confirmed, overlapped>>

DeviceInstall ==
    /\ work # Idle
    /\ work.stage = "DOWNLOADING"
    /\ work' = [attempt |-> work.attempt, stage |-> "INSTALLING"]
    /\ Send("INSTALLING", work.attempt)
    /\ UNCHANGED <<row, history, request, attempts, inbox, handler, faults, confirmed, overlapped>>

DeviceSettle ==
    /\ work # Idle
    /\ \E status \in Final, version \in {0, work.attempt} :
          /\ status = "SUCCESS" => work.stage = "INSTALLING"
          /\ Send(status, version)
    /\ work' = Idle
    /\ UNCHANGED <<row, history, request, attempts, inbox, handler, faults, confirmed, overlapped>>

\* A report that belongs to no attempt, with one of the backend's own statuses,
\* which it accepts of a device as well.
DeviceStrays ==
    /\ faults < MaxFaults
    /\ faults' = faults + 1
    /\ \E status \in {"IDLE", "PENDING"} : Send(status, 0)
    /\ UNCHANGED <<row, history, request, attempts, inbox, work, handler, confirmed, overlapped>>

-----------------------------------------------------------------------------
(***************************************************************************)
(* handleOtaStatusReport                                                   *)
(***************************************************************************)
\* A handler takes the next report and loads the device.  With Redelivery the
\* broker keeps the report and delivers it again (at least once).
TakeReport(h) ==
    /\ handler[h] = Idle
    /\ reports # <<>>
    /\ handler' = [handler EXCEPT ![h] = [pc |-> "save", report |-> Head(reports), loaded |-> row]]
    /\ \/ reports' = Tail(reports) /\ UNCHANGED faults
       \/ /\ Redelivery
          /\ faults < MaxFaults
          /\ faults' = faults + 1
          /\ reports' = Append(Tail(reports), Head(reports))
    /\ UNCHANGED <<row, history, request, attempts, inbox, work, confirmed, overlapped>>

Names(report) == report.status = "SUCCESS" /\ report.version # 0

\* mutant: a failure is recorded as a message only.
AppliedFailureOpen(loaded, report) ==
    [status  |-> IF report.status = "FAILED" THEN loaded.status ELSE report.status,
     target  |-> loaded.target,
     running |-> IF Names(report) THEN report.version ELSE loaded.running,
     error   |-> IF report.status = "FAILED" THEN "reported" ELSE "none"]

\* mutant: the version is kept whenever the device has one.
AppliedKeepsVersion(loaded, report) ==
    [status  |-> report.status,
     target  |-> loaded.target,
     running |-> IF Names(report) /\ loaded.running = 0 THEN report.version ELSE loaded.running,
     error   |-> CASE report.status = "SUCCESS" -> "none"
                   [] report.status = "FAILED"  -> "reported"
                   [] OTHER                     -> loaded.error]

\* What a report makes of the row the handler loaded; without a version the row
\* keeps its own, and reports of no final status leave an error where it is.
Applied(loaded, report) ==
    [status  |-> report.status,
     target  |-> loaded.target,
     running |-> IF Names(report) THEN report.version ELSE loaded.running,
     error   |-> CASE report.status = "SUCCESS" -> "none"
                   [] report.status = "FAILED"  -> "reported"
                   [] OTHER                     -> loaded.error]

SaveReport(h) ==
    /\ handler[h].pc = "save"
    /\ LET job == handler[h]
       IN /\ row' = Applied(job.loaded, job.report)
          /\ confirmed' = IF Names(job.report) THEN confirmed \cup {job.report.version} ELSE confirmed
          /\ handler' = [handler EXCEPT ![h] = [pc |-> "find", report |-> job.report]]
    /\ UNCHANGED <<history, request, attempts, inbox, work, reports, faults, overlapped>>

Latest(a) == history[a] # NoEntry /\ \A b \in Attempt : b > a => history[b] = NoEntry

\* mutant: the latest entry is updated even when it is complete.
FindLatestAny(h) ==
    /\ handler[h].pc = "find"
    /\ handler' = [handler EXCEPT ![h] =
         IF \E a \in Attempt : Latest(a)
           THEN LET a == CHOOSE b \in Attempt : Latest(b)
                IN [pc |-> "update", report |-> handler[h].report, entry |-> a, loaded |-> history[a]]
           ELSE Idle]
    /\ UNCHANGED <<row, history, request, attempts, inbox, work, reports, faults, confirmed, overlapped>>

\* The attempt that was requested last, if it is still open, gets the report.
FindLatest(h) ==
    /\ handler[h].pc = "find"
    /\ handler' = [handler EXCEPT ![h] =
         IF \E a \in Attempt : Latest(a) /\ ~history[a].done
           THEN LET a == CHOOSE b \in Attempt : Latest(b)
                IN [pc |-> "update", report |-> handler[h].report, entry |-> a, loaded |-> history[a]]
           ELSE Idle]
    /\ UNCHANGED <<row, history, request, attempts, inbox, work, reports, faults, confirmed, overlapped>>

\* The entry it loaded is saved whole; completedAt is set by a final report.
UpdateEntry(h) ==
    /\ handler[h].pc = "update"
    /\ LET job == handler[h]
       IN history' = [history EXCEPT ![job.entry] =
                        [status |-> job.report.status,
                         done   |-> job.loaded.done \/ job.report.status \in Final]]
    /\ handler' = [handler EXCEPT ![h] = Idle]
    /\ UNCHANGED <<row, request, attempts, inbox, work, reports, faults, confirmed, overlapped>>

\* The Kafka consumer logs an error and takes the next report: this one is lost.
HandlerFails(h) ==
    /\ handler[h] # Idle
    /\ faults < MaxFaults
    /\ faults' = faults + 1
    /\ handler' = [handler EXCEPT ![h] = Idle]
    /\ UNCHANGED <<row, history, request, attempts, inbox, work, reports, confirmed, overlapped>>

\* The process ends, as it does when a handler of an MQTT report fails, and takes
\* all requests and handlers along; Kafka delivers an unfinished record again.
Crash ==
    /\ faults < MaxFaults
    /\ faults' = faults + 1
    /\ request' = [q \in Requests |-> Idle]
    /\ handler' = [h \in Handlers |-> Idle]
    /\ \/ UNCHANGED reports
       \/ /\ Redelivery
          /\ \E h \in Handlers : handler[h] # Idle /\ reports' = <<handler[h].report>> \o reports
    /\ UNCHANGED <<row, history, attempts, inbox, work, confirmed, overlapped>>

-----------------------------------------------------------------------------
RequestStep(q) == Publish(q) \/ SavePending(q) \/ InsertEntry(q)
DeviceStep     == DeviceStart \/ DeviceInstall \/ DeviceSettle
HandlerStep(h) == TakeReport(h) \/ SaveReport(h) \/ FindLatest(h) \/ UpdateEntry(h)

Next ==
    \/ \E q \in Requests : BeginRequest(q) \/ RequestStep(q) \/ PublishFails(q) \/ RequestFails(q)
    \/ DeviceStep \/ DeviceStrays
    \/ \E h \in Handlers : HandlerStep(h) \/ HandlerFails(h)
    \/ Crash

(***************************************************************************)
(* A request and a handler that started go on, the consumer takes reports, *)
(* and the device finishes what it was told; nobody has to ask for updates.*)
(***************************************************************************)
Fairness ==
    /\ \A q \in Requests : WF_vars(RequestStep(q))
    /\ WF_vars(DeviceStep)
    /\ \A h \in Handlers : WF_vars(HandlerStep(h))

Spec     == Init /\ [][Next]_vars
FairSpec == Spec /\ Fairness

-----------------------------------------------------------------------------
(***************************************************************************)
(* Properties                                                              *)
(***************************************************************************)

\* Nothing has failed, been repeated or overlapped so far.
Clean == faults = 0 /\ ~overlapped

\* "DeviceEntity.ota* always reflects the current/most recent attempt": as long as
\* nothing fails and no two requests overlap, otaStatus follows the life of an
\* attempt, never falls back, and is settled in the end.
Lifecycle == INSTANCE OtaLifecycle WITH stage <- IF Clean THEN row.status ELSE "LOST"
FollowsLifecycle == Lifecycle!Spec

\* firmwareVersion is the "last firmware version the device confirmed it's
\* actually running": as long as nothing fails and no two requests overlap, no save
\* of other columns takes it back behind a version that was confirmed.
RunningIsNewest == Clean => \A v \in confirmed : v <= row.running

\* And it is never a version that was only asked for: whatever overlaps, is
\* repeated or fails, and however stale the entities saved, some device confirmed
\* the version it names.
RunningWasConfirmed == row.running \in confirmed

\* A completed attempt keeps its result: no late or repeated report reopens it.
CompletedStays == [][\A a \in Attempt : history[a].done => history'[a] = history[a]]_vars

\* The in-progress statuses are "used to reject a second trigger until this one
\* resolves": so that they do not reject for ever, as long as nothing fails, and
\* whatever requests overlap and both get past them, otaStatus is settled again.
UpdateSettles == (faults = 0 /\ row.status \in InProgress) ~> (faults > 0 \/ row.status \notin InProgress)

=============================================================================
