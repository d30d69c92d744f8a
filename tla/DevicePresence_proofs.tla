------------------------ MODULE DevicePresence_proofs ------------------------
(***************************************************************************)
(* Proofs about DevicePresence, for any number of devices, handlers and    *)
(* overlapping sweeps and any threshold.                                   *)
(***************************************************************************)
EXTENDS DevicePresence, TLAPS

USE DEF Status, Age, Expired, Never, Idle, HandlerJob, SweepJob, SaverJob

\* The state is well typed: no handler, sweep, save or fault leaves a value in a
\* column or a job that the others do not expect.
THEOREM TypeCorrect == Spec => []TypeOK
<1>1. Init => TypeOK
  BY MaxFaultsAssumption, ThresholdAssumption DEF Init, TypeOK
<1>2. TypeOK /\ [Next]_vars => TypeOK'
  <2> SUFFICES ASSUME TypeOK, [Next]_vars PROVE TypeOK'
    OBVIOUS
  <2> USE ThresholdAssumption, MaxFaultsAssumption
  <2>1. CASE Tick
    BY <2>1 DEF TypeOK, Tick, Older
  <2>2. ASSUME NEW h \in Handlers, NEW d \in Devices, NEW target \in Status,
               NEW heard \in BOOLEAN, Find(h, d, target, heard)
        PROVE TypeOK'
    BY <2>2 DEF TypeOK, Find
  <2>3. ASSUME NEW h \in Handlers, WriteStatus(h) PROVE TypeOK'
    BY <2>3 DEF TypeOK, WriteStatus, MustEmit
  <2>4. ASSUME NEW h \in Handlers, EmitStatus(h) PROVE TypeOK'
    BY <2>4 DEF TypeOK, EmitStatus
  <2>5. ASSUME NEW s \in Sweeps, SweepFind(s) PROVE TypeOK'
    BY <2>5 DEF TypeOK, SweepFind, Stale
  <2>6. ASSUME NEW s \in Sweeps, SweepWrite(s) \/ SweepEmit(s) PROVE TypeOK'
    BY <2>6 DEF TypeOK, SweepWrite, SweepEmit
  <2>7. ASSUME NEW v \in Savers, NEW d \in Devices, LoadEntity(v, d) PROVE TypeOK'
    BY <2>7 DEF TypeOK, LoadEntity
  <2>8. ASSUME NEW v \in Savers, DiffEntity(v) PROVE TypeOK'
    <3>1. PICK columns \in SUBSET {"status", "lastSeen"} :
            saver' = [saver EXCEPT ![v] =
                        [saver[v] EXCEPT !.pc = "diffed", !.columns = columns]]
      BY <2>8 DEF DiffEntity
    <3>2. saver[v] \in SaverJob
      BY <2>8 DEF TypeOK, DiffEntity
    <3>3. [saver[v] EXCEPT !.pc = "diffed", !.columns = columns] \in SaverJob
      BY <3>2
    <3>4. saver' \in [Savers -> SaverJob \cup {Idle}]
      BY <3>1, <3>3 DEF TypeOK
    <3>5. QED
      BY <2>8, <3>4 DEF TypeOK, DiffEntity
  <2>9. ASSUME NEW v \in Savers, SaveEntity(v) PROVE TypeOK'
    BY <2>9 DEF TypeOK, SaveEntity
  <2>10. ASSUME NEW h \in Handlers, FailHandler(h) PROVE TypeOK'
    BY <2>10 DEF TypeOK, FailHandler
  <2>11. ASSUME NEW s \in Sweeps, FailSweep(s) PROVE TypeOK'
    BY <2>11 DEF TypeOK, FailSweep
  <2>12. CASE Crash
    BY <2>12 DEF TypeOK, Crash
  <2>13. CASE UNCHANGED vars
    BY <2>13 DEF TypeOK, vars
  <2>14. QED
    BY <2>1, <2>2, <2>3, <2>4, <2>5, <2>6, <2>7, <2>8, <2>9, <2>10, <2>11, <2>12, <2>13
    DEF Next, RecordTelemetry, HandleDeviceStatusMessage, HandleDeviceChannelEvent,
        HandlerStep, SweepStep, SaverStep
<1>3. QED
  BY <1>1, <1>2, PTL DEF Spec

-----------------------------------------------------------------------------
\* A row that the sweep can find stays one, with any number of handlers, sweeps and
\* whole-entity saves in progress, errors and crashes.
THEOREM HeardForGood == Spec => StaysSweepable
<1> DEFINE Stays == \A d \in Devices : Sweepable(d) => Sweepable(d)'
<1>1. TypeOK /\ TypeOK' /\ [Next]_vars => [Stays]_vars
  <2> SUFFICES ASSUME TypeOK, TypeOK', [Next]_vars, NEW d \in Devices, Sweepable(d)
               PROVE  Sweepable(d)'
    OBVIOUS
  <2> USE ThresholdAssumption DEF Sweepable
  <2>1. CASE Tick
    BY <2>1 DEF TypeOK, Tick, Older
  <2>2. ASSUME NEW h \in Handlers, WriteStatus(h) PROVE Sweepable(d)'
    BY <2>2 DEF TypeOK, WriteStatus
  <2>3. ASSUME NEW v \in Savers, NEW e \in Devices, LoadEntity(v, e) PROVE Sweepable(d)'
    BY <2>3 DEF TypeOK, LoadEntity
  <2>4. ASSUME NEW v \in Savers, DiffEntity(v) PROVE Sweepable(d)'
    BY <2>4 DEF TypeOK, DiffEntity
  <2>5. ASSUME NEW v \in Savers, SaveEntity(v) PROVE Sweepable(d)'
    BY <2>5 DEF TypeOK, SaveEntity
  <2>6. CASE Crash
    BY <2>6 DEF TypeOK, Crash
  <2>7. CASE UNCHANGED <<lastSeen, saver>>
    BY <2>7
  <2>8. QED
    BY <2>1, <2>2, <2>3, <2>4, <2>5, <2>6, <2>7
    DEF Next, RecordTelemetry, HandleDeviceStatusMessage, HandleDeviceChannelEvent, Find,
        HandlerStep, EmitStatus, FailHandler, SweepStep, SweepFind, SweepWrite, SweepEmit,
        FailSweep, SaverStep, vars
<1>2. QED
  BY <1>1, TypeCorrect, PTL DEF Spec, StaysSweepable

-----------------------------------------------------------------------------
(***************************************************************************)
(* No outage is swallowed where messages are handled one at a time, as the *)
(* Kafka consumer does, nothing fails, and no whole entity is saved.  A    *)
(* handler emits an OFFLINE event only if it found the device ONLINE, so   *)
(* the invariant is strengthened by what such a handler may rely on: the   *)
(* only other writers are sweeps, so a device it found OFFLINE still is.   *)
(***************************************************************************)
Serial == (\A g, h \in Handlers : g = h) /\ Savers = {} /\ MaxFaults = 0

FoundOfflineStaysOffline ==
    \A h \in Handlers : handler[h].pc = "write" /\ handler[h].found = "OFFLINE"
                            => status[handler[h].device] = "OFFLINE"

ReportInv == TypeOK /\ FoundOfflineStaysOffline /\ OutageReported

\* With one handler at a time, any number of overlapping sweeps and any threshold,
\* a device that turned OFFLINE without an event has one on its way.
THEOREM OutagesReported == ASSUME Serial PROVE Spec => []OutageReported
<1> USE DEF Serial
<1>1. Init => ReportInv
  BY MaxFaultsAssumption, ThresholdAssumption
  DEF Init, ReportInv, TypeOK, FoundOfflineStaysOffline, OutageReported
<1>2. ReportInv /\ TypeOK' /\ [Next]_vars => ReportInv'
  <2> SUFFICES ASSUME ReportInv, TypeOK', [Next]_vars
               PROVE FoundOfflineStaysOffline' /\ OutageReported'
    BY DEF ReportInv
  <2> USE ThresholdAssumption
      DEF ReportInv, FoundOfflineStaysOffline, OutageReported, OfflineEventDue
  <2>1. CASE Tick
    BY <2>1 DEF TypeOK, Tick
  <2>2. ASSUME NEW h \in Handlers, NEW d \in Devices, NEW target \in Status,
               NEW heard \in BOOLEAN, Find(h, d, target, heard)
        PROVE FoundOfflineStaysOffline' /\ OutageReported'
    BY <2>2 DEF TypeOK, Find
  <2>3. ASSUME NEW h \in Handlers, WriteStatus(h)
        PROVE FoundOfflineStaysOffline' /\ OutageReported'
    <3>1. FoundOfflineStaysOffline'
      BY <2>3 DEF TypeOK, WriteStatus
    <3>2. ASSUME NEW d \in unreported' PROVE OfflineEventDue(d)'
      <4>1. CASE d \in unreported
        BY <2>3, <4>1 DEF TypeOK, WriteStatus
      <4>2. CASE d \notin unreported
        BY <2>3, <3>2, <4>2 DEF TypeOK, WriteStatus, MustEmit
      <4>3. QED
        BY <4>1, <4>2
    <3>3. QED
      BY <3>1, <3>2
  <2>4. ASSUME NEW h \in Handlers, EmitStatus(h)
        PROVE FoundOfflineStaysOffline' /\ OutageReported'
    BY <2>4 DEF TypeOK, EmitStatus
  <2>5. ASSUME NEW s \in Sweeps, SweepFind(s)
        PROVE FoundOfflineStaysOffline' /\ OutageReported'
    BY <2>5 DEF TypeOK, SweepFind
  <2>6. ASSUME NEW s \in Sweeps, SweepWrite(s)
        PROVE FoundOfflineStaysOffline' /\ OutageReported'
    BY <2>6 DEF TypeOK, SweepWrite
  <2>7. ASSUME NEW s \in Sweeps, SweepEmit(s)
        PROVE FoundOfflineStaysOffline' /\ OutageReported'
    BY <2>7 DEF TypeOK, SweepEmit
  <2>8. CASE UNCHANGED vars
    BY <2>8 DEF vars
  <2>9. ~(faults < MaxFaults)
    BY DEF TypeOK
  <2>10. QED
    BY <2>1, <2>2, <2>3, <2>4, <2>5, <2>6, <2>7, <2>8, <2>9
    DEF Next, RecordTelemetry, HandleDeviceStatusMessage, HandleDeviceChannelEvent,
        HandlerStep, SweepStep, FailHandler, FailSweep, Crash
<1>3. ReportInv => OutageReported
  BY DEF ReportInv
<1>4. QED
  BY <1>1, <1>2, <1>3, TypeCorrect, PTL DEF Spec

-----------------------------------------------------------------------------
(***************************************************************************)
(* A device that fell silent.  Nobody writes a heartbeat or a status for   *)
(* it but the sweep, so it stays expired, and OFFLINE once it is; and a    *)
(* sweep that selects its rows from then on has it among them, or need     *)
(* not.                                                                    *)
(***************************************************************************)
Lapsed(d) == Silent(d) /\ lastSeen[d] = Expired

\* If s selects rows, it takes those of d along.
TakenBy(s, d) ==
    \/ status[d] = "OFFLINE"
    \/ sweep[s] = Idle
    \/ sweep[s].pc = "write" /\ d \in sweep[s].devices

\* No step but a sweep touches the row of a device that has lapsed.
LEMMA LapsedIsLeftAlone ==
  ASSUME TypeOK, TypeOK', NEW d \in Devices, Lapsed(d), [Next]_vars
  PROVE  /\ lastSeen'[d] = Expired
         /\ status'[d] = status[d] \/ status'[d] = "OFFLINE"
<1> USE ThresholdAssumption DEF Lapsed, Silent
<1>1. CASE Tick
  BY <1>1 DEF TypeOK, Tick, Older
<1>2. ASSUME NEW h \in Handlers, HandlerStep(h)
      PROVE  lastSeen'[d] = Expired /\ status'[d] = status[d]
  BY <1>2 DEF TypeOK, HandlerStep, WriteStatus, EmitStatus
<1>3. ASSUME NEW s \in Sweeps, SweepStep(s)
      PROVE  lastSeen'[d] = Expired /\ (status'[d] = status[d] \/ status'[d] = "OFFLINE")
  BY <1>3 DEF TypeOK, SweepStep, SweepFind, SweepWrite, SweepEmit
<1>4. ASSUME NEW v \in Savers, SaverStep(v)
      PROVE  lastSeen'[d] = Expired /\ status'[d] = status[d]
  BY <1>4 DEF TypeOK, SaverStep, DiffEntity, SaveEntity
<1>5. ASSUME \/ \E h \in Handlers, e \in Devices :
                   \/ RecordTelemetry(h, e)
                   \/ HandleDeviceStatusMessage(h, e)
                   \/ HandleDeviceChannelEvent(h, e)
             \/ \E h \in Handlers : FailHandler(h)
             \/ \E s \in Sweeps : FailSweep(s)
             \/ \E v \in Savers, e \in Devices : LoadEntity(v, e)
             \/ Crash \/ UNCHANGED vars
      PROVE  UNCHANGED <<status, lastSeen>>
  BY <1>5 DEF RecordTelemetry, HandleDeviceStatusMessage, HandleDeviceChannelEvent, Find,
     FailHandler, FailSweep, LoadEntity, Crash, vars
<1>6. QED
  BY <1>1, <1>2, <1>3, <1>4, <1>5 DEF Next

\* A sweep that selects takes a lapsed device along, and writes what it took.
LEMMA LapsedIsTaken ==
  ASSUME TypeOK, TypeOK', NEW d \in Devices, NEW s \in Sweeps, Lapsed(d), TakenBy(s, d), [Next]_vars
  PROVE  TakenBy(s, d)'
<1>1. status'[d] = status[d] \/ status'[d] = "OFFLINE"
  BY LapsedIsLeftAlone
<1>2. CASE status[d] = "OFFLINE"
  BY <1>1, <1>2 DEF TakenBy
<1>3. CASE sweep'[s] = sweep[s]
  BY <1>1, <1>3 DEF TakenBy
<1>4. CASE sweep'[s] # sweep[s] /\ status[d] = "ONLINE"
  <2>1. \/ \E r \in Sweeps : SweepStep(r) \/ FailSweep(r)
        \/ Crash
    BY <1>4 DEF Next, Tick, RecordTelemetry, HandleDeviceStatusMessage, HandleDeviceChannelEvent, Find,
       HandlerStep, WriteStatus, EmitStatus, FailHandler, LoadEntity, SaverStep, DiffEntity, SaveEntity, vars
  <2>2. ASSUME NEW r \in Sweeps, SweepFind(r) PROVE TakenBy(s, d)'
    BY <1>4, <2>2 DEF TypeOK, SweepFind, Stale, Lapsed, TakenBy
  <2>3. ASSUME NEW r \in Sweeps, SweepWrite(r) PROVE TakenBy(s, d)'
    BY <1>4, <2>3 DEF TypeOK, SweepWrite, TakenBy
  <2>4. ASSUME NEW r \in Sweeps, SweepEmit(r) \/ FailSweep(r) PROVE TakenBy(s, d)'
    BY <1>4, <2>4 DEF TypeOK, SweepEmit, FailSweep, TakenBy
  <2>5. CASE Crash
    BY <2>5 DEF Crash, TakenBy
  <2>6. QED
    BY <2>1, <2>2, <2>3, <2>4, <2>5 DEF SweepStep
<1>5. QED
  BY <1>2, <1>3, <1>4 DEF TypeOK

\* SeenThenSilentGoesOffline without its "eventually": once a device is silent for good
\* and its last heartbeat is older than the threshold, a sweep that starts then, and
\* comes as far as its events, leaves the device OFFLINE for good, whatever other
\* sweeps, messages and saves of other devices, errors and crashes there are.
THEOREM SilentIsSwept ==
  ASSUME NEW d \in Devices, NEW s \in Sweeps
  PROVE  Spec => []([]Silent(d) /\ lastSeen[d] = Expired /\ sweep[s] = Idle
                    => [](sweep[s].pc = "emit" => [](status[d] = "OFFLINE")))
<1>1. TypeOK /\ TypeOK' /\ Silent(d) /\ lastSeen[d] = Expired /\ [Next]_vars
        => /\ (lastSeen[d] = Expired)'
           /\ status[d] = "OFFLINE" => (status[d] = "OFFLINE")'
  BY LapsedIsLeftAlone DEF Lapsed
<1>2. TypeOK /\ TypeOK' /\ Silent(d) /\ lastSeen[d] = Expired /\ TakenBy(s, d) /\ [Next]_vars
        => TakenBy(s, d)'
  BY LapsedIsTaken DEF Lapsed
<1>3. sweep[s] = Idle => TakenBy(s, d)
  BY DEF TakenBy
<1>4. TakenBy(s, d) /\ sweep[s].pc = "emit" => status[d] = "OFFLINE"
  BY DEF TakenBy
<1>5. QED
  BY <1>1, <1>2, <1>3, <1>4, TypeCorrect, PTL DEF Spec
=============================================================================
