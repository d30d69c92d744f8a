-------------------------- MODULE ConsumerLifecycle --------------------------
(***************************************************************************)
(* How the backend keeps one Kafka consumer running from boot to shutdown: *)
(* connectAndSubscribe makes a consumer, connects, subscribes and runs it, *)
(* and retries by a timer when it fails; a consumer that crashes is        *)
(* restarted by kafkajs or, if kafkajs gives up, by the same timer.  The   *)
(* topics are created next to it at boot, or by the producer when a        *)
(* message finds its topic missing.  kafkajs and the broker are external:  *)
(* run() does not fail when the group cannot be joined, it reports a       *)
(* crash, and a disconnect ends a consumer and its restarts.               *)
(***************************************************************************)
EXTENDS Integers, Sequences

CONSTANTS
    Topics,      \* the topics the consumer subscribes to
    SentTo,      \* those of them that the backend sends to as well
    MaxAttempts, \* bound on the count of failed starts, further than any delay
    MaxFaults    \* bound on broker outages, single failures and killed processes

\* RETRY_DELAYS_MS, in seconds.
RetryDelays == <<5, 15, 30, 60>>

ASSUME MaxAttemptsAssumption == MaxAttempts \in Nat /\ MaxAttempts >= Len(RetryDelays)
ASSUME MaxFaultsAssumption == MaxFaults \in Nat
ASSUME SentToAssumption == SentTo \subseteq Topics

VARIABLES
    process,     \* up, closing (onModuleDestroy waits), closed, or down
    start,       \* what connectAndSubscribe awaits
    consumer,    \* the consumer it made last
    timer,       \* retryTimer: which of the delays it was set to, 0 if it is not set
    attempt,     \* failed starts before the one in progress or scheduled
    abandoned,   \* history: consumers replaced before they were disconnected
    initializer, \* what the topics initializer awaits
    broker,      \* up or down
    existing,    \* topics on the broker
    zombie,      \* the broker still counts a member of an earlier process
    faults

vars == <<process, start, consumer, timer, attempt, abandoned, initializer, broker, existing, zombie, faults>>

TypeOK ==
    /\ process \in {"up", "closing", "closed", "down"}
    /\ start \in {"idle", "connect", "subscribe", "run", "disconnect"}
    /\ consumer \in {"none", "fresh", "connected", "member", "restarting", "ended"}
    /\ timer \in 0 .. Len(RetryDelays) /\ attempt \in 0 .. MaxAttempts /\ abandoned \in Nat
    /\ initializer \in {"connect", "create", "done"}
    /\ broker \in {"up", "down"}
    /\ existing \subseteq Topics /\ zombie \in BOOLEAN
    /\ faults \in 0 .. MaxFaults

Init ==
    /\ process = "down" /\ start = "idle" /\ consumer = "none" /\ timer = 0 /\ attempt = 0 /\ abandoned = 0
    /\ initializer = "done"
    /\ broker \in {"up", "down"} /\ existing \in SUBSET Topics /\ zombie = FALSE
    /\ faults = 0

Fault == faults < MaxFaults /\ faults' = faults + 1

\* A consumer that would go on taking messages, or soon would.
Alive(c) == c \in {"connected", "member", "restarting"}

Destroyed == process # "up"

\* connectAndSubscribe makes a new consumer, whatever became of the last one.
Begin ==
    /\ start' = "connect"
    /\ consumer' = "fresh"
    /\ abandoned' = abandoned + IF Alive(consumer) THEN 1 ELSE 0

-----------------------------------------------------------------------------
(***************************************************************************)
(* onModuleInit of the consumer and of the topics initializer              *)
(***************************************************************************)
Boot ==
    /\ process = "down"
    /\ process' = "up"
    /\ Begin
    /\ attempt' = 0
    /\ initializer' = "connect"
    /\ UNCHANGED <<timer, broker, existing, zombie, faults>>

ListTopics ==
    /\ initializer = "connect" /\ broker = "up"
    /\ initializer' = IF existing = Topics THEN "done" ELSE "create"
    /\ UNCHANGED <<process, start, consumer, timer, attempt, abandoned, broker, existing, zombie, faults>>

CreateTopics ==
    /\ initializer = "create" /\ broker = "up"
    /\ existing' = Topics
    /\ initializer' = "done"
    /\ UNCHANGED <<process, start, consumer, timer, attempt, abandoned, broker, zombie, faults>>

\* Logged and not repeated.
InitializerFails ==
    /\ initializer # "done"
    /\ (broker = "down" /\ UNCHANGED faults) \/ Fault
    /\ initializer' = "done"
    /\ UNCHANGED <<process, start, consumer, timer, attempt, abandoned, broker, existing, zombie>>

\* send: a topic that is missing is created, and the message sent again.
SendCreatesTopic(t) ==
    /\ process = "up" /\ broker = "up"
    /\ t \in SentTo \ existing
    /\ existing' = existing \cup {t}
    /\ UNCHANGED <<process, start, consumer, timer, attempt, abandoned, initializer, broker, zombie, faults>>

-----------------------------------------------------------------------------
(***************************************************************************)
(* connectAndSubscribe                                                     *)
(***************************************************************************)
Connect ==
    /\ start = "connect" /\ broker = "up"
    /\ start' = "subscribe"
    /\ consumer' = "connected"
    /\ UNCHANGED <<process, timer, attempt, abandoned, initializer, broker, existing, zombie, faults>>

\* Topics are not created by subscribing.
Subscribe ==
    /\ start = "subscribe" /\ broker = "up" /\ existing = Topics
    /\ start' = "run"
    /\ consumer' = "connected"
    /\ UNCHANGED <<process, timer, attempt, abandoned, initializer, broker, existing, zombie, faults>>

\* The error is caught, and the consumer disconnected before anything else.
StartFails ==
    /\ \/ start = "connect" /\ broker = "down" /\ UNCHANGED faults
       \/ start = "subscribe" /\ (broker = "down" \/ existing # Topics) /\ UNCHANGED faults
       \/ start \in {"connect", "subscribe"} /\ Fault
    /\ start' = "disconnect"
    /\ UNCHANGED <<process, consumer, timer, attempt, abandoned, initializer, broker, existing, zombie>>

\* mutant: whether to retry is not asked again after the disconnect.
RetriesAlways == TRUE

Retries == ~ Destroyed

\* mutant: the consumer that failed is left as it is.
LeftConnected(c) == c

Disconnected(c) == "ended"

\* mutant: the delays run out.
DelayPastLast(n) == n + 1

\* The last delay is kept.
Delay(n) == IF n < Len(RetryDelays) THEN n + 1 ELSE Len(RetryDelays)

Disconnect ==
    /\ start = "disconnect"
    /\ start' = "idle"
    /\ consumer' = Disconnected(consumer)
    /\ IF Retries
       THEN timer' = Delay(attempt) /\ attempt' = IF attempt < MaxAttempts THEN attempt + 1 ELSE attempt
       ELSE UNCHANGED <<timer, attempt>>
    /\ UNCHANGED <<process, abandoned, initializer, broker, existing, zombie, faults>>

TimerFires ==
    /\ timer # 0
    /\ timer' = 0
    /\ Begin
    /\ UNCHANGED <<process, attempt, initializer, broker, existing, zombie, faults>>

-----------------------------------------------------------------------------
(***************************************************************************)
(* Joining the group, and crashes                                          *)
(***************************************************************************)
Joining == start = "run" \/ (consumer = "restarting" /\ start = "idle")

Join ==
    /\ Joining
    /\ broker = "up" /\ ~ zombie
    /\ start' = "idle"
    /\ consumer' = "member"
    /\ UNCHANGED <<process, timer, attempt, abandoned, initializer, broker, existing, zombie, faults>>

\* mutant: kafkajs is left to give up on its own.
SchedulesNever(restart) == FALSE

\* The handler of the CRASH event.
Schedules(restart) == ~ (Destroyed \/ restart)

Crash(restart) ==
    /\ start' = "idle"
    /\ consumer' = IF restart THEN "restarting" ELSE "ended"
    /\ IF Schedules(restart) THEN timer' = 1 /\ attempt' = 0 ELSE UNCHANGED <<timer, attempt>>
    /\ UNCHANGED <<process, abandoned, initializer, broker, existing, zombie>>

\* Retriable errors are retried by kafkajs itself, until they are another kind.
JoinFails ==
    /\ Joining
    /\ \/ broker = "down" /\ UNCHANGED faults /\ Crash(TRUE)
       \/ zombie /\ UNCHANGED faults /\ Crash(FALSE)
       \/ Fault /\ \E restart \in BOOLEAN : Crash(restart)

MemberCrashes ==
    /\ consumer = "member" /\ start = "idle"
    /\ \/ broker = "down" /\ UNCHANGED faults /\ Crash(TRUE)
       \/ Fault /\ \E restart \in BOOLEAN : Crash(restart)

-----------------------------------------------------------------------------
(***************************************************************************)
(* Shutdown, killed processes and the broker                               *)
(***************************************************************************)
\* onModuleDestroy, up to its await.
Destroy ==
    /\ process = "up"
    /\ process' = "closing"
    /\ timer' = 0
    /\ UNCHANGED <<start, consumer, attempt, abandoned, initializer, broker, existing, zombie, faults>>

\* A start that is in progress is not stopped by it.
Destroys ==
    /\ process = "closing"
    /\ process' = "closed"
    /\ consumer' = "ended"
    /\ UNCHANGED <<start, timer, attempt, abandoned, initializer, broker, existing, zombie, faults>>

\* The process ends; a member that did not leave is remembered by the broker.
Ended ==
    /\ process' = "down"
    /\ start' = "idle" /\ consumer' = "none" /\ timer' = 0 /\ attempt' = 0 /\ initializer' = "done"
    /\ zombie' = (zombie \/ consumer = "member")
    /\ UNCHANGED <<abandoned, broker, existing>>

Exit == process = "closed" /\ Ended /\ UNCHANGED faults
Kill == process # "down" /\ Fault /\ Ended

SessionExpires ==
    /\ zombie /\ broker = "up"
    /\ zombie' = FALSE
    /\ UNCHANGED <<process, start, consumer, timer, attempt, abandoned, initializer, broker, existing, faults>>

BrokerFails ==
    /\ broker = "up" /\ Fault
    /\ broker' = "down"
    /\ UNCHANGED <<process, start, consumer, timer, attempt, abandoned, initializer, existing, zombie>>

BrokerRecovers ==
    /\ broker = "down"
    /\ broker' = "up"
    /\ UNCHANGED <<process, start, consumer, timer, attempt, abandoned, initializer, existing, zombie, faults>>

-----------------------------------------------------------------------------
StartStep == Connect \/ Subscribe \/ StartFails \/ Disconnect
JoinStep  == Join \/ JoinFails

Next ==
    \/ Boot \/ ListTopics \/ CreateTopics \/ InitializerFails
    \/ \E t \in Topics : SendCreatesTopic(t)
    \/ StartStep \/ TimerFires \/ JoinStep \/ MemberCrashes
    \/ Destroy \/ Destroys \/ Exit \/ Kill
    \/ SessionExpires \/ BrokerFails \/ BrokerRecovers

\* What was started goes on, timers fire and sessions expire.  Nobody has to boot,
\* to shut down, to send a message or to repair the broker.
Fairness ==
    /\ WF_vars(StartStep) /\ WF_vars(JoinStep) /\ WF_vars(TimerFires)
    /\ WF_vars(ListTopics \/ CreateTopics \/ InitializerFails)
    /\ WF_vars(SessionExpires)

Spec     == Init /\ [][Next]_vars
FairSpec == Spec /\ Fairness

-----------------------------------------------------------------------------
(***************************************************************************)
(* Properties                                                              *)
(***************************************************************************)

\* Failed starts and crashes both schedule a new start, and both may happen to one
\* consumer: no consumer is ever replaced while it may take messages, and there is
\* at most one start, now or by the timer.
OneConsumer ==
    /\ abandoned = 0
    /\ timer # 0 => start = "idle" /\ ~ Alive(consumer)

ShuttingDown == process \in {"closing", "closed"}

\* No start is scheduled and none begins.
NothingNew == timer' = 0 /\ (start' = "connect" => start = "connect")

\* After onModuleDestroy nothing is scheduled or begun, although a failed start
\* and a crash may be reported later.
QuietAfterShutdown == [][ShuttingDown => NothingNew]_vars

\* "The broker once it sorts itself out" finds the consumer back, without a
\* restart of the process.
ConsumesInTheEnd ==
    <>[](process = "up" /\ broker = "up" /\ existing = Topics) => <>[](consumer = "member")
=============================================================================
