----------------------------- MODULE Scheduler -----------------------------
(***************************************************************************)
(* The tick scheduler of the daemon: internal/scheduler/scheduler.go.      *)
(*                                                                         *)
(* A cron library starts one goroutine per firing; each runs a tick and,   *)
(* when the tick fails, arms a timer whose callback is the retry.  Stop    *)
(* is called once, by the daemon's shutdown, from a goroutine of its own.  *)
(* The mutex s.mu, the atomic flag s.stopped and the timers are shared by  *)
(* all of them, so every access to one of these is a step of its own.      *)
(*                                                                         *)
(* A "run" is a goroutine that may run one tick: a cron firing, a RunNow   *)
(* call, or a retry timer, which exists (armed) before its goroutine does. *)
(***************************************************************************)
EXTENDS Naturals, FiniteSets

CONSTANTS
    Launches,    \* cron firings and RunNow calls of one daemon lifetime
    Timers,      \* retry timers of one daemon lifetime
    MaxRetries   \* len(s.retryDelays): retries a failed cron tick is given

ASSUME MaxRetriesAssumption == MaxRetries \in Nat
ASSUME RunsAssumption == Launches \cup Timers \subseteq Nat

Runs == Launches \cup Timers

VARIABLES
    cron,        \* the cron library: "new", "running" or "stopped"
    stopped,     \* s.stopped
    stop,        \* the point Stop has reached
    pc,          \* the point each run has reached
    kind,        \* what started the run
    attempt,     \* 0 for a cron firing, k + 1 for the retry of scheduleRetry(k)
    root,        \* the cron firing a retry descends from
    next,        \* the timer a run has armed and not yet appended
    retryTimers, \* s.retryTimers, as the set of runs the timers start
    running,     \* s.running
    late         \* history: the runs whose tick began after s.stopped was set

vars == <<cron, stopped, stop, pc, kind, attempt, root, next, retryTimers,
          running, late>>

Points == {"free", "armed", "cancelled", "fired", "entered", "ticking",
           "failed", "arming", "appending", "done"}
Kinds == {"none", "cron", "now", "retry"}
StopPoints == {"idle", "flagged", "cleared", "draining", "returned"}

TypeOK ==
    /\ cron \in {"new", "running", "stopped"}
    /\ stopped \in BOOLEAN
    /\ stop \in StopPoints
    /\ pc \in [Runs -> Points]
    /\ kind \in [Runs -> Kinds]
    /\ attempt \in [Runs -> 0 .. MaxRetries]
    /\ root \in [Runs -> Runs]
    /\ next \in [Runs -> Runs]
    /\ retryTimers \subseteq Runs
    /\ running \in Nat
    /\ late \subseteq Runs

Init ==
    /\ cron = "new"
    /\ stopped = FALSE
    /\ stop = "idle"
    /\ pc = [r \in Runs |-> "free"]
    /\ kind = [r \in Runs |-> "none"]
    /\ attempt = [r \in Runs |-> 0]
    /\ root = [r \in Runs |-> r]
    /\ next = [r \in Runs |-> r]
    /\ retryTimers = {}
    /\ running = 0
    /\ late = {}

-----------------------------------------------------------------------------
(* Start and the two ways a run begins without a timer.                    *)

Start ==
    /\ cron = "new"
    /\ cron' = "running"
    /\ UNCHANGED <<stopped, stop, pc, kind, attempt, root, next, retryTimers,
                   running, late>>

\* Identities are handed out in order.
NextOf(S, r) == r \in S /\ pc[r] = "free" /\ \A q \in S : pc[q] = "free" => r <= q

Launch(r, k) ==
    /\ NextOf(Launches, r)
    /\ pc' = [pc EXCEPT ![r] = "entered"]
    /\ kind' = [kind EXCEPT ![r] = k]
    /\ UNCHANGED <<cron, stopped, stop, attempt, root, next, retryTimers,
                   running, late>>

\* The library starts a goroutine whatever the earlier ones are doing: the
\* scheduler installs no wrapper that skips a firing while one still runs.
CronFire(r) == cron = "running" /\ Launch(r, "cron")

\* RunNow does not look at s.stopped.
RunNow(r) == Launch(r, "now")

-----------------------------------------------------------------------------
(* runTickWithCtx: count the run in, call the tick function, count it out. *)

\* Mutant: Stop keeps the mutex while it waits for the ticks.
BeginTickBehindStop(r) ==
    /\ pc[r] = "entered"
    /\ stop \notin {"cleared", "draining"}
    /\ pc' = [pc EXCEPT ![r] = "ticking"]
    /\ running' = running + 1
    /\ late' = IF stopped THEN late \cup {r} ELSE late
    /\ UNCHANGED <<cron, stopped, stop, kind, attempt, root, next, retryTimers>>

BeginTick(r) ==
    /\ pc[r] = "entered"
    /\ pc' = [pc EXCEPT ![r] = "ticking"]
    /\ running' = running + 1
    /\ late' = IF stopped THEN late \cup {r} ELSE late
    /\ UNCHANGED <<cron, stopped, stop, kind, attempt, root, next, retryTimers>>

\* Mutant: a failed tick is not counted out.
EndTickUncounted(r, err) ==
    /\ pc[r] = "ticking"
    /\ pc' = [pc EXCEPT ![r] =
                 IF err /\ kind[r] # "now" THEN "failed" ELSE "done"]
    /\ running' = IF err THEN running ELSE running - 1
    /\ UNCHANGED <<cron, stopped, stop, kind, attempt, root, next, retryTimers,
                   late>>

\* The tick returns nil, or an error: its own, or that of the deadline.  Only
\* a cron firing or a retry goes on to scheduleRetry after an error.
EndTick(r, err) ==
    /\ pc[r] = "ticking"
    /\ pc' = [pc EXCEPT ![r] =
                 IF err /\ kind[r] # "now" THEN "failed" ELSE "done"]
    /\ running' = running - 1
    /\ UNCHANGED <<cron, stopped, stop, kind, attempt, root, next, retryTimers,
                   late>>

-----------------------------------------------------------------------------
(* scheduleRetry: the two early returns, time.AfterFunc, the append.       *)

\* Mutants: one retry too many, one too few, and none of Stop's flag.
NoRetryTooLate(r) == stopped \/ attempt[r] > MaxRetries
NoRetryTooSoon(r) == stopped \/ attempt[r] + 1 >= MaxRetries
NoRetryUnstoppable(r) == attempt[r] >= MaxRetries

NoRetry(r) == stopped \/ attempt[r] >= MaxRetries

ScheduleRetry(r) ==
    /\ pc[r] = "failed"
    /\ pc' = [pc EXCEPT ![r] =
                 IF NoRetry(r) THEN "done" ELSE "arming"]
    /\ UNCHANGED <<cron, stopped, stop, kind, attempt, root, next, retryTimers,
                   running, late>>

\* Mutant: the callback is given the attempt it descends from.
ArmTimerSameAttempt(r, t) ==
    /\ pc[r] = "arming"
    /\ NextOf(Timers, t)
    /\ pc' = [pc EXCEPT ![r] = "appending", ![t] = "armed"]
    /\ kind' = [kind EXCEPT ![t] = "retry"]
    /\ attempt' = [attempt EXCEPT ![t] = attempt[r]]
    /\ root' = [root EXCEPT ![t] = root[r]]
    /\ next' = [next EXCEPT ![r] = t]
    /\ UNCHANGED <<cron, stopped, stop, retryTimers, running, late>>

ArmTimer(r, t) ==
    /\ pc[r] = "arming"
    /\ NextOf(Timers, t)
    /\ pc' = [pc EXCEPT ![r] = "appending", ![t] = "armed"]
    /\ kind' = [kind EXCEPT ![t] = "retry"]
    /\ attempt' = [attempt EXCEPT ![t] = attempt[r] + 1]
    /\ root' = [root EXCEPT ![t] = root[r]]
    /\ next' = [next EXCEPT ![r] = t]
    /\ UNCHANGED <<cron, stopped, stop, retryTimers, running, late>>

\* Mutant: the first failure queues a timer for every delay there is.
AppendTimerAndNext(r) ==
    /\ pc[r] = "appending"
    /\ pc' = [pc EXCEPT ![r] = "arming"]
    /\ retryTimers' = retryTimers \cup {next[r]}
    /\ UNCHANGED <<cron, stopped, stop, kind, attempt, root, next, running, late>>

AppendTimer(r) ==
    /\ pc[r] = "appending"
    /\ pc' = [pc EXCEPT ![r] = "done"]
    /\ retryTimers' = retryTimers \cup {next[r]}
    /\ UNCHANGED <<cron, stopped, stop, kind, attempt, root, next, running, late>>

\* The delay is over: the runtime starts the callback's goroutine, which a
\* later timer.Stop() can no longer prevent.
FireTimer(t) ==
    /\ pc[t] = "armed"
    /\ pc' = [pc EXCEPT ![t] = "fired"]
    /\ UNCHANGED <<cron, stopped, stop, kind, attempt, root, next, retryTimers,
                   running, late>>

RetryCallback(t) ==
    /\ pc[t] = "fired"
    /\ pc' = [pc EXCEPT ![t] = IF stopped THEN "done" ELSE "entered"]
    /\ UNCHANGED <<cron, stopped, stop, kind, attempt, root, next, retryTimers,
                   running, late>>

-----------------------------------------------------------------------------
(* Stop: set the flag; cancel and forget the timers under the mutex; stop  *)
(* the library; wait for the goroutines the library started.               *)

StopFlag ==
    /\ stop = "idle"
    /\ cron # "new"
    /\ stop' = "flagged"
    /\ stopped' = TRUE
    /\ UNCHANGED <<cron, pc, kind, attempt, root, next, retryTimers, running, late>>

StopTimers ==
    /\ stop = "flagged"
    /\ stop' = "cleared"
    /\ pc' = [r \in Runs |-> IF r \in retryTimers /\ pc[r] = "armed"
                             THEN "cancelled" ELSE pc[r]]
    /\ retryTimers' = {}
    /\ UNCHANGED <<cron, stopped, kind, attempt, root, next, running, late>>

StopCron ==
    /\ stop = "cleared"
    /\ stop' = "draining"
    /\ cron' = "stopped"
    /\ UNCHANGED <<stopped, pc, kind, attempt, root, next, retryTimers, running, late>>

\* The library's wait group counts the goroutines it started, no others.
CronJobs == {r \in Runs : kind[r] = "cron"}

StopReturn ==
    /\ stop = "draining"
    /\ \A r \in CronJobs : pc[r] = "done"
    /\ stop' = "returned"
    /\ UNCHANGED <<cron, stopped, pc, kind, attempt, root, next, retryTimers,
                   running, late>>

Stop == StopFlag \/ StopTimers \/ StopCron \/ StopReturn

-----------------------------------------------------------------------------
Tick(r) == BeginTick(r) \/ \E err \in BOOLEAN : EndTick(r, err)

Retry(r) ==
    \/ ScheduleRetry(r)
    \/ \E t \in Runs : ArmTimer(r, t)
    \/ AppendTimer(r)
    \/ FireTimer(r)
    \/ RetryCallback(r)

Next ==
    \/ Start
    \/ Stop
    \/ \E r \in Runs : CronFire(r) \/ RunNow(r) \/ Tick(r) \/ Retry(r)

\* The Go scheduler runs every goroutine, a timer fires once its delay is over,
\* and the 30-minute deadline ends every tick; nothing forces a cron firing, a
\* RunNow call or the shutdown itself.
Fairness ==
    /\ WF_vars(StopTimers \/ StopCron \/ StopReturn)
    /\ \A r \in Runs : WF_vars(Tick(r) \/ Retry(r))

Spec == Init /\ [][Next]_vars /\ Fairness

-----------------------------------------------------------------------------
Ticking == {r \in Runs : pc[r] = "ticking"}

\* RunningCount answers the number of ticks in flight at that moment, however
\* firings, retries and RunNow calls overlap and however their ticks end: the
\* updater's Busy test is this number (scheduler.go:234-269).
RunningCountExact == running = Cardinality(Ticking)

\* One cron firing has at most one retry at each attempt: the chain of
\* scheduleRetry calls is a line of at most MaxRetries timers, never a tree
\* (scheduler.go:195-232).
RetryChainsAreLines ==
    \A r, t \in Runs :
        /\ kind[r] \in {"cron", "retry"} /\ kind[t] \in {"cron", "retry"}
        /\ root[r] = root[t] /\ attempt[r] = attempt[t]
        => r = t

\* A tick that slips in after Stop began is the last of its chain: it cannot
\* arm another retry, which is what keeps a daemon that lost the race with its
\* own shutdown from ticking on (scheduler.go:154-159, 204-211).
LateTickIsLast ==
    \A r \in late, t \in Runs :
        kind[r] # "now" /\ kind[t] = "retry" /\ root[t] = root[r]
            => attempt[t] <= attempt[r]

\* The ticks of one firing take turns: a retry never syncs beside the tick it
\* retries, or beside another retry of it, however long each takes and whatever
\* the delays; only another firing's ticks can (scheduler.go:184-232).
TicksOfAFiringTakeTurns ==
    \A r, t \in Ticking :
        kind[r] # "now" /\ kind[t] # "now" /\ root[r] = root[t] => r = t

\* Stop returns: its wait is bounded by the ticks' deadline (scheduler.go:154-158).
StopReturns == stop = "flagged" ~> stop = "returned"

\* A cron tick or retry that failed with an attempt left is run again, unless
\* Stop began (scheduler.go:184-232).
FailedTickIsRetried ==
    \A r \in Runs :
        pc[r] = "failed" /\ attempt[r] < MaxRetries
        ~> \/ stopped
           \/ \E t \in Runs : /\ root[t] = root[r]
                              /\ attempt[t] = attempt[r] + 1
                              /\ pc[t] \in {"ticking", "failed", "done"}

\* What the comment on Stop promises of the scheduler's own ticks, firings and
\* retries: it "waits for any in-flight tick to finish" (scheduler.go:154).
StopWaitsForEveryTick ==
    stop = "returned" => \A r \in Ticking : kind[r] = "now"
=============================================================================
