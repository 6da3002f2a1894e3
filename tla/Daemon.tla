------------------------------- MODULE Daemon -------------------------------
(***************************************************************************)
(* The daemon's goroutines around the sync pass (cmd/agent/main.go,        *)
(* internal/heartbeat): ticks that walk every enabled connection, one      *)
(* heartbeat poller per connection that dispatches what the server queued, *)
(* the flags OnRevoke sets, the loop that checks for a newer version, and  *)
(* the shutdown of runWithCtx, which waits for some of them.               *)
(*                                                                         *)
(* A pass is its begin and its end; what happens inside is SyncPass.  A    *)
(* retry beside the ticks comes of Scheduler, a check goes on in           *)
(* AutoUpdate.                                                             *)
(* What the pollers, the ticks and the main goroutine share is read or     *)
(* written one access a step.                                              *)
(***************************************************************************)
EXTENDS Integers, Sequences, FiniteSets

CONSTANTS
    N,           \* paired connections, 1 .. N in the order of runtimes
    Ticks,       \* the goroutines that tick, each for cron or for a retry's timer
    MaxActions   \* bound on the actions the operator queues

ASSUME DaemonAssumption ==
    N \in Nat \ {0} /\ MaxActions \in Nat

VARIABLES
    queue,      \* queue[c]: the server's pending actions of connection c
    asked,      \* how many were ever queued
    disabled,   \* the connections whose runtime is disabled
    ctx,        \* runCtx: live, or cancelled by the last revocation or by the service
    tick,       \* tick[t]: the point a tick has reached, its runtime, who it served
    retries,    \* the ticks under way that are a timer's
    poll,       \* poll[c]: the point a poller has reached, the actions left, its scan
    check,      \* the point the loop of the version checks has reached
    main,       \* the point runWithCtx has reached
    excused     \* history: excused[c], the ticks past their check of c at its revocation

vars == <<queue, asked, disabled, ctx, tick, retries, poll, check, main, excused>>

Conns == 1 .. N
Actions == {"sync_now", "revoke", "other"}

TypeOK ==
    /\ queue \in [Conns -> Seq(Actions)]
    /\ asked \in 0 .. MaxActions
    /\ disabled \subseteq Conns
    /\ ctx \in {"live", "revoked", "stopped"}
    /\ tick \in [Ticks -> [at : {"idle", "fired", "look", "begin", "pass"}, i : 1 .. N + 1,
                           served : SUBSET Conns]]
    /\ poll \in [Conns -> [at : {"wait", "asked", "act", "sync", "scan", "gone"},
                           todo : Seq(Actions), i : 1 .. N + 1]]
    /\ check \in {"waiting", "get", "gone"}
    /\ main \in [at : {"run", "checker", "pollers", "drain", "returned"}, i : 1 .. N + 1]
    /\ retries \subseteq Ticks
    /\ excused \in [Conns -> SUBSET Ticks]

Init ==
    /\ queue = [c \in Conns |-> <<>>]
    /\ asked = 0
    /\ disabled = {}
    /\ ctx = "live"
    /\ tick = [t \in Ticks |-> [at |-> "idle", i |-> 1, served |-> {}]]
    /\ retries = {}
    /\ poll = [c \in Conns |-> [at |-> "wait", todo |-> <<>>, i |-> 1]]
    /\ check = "get"
    /\ main = [at |-> "run", i |-> 1]
    /\ excused = [c \in Conns |-> {}]

-----------------------------------------------------------------------------
\* The operator queues an action in the server's UI.
Queue(c, act) ==
    /\ asked < MaxActions
    /\ asked' = asked + 1
    /\ queue' = [queue EXCEPT ![c] = Append(@, act)]
    /\ UNCHANGED <<disabled, ctx, tick, retries, poll, check, main, excused>>

-----------------------------------------------------------------------------
(* A tick: runWindowSyncAllConnections.                                    *)

Begin(t) == tick' = [tick EXCEPT ![t] = [at |-> "look", i |-> 1, served |-> {}]]

\* Cron starts ticks until sched.Stop, revoked connections or not.
StartTick(t) ==
    /\ tick[t].at = "idle" /\ main.at \notin {"drain", "returned"}
    /\ Begin(t)
    /\ UNCHANGED <<queue, asked, disabled, ctx, retries, poll, check, main, excused>>

\* A timer's callback finds the scheduler not stopped.
RetryFires(t) ==
    /\ tick[t].at = "idle" /\ main.at \notin {"drain", "returned"}
    /\ tick' = [tick EXCEPT ![t].at = "fired"]
    /\ retries' = retries \cup {t}
    /\ UNCHANGED <<queue, asked, disabled, ctx, poll, check, main, excused>>

\* Its tick begins a step later, sched.Stop behind it or not.
RetryBegins(t) ==
    /\ tick[t].at = "fired"
    /\ Begin(t)
    /\ UNCHANGED <<queue, asked, disabled, ctx, retries, poll, check, main, excused>>

\* Mutant: the tick no longer asks whether the connection is enabled.
LookUnchecked(t) ==
    /\ tick[t].at = "look" /\ tick[t].i <= N
    /\ tick' = [tick EXCEPT ![t].at = "begin"]
    /\ UNCHANGED <<queue, asked, disabled, ctx, retries, poll, check, main, excused>>

\* The next runtime: Enabled() is read here, its pass begins a step later.
Look(t) ==
    /\ tick[t].at = "look" /\ tick[t].i <= N
    /\ tick' = IF tick[t].i \in disabled THEN [tick EXCEPT ![t].i = @ + 1]
               ELSE [tick EXCEPT ![t].at = "begin"]
    /\ UNCHANGED <<queue, asked, disabled, ctx, retries, poll, check, main, excused>>

TickPassBegins(t) ==
    /\ tick[t].at = "begin"
    /\ tick' = [tick EXCEPT ![t].at = "pass"]
    /\ excused' = [excused EXCEPT ![tick[t].i] = @ \ {t}]
    /\ UNCHANGED <<queue, asked, disabled, ctx, retries, poll, check, main>>

\* Mutant: the index moves in the loop and in its head.
TickPassEndsSkips(t) ==
    /\ tick[t].at = "pass"
    /\ tick' = [tick EXCEPT ![t] = [at |-> "look", i |-> tick[t].i + 2,
                                    served |-> @.served \cup {tick[t].i}]]
    /\ UNCHANGED <<queue, asked, disabled, ctx, retries, poll, check, main, excused>>

\* Mutant: a tick is given up when the pass of one connection fails.
TickPassEndsTick(t) ==
    /\ tick[t].at = "pass"
    /\ \E failed \in BOOLEAN :
         tick' = [tick EXCEPT ![t] = [at |-> "look", i |-> IF failed THEN N + 1 ELSE tick[t].i + 1,
                                      served |-> @.served \cup {tick[t].i}]]
    /\ UNCHANGED <<queue, asked, disabled, ctx, retries, poll, check, main, excused>>

\* Whatever it ended with, the tick goes on to the next connection.
TickPassEnds(t) ==
    /\ tick[t].at = "pass"
    /\ tick' = [tick EXCEPT ![t] = [at |-> "look", i |-> tick[t].i + 1,
                                    served |-> @.served \cup {tick[t].i}]]
    /\ UNCHANGED <<queue, asked, disabled, ctx, retries, poll, check, main, excused>>

EndTick(t) ==
    /\ tick[t].at = "look" /\ tick[t].i = N + 1
    /\ tick' = [tick EXCEPT ![t] = [at |-> "idle", i |-> 1, served |-> {}]]
    /\ retries' = retries \ {t}
    /\ UNCHANGED <<queue, asked, disabled, ctx, poll, check, main, excused>>

-----------------------------------------------------------------------------
(* A poller: poll and dispatch.                                            *)

\* The ticker fires, also once more when the context is done already: select
\* takes either.
Ask(c) ==
    /\ poll[c].at = "wait"
    /\ poll' = [poll EXCEPT ![c].at = "asked"]
    /\ UNCHANGED <<queue, asked, disabled, ctx, tick, retries, check, main, excused>>

\* The server clears its queue as it answers.
Accepted(c) ==
    /\ poll[c].at = "asked"
    /\ queue' = [queue EXCEPT ![c] = <<>>]
    /\ poll' = [poll EXCEPT ![c] = [at |-> "act", todo |-> queue[c], i |-> 1]]
    /\ UNCHANGED <<asked, disabled, ctx, tick, retries, check, main, excused>>

\* A refusal, a request that was lost, or an answer that was, and with it the
\* actions.
Unanswered(c) ==
    /\ poll[c].at = "asked"
    /\ \/ queue' = queue
       \/ queue' = [queue EXCEPT ![c] = <<>>]
    /\ poll' = [poll EXCEPT ![c].at = "wait"]
    /\ UNCHANGED <<asked, disabled, ctx, tick, retries, check, main, excused>>

\* The action at the head of the answer is dispatched; the next waits for it.
Doing(c, act) ==
    poll[c].at = "act" /\ poll[c].todo # <<>> /\ Head(poll[c].todo) = act

Done(c) == [at |-> "act", todo |-> Tail(poll[c].todo), i |-> 1]

\* pause, refetch_mappings and what the agent does not know change nothing here.
DoNothing(c) ==
    /\ Doing(c, "other")
    /\ poll' = [poll EXCEPT ![c] = Done(c)]
    /\ UNCHANGED <<queue, asked, disabled, ctx, tick, retries, check, main, excused>>

\* OnSyncNow: Enabled() cannot change before the pass begins, since only this
\* poller's OnRevoke disables the connection.
DoSyncNow(c) ==
    /\ Doing(c, "sync_now")
    /\ poll' = IF c \in disabled THEN [poll EXCEPT ![c] = Done(c)]
               ELSE [poll EXCEPT ![c].at = "sync"]
    /\ UNCHANGED <<queue, asked, disabled, ctx, tick, retries, check, main, excused>>

\* Mutant: an action that fails ends the dispatch of the answer.
SyncNowEndsPoll(c) ==
    /\ poll[c].at = "sync"
    /\ \E failed \in BOOLEAN :
         poll' = [poll EXCEPT ![c] = IF failed THEN [Done(c) EXCEPT !.todo = <<>>] ELSE Done(c)]
    /\ UNCHANGED <<queue, asked, disabled, ctx, tick, retries, check, main, excused>>

\* The pass of a sync_now ends, with or without an error.
SyncNowEnds(c) ==
    /\ poll[c].at = "sync"
    /\ poll' = [poll EXCEPT ![c] = Done(c)]
    /\ UNCHANGED <<queue, asked, disabled, ctx, tick, retries, check, main, excused>>

\* OnRevoke: Disable, then cancelRunIfAllConnectionsDisabled.
DoRevoke(c) ==
    /\ Doing(c, "revoke")
    /\ disabled' = disabled \cup {c}
    /\ excused' = [excused EXCEPT ![c] =
                     IF c \in disabled THEN @
                     ELSE {t \in Ticks : tick[t].at = "begin" /\ tick[t].i = c}]
    /\ poll' = [poll EXCEPT ![c] = [at |-> "scan", todo |-> poll[c].todo, i |-> 1]]
    /\ UNCHANGED <<queue, asked, ctx, tick, retries, check, main>>

\* Mutant: the loop gives up on the runtime that is being revoked as well.
ScanOthers(c) ==
    /\ poll[c].at = "scan" /\ poll[c].i <= N
    /\ poll' = IF poll[c].i \in disabled \ {c} THEN [poll EXCEPT ![c].i = @ + 1]
               ELSE [poll EXCEPT ![c] = Done(c)]
    /\ UNCHANGED <<queue, asked, disabled, ctx, tick, retries, check, main, excused>>

\* The loop of cancelRunIfAllConnectionsDisabled reads one flag at a time and
\* returns at the first connection still enabled.
Scan(c) ==
    /\ poll[c].at = "scan" /\ poll[c].i <= N
    /\ poll' = IF poll[c].i \in disabled THEN [poll EXCEPT ![c].i = @ + 1]
               ELSE [poll EXCEPT ![c] = Done(c)]
    /\ UNCHANGED <<queue, asked, disabled, ctx, tick, retries, check, main, excused>>

CancelRun(c) ==
    /\ poll[c].at = "scan" /\ poll[c].i = N + 1
    /\ ctx' = IF ctx = "live" THEN "revoked" ELSE ctx
    /\ poll' = [poll EXCEPT ![c] = Done(c)]
    /\ UNCHANGED <<queue, asked, disabled, tick, retries, check, main, excused>>

PollEnds(c) ==
    /\ poll[c].at = "act" /\ poll[c].todo = <<>>
    /\ poll' = [poll EXCEPT ![c].at = "wait"]
    /\ UNCHANGED <<queue, asked, disabled, ctx, tick, retries, check, main, excused>>

\* Mutant: the pollers run on the caller's context, which a revocation leaves alone.
PollerGoneOnStop(c) ==
    /\ poll[c].at = "wait" /\ ctx = "stopped"
    /\ poll' = [poll EXCEPT ![c].at = "gone"]
    /\ UNCHANGED <<queue, asked, disabled, ctx, tick, retries, check, main, excused>>

\* The loop returns between two polls.
PollerGone(c) ==
    /\ poll[c].at = "wait" /\ ctx # "live"
    /\ poll' = [poll EXCEPT ![c].at = "gone"]
    /\ UNCHANGED <<queue, asked, disabled, ctx, tick, retries, check, main, excused>>

-----------------------------------------------------------------------------
(* The updater's loop: selfupdate.Checker.                                 *)

\* The ticker fires, also once more when the context is done already.
CheckBegins ==
    /\ check = "waiting"
    /\ check' = "get"
    /\ UNCHANGED <<queue, asked, disabled, ctx, tick, retries, poll, main, excused>>

\* The version is fetched without a deadline and whatever becomes of the context.
CheckEnds ==
    /\ check = "get"
    /\ check' = "waiting"
    /\ UNCHANGED <<queue, asked, disabled, ctx, tick, retries, poll, main, excused>>

\* The loop returns between two checks.
CheckerGone ==
    /\ check = "waiting" /\ ctx # "live"
    /\ check' = "gone"
    /\ UNCHANGED <<queue, asked, disabled, ctx, tick, retries, poll, main, excused>>

-----------------------------------------------------------------------------
(* The main goroutine: <-runCtx.Done(), then the deferred Stops, the one   *)
(* deferred last first.                                                    *)

\* The service manager, or a signal, cancels the context runCtx descends from.
ServiceStop ==
    /\ ctx = "live"
    /\ ctx' = "stopped"
    /\ UNCHANGED <<queue, asked, disabled, tick, retries, poll, check, main, excused>>

Stopping ==
    /\ main.at = "run" /\ ctx # "live"
    /\ main' = [at |-> "checker", i |-> 1]
    /\ UNCHANGED <<queue, asked, disabled, ctx, tick, retries, poll, check, excused>>

\* Checker.Stop waits for its loop to return.
CheckerStopped ==
    /\ main.at = "checker" /\ check = "gone"
    /\ main' = [main EXCEPT !.at = "pollers"]
    /\ UNCHANGED <<queue, asked, disabled, ctx, tick, retries, poll, check, excused>>

\* Poller.Stop, one after the other: each waits for its loop to return.
PollerStopped ==
    /\ main.at = "pollers" /\ main.i <= N /\ poll[main.i].at = "gone"
    /\ main' = [main EXCEPT !.i = @ + 1]
    /\ UNCHANGED <<queue, asked, disabled, ctx, tick, retries, poll, check, excused>>

\* sched.Stop is the first Stop deferred, so it is the last to run.
StopScheduler ==
    /\ main.at = "pollers" /\ main.i = N + 1
    /\ main' = [main EXCEPT !.at = "drain"]
    /\ UNCHANGED <<queue, asked, disabled, ctx, tick, retries, poll, check, excused>>

\* It waits for cron's ticks and for no retry's.
Return ==
    /\ main.at = "drain" /\ \A t \in Ticks \ retries : tick[t].at = "idle"
    /\ main' = [main EXCEPT !.at = "returned"]
    /\ UNCHANGED <<queue, asked, disabled, ctx, tick, retries, poll, check, excused>>

-----------------------------------------------------------------------------
TickStep(t) ==
    RetryBegins(t) \/ Look(t) \/ TickPassBegins(t) \/ TickPassEnds(t) \/ EndTick(t)

Heartbeat(c) == Accepted(c) \/ Unanswered(c)

Dispatch(c) ==
    \/ DoNothing(c) \/ DoSyncNow(c) \/ SyncNowEnds(c) \/ DoRevoke(c)
    \/ Scan(c) \/ CancelRun(c) \/ PollEnds(c)

Check == CheckBegins \/ CheckEnds \/ CheckerGone

MainStep == Stopping \/ CheckerStopped \/ PollerStopped \/ StopScheduler \/ Return

Next ==
    \/ \E c \in Conns : \/ \E act \in Actions : Queue(c, act)
                        \/ Ask(c) \/ Heartbeat(c) \/ Dispatch(c) \/ PollerGone(c)
    \/ \E t \in Ticks : StartTick(t) \/ RetryFires(t) \/ TickStep(t)
    \/ Check \/ ServiceStop \/ MainStep

\* Every heartbeat, pass and tick ends by its timeout; a ticker is slower than a
\* poll or a check that fails at once, so a loop whose context is done does not go
\* round forever.  Nothing ends a check, and nothing has to make a timer fire.
Fairness ==
    /\ \A t \in Ticks : WF_vars(TickStep(t))
    /\ \A c \in Conns : WF_vars(Heartbeat(c)) /\ WF_vars(Dispatch(c)) /\ SF_vars(PollerGone(c))
    /\ SF_vars(CheckerGone)
    /\ WF_vars(MainStep)

Spec == Init /\ [][Next]_vars /\ Fairness

-----------------------------------------------------------------------------
\* The daemon stops itself only when every connection is revoked, and once they
\* all are and no OnRevoke is on its way, it has: two pollers that revoke their
\* connections at once must not each see the other's still enabled.
StopsExactlyWhenAllRevoked ==
    /\ ctx = "revoked" => disabled = Conns
    /\ disabled = Conns /\ (\A c \in Conns : poll[c].at # "scan") => ctx # "live"

\* After a connection is revoked no sync of it begins, but for the ticks that
\* had asked Enabled() before and not begun yet; each of them begins one.
RevokedStartsNothingNew ==
    [][/\ \A t \in Ticks :
            tick[t].at = "begin" /\ tick'[t].at = "pass" /\ tick[t].i \in disabled
              => t \in excused[tick[t].i]
       /\ \A c \in Conns : poll[c].at # "sync" /\ poll'[c].at = "sync" => c \notin disabled]_vars

\* A tick leaves out revoked connections only: neither a failure nor a
\* revocation of one keeps the others from being synced.
TickServesTheEnabled ==
    \A t \in Ticks : tick[t].at = "look" =>
        \A c \in 1 .. tick[t].i - 1 : c \in tick[t].served \/ c \in disabled

\* A revocation the agent has received is obeyed, behind whatever sync_now is
\* dispatched first and also when the daemon is being stopped meanwhile: the
\* server has cleared its queue and will not send it again.
RevocationReceivedIsObeyed ==
    \A c \in Conns :
        (\E k \in DOMAIN poll[c].todo : poll[c].todo[k] = "revoke") ~> c \in disabled

\* A daemon told to stop, by the service or by the last revocation, returns, with
\* its loops and cron's ticks behind it, unless a check for a newer version never
\* comes back: the deferred Stops wait for each other's loops in a fixed order, and
\* the first of them for a request nobody bounds (main.go:329-445,
\* checker.go:151-197).
ShutdownCompletes ==
    []<>(check # "get") => (ctx # "live" ~> main.at = "returned")
=============================================================================
