-------------------------- MODULE Scheduler_proofs --------------------------
(***************************************************************************)
(* The safety invariants of Scheduler, for any number of firings, RunNow   *)
(* calls, timers and retries.                                              *)
(***************************************************************************)
EXTENDS Scheduler, FiniteSetTheorems, TLAPS

\* A run that belongs to the chain of some cron firing.
Chained(r) == kind[r] \in {"cron", "retry"}

\* A run has a kind from the moment it leaves "free" and not before; a free run
\* is its own root; only a chained run with an attempt left can arm a timer.
RunsWellFormed ==
    \A r \in Runs :
        /\ (kind[r] = "none") <=> (pc[r] = "free")
        /\ pc[r] = "free" => root[r] = r /\ attempt[r] = 0
        /\ kind[r] = "cron" => root[r] = r /\ attempt[r] = 0
        /\ pc[r] \in {"failed", "arming", "appending"} => kind[r] # "now"
        /\ pc[r] = "arming" => attempt[r] < MaxRetries

\* A retry was armed by the run one attempt before it in its chain, which is
\* past its own tick, and its chain starts at a cron firing.
RetriesHaveParents ==
    \A t \in Runs :
        kind[t] = "retry" =>
            /\ kind[root[t]] = "cron"
            /\ \E p \in Runs : /\ Chained(p)
                               /\ root[p] = root[t]
                               /\ attempt[t] = attempt[p] + 1
                               /\ pc[p] \in {"appending", "done"}

\* A run that has not armed a timer yet is the last of its chain.
LiveRunsAreLast ==
    \A r, t \in Runs :
        /\ Chained(r) /\ pc[r] \notin {"appending", "done"}
        /\ kind[t] = "retry" /\ root[t] = root[r]
        => attempt[t] <= attempt[r]

\* The flag and the library follow Stop; a late tick never gets past "failed"
\* without giving up.
StopInOrder ==
    /\ stopped <=> stop # "idle"
    /\ stop # "idle" => cron # "new"
    /\ stop \in {"draining", "returned"} => cron = "stopped"
    /\ \A r \in late : stopped /\ pc[r] \in {"ticking", "failed", "done"}

Chains == RunsWellFormed /\ RetriesHaveParents /\ RetryChainsAreLines /\ LiveRunsAreLast

\* The counter and the ticks it counts, of which there are finitely many.
TicksCounted == IsFiniteSet(Ticking) /\ running = Cardinality(Ticking)

IInv == TypeOK /\ TicksCounted /\ Chains /\ StopInOrder /\ LateTickIsLast

USE MaxRetriesAssumption, RunsAssumption

-----------------------------------------------------------------------------
\* The initial states satisfy the invariant: every run is free.
LEMMA InitInv == Init => IInv
<1> SUFFICES ASSUME Init PROVE IInv
  OBVIOUS
<1> USE DEF Init
<1>1. TypeOK
  <2>1. /\ pc \in [Runs -> Points] /\ kind \in [Runs -> Kinds]
        /\ attempt \in [Runs -> 0 .. MaxRetries]
    BY DEF Points, Kinds
  <2>2. root \in [Runs -> Runs] /\ next \in [Runs -> Runs]
    OBVIOUS
  <2> QED
    BY <2>1, <2>2 DEF TypeOK, StopPoints
<1>2. TicksCounted
  <2>1. Ticking = {}
    BY DEF Ticking
  <2> QED
    BY <2>1, FS_EmptySet DEF TicksCounted
<1>3. Chains
  BY DEF Chains, RunsWellFormed, RetriesHaveParents, Chained, RetryChainsAreLines,
         LiveRunsAreLast
<1>4. StopInOrder /\ LateTickIsLast
  BY DEF StopInOrder, LateTickIsLast
<1> QED
  BY <1>1, <1>2, <1>3, <1>4 DEF IInv

-----------------------------------------------------------------------------
(* The counter.                                                            *)

\* A step that moves no run into or out of a tick leaves the set alone.
LEMMA SameTicks ==
  ASSUME TypeOK, TicksCounted, running' = running,
         \A r \in Runs : (pc'[r] = "ticking") <=> (pc[r] = "ticking")
  PROVE  TicksCounted'
<1>1. Ticking' = Ticking
  BY DEF Ticking
<1> QED
  BY <1>1 DEF TicksCounted

LEMMA CountStep ==
  ASSUME TypeOK, TicksCounted, Next
  PROVE  TicksCounted'
<1>1. CASE Start \/ Stop
  BY <1>1, SameTicks DEF TypeOK, Start, Stop, StopFlag, StopTimers, StopCron, StopReturn
<1>2. ASSUME NEW r \in Runs, CronFire(r) \/ RunNow(r)
      PROVE  TicksCounted'
  BY <1>2, SameTicks DEF TypeOK, CronFire, RunNow, Launch, NextOf
<1>3. ASSUME NEW r \in Runs, BeginTick(r)
      PROVE  TicksCounted'
  <2>1. r \notin Ticking /\ Ticking' = Ticking \cup {r}
    BY <1>3 DEF BeginTick, Ticking, TypeOK
  <2>2. running' = running + 1
    BY <1>3 DEF BeginTick
  <2> QED
    BY <2>1, <2>2, FS_AddElement DEF TicksCounted
<1>4. ASSUME NEW r \in Runs, NEW err \in BOOLEAN, EndTick(r, err)
      PROVE  TicksCounted'
  <2>1. r \in Ticking /\ Ticking' = Ticking \ {r}
    BY <1>4 DEF EndTick, Ticking, TypeOK
  <2>2. running' = running - 1
    BY <1>4 DEF EndTick
  <2> QED
    BY <2>1, <2>2, FS_RemoveElement DEF TicksCounted
<1>5. ASSUME NEW r \in Runs, Retry(r)
      PROVE  TicksCounted'
  <2>1. CASE \E t \in Runs : ArmTimer(r, t)
    BY <2>1, SameTicks DEF TypeOK, ArmTimer, NextOf
  <2>2. CASE ScheduleRetry(r) \/ AppendTimer(r) \/ FireTimer(r) \/ RetryCallback(r)
    BY <2>2, SameTicks DEF TypeOK, ScheduleRetry, NoRetry, AppendTimer, FireTimer, RetryCallback
  <2> QED
    BY <1>5, <2>1, <2>2 DEF Retry
<1> QED
  BY <1>1, <1>2, <1>3, <1>4, <1>5 DEF Next, Tick

-----------------------------------------------------------------------------
(* Types.                                                                  *)

LEMMA TypeStep ==
  ASSUME TypeOK, TicksCounted', RunsWellFormed, Next
  PROVE  TypeOK'
<1> USE DEF TypeOK, Points, Kinds, StopPoints
<1>1. running' \in Nat
  BY FS_CardinalityType DEF TicksCounted
<1>2. CASE Start \/ Stop
  BY <1>1, <1>2 DEF Start, Stop, StopFlag, StopTimers, StopCron, StopReturn
<1>3. ASSUME NEW r \in Runs, CronFire(r) \/ RunNow(r)
      PROVE  TypeOK'
  BY <1>1, <1>3 DEF CronFire, RunNow, Launch
<1>4. ASSUME NEW r \in Runs, Tick(r)
      PROVE  TypeOK'
  <2>1. CASE BeginTick(r)
    BY <1>1, <2>1 DEF BeginTick
  <2>2. ASSUME NEW err \in BOOLEAN, EndTick(r, err)
        PROVE  TypeOK'
    BY <1>1, <2>2 DEF EndTick
  <2> QED
    BY <1>4, <2>1, <2>2 DEF Tick
<1>5. ASSUME NEW r \in Runs, Retry(r)
      PROVE  TypeOK'
  <2>1. ASSUME NEW t \in Runs, ArmTimer(r, t)
        PROVE  TypeOK'
    <3>1. attempt[r] + 1 \in 0 .. MaxRetries
      BY <2>1 DEF ArmTimer, RunsWellFormed
    <3> QED
      BY <1>1, <2>1, <3>1 DEF ArmTimer
  <2>2. CASE ScheduleRetry(r)
    BY <1>1, <2>2 DEF ScheduleRetry, NoRetry
  <2>3. CASE AppendTimer(r)
    BY <1>1, <2>3 DEF AppendTimer
  <2>4. CASE FireTimer(r) \/ RetryCallback(r)
    BY <1>1, <2>4 DEF FireTimer, RetryCallback
  <2> QED
    BY <1>5, <2>1, <2>2, <2>3, <2>4 DEF Retry
<1> QED
  BY <1>2, <1>3, <1>4, <1>5 DEF Next

-----------------------------------------------------------------------------
(* Chains.                                                                 *)

LEMMA WellFormedStep ==
  ASSUME TypeOK, RunsWellFormed, Next
  PROVE  RunsWellFormed'
<1> USE DEF TypeOK, Points, Kinds, RunsWellFormed
<1>1. CASE Start \/ Stop
  BY <1>1 DEF Start, Stop, StopFlag, StopTimers, StopCron, StopReturn
<1>2. ASSUME NEW r \in Runs, CronFire(r) \/ RunNow(r)
      PROVE  RunsWellFormed'
  BY <1>2 DEF CronFire, RunNow, Launch, NextOf
<1>3. ASSUME NEW r \in Runs, Tick(r)
      PROVE  RunsWellFormed'
  BY <1>3 DEF Tick, BeginTick, EndTick
<1>4. ASSUME NEW r \in Runs, Retry(r)
      PROVE  RunsWellFormed'
  <2>1. ASSUME NEW t \in Runs, ArmTimer(r, t)
        PROVE  RunsWellFormed'
    BY <2>1 DEF ArmTimer, NextOf
  <2>2. CASE ScheduleRetry(r)
    BY <2>2 DEF ScheduleRetry, NoRetry
  <2>3. CASE AppendTimer(r) \/ FireTimer(r) \/ RetryCallback(r)
    BY <2>3 DEF AppendTimer, FireTimer, RetryCallback
  <2> QED
    BY <1>4, <2>1, <2>2, <2>3 DEF Retry
<1> QED
  BY <1>1, <1>2, <1>3, <1>4 DEF Next

\* The chains depend on who armed whom, so a step that starts no run and takes
\* none back to before its timer leaves them as they are.
QuietStep ==
    /\ UNCHANGED <<kind, attempt, root>>
    /\ \A r \in Runs : pc[r] \in {"appending", "done"} => pc'[r] \in {"appending", "done"}

LEMMA QuietSteps ==
  ASSUME TypeOK, RunsWellFormed, Next
  PROVE  \/ QuietStep
         \/ \E r \in Runs : \/ CronFire(r) \/ RunNow(r)
                            \/ \E t \in Runs : ArmTimer(r, t)
<1> USE DEF TypeOK, QuietStep
<1>1. CASE Start \/ Stop
  BY <1>1 DEF Start, Stop, StopFlag, StopTimers, StopCron, StopReturn
<1>2. ASSUME NEW r \in Runs, Tick(r)
      PROVE  QuietStep
  BY <1>2 DEF Tick, BeginTick, EndTick
<1>3. ASSUME NEW r \in Runs, Retry(r), ~ \E t \in Runs : ArmTimer(r, t)
      PROVE  QuietStep
  BY <1>3 DEF Retry, ScheduleRetry, NoRetry, AppendTimer, FireTimer, RetryCallback
<1> QED
  BY <1>1, <1>2, <1>3 DEF Next

LEMMA QuietChains ==
  ASSUME Chains, QuietStep, RunsWellFormed'
  PROVE  Chains'
<1> USE DEF QuietStep, Chained
<1>1. RetriesHaveParents'
  BY DEF Chains, RetriesHaveParents
<1>2. RetryChainsAreLines'
  BY DEF Chains, RetryChainsAreLines
<1>3. LiveRunsAreLast'
  BY DEF Chains, LiveRunsAreLast
<1> QED
  BY <1>1, <1>2, <1>3 DEF Chains

\* A firing starts a chain of its own: no retry has its identity for a root,
\* because the root of a retry is a run that has already left "free".
LEMMA LaunchChains ==
  ASSUME TypeOK, Chains, RunsWellFormed', NEW r \in Runs, CronFire(r) \/ RunNow(r)
  PROVE  Chains'
<1> USE DEF Chains, Chained
<1>0. /\ pc[r] = "free" /\ kind[r] = "none" /\ root[r] = r /\ attempt[r] = 0
      /\ UNCHANGED <<attempt, root>>
      /\ pc' = [pc EXCEPT ![r] = "entered"]
      /\ \E k \in {"cron", "now"} : kind' = [kind EXCEPT ![r] = k]
  BY DEF CronFire, RunNow, Launch, NextOf, RunsWellFormed
<1>1. \A t \in Runs : /\ t # r => kind'[t] = kind[t] /\ pc'[t] = pc[t]
                      /\ kind'[t] = "retry" => t # r
                      /\ kind[t] = "retry" => root[t] # r
  BY <1>0 DEF TypeOK, RetriesHaveParents
<1>2. RetriesHaveParents'
  <2> SUFFICES ASSUME NEW t \in Runs, kind'[t] = "retry"
               PROVE  /\ kind'[root[t]] = "cron"
                      /\ \E p \in Runs : /\ Chained(p)'
                                         /\ root[p] = root[t]
                                         /\ attempt[t] = attempt[p] + 1
                                         /\ pc'[p] \in {"appending", "done"}
    BY <1>0 DEF RetriesHaveParents
  <2>1. kind[t] = "retry" /\ root[t] \in Runs /\ root[t] # r
    BY <1>1 DEF TypeOK
  <2>2. PICK p \in Runs : /\ Chained(p)
                         /\ root[p] = root[t]
                         /\ attempt[t] = attempt[p] + 1
                         /\ pc[p] \in {"appending", "done"}
    BY <2>1 DEF RetriesHaveParents
  <2>3. p # r
    BY <1>0, <2>2
  <2> QED
    BY <1>1, <2>1, <2>2, <2>3 DEF RetriesHaveParents
<1>3. RetryChainsAreLines'
  <2>1. ASSUME NEW t \in Runs, t # r, Chained(t), root[t] = r, attempt[t] = 0
        PROVE  FALSE
    BY <1>1, <2>1 DEF RunsWellFormed
  <2> QED
    BY <1>0, <1>1, <2>1 DEF RetryChainsAreLines
<1>4. LiveRunsAreLast'
  BY <1>0, <1>1 DEF LiveRunsAreLast
<1> QED
  BY <1>2, <1>3, <1>4

\* A retry is added at the end of its chain: the run that arms it was the last.
LEMMA ArmChains ==
  ASSUME TypeOK, Chains, RunsWellFormed', NEW r \in Runs, NEW t \in Runs, ArmTimer(r, t)
  PROVE  Chains'
<1> USE DEF Chains, Chained
<1>0. /\ pc[t] = "free" /\ pc[r] = "arming" /\ t # r /\ kind[t] = "none"
      /\ Chained(r) /\ attempt[r] \in Nat
      /\ pc'[r] = "appending" /\ pc'[t] = "armed"
      /\ kind'[t] = "retry" /\ attempt'[t] = attempt[r] + 1 /\ root'[t] = root[r]
  BY DEF ArmTimer, NextOf, RunsWellFormed, TypeOK, Kinds
<1>1. \A q \in Runs : q # t => /\ kind'[q] = kind[q]
                               /\ attempt'[q] = attempt[q]
                               /\ root'[q] = root[q]
                               /\ q # r => pc'[q] = pc[q]
  BY DEF ArmTimer, TypeOK
<1>2. \A q \in Runs : /\ root[q] \in Runs
                      /\ attempt[q] \in Nat
                      /\ Chained(q) => /\ q # t
                                       /\ root[q] # t
                                       /\ kind[root[q]] = "cron"
  BY <1>0 DEF TypeOK, RetriesHaveParents, RunsWellFormed
<1>3. \A q \in Runs : Chained(q) /\ root[q] = root[r] => attempt[q] <= attempt[r]
  BY <1>0, <1>2 DEF LiveRunsAreLast, RunsWellFormed
<1>4. RetriesHaveParents'
  <2>1. ASSUME NEW q \in Runs, q # t, kind[q] = "retry"
        PROVE  \E p \in Runs : /\ Chained(p)'
                              /\ root'[p] = root'[q]
                              /\ attempt'[q] = attempt'[p] + 1
                              /\ pc'[p] \in {"appending", "done"}
    <3>1. PICK p \in Runs : /\ Chained(p)
                           /\ root[p] = root[q]
                           /\ attempt[q] = attempt[p] + 1
                           /\ pc[p] \in {"appending", "done"}
      BY <2>1 DEF RetriesHaveParents
    <3>2. p # t /\ p # r
      BY <1>0, <3>1
    <3> QED
      BY <1>1, <2>1, <3>1, <3>2
  <2>2. \A q \in Runs : kind'[q] = "retry" => kind'[root'[q]] = "cron"
    BY <1>0, <1>1, <1>2
  <2> QED
    BY <1>0, <1>1, <2>1, <2>2 DEF RetriesHaveParents
<1>5. RetryChainsAreLines'
  <2>1. ASSUME NEW q \in Runs, q # t, Chained(q), root[q] = root[r],
               attempt[q] = attempt[r] + 1
        PROVE  FALSE
    BY <1>2, <1>3, <2>1
  <2> QED
    BY <1>0, <1>1, <2>1 DEF RetryChainsAreLines
<1>6. LiveRunsAreLast'
  <2>1. ASSUME NEW q \in Runs, q # t, q # r, Chained(q), root[q] = root[r],
               pc[q] \notin {"appending", "done"}
        PROVE  attempt[r] + 1 <= attempt[q]
    <3>1. attempt[r] <= attempt[q]
      BY <1>0, <1>2, <2>1 DEF LiveRunsAreLast, RunsWellFormed
    <3>2. attempt[r] # attempt[q]
      BY <1>0, <2>1 DEF RetryChainsAreLines
    <3> QED
      BY <1>2, <3>1, <3>2
  <2>2. ASSUME NEW q \in Runs, kind'[q] = "retry", root'[q] = root[r]
        PROVE  attempt'[q] <= attempt'[t]
    BY <1>0, <1>1, <1>2, <1>3, <2>2
  <2> QED
    BY <1>0, <1>1, <1>2, <2>1, <2>2 DEF LiveRunsAreLast
<1> QED
  BY <1>4, <1>5, <1>6

LEMMA ChainStep ==
  ASSUME TypeOK, Chains, Next
  PROVE  Chains'
<1>1. RunsWellFormed'
  BY WellFormedStep DEF Chains
<1> QED
  BY <1>1, QuietSteps, QuietChains, LaunchChains, ArmChains DEF Chains

-----------------------------------------------------------------------------
(* Stop.                                                                   *)

LEMMA StopStep ==
  ASSUME TypeOK, StopInOrder, Next
  PROVE  StopInOrder'
<1> USE DEF TypeOK, StopInOrder, StopPoints
<1>1. CASE Start \/ Stop
  BY <1>1 DEF Start, Stop, StopFlag, StopTimers, StopCron, StopReturn
<1>2. ASSUME NEW r \in Runs, CronFire(r) \/ RunNow(r)
      PROVE  StopInOrder'
  BY <1>2 DEF CronFire, RunNow, Launch, NextOf
<1>3. ASSUME NEW r \in Runs, Tick(r)
      PROVE  StopInOrder'
  BY <1>3 DEF Tick, BeginTick, EndTick
<1>4. ASSUME NEW r \in Runs, Retry(r)
      PROVE  StopInOrder'
  BY <1>4 DEF Retry, ScheduleRetry, NoRetry, ArmTimer, NextOf, AppendTimer, FireTimer, RetryCallback
<1> QED
  BY <1>1, <1>2, <1>3, <1>4 DEF Next

\* A run joins "late" while it is still the last of its chain, and only another
\* run of the same chain could extend the chain beyond it; that run would be at
\* an attempt below the late one's, since the chain is a line.
LEMMA LateStep ==
  ASSUME TypeOK, Chains, StopInOrder, LateTickIsLast, Next
  PROVE  LateTickIsLast'
<1> USE DEF TypeOK, LateTickIsLast
<1>1. CASE Start \/ Stop
  BY <1>1 DEF Start, Stop, StopFlag, StopTimers, StopCron, StopReturn
<1>2. ASSUME NEW r \in Runs, CronFire(r) \/ RunNow(r)
      PROVE  LateTickIsLast'
  BY <1>2 DEF CronFire, RunNow, Launch, NextOf, StopInOrder
<1>3. ASSUME NEW r \in Runs, BeginTick(r)
      PROVE  LateTickIsLast'
  <2>1. ASSUME kind[r] # "now", NEW t \in Runs, kind[t] = "retry", root[t] = root[r]
        PROVE  attempt[t] <= attempt[r]
    BY <1>3, <2>1 DEF BeginTick, Chains, LiveRunsAreLast, Chained, RunsWellFormed, Kinds
  <2> QED
    BY <1>3, <2>1 DEF BeginTick
<1>4. ASSUME NEW r \in Runs, NEW err \in BOOLEAN, EndTick(r, err)
      PROVE  LateTickIsLast'
  BY <1>4 DEF EndTick
<1>5. ASSUME NEW r \in Runs, Retry(r)
      PROVE  LateTickIsLast'
  <2>1. ASSUME NEW t \in Runs, ArmTimer(r, t)
        PROVE  LateTickIsLast'
    <3>1. /\ pc[r] = "arming" /\ pc[t] = "free" /\ r # t /\ Chained(r) /\ kind[t] = "none"
          /\ attempt[r] \in Nat
          /\ kind'[t] = "retry" /\ attempt'[t] = attempt[r] + 1 /\ root'[t] = root[r]
          /\ late' = late
      BY <2>1 DEF ArmTimer, NextOf, Chains, RunsWellFormed, Chained, Kinds
    <3>2. \A q \in Runs : q # t => kind'[q] = kind[q] /\ attempt'[q] = attempt[q]
                                 /\ root'[q] = root[q]
      BY <2>1 DEF ArmTimer
    <3>3. ASSUME NEW q \in late, kind[q] # "now", root[q] = root[r]
          PROVE  attempt[r] + 1 <= attempt[q]
      <4>1. q \in Runs /\ q # r /\ q # t /\ Chained(q) /\ attempt[q] \in Nat
        BY <3>1, <3>3 DEF StopInOrder, Chains, RunsWellFormed, Chained, Kinds
      <4>2. attempt[r] # attempt[q]
        BY <3>1, <3>3, <4>1 DEF Chains, RetryChainsAreLines, Chained
      <4>3. attempt[r] <= attempt[q]
        BY <3>1, <3>3, <4>1 DEF Chains, RunsWellFormed, Chained
      <4> QED
        BY <3>1, <4>1, <4>2, <4>3
    <3>4. \A q \in late : q # t
      BY <3>1 DEF StopInOrder
    <3> QED
      BY <3>1, <3>2, <3>3, <3>4
  <2>2. CASE ScheduleRetry(r) \/ AppendTimer(r) \/ FireTimer(r) \/ RetryCallback(r)
    BY <2>2 DEF ScheduleRetry, NoRetry, AppendTimer, FireTimer, RetryCallback
  <2> QED
    BY <1>5, <2>1, <2>2 DEF Retry
<1> QED
  BY <1>1, <1>2, <1>3, <1>4, <1>5 DEF Next, Tick

-----------------------------------------------------------------------------
(* The theorems.                                                           *)

LEMMA Stutter == IInv /\ UNCHANGED vars => IInv'
  BY DEF vars, IInv, TypeOK, TicksCounted, Ticking, Chains, RunsWellFormed,
         RetriesHaveParents, Chained, RetryChainsAreLines, LiveRunsAreLast,
         StopInOrder, LateTickIsLast

\* The inductive invariant holds in every reachable state.
THEOREM Invariance == Spec => []IInv
<1>1. IInv /\ [Next]_vars => IInv'
  <2>1. ASSUME IInv, Next PROVE IInv'
    <3>1. TypeOK /\ Chains /\ TicksCounted /\ StopInOrder /\ LateTickIsLast
          /\ RunsWellFormed
      BY <2>1 DEF IInv, Chains
    <3>2. TicksCounted'
      BY <2>1, <3>1, CountStep
    <3> QED
      BY <2>1, <3>1, <3>2, TypeStep, ChainStep, StopStep, LateStep DEF IInv
  <2> QED
    BY <2>1, Stutter
<1> QED
  BY <1>1, InitInv, PTL DEF Spec

\* Every variable stays in its type, in particular the attempt of a retry never
\* exceeds the delays configured and the counter is never negative.
THEOREM TypeCorrect == Spec => []TypeOK
  BY Invariance, PTL DEF IInv

\* RunningCount, the updater's Busy test, is the number of ticks in flight.
THEOREM CountExact == Spec => []RunningCountExact
<1>1. IInv => RunningCountExact
  BY DEF IInv, TicksCounted, RunningCountExact
<1> QED
  BY <1>1, Invariance, PTL

\* However ticks overlap and fail, one firing has one retry at each attempt.
THEOREM ChainsAreLines == Spec => []RetryChainsAreLines
<1>1. IInv => RetryChainsAreLines
  BY DEF IInv, Chains
<1> QED
  BY <1>1, Invariance, PTL

\* A tick that lost the race with Stop arms no further retry.
THEOREM LateIsLast == Spec => []LateTickIsLast
  BY Invariance, PTL DEF IInv

\* A retry is never at work beside the tick it retries, which has let go of its
\* timer by then, nor beside another retry of the same firing: only the last run
\* of a chain has not armed its successor.
THEOREM RetriesDoNotOverlap == Spec => []TicksOfAFiringTakeTurns
<1>1. IInv => TicksOfAFiringTakeTurns
  <2> SUFFICES ASSUME IInv, NEW r \in Ticking, NEW t \in Ticking,
                      kind[r] # "now", kind[t] # "now", root[r] = root[t]
               PROVE  r = t
    BY DEF TicksOfAFiringTakeTurns
  <2>1. /\ TypeOK /\ RunsWellFormed /\ RetryChainsAreLines /\ LiveRunsAreLast
        /\ r \in Runs /\ t \in Runs /\ pc[r] = "ticking" /\ pc[t] = "ticking"
    BY DEF IInv, Chains, Ticking
  <2>2. Chained(r) /\ Chained(t) /\ attempt[r] \in Nat /\ attempt[t] \in Nat
    BY <2>1 DEF TypeOK, Kinds, RunsWellFormed, Chained
  <2>3. attempt[t] <= attempt[r] /\ attempt[r] <= attempt[t]
    BY <2>1, <2>2 DEF LiveRunsAreLast, RunsWellFormed, Chained
  <2>4. attempt[r] = attempt[t]
    BY <2>2, <2>3
  <2> QED
    BY <2>1, <2>2, <2>4 DEF RetryChainsAreLines, Chained
<1> QED
  BY <1>1, Invariance, PTL

\* The runs of one firing: its own and its retries.
ChainOf(c) == {r \in Runs : Chained(r) /\ root[r] = c}

\* A firing ticks at most once and as often again as there are delays, however its
\* ticks end and whatever else the scheduler runs.
THEOREM TicksPerFiringBounded ==
    Spec => [](\A c \in Runs : /\ IsFiniteSet(ChainOf(c))
                               /\ Cardinality(ChainOf(c)) <= MaxRetries + 1)
<1> DEFINE Bounded == \A c \in Runs : /\ IsFiniteSet(ChainOf(c))
                                      /\ Cardinality(ChainOf(c)) <= MaxRetries + 1
<1>1. IInv => Bounded
  <2> SUFFICES ASSUME IInv, NEW c \in Runs
               PROVE  IsFiniteSet(ChainOf(c)) /\ Cardinality(ChainOf(c)) <= MaxRetries + 1
    OBVIOUS
  <2> DEFINE f == [r \in ChainOf(c) |-> attempt[r]]
  <2>1. f \in [ChainOf(c) -> 0 .. MaxRetries]
    BY DEF IInv, TypeOK, ChainOf
  <2>2. ASSUME NEW r \in ChainOf(c), NEW t \in ChainOf(c), f[r] = f[t] PROVE r = t
    BY <2>2 DEF IInv, Chains, RetryChainsAreLines, Chained, ChainOf
  <2>3. f \in Injection(ChainOf(c), 0 .. MaxRetries)
    BY <2>1, <2>2 DEF Injection, IsInjective
  <2>4. IsFiniteSet(0 .. MaxRetries) /\ Cardinality(0 .. MaxRetries) = MaxRetries + 1
    BY FS_Interval
  <2> HIDE DEF f
  <2> QED
    BY <2>3, <2>4, FS_Injection
<1>2. Spec => []Bounded
  BY <1>1, Invariance, PTL
<1> QED
  BY <1>2
=============================================================================
