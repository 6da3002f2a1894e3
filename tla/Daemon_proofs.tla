---------------------------- MODULE Daemon_proofs ----------------------------
(***************************************************************************)
(* The safety properties of Daemon, for any number of connections, ticks   *)
(* and queued actions.                                                     *)
(***************************************************************************)
EXTENDS Daemon, TLAPS

\* A tick that begins a pass, or is in one, is at a connection.
AtAConnection == \A t \in Ticks : tick[t].at \in {"begin", "pass"} => tick[t].i \in Conns

\* The connections a tick has left behind were served or are disabled.
LeftBehind ==
    \A t \in Ticks : \A c \in Conns :
        c < tick[t].i => c \in tick[t].served \/ c \in disabled

\* A poller that looks for enabled connections has disabled its own, and those it
\* has looked at are disabled.
ScanSawDisabled ==
    \A c \in Conns : poll[c].at = "scan" =>
        c \in disabled /\ \A d \in Conns : d < poll[c].i => d \in disabled

\* A tick past its check of a connection that is disabled now is excused.
LateBeginsAreExcused ==
    \A t \in Ticks :
        tick[t].at = "begin" /\ tick[t].i \in disabled => t \in excused[tick[t].i]

\* A poller that is busy with an action still has it at the head of its answer.
BusyWithAnAction == \A c \in Conns : poll[c].at \in {"sync", "scan"} => poll[c].todo # <<>>

IInv ==
    /\ TypeOK /\ AtAConnection /\ LeftBehind /\ ScanSawDisabled /\ LateBeginsAreExcused
    /\ BusyWithAnAction
    /\ StopsExactlyWhenAllRevoked

USE DaemonAssumption

TickType == [at : {"idle", "fired", "look", "begin", "pass"}, i : 1 .. N + 1, served : SUBSET Conns]
PollType == [at : {"wait", "asked", "act", "sync", "scan", "gone"}, todo : Seq(Actions),
             i : 1 .. N + 1]

-----------------------------------------------------------------------------
\* At first nothing is queued, disabled or running.
LEMMA InitInv == Init => IInv
<1> SUFFICES ASSUME Init PROVE IInv
  OBVIOUS
<1> USE DEF Init
<1>1. TypeOK
  BY DEF TypeOK, Conns
<1>2. StopsExactlyWhenAllRevoked
  <2>1. 1 \in Conns
    BY DEF Conns
  <2> QED
    BY <2>1 DEF StopsExactlyWhenAllRevoked
<1> QED
  BY <1>1, <1>2 DEF IInv, AtAConnection, LeftBehind, ScanSawDisabled, LateBeginsAreExcused,
     BusyWithAnAction, Conns

\* A tick moves: where it goes must be a connection it may be at.
LEMMA TickMoves ==
    ASSUME IInv, NEW t \in Ticks, NEW to \in TickType,
           tick' = [tick EXCEPT ![t] = to],
           UNCHANGED <<queue, asked, disabled, ctx, poll, check, main>>,
           retries' \subseteq Ticks, excused' \in [Conns -> SUBSET Ticks],
           \A c \in Conns : excused[c] \ {t} \subseteq excused'[c],
           to.at \in {"begin", "pass"} => to.i \in Conns,
           to.at = "begin" => to.i \notin disabled,
           \A c \in Conns : c < to.i => c \in to.served \/ c \in disabled
    PROVE  IInv'
<1> USE DEF IInv
<1>1. tick \in [Ticks -> TickType]
  BY DEF TypeOK, TickType
<1>2. \A u \in Ticks : tick'[u] = IF u = t THEN to ELSE tick[u]
  BY <1>1
<1>3. tick' \in [Ticks -> TickType]
  BY <1>1
<1>4. TypeOK'
  BY <1>3 DEF TypeOK, TickType
<1>5. AtAConnection' /\ LeftBehind' /\ ScanSawDisabled' /\ BusyWithAnAction'
  BY <1>2 DEF AtAConnection, LeftBehind, ScanSawDisabled, BusyWithAnAction
<1>6. LateBeginsAreExcused'
  BY <1>2 DEF LateBeginsAreExcused, AtAConnection
<1>7. StopsExactlyWhenAllRevoked'
  BY DEF StopsExactlyWhenAllRevoked
<1> QED
  BY <1>4, <1>5, <1>6, <1>7

\* Every step of a tick.
LEMMA TickInv ==
    ASSUME IInv, NEW t \in Ticks, StartTick(t) \/ RetryFires(t) \/ TickStep(t)
    PROVE  IInv'
<1> USE DEF IInv
<1>1. /\ tick[t] \in TickType /\ excused \in [Conns -> SUBSET Ticks]
      /\ retries \subseteq Ticks
  BY DEF TypeOK, TickType
<1>2. tick[t] = [at |-> tick[t].at, i |-> tick[t].i, served |-> tick[t].served]
  BY <1>1 DEF TickType
<1>3. \A c \in Conns : c < tick[t].i => c \in tick[t].served \/ c \in disabled
  BY DEF LeftBehind
<1>4. CASE StartTick(t) \/ RetryBegins(t)
  <2> DEFINE to == [at |-> "look", i |-> 1, served |-> {}]
  <2>1. to \in TickType /\ \A c \in Conns : ~(c < to.i)
    BY DEF TickType, Conns
  <2> QED
    BY <1>1, <1>4, <2>1, TickMoves DEF StartTick, RetryBegins, Begin
<1>9. CASE RetryFires(t)
  <2> DEFINE to == [at |-> "fired", i |-> tick[t].i, served |-> tick[t].served]
  <2>1. to \in TickType
    BY <1>1 DEF TickType
  <2>2. tick' = [tick EXCEPT ![t] = to]
    <3>1. [tick[t] EXCEPT !.at = "fired"] = to
      BY <1>1 DEF TickType
    <3>2. tick' = [tick EXCEPT ![t] = [tick[t] EXCEPT !.at = "fired"]]
      BY <1>9 DEF RetryFires, TypeOK
    <3> QED
      BY <3>1, <3>2
  <2>3. /\ UNCHANGED <<queue, asked, disabled, ctx, poll, check, main, excused>>
        /\ retries' \subseteq Ticks
    BY <1>1, <1>9 DEF RetryFires
  <2>4. to.at = "fired" /\ \A c \in Conns : c < to.i => c \in to.served \/ c \in disabled
    BY <1>3
  <2> HIDE DEF to
  <2> QED
    BY <1>1, <2>1, <2>2, <2>3, <2>4, TickMoves
<1>5. CASE Look(t)
  <2>1. tick[t].i \in Conns /\ tick[t].i + 1 \in 1 .. N + 1
    BY <1>1, <1>5 DEF Look, TickType, Conns
  <2>2. CASE tick[t].i \in disabled
    <3> DEFINE to == [at |-> tick[t].at, i |-> tick[t].i + 1, served |-> tick[t].served]
    <3>1. to \in TickType
      BY <1>1, <2>1 DEF TickType
    <3>2. tick' = [tick EXCEPT ![t] = to]
      <4>1. [tick[t] EXCEPT !.i = @ + 1] = to
        BY <1>1 DEF TickType
      <4>2. tick' = [tick EXCEPT ![t] = [tick[t] EXCEPT !.i = @ + 1]]
        BY <1>5, <2>2 DEF Look, TypeOK
      <4> QED
        BY <4>1, <4>2
    <3>3. \A c \in Conns : c < to.i => c \in to.served \/ c \in disabled
      BY <1>3, <2>1, <2>2 DEF Conns
    <3>4. to.at = "look"
      BY <1>5 DEF Look
    <3> QED
      BY <1>1, <1>5, <3>1, <3>2, <3>3, <3>4, TickMoves DEF Look
  <2>3. CASE tick[t].i \notin disabled
    <3> DEFINE to == [at |-> "begin", i |-> tick[t].i, served |-> tick[t].served]
    <3>1. to \in TickType
      BY <1>1 DEF TickType
    <3>2. tick' = [tick EXCEPT ![t] = to]
      <4>1. [tick[t] EXCEPT !.at = "begin"] = to
        BY <1>1 DEF TickType
      <4> QED
        BY <1>5, <2>3, <4>1 DEF Look
    <3> QED
      BY <1>1, <1>3, <1>5, <2>1, <2>3, <3>1, <3>2, TickMoves DEF Look
  <2> QED
    BY <2>2, <2>3
<1>6. CASE TickPassBegins(t)
  <2> DEFINE to == [at |-> "pass", i |-> tick[t].i, served |-> tick[t].served]
  <2>1. to \in TickType /\ tick[t].i \in Conns
    BY <1>1, <1>6 DEF TickType, TickPassBegins, AtAConnection
  <2>2. tick' = [tick EXCEPT ![t] = to]
    <3>1. [tick[t] EXCEPT !.at = "pass"] = to
      BY <1>1 DEF TickType
    <3>2. tick' = [tick EXCEPT ![t] = [tick[t] EXCEPT !.at = "pass"]]
      BY <1>6 DEF TickPassBegins, TypeOK
    <3> QED
      BY <3>1, <3>2
  <2>3. /\ excused' \in [Conns -> SUBSET Ticks]
        /\ \A c \in Conns : excused[c] \ {t} \subseteq excused'[c]
    BY <1>1, <1>6, <2>1 DEF TickPassBegins
  <2>4. UNCHANGED <<queue, asked, disabled, ctx, poll, check, main>> /\ retries' \subseteq Ticks
    BY <1>1, <1>6 DEF TickPassBegins
  <2>5. /\ to.at \in {"begin", "pass"} => to.i \in Conns
        /\ to.at = "begin" => to.i \notin disabled
        /\ \A c \in Conns : c < to.i => c \in to.served \/ c \in disabled
    BY <1>3, <2>1
  <2> HIDE DEF to
  <2> QED
    BY <2>1, <2>2, <2>3, <2>4, <2>5, TickMoves
<1>7. CASE TickPassEnds(t)
  <2>1. tick[t].i \in Conns /\ tick[t].i + 1 \in 1 .. N + 1
    BY <1>1, <1>7 DEF TickPassEnds, AtAConnection, Conns
  <2> DEFINE to == [at |-> "look", i |-> tick[t].i + 1, served |-> tick[t].served \cup {tick[t].i}]
  <2>2. to \in TickType
    BY <1>1, <2>1 DEF TickType
  <2>3. \A c \in Conns : c < to.i => c \in to.served \/ c \in disabled
    BY <1>3, <2>1 DEF Conns
  <2>4. tick' = [tick EXCEPT ![t] = to]
    BY <1>7 DEF TickPassEnds, TypeOK
  <2> QED
    BY <1>1, <1>7, <2>2, <2>3, <2>4, TickMoves DEF TickPassEnds
<1>8. CASE EndTick(t)
  <2> DEFINE to == [at |-> "idle", i |-> 1, served |-> {}]
  <2>1. to \in TickType /\ \A c \in Conns : ~(c < to.i)
    BY DEF TickType, Conns
  <2> QED
    BY <1>1, <1>8, <2>1, TickMoves DEF EndTick
<1> QED
  BY <1>4, <1>5, <1>6, <1>7, <1>8, <1>9 DEF TickStep

-----------------------------------------------------------------------------
\* A poller moves and may cancel the run: it looks only past disabled connections,
\* and stops looking only if one is enabled or the run is cancelled.
LEMMA PollMoves ==
    ASSUME IInv, NEW c \in Conns, NEW to \in PollType,
           poll' = [poll EXCEPT ![c] = to],
           queue' \in [Conns -> Seq(Actions)],
           UNCHANGED <<asked, disabled, tick, retries, check, main, excused>>,
           to.at \in {"sync", "scan"} => to.todo # <<>>,
           to.at = "scan" => c \in disabled /\ \A d \in Conns : d < to.i => d \in disabled,
           ctx' = ctx \/ (ctx' = "revoked" /\ disabled = Conns),
           poll[c].at = "scan" /\ to.at # "scan" => ctx' # "live" \/ disabled # Conns
    PROVE  IInv'
<1> USE DEF IInv
<1>1. poll \in [Conns -> PollType]
  BY DEF TypeOK, PollType
<1>2. \A d \in Conns : poll'[d] = IF d = c THEN to ELSE poll[d]
  BY <1>1
<1>3. poll' \in [Conns -> PollType]
  BY <1>1
<1>4. TypeOK'
  <2>1. ctx' \in {"live", "revoked", "stopped"}
    BY DEF TypeOK
  <2> QED
    BY <1>3, <2>1 DEF TypeOK, PollType
<1>5. AtAConnection' /\ LeftBehind' /\ LateBeginsAreExcused'
  BY DEF AtAConnection, LeftBehind, LateBeginsAreExcused
<1>6. ScanSawDisabled' /\ BusyWithAnAction'
  BY <1>2 DEF ScanSawDisabled, BusyWithAnAction
<1>7. StopsExactlyWhenAllRevoked'
  <2>1. ctx' = "revoked" => disabled' = Conns
    BY DEF StopsExactlyWhenAllRevoked
  <2>2. ASSUME disabled' = Conns, \A d \in Conns : poll'[d].at # "scan" PROVE ctx' # "live"
    <3>1. to.at # "scan"
      BY <1>2, <2>2
    <3>2. CASE poll[c].at = "scan"
      BY <2>2, <3>1, <3>2
    <3>3. CASE poll[c].at # "scan"
      <4>1. \A d \in Conns : poll[d].at # "scan"
        BY <1>2, <2>2, <3>3
      <4> QED
        BY <2>2, <4>1 DEF StopsExactlyWhenAllRevoked
    <3> QED
      BY <3>2, <3>3
  <2> QED
    BY <2>1, <2>2 DEF StopsExactlyWhenAllRevoked
<1> QED
  BY <1>4, <1>5, <1>6, <1>7

\* The action at the head of an answer is one of them, and so are those behind it.
LEMMA DoneType ==
    ASSUME IInv, NEW c \in Conns, poll[c].todo # <<>>
    PROVE  /\ Done(c) \in PollType
           /\ Done(c).at = "act"
<1>1. poll[c] \in PollType
  BY DEF IInv, TypeOK, PollType
<1>2. Tail(poll[c].todo) \in Seq(Actions) /\ 1 \in 1 .. N + 1
  BY <1>1 DEF PollType
<1> QED
  BY <1>2 DEF Done, PollType

\* Every step of a poller.
LEMMA PollInv ==
    ASSUME IInv, NEW c \in Conns,
           \/ \E act \in Actions : Queue(c, act)
           \/ Ask(c) \/ Heartbeat(c) \/ Dispatch(c) \/ PollerGone(c)
    PROVE  IInv'
<1> USE DEF IInv
<1>1. poll[c] \in PollType /\ queue \in [Conns -> Seq(Actions)]
  BY DEF TypeOK, PollType
<1>2. /\ poll[c].at \in {"wait", "asked", "act", "sync", "scan", "gone"}
      /\ poll[c].todo \in Seq(Actions) /\ poll[c].i \in 1 .. N + 1
  BY <1>1 DEF PollType
<1>3. \A x : [poll EXCEPT ![c].at = x] =
               [poll EXCEPT ![c] = [at |-> x, todo |-> poll[c].todo, i |-> poll[c].i]]
  <2> TAKE x
  <2>1. [poll[c] EXCEPT !.at = x] = [at |-> x, todo |-> poll[c].todo, i |-> poll[c].i]
    BY <1>1 DEF PollType
  <2>2. [poll EXCEPT ![c].at = x] = [poll EXCEPT ![c] = [poll[c] EXCEPT !.at = x]]
    OBVIOUS
  <2> QED
    BY <2>1, <2>2
<1>4. \A x \in {"wait", "asked", "act", "gone"} :
        [at |-> x, todo |-> poll[c].todo, i |-> poll[c].i] \in PollType
  BY <1>2 DEF PollType
\* A step of the poller outside the scan, with the answer it holds or without.
<1>5. ASSUME NEW to \in PollType, poll' = [poll EXCEPT ![c] = to], to.at # "scan",
             to.at = "sync" => to.todo # <<>>,
             queue' \in [Conns -> Seq(Actions)], poll[c].at # "scan",
             UNCHANGED <<asked, disabled, ctx, tick, retries, check, main, excused>>
      PROVE  IInv'
  BY <1>5, PollMoves
<1>6. ASSUME NEW act \in Actions, Queue(c, act) PROVE IInv'
  <2>1. queue' \in [Conns -> Seq(Actions)] /\ asked' \in 0 .. MaxActions
    BY <1>1, <1>6 DEF Queue, TypeOK
  <2>2. TypeOK'
    BY <1>6, <2>1 DEF Queue, TypeOK
  <2> QED
    BY <1>6, <2>2 DEF Queue, AtAConnection, LeftBehind, ScanSawDisabled, LateBeginsAreExcused,
       BusyWithAnAction, StopsExactlyWhenAllRevoked
<1>7. CASE Ask(c)
  BY <1>1, <1>3, <1>4, <1>5, <1>7 DEF Ask
<1>8. CASE Accepted(c)
  <2> DEFINE to == [at |-> "act", todo |-> queue[c], i |-> 1]
  <2>1. to \in PollType /\ queue' \in [Conns -> Seq(Actions)]
    BY <1>1, <1>2, <1>8 DEF Accepted, PollType
  <2>2. poll' = [poll EXCEPT ![c] = to]
    BY <1>8 DEF Accepted
  <2> QED
    BY <1>5, <1>8, <2>1, <2>2 DEF Accepted
<1>9. CASE Unanswered(c)
  <2>1. queue' \in [Conns -> Seq(Actions)]
    <3>1. <<>> \in Seq(Actions)
      OBVIOUS
    <3> QED
      BY <1>1, <1>9, <3>1 DEF Unanswered
  <2> QED
    BY <1>3, <1>4, <1>5, <1>9, <2>1 DEF Unanswered
<1>10. CASE DoNothing(c)
  BY <1>1, <1>5, <1>10, DoneType DEF DoNothing, Doing
<1>11. CASE DoSyncNow(c)
  <2>1. CASE c \in disabled
    BY <1>1, <1>5, <1>11, <2>1, DoneType DEF DoSyncNow, Doing
  <2>2. CASE c \notin disabled
    <3> DEFINE to == [at |-> "sync", todo |-> poll[c].todo, i |-> poll[c].i]
    <3>1. to \in PollType
      BY <1>2 DEF PollType
    <3>2. poll' = [poll EXCEPT ![c] = to]
      BY <1>3, <1>11, <2>2 DEF DoSyncNow
    <3> QED
      BY <1>1, <1>5, <1>11, <3>1, <3>2 DEF DoSyncNow, Doing
  <2> QED
    BY <2>1, <2>2
<1>12. CASE SyncNowEnds(c)
  <2>1. poll[c].todo # <<>>
    BY <1>12 DEF SyncNowEnds, BusyWithAnAction
  <2> QED
    BY <1>1, <1>5, <1>12, <2>1, DoneType DEF SyncNowEnds
<1>13. CASE DoRevoke(c)
  <2> DEFINE to == [at |-> "scan", todo |-> poll[c].todo, i |-> 1]
  <2>1. to \in PollType /\ poll[c].todo # <<>>
    BY <1>2, <1>13 DEF PollType, DoRevoke, Doing
  <2>2. poll' = [poll EXCEPT ![c] = to]
    BY <1>13 DEF DoRevoke
  <2>3. \A d \in Conns : poll'[d] = IF d = c THEN to ELSE poll[d]
    BY <2>2 DEF TypeOK
  <2>4. excused' \in [Conns -> SUBSET Ticks] /\ poll' \in [Conns -> PollType]
    <3>1. poll \in [Conns -> PollType] /\ excused \in [Conns -> SUBSET Ticks]
      BY DEF TypeOK, PollType
    <3>2. excused' \in [Conns -> SUBSET Ticks]
      BY <1>13, <3>1 DEF DoRevoke
    <3> HIDE DEF to
    <3> QED
      BY <2>1, <2>2, <3>1, <3>2
  <2>5. TypeOK'
    BY <1>13, <2>4 DEF DoRevoke, TypeOK, PollType
  <2>6. AtAConnection' /\ LeftBehind'
    BY <1>13 DEF DoRevoke, AtAConnection, LeftBehind
  <2>7. ScanSawDisabled' /\ BusyWithAnAction'
    <3>1. disabled' = disabled \cup {c} /\ \A d \in Conns : ~(d < 1)
      BY <1>13 DEF DoRevoke, Conns
    <3>2. to.at = "scan" /\ to.todo # <<>> /\ to.i = 1
      BY <2>1
    <3> HIDE DEF to
    <3> QED
      BY <2>3, <3>1, <3>2 DEF ScanSawDisabled, BusyWithAnAction
  <2>8. LateBeginsAreExcused'
    <3>1. \A d \in Conns : excused'[d] =
             IF d = c /\ c \notin disabled
             THEN {u \in Ticks : tick[u].at = "begin" /\ tick[u].i = c} ELSE excused[d]
      BY <1>13 DEF DoRevoke, TypeOK
    <3>2. tick' = tick /\ disabled' = disabled \cup {c}
      BY <1>13 DEF DoRevoke
    <3>3. ASSUME NEW u \in Ticks, tick[u].at = "begin", tick[u].i \in disabled \cup {c}
          PROVE  u \in excused'[tick[u].i]
      <4>1. tick[u].i \in Conns
        BY <3>3 DEF AtAConnection
      <4>2. CASE tick[u].i = c /\ c \notin disabled
        BY <3>1, <3>3, <4>2
      <4>3. CASE tick[u].i \in disabled
        BY <3>1, <3>3, <4>1, <4>3 DEF LateBeginsAreExcused
      <4> QED
        BY <3>3, <4>2, <4>3
    <3> QED
      BY <3>2, <3>3 DEF LateBeginsAreExcused
  <2>9. StopsExactlyWhenAllRevoked'
    <3>1. ctx' = "revoked" => disabled' = Conns
      BY <1>13 DEF DoRevoke, StopsExactlyWhenAllRevoked
    <3>2. poll'[c].at = "scan"
      BY <2>3
    <3> QED
      BY <3>1, <3>2 DEF StopsExactlyWhenAllRevoked
  <2> QED
    BY <2>5, <2>6, <2>7, <2>8, <2>9
<1>14. CASE Scan(c)
  <2>1. c \in disabled /\ \A d \in Conns : d < poll[c].i => d \in disabled
    BY <1>14 DEF Scan, ScanSawDisabled
  <2>2. poll[c].todo # <<>> /\ poll[c].i \in Conns /\ poll[c].i + 1 \in 1 .. N + 1
    BY <1>2, <1>14 DEF Scan, BusyWithAnAction, Conns
  <2>3. CASE poll[c].i \in disabled
    <3> DEFINE to == [at |-> "scan", todo |-> poll[c].todo, i |-> poll[c].i + 1]
    <3>1. to \in PollType
      BY <1>2, <2>2 DEF PollType
    <3>2. poll' = [poll EXCEPT ![c] = to]
      <4>1. [poll[c] EXCEPT !.i = @ + 1] = to
        BY <1>1, <1>14 DEF PollType, Scan
      <4>2. poll' = [poll EXCEPT ![c] = [poll[c] EXCEPT !.i = @ + 1]]
        BY <1>14, <2>3 DEF Scan, TypeOK
      <4> QED
        BY <4>1, <4>2
    <3>3. \A d \in Conns : d < to.i => d \in disabled
      BY <2>1, <2>2, <2>3 DEF Conns
    <3>4. UNCHANGED <<queue, asked, disabled, ctx, tick, retries, check, main, excused>>
      BY <1>14 DEF Scan
    <3>5. to.at = "scan" /\ to.todo # <<>>
      BY <2>2
    <3> HIDE DEF to
    <3> QED
      BY <1>1, <2>1, <3>1, <3>2, <3>3, <3>4, <3>5, PollMoves
  <2>4. CASE poll[c].i \notin disabled
    <3>1. disabled # Conns
      BY <2>2, <2>4
    <3>2. poll' = [poll EXCEPT ![c] = Done(c)]
      BY <1>14, <2>4 DEF Scan
    <3>3. UNCHANGED <<queue, asked, disabled, ctx, tick, retries, check, main, excused>>
      BY <1>14 DEF Scan
    <3> QED
      BY <1>1, <2>2, <3>1, <3>2, <3>3, DoneType, PollMoves
  <2> QED
    BY <2>3, <2>4
<1>15. CASE CancelRun(c)
  <2>1. disabled = Conns
    <3>1. Conns \subseteq disabled
      BY <1>15 DEF CancelRun, ScanSawDisabled, Conns
    <3> QED
      BY <3>1 DEF TypeOK
  <2>2. poll[c].todo # <<>>
    BY <1>15 DEF CancelRun, BusyWithAnAction
  <2>3. ctx' # "live" /\ (ctx' = ctx \/ ctx' = "revoked")
    BY <1>15 DEF CancelRun
  <2>4. /\ poll' = [poll EXCEPT ![c] = Done(c)]
        /\ UNCHANGED <<queue, asked, disabled, tick, retries, check, main, excused>>
    BY <1>15 DEF CancelRun
  <2> QED
    BY <1>1, <2>1, <2>2, <2>3, <2>4, DoneType, PollMoves
<1>16. CASE PollEnds(c)
  BY <1>1, <1>3, <1>4, <1>5, <1>16 DEF PollEnds
<1>17. CASE PollerGone(c)
  BY <1>1, <1>3, <1>4, <1>5, <1>17 DEF PollerGone
<1> QED
  BY <1>6, <1>7, <1>8, <1>9, <1>10, <1>11, <1>12, <1>13, <1>14, <1>15, <1>16, <1>17
     DEF Heartbeat, Dispatch

-----------------------------------------------------------------------------
\* Every step of the daemon keeps the invariant: the main goroutine only reads
\* what the others write, but for the context the service manager cancels.
LEMMA StepInv == IInv /\ [Next]_vars => IInv'
<1> SUFFICES ASSUME IInv, [Next]_vars PROVE IInv'
  OBVIOUS
<1> USE DEF IInv
<1>1. ASSUME main' \in [at : {"run", "checker", "pollers", "drain", "returned"}, i : 1 .. N + 1],
             UNCHANGED <<queue, asked, disabled, ctx, tick, retries, poll, check, excused>>
      PROVE  IInv'
  BY <1>1 DEF TypeOK, AtAConnection, LeftBehind, ScanSawDisabled, LateBeginsAreExcused,
     BusyWithAnAction, StopsExactlyWhenAllRevoked
<1>2. main \in [at : {"run", "checker", "pollers", "drain", "returned"}, i : 1 .. N + 1]
  BY DEF TypeOK
<1>3. CASE ServiceStop \/ Check
  <2>1. TypeOK'
    BY <1>3 DEF ServiceStop, Check, CheckBegins, CheckEnds, CheckerGone, TypeOK
  <2> QED
    BY <1>3, <2>1 DEF ServiceStop, Check, CheckBegins, CheckEnds, CheckerGone,
       AtAConnection, LeftBehind, ScanSawDisabled, LateBeginsAreExcused, BusyWithAnAction,
       StopsExactlyWhenAllRevoked
<1>4. CASE Stopping
  BY <1>1, <1>4 DEF Stopping
<1>5. CASE CheckerStopped \/ PollerStopped
  BY <1>1, <1>2, <1>5 DEF CheckerStopped, PollerStopped
<1>6. CASE StopScheduler
  BY <1>1, <1>2, <1>6 DEF StopScheduler
<1>7. CASE Return
  BY <1>1, <1>2, <1>7 DEF Return
<1>8. CASE UNCHANGED vars
  BY <1>1, <1>2, <1>8 DEF vars
<1> QED
  BY <1>3, <1>4, <1>5, <1>6, <1>7, <1>8, PollInv, TickInv DEF Next, MainStep

\* IInv holds of every state the daemon can be in.
THEOREM Invariance == Spec => []IInv
BY InitInv, StepInv, PTL DEF Spec

\* Every variable has its type.
THEOREM TypeCorrect == Spec => []TypeOK
<1>1. IInv => TypeOK
  BY DEF IInv
<1> QED
  BY <1>1, Invariance, PTL

\* The daemon stops itself when every connection is revoked, and only then.
THEOREM StopsExactly == Spec => []StopsExactlyWhenAllRevoked
<1>1. IInv => StopsExactlyWhenAllRevoked
  BY DEF IInv
<1> QED
  BY <1>1, Invariance, PTL

\* A tick leaves out revoked connections only.
THEOREM EnabledAreServed == Spec => []TickServesTheEnabled
<1>1. IInv => TickServesTheEnabled
  <2> SUFFICES ASSUME IInv, NEW t \in Ticks, NEW c \in 1 .. tick[t].i - 1
               PROVE  c \in tick[t].served \/ c \in disabled
    BY DEF TickServesTheEnabled
  <2>1. tick[t].i \in 1 .. N + 1
    BY DEF IInv, TypeOK
  <2>2. c \in Conns /\ c < tick[t].i
    BY <2>1 DEF Conns
  <2> QED
    BY <2>2 DEF IInv, LeftBehind
<1> QED
  BY <1>1, Invariance, PTL

\* After a connection is revoked no sync of it begins, but for the ticks that had
\* asked before and not begun yet.
THEOREM NothingNewStarts == Spec => RevokedStartsNothingNew
<1> DEFINE NothingNew ==
      /\ \A t \in Ticks :
            tick[t].at = "begin" /\ tick'[t].at = "pass" /\ tick[t].i \in disabled
              => t \in excused[tick[t].i]
      /\ \A c \in Conns : poll[c].at # "sync" /\ poll'[c].at = "sync" => c \notin disabled
<1>1. IInv /\ [Next]_vars => [NothingNew]_vars
  <2> SUFFICES ASSUME IInv, Next PROVE NothingNew
    BY DEF vars
  <2>1. \A t \in Ticks : tick[t].at = "begin" /\ tick[t].i \in disabled
                              => t \in excused[tick[t].i]
    BY DEF IInv, LateBeginsAreExcused
  <2>2. ASSUME NEW c \in Conns, poll[c].at # "sync", poll'[c].at = "sync"
        PROVE  c \notin disabled
    <3>1. poll \in [Conns -> PollType]
      BY DEF IInv, TypeOK, PollType
    <3>2. PICK d \in Conns : Heartbeat(d) \/ Dispatch(d) \/ Ask(d) \/ PollerGone(d)
      BY <2>2 DEF Next, Queue, StartTick, RetryFires, TickStep, RetryBegins, Begin, Look,
         TickPassBegins, TickPassEnds, EndTick, Check, CheckBegins, CheckEnds, CheckerGone,
         ServiceStop, MainStep, Stopping, CheckerStopped, PollerStopped, StopScheduler, Return
    <3>3. \A e \in Conns : Done(e).at = "act"
      BY DEF Done
    <3>4. DoSyncNow(d)
      <4>1. ASSUME NEW x, poll' = [poll EXCEPT ![d] = x], x.at # "sync" PROVE FALSE
        BY <2>2, <3>1, <4>1
      <4>2. ASSUME NEW x, poll' = [poll EXCEPT ![d].at = x], x # "sync" PROVE FALSE
        BY <2>2, <3>1, <4>2 DEF PollType
      <4>3. ASSUME NEW x, poll' = [poll EXCEPT ![d].i = x] PROVE FALSE
        BY <2>2, <3>1, <4>3 DEF PollType
      <4>4. ~Accepted(d) /\ ~Unanswered(d) /\ ~Ask(d) /\ ~PollerGone(d)
        BY <4>1, <4>2 DEF Accepted, Unanswered, Ask, PollerGone
      <4>5. ~DoNothing(d) /\ ~SyncNowEnds(d) /\ ~CancelRun(d)
        BY <3>3, <4>1 DEF DoNothing, SyncNowEnds, CancelRun
      <4>6. ~DoRevoke(d) /\ ~PollEnds(d)
        <5> DEFINE to == [at |-> "scan", todo |-> poll[d].todo, i |-> 1]
        <5>0. to.at # "sync" /\ (DoRevoke(d) => poll' = [poll EXCEPT ![d] = to])
          BY DEF DoRevoke
        <5> HIDE DEF to
        <5>1. ~DoRevoke(d)
          BY <4>1, <5>0
        <5>2. ~PollEnds(d)
          BY <4>2 DEF PollEnds
        <5> QED
          BY <5>1, <5>2
      <4>7. ~Scan(d)
        BY <3>3, <4>1, <4>3 DEF Scan
      <4> QED
        BY <3>2, <4>4, <4>5, <4>6, <4>7 DEF Heartbeat, Dispatch
    <3>5. d \notin disabled
      BY <2>2, <3>1, <3>3, <3>4 DEF DoSyncNow
    <3>6. d = c
      BY <2>2, <3>1, <3>4, <3>5 DEF DoSyncNow
    <3> QED
      BY <3>5, <3>6
  <2> QED
    BY <2>1, <2>2
<1> QED
  BY <1>1, Invariance, PTL DEF Spec, RevokedStartsNothingNew

-----------------------------------------------------------------------------
(* What the two liveness properties of the daemon rest on, as far as it is *)
(* safety: a revocation that was received cannot get lost, and the daemon  *)
(* does not return before what its deferred Stops wait for has ended.      *)

Holds(s) == \E k \in DOMAIN s : s[k] = "revoke"

\* Between two polls nothing is left of an answer; a sync_now is at its head while
\* its pass runs.
AnswersAreDone ==
    \A c \in Conns :
        /\ poll[c].at \in {"wait", "asked", "gone"} => poll[c].todo = <<>>
        /\ poll[c].at = "sync" => Head(poll[c].todo) = "sync_now"

\* How far the shutdown is: behind the updater's loop the pollers before the index
\* have returned, and behind the last of them the scheduler is stopped and drained
\* of cron's ticks.
ShutdownInOrder ==
    /\ main.at # "run" => ctx # "live"
    /\ main.at \in {"pollers", "drain", "returned"} => check = "gone"
    /\ \A c \in Conns : c < main.i => poll[c].at = "gone"
    /\ main.at \in {"drain", "returned"} => main.i = N + 1
    /\ main.at = "returned" => \A t \in Ticks \ retries : tick[t].at = "idle"

Orderly == IInv /\ AnswersAreDone /\ ShutdownInOrder

LEMMA InitOrderly == Init => Orderly
<1> SUFFICES ASSUME Init PROVE Orderly
  OBVIOUS
<1>1. AnswersAreDone /\ ShutdownInOrder
  BY DEF Init, AnswersAreDone, ShutdownInOrder, Conns
<1> QED
  BY <1>1, InitInv DEF Orderly

\* What is behind the head of an answer keeps its revocation.
LEMMA TailHolds ==
    ASSUME NEW s \in Seq(Actions), s # <<>>, Head(s) # "revoke", Holds(s)
    PROVE  Holds(Tail(s))
<1>1. PICK k \in DOMAIN s : s[k] = "revoke"
  BY DEF Holds
<1>2. k \in 1 .. Len(s) /\ k # 1
  BY <1>1
<1>3. k - 1 \in DOMAIN Tail(s) /\ Tail(s)[k - 1] = s[k]
  BY <1>2
<1> QED
  BY <1>1, <1>3 DEF Holds

\* What a step of a poller does to it: it goes on from what it was at, drops a
\* revocation only if its connection is disabled, and leaves the others alone.
LEMMA PollerDoes ==
    ASSUME Orderly, NEW c \in Conns,
           Ask(c) \/ Heartbeat(c) \/ Dispatch(c) \/ PollerGone(c)
    PROVE  /\ poll[c].at # "gone"
           /\ \A d \in Conns : d # c => poll'[d] = poll[d]
           /\ poll'[c].at \in {"wait", "asked", "gone"} => poll'[c].todo = <<>>
           /\ poll'[c].at = "sync" => Head(poll'[c].todo) = "sync_now"
           /\ Holds(poll[c].todo) => Holds(poll'[c].todo) \/ c \in disabled'
           /\ UNCHANGED <<tick, retries, check, main>>
           /\ ctx # "live" => ctx' # "live"
<1> DEFINE Good(to) ==
      /\ to.at \in {"wait", "asked", "gone"} => to.todo = <<>>
      /\ to.at = "sync" => Head(to.todo) = "sync_now"
      /\ Holds(poll[c].todo) => Holds(to.todo) \/ c \in disabled'
<1>1. poll \in [Conns -> PollType] /\ poll[c] \in PollType
  BY DEF Orderly, IInv, TypeOK, PollType
<1>2. /\ poll[c].at \in {"wait", "asked", "gone"} => poll[c].todo = <<>>
      /\ poll[c].at = "sync" => Head(poll[c].todo) = "sync_now"
      /\ poll[c].at \in {"sync", "scan"} => poll[c].todo # <<>>
      /\ poll[c].at = "scan" => c \in disabled
  BY DEF Orderly, IInv, AnswersAreDone, BusyWithAnAction, ScanSawDisabled
<1>3. ASSUME NEW to, poll' = [poll EXCEPT ![c] = to], Good(to), poll[c].at # "gone",
             UNCHANGED <<tick, retries, check, main>>, ctx # "live" => ctx' # "live"
      PROVE  /\ poll[c].at # "gone"
             /\ \A d \in Conns : d # c => poll'[d] = poll[d]
             /\ Good(poll'[c])
             /\ UNCHANGED <<tick, retries, check, main>>
             /\ ctx # "live" => ctx' # "live"
  <2>1. poll'[c] = to /\ \A d \in Conns : d # c => poll'[d] = poll[d]
    BY <1>1, <1>3
  <2> QED
    BY <1>3, <2>1
<1>4. \A x : [poll EXCEPT ![c].at = x] =
               [poll EXCEPT ![c] = [at |-> x, todo |-> poll[c].todo, i |-> poll[c].i]]
  <2> TAKE x
  <2>1. [poll[c] EXCEPT !.at = x] = [at |-> x, todo |-> poll[c].todo, i |-> poll[c].i]
    BY <1>1 DEF PollType
  <2> QED
    BY <2>1
<1>5. \A x : Good([at |-> x, todo |-> poll[c].todo, i |-> poll[c].i]) <=>
               /\ x \in {"wait", "asked", "gone"} => poll[c].todo = <<>>
               /\ x = "sync" => Head(poll[c].todo) = "sync_now"
  OBVIOUS
\* The action at the head of the answer is through: it is no revocation, or the
\* connection is disabled.
<1>6. ASSUME poll[c].todo # <<>>, Head(poll[c].todo) # "revoke" \/ c \in disabled'
      PROVE  Good(Done(c))
  <2>1. Done(c).at = "act" /\ Done(c).todo = Tail(poll[c].todo)
    BY DEF Done
  <2>2. poll[c].todo \in Seq(Actions)
    BY <1>1 DEF PollType
  <2>3. Holds(poll[c].todo) => Holds(Done(c).todo) \/ c \in disabled'
    BY <1>6, <2>1, <2>2, TailHolds
  <2> QED
    BY <2>1, <2>3
<1> SUFFICES /\ poll[c].at # "gone"
             /\ \A d \in Conns : d # c => poll'[d] = poll[d]
             /\ Good(poll'[c])
             /\ UNCHANGED <<tick, retries, check, main>>
             /\ ctx # "live" => ctx' # "live"
  OBVIOUS
<1> HIDE DEF Good
<1>7. CASE Ask(c)
  BY <1>2, <1>3, <1>4, <1>5, <1>7 DEF Ask
<1>8. CASE Accepted(c)
  <2> DEFINE to == [at |-> "act", todo |-> queue[c], i |-> 1]
  <2>1. poll[c].todo = <<>>
    BY <1>2, <1>8 DEF Accepted
  <2>2. Good(to)
    BY <2>1 DEF Good, Holds
  <2> QED
    BY <1>3, <1>8, <2>2 DEF Accepted
<1>9. CASE Unanswered(c)
  BY <1>2, <1>3, <1>4, <1>5, <1>9 DEF Unanswered
<1>10. CASE DoNothing(c)
  BY <1>3, <1>6, <1>10 DEF DoNothing, Doing
<1>11. CASE DoSyncNow(c)
  <2>1. CASE c \in disabled
    BY <1>3, <1>6, <1>11, <2>1 DEF DoSyncNow, Doing
  <2>2. CASE c \notin disabled
    BY <1>3, <1>4, <1>5, <1>11, <2>2 DEF DoSyncNow, Doing
  <2> QED
    BY <2>1, <2>2
<1>12. CASE SyncNowEnds(c)
  BY <1>2, <1>3, <1>6, <1>12 DEF SyncNowEnds
<1>13. CASE DoRevoke(c)
  <2> DEFINE to == [at |-> "scan", todo |-> poll[c].todo, i |-> 1]
  <2>1. Good(to)
    BY DEF Good
  <2>2. poll' = [poll EXCEPT ![c] = to] /\ UNCHANGED <<tick, retries, check, main, ctx>>
    BY <1>13 DEF DoRevoke
  <2>3. poll[c].at # "gone"
    BY <1>13 DEF DoRevoke, Doing
  <2> HIDE DEF to
  <2> QED
    BY <1>3, <2>1, <2>2, <2>3
<1>14. CASE Scan(c)
  <2>1. c \in disabled' /\ poll[c].todo # <<>> /\ poll[c].at = "scan"
    BY <1>2, <1>14 DEF Scan
  <2>2. UNCHANGED <<tick, retries, check, main, ctx>>
    BY <1>14 DEF Scan
  <2>3. CASE poll[c].i \in disabled
    <3> DEFINE to == [at |-> "scan", todo |-> poll[c].todo, i |-> poll[c].i + 1]
    <3>1. [poll[c] EXCEPT !.i = @ + 1] = to
      BY <1>1, <2>1 DEF PollType
    <3>2. poll' = [poll EXCEPT ![c] = to]
      BY <1>1, <1>14, <2>3, <3>1 DEF Scan
    <3>3. Good(to)
      BY DEF Good
    <3> HIDE DEF to
    <3> QED
      BY <1>3, <2>1, <2>2, <3>2, <3>3
  <2>4. CASE poll[c].i \notin disabled
    BY <1>3, <1>6, <1>14, <2>1, <2>2, <2>4 DEF Scan
  <2> QED
    BY <2>3, <2>4
<1>15. CASE CancelRun(c)
  <2>1. c \in disabled' /\ poll[c].todo # <<>>
    BY <1>2, <1>15 DEF CancelRun
  <2>2. /\ poll' = [poll EXCEPT ![c] = Done(c)]
        /\ UNCHANGED <<tick, retries, check, main>> /\ ctx' # "live"
    BY <1>15 DEF CancelRun
  <2> QED
    BY <1>3, <1>6, <1>15, <2>1, <2>2 DEF CancelRun
<1>16. CASE PollEnds(c)
  BY <1>2, <1>3, <1>4, <1>5, <1>16 DEF PollEnds
<1>17. CASE PollerGone(c)
  BY <1>2, <1>3, <1>4, <1>5, <1>17 DEF PollerGone
<1> QED
  BY <1>7, <1>8, <1>9, <1>10, <1>11, <1>12, <1>13, <1>14, <1>15, <1>16, <1>17
     DEF Heartbeat, Dispatch

\* Every step keeps the order of the shutdown: a loop that is gone and a tick of
\* cron behind a stopped scheduler do not come back.
LEMMA StepOrderly == Orderly /\ [Next]_vars => Orderly'
<1> SUFFICES ASSUME Orderly, [Next]_vars PROVE AnswersAreDone' /\ ShutdownInOrder'
  BY StepInv DEF Orderly
<1>1. AnswersAreDone /\ ShutdownInOrder /\ TypeOK
  BY DEF Orderly, IInv
<1>2. ASSUME NEW c \in Conns, Ask(c) \/ Heartbeat(c) \/ Dispatch(c) \/ PollerGone(c)
      PROVE  AnswersAreDone' /\ ShutdownInOrder'
  BY <1>1, <1>2, PollerDoes DEF AnswersAreDone, ShutdownInOrder
<1>3. ASSUME NEW c \in Conns, NEW act \in Actions, Queue(c, act)
      PROVE  AnswersAreDone' /\ ShutdownInOrder'
  BY <1>1, <1>3 DEF Queue, AnswersAreDone, ShutdownInOrder
<1>4. ASSUME NEW t \in Ticks, StartTick(t) \/ RetryFires(t) \/ TickStep(t)
      PROVE  AnswersAreDone' /\ ShutdownInOrder'
  <2>1. UNCHANGED <<poll, check, main, ctx>>
    BY <1>4 DEF StartTick, RetryFires, TickStep, RetryBegins, Begin, Look, TickPassBegins,
       TickPassEnds, EndTick
  <2>2. \A u \in Ticks : u # t => tick'[u] = tick[u]
    BY <1>1, <1>4 DEF StartTick, RetryFires, TickStep, RetryBegins, Begin, Look,
       TickPassBegins, TickPassEnds, EndTick, TypeOK
  <2>3. ASSUME main.at = "returned" PROVE t \in retries
    <3>1. tick[t].at # "idle"
      BY <1>4, <2>3, DaemonAssumption DEF StartTick, RetryFires, TickStep, RetryBegins, Look,
         TickPassBegins, TickPassEnds, EndTick
    <3> QED
      BY <1>1, <2>3, <3>1 DEF ShutdownInOrder
  <2>4. \/ retries' \in {retries, retries \cup {t}}
        \/ retries' = retries \ {t} /\ tick'[t].at = "idle"
    <3>1. CASE StartTick(t) \/ RetryFires(t)
      BY <3>1 DEF StartTick, RetryFires
    <3>2. CASE RetryBegins(t) \/ Look(t) \/ TickPassBegins(t) \/ TickPassEnds(t)
      BY <3>2 DEF RetryBegins, Look, TickPassBegins, TickPassEnds
    <3>3. CASE EndTick(t)
      BY <1>1, <3>3 DEF EndTick, TypeOK
    <3> QED
      BY <1>4, <3>1, <3>2, <3>3 DEF TickStep
  <2>5. ASSUME main.at = "returned", NEW u \in Ticks \ retries' PROVE tick'[u].at = "idle"
    BY <1>1, <2>2, <2>3, <2>4, <2>5 DEF ShutdownInOrder
  <2> QED
    BY <1>1, <2>1, <2>5 DEF AnswersAreDone, ShutdownInOrder
<1>5. CASE ServiceStop
  BY <1>1, <1>5 DEF ServiceStop, AnswersAreDone, ShutdownInOrder
<1>11. CASE Check
  BY <1>1, <1>11 DEF Check, CheckBegins, CheckEnds, CheckerGone, AnswersAreDone, ShutdownInOrder
<1>12. CASE CheckerStopped
  <2>1. main'.at = "pollers" /\ main'.i = main.i
    BY <1>1, <1>12 DEF CheckerStopped, TypeOK
  <2> QED
    BY <1>1, <1>12, <2>1 DEF CheckerStopped, AnswersAreDone, ShutdownInOrder
<1>6. CASE Stopping
  BY <1>1, <1>6 DEF Stopping, AnswersAreDone, ShutdownInOrder, Conns
<1>7. CASE PollerStopped
  <2>1. main'.at = main.at /\ main'.i = main.i + 1 /\ main.at = "pollers" /\ main.i \in 1 .. N + 1
    BY <1>1, <1>7 DEF PollerStopped, TypeOK
  <2>2. \A c \in Conns : c < main.i + 1 => poll[c].at = "gone"
    BY <1>1, <1>7, <2>1 DEF PollerStopped, ShutdownInOrder, Conns
  <2> QED
    BY <1>1, <1>7, <2>1, <2>2 DEF PollerStopped, AnswersAreDone, ShutdownInOrder
<1>8. CASE StopScheduler
  <2>1. main'.at = "drain" /\ main'.i = main.i
    BY <1>1, <1>8 DEF StopScheduler, TypeOK
  <2> QED
    BY <1>1, <1>8, <2>1 DEF StopScheduler, AnswersAreDone, ShutdownInOrder
<1>9. CASE Return
  <2>1. main'.at = "returned" /\ main'.i = main.i
    BY <1>1, <1>9 DEF Return, TypeOK
  <2> QED
    BY <1>1, <1>9, <2>1 DEF Return, AnswersAreDone, ShutdownInOrder
<1>10. CASE UNCHANGED vars
  BY <1>1, <1>10 DEF vars, AnswersAreDone, ShutdownInOrder
<1> QED
  BY <1>2, <1>3, <1>4, <1>5, <1>6, <1>7, <1>8, <1>9, <1>10, <1>11, <1>12 DEF Next, MainStep

\* runWithCtx returns with nothing of it left running but a retry's tick: its
\* context is cancelled, the loop of the version checks and every poller's have
\* returned, the pollers' with their answers dispatched to the end, and no tick of
\* cron is under way (main.go:329-445, checker.go:151-164, poller.go:173-189).
THEOREM ReturnLeavesOnlyRetries ==
    Spec => [](main.at = "returned" =>
                 /\ ctx # "live" /\ check = "gone"
                 /\ \A c \in Conns : poll[c].at = "gone" /\ poll[c].todo = <<>>
                 /\ \A t \in Ticks \ retries : tick[t].at = "idle")
<1> DEFINE Nothing == main.at = "returned" =>
                        /\ ctx # "live" /\ check = "gone"
                        /\ \A c \in Conns : poll[c].at = "gone" /\ poll[c].todo = <<>>
                        /\ \A t \in Ticks \ retries : tick[t].at = "idle"
<1>1. Orderly => Nothing
  BY DEF Orderly, AnswersAreDone, ShutdownInOrder, Conns
<1>2. Spec => []Nothing
  BY <1>1, InitOrderly, StepOrderly, PTL DEF Spec
<1> QED
  BY <1>2

\* A revocation leaves the answer it came in only by being obeyed, whatever is
\* dispatched before it and whatever fails or stops meanwhile: the server has
\* cleared its queue, so what the agent drops is lost.
THEOREM RevocationIsNotDropped ==
    Spec => [][\A c \in Conns : Holds(poll[c].todo) =>
                                  Holds(poll'[c].todo) \/ c \in disabled']_vars
<1> DEFINE Kept == \A c \in Conns : Holds(poll[c].todo) =>
                                      Holds(poll'[c].todo) \/ c \in disabled'
<1>1. Orderly /\ [Next]_vars => [Kept]_vars
  <2> SUFFICES ASSUME Orderly, Next PROVE Kept
    OBVIOUS
  <2>1. CASE poll' = poll
    BY <2>1
  <2>2. CASE poll' # poll
    <3>1. PICK d \in Conns : Ask(d) \/ Heartbeat(d) \/ Dispatch(d) \/ PollerGone(d)
      BY <2>2 DEF Next, Queue, StartTick, RetryFires, TickStep, RetryBegins, Begin, Look,
         TickPassBegins, TickPassEnds, EndTick, Check, CheckBegins, CheckEnds, CheckerGone,
         ServiceStop, MainStep, Stopping, CheckerStopped, PollerStopped, StopScheduler, Return
    <3> QED
      BY <3>1, PollerDoes
  <2> QED
    BY <2>1, <2>2
<1>2. Spec => [][Kept]_vars
  BY <1>1, InitOrderly, StepOrderly, PTL DEF Spec
<1> QED
  BY <1>2
=============================================================================
