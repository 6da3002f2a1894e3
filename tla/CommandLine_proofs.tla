------------------------- MODULE CommandLine_proofs -------------------------
(***************************************************************************)
(* The verdicts of a sync, the daemon's and the operator's, for any number *)
(* of companies, lanes, rows and connections: what the walk's counters     *)
(* keep of each run is enough to tell a sync that left rows off the server *)
(* or was denied from one that did not.  What one run guarantees is cited  *)
(* from IngestLane_proofs.                                                 *)
(***************************************************************************)
EXTENDS CommandLine, FiniteSetTheorems, TLAPS

LP == INSTANCE IngestLane_proofs

-----------------------------------------------------------------------------
(* Lanes and counts.                                                       *)

\* A list of lanes has at least one, and each is a lane.
LEMMA KindListFacts ==
  ASSUME NEW s \in KindLists
  PROVE  /\ Len(s) \in Nat \ {0}
         /\ \A j \in 1 .. Len(s) : s[j] \in Lane!Kinds
<1>1. PICK p \in Picks : s = LanesOf(p)
  BY DEF KindLists
<1>2. PICK n \in 1 .. Len(DefaultKinds) : p \in [1 .. n -> DOMAIN DefaultKinds]
  BY <1>1 DEF Picks
<1>3. DefaultKinds \in Seq(Lane!Kinds) /\ Len(DefaultKinds) \in Nat
      /\ DOMAIN DefaultKinds = 1 .. Len(DefaultKinds)
  BY KindsAssumption
<1>4. \A j \in 1 .. n : DefaultKinds[p[j]] \in Lane!Kinds
  BY <1>2, <1>3
<1>5. s = [j \in 1 .. n |-> DefaultKinds[p[j]]]
  BY <1>1, <1>2 DEF LanesOf
<1>6. s \in Seq(Lane!Kinds) /\ Len(s) = n
  BY <1>3, <1>4, <1>5
<1> QED
  BY <1>3, <1>4, <1>5, <1>6

LEMMA ScopeKindsAreLists == ScopeKinds \subseteq KindLists
  BY DEF ScopeKinds, KindLists

LEMMA PlaceInList ==
  ASSUME NEW p \in Nat, NEW len \in Nat \ {0}
  PROVE  1 + (p % len) \in 1 .. len
  BY SMTT(30)

\* The walk has a number of runs, whichever companies are readable.
LEMMA RunsAreCounted ==
  ASSUME NEW n \in Nat, NEW S \in SUBSET (1 .. n), NEW len \in Nat
  PROVE  Cardinality(S) \in Nat /\ Cardinality(S) * len \in Nat
<1>1. IsFiniteSet(S)
  <2>1. 1 \in Int /\ n \in Int
    OBVIOUS
  <2>2. IsFiniteSet(1 .. n)
    BY <2>1, FS_Interval
  <2> QED
    BY <2>2, FS_Subset
<1>2. Cardinality(S) \in Nat
  BY <1>1, FS_CardinalityType
<1> QED
  BY <1>2

-----------------------------------------------------------------------------
(* The run the walk is at, as IngestLane_proofs speaks of it.              *)

LEMMA SameNext == Lane!Next <=> LP!Next
  BY DEF Lane!Next, LP!Next, Lane!ContextEnds, LP!ContextEnds,
     Lane!Read, LP!Read, Lane!Send, LP!Send, Lane!Abort, LP!Abort, Lane!Return, LP!Return,
     Lane!ReadFails, LP!ReadFails, Lane!LedgersRead, LP!LedgersRead,
     Lane!SnapshotUnreadable, LP!SnapshotUnreadable, Lane!NoTaxLedgers, LP!NoTaxLedgers,
     Lane!SendIncomplete, LP!SendIncomplete, Lane!VouchersRead, LP!VouchersRead,
     Lane!SnapshotRead, LP!SnapshotRead, Lane!BatchAccepted, LP!BatchAccepted,
     Lane!AnswerLost, LP!AnswerLost, Lane!BatchRefused, LP!BatchRefused,
     Lane!LaneUnsupported, LP!LaneUnsupported, Lane!Attempt, LP!Attempt, Lane!Store, LP!Store,
     Lane!ClaimOf, LP!ClaimOf, Lane!IsFinal, LP!IsFinal, Lane!ZeroRowLane, LP!ZeroRowLane,
     Lane!NumChunks, LP!NumChunks, Lane!Snapshots, LP!Snapshots

LEMMA RunInit == Lane!Init => LP!IInv
<1>1. Lane!Init => LP!Init
  BY DEF Lane!Init, LP!Init, Lane!FirstPhase, LP!FirstPhase, Lane!Snapshots, LP!Snapshots,
         Lane!NoResult, LP!NoResult, Lane!NothingStored, LP!NothingStored,
         Lane!Kinds, LP!Kinds
<1> QED
  BY <1>1, SizeAssumption, LP!InitInv

LEMMA RunStays == LP!IInv /\ UNCHANGED laneVars => LP!IInv'
<1>1. UNCHANGED laneVars => UNCHANGED LP!vars
  BY DEF laneVars, LP!vars
<1> QED
  BY <1>1, SizeAssumption, LP!Stutter

LEMMA RunGoesOn == LP!IInv /\ Lane!Next => LP!IInv' /\ (res.auth => res'.auth)
<1>1. Lane!Next => [LP!Next]_LP!vars
  BY SameNext
<1>2. LP!IInv /\ [LP!Next]_LP!vars => LP!IInv'
  BY SizeAssumption, LP!Step
<1>3. LP!IInv /\ [LP!Next]_LP!vars => (res.auth => res'.auth)
  BY SizeAssumption, LP!DenialStays
<1> QED
  BY <1>1, <1>2, <1>3

LEMMA RunStarts == LP!Fresh' => LP!IInv'
<1>1. LP!Fresh => LP!IInv
  BY SizeAssumption, LP!FreshInv
<1> QED
  BY <1>1, PTL

LEMMA RunIsCancelled ==
  ASSUME LP!IInv, ctxDone' \in BOOLEAN, ctxDone => ctxDone',
         UNCHANGED <<kind, forRequest, phase, items, rows, doubt, after, total, i, res, server>>
  PROVE  LP!IInv'
  BY SizeAssumption, LP!CallerEnds

\* What one run guarantees of its counters.
LEMMA RunFacts ==
  ASSUME LP!IInv
  PROVE  /\ Lane!TypeOK
         /\ res.auth => res.failed > 0
         /\ res.auth \in BOOLEAN /\ res.fatal \in BOOLEAN /\ res.unsupported \in BOOLEAN
         /\ res.failed \in Nat /\ res.serverErrors \in Nat /\ rows \in Nat
         /\ phase = "ended" /\ ~res.fatal /\ ~res.unsupported /\ LeftRowsOff
              => rows > 0 /\ res.failed > 0
<1>1. LP!TypeOK /\ (res.auth => res.failed > 0)
  BY DEF LP!IInv, LP!DenialsCount
<1>2. Lane!TypeOK
  BY <1>1 DEF LP!TypeOK, Lane!TypeOK, LP!Kinds, Lane!Kinds, LP!Phases, Lane!Phases,
              LP!Result, Lane!Result, LP!ServerView, Lane!ServerView
<1>3. /\ res.auth \in BOOLEAN /\ res.fatal \in BOOLEAN /\ res.unsupported \in BOOLEAN
      /\ res.failed \in Nat /\ res.serverErrors \in Nat /\ rows \in Nat
  BY <1>1, SizeAssumption DEF LP!TypeOK, LP!Result
<1>4. LP!CleanRunLandedEveryRow
  BY SizeAssumption, LP!CleanRun
<1>5. ASSUME phase = "ended", ~res.fatal, ~res.unsupported, LeftRowsOff
      PROVE  rows > 0 /\ res.failed > 0
  BY <1>3, <1>4, <1>5 DEF LP!CleanRunLandedEveryRow, LeftRowsOff, Lane!Chunk, LP!Chunk
<1> QED
  BY <1>1, <1>2, <1>3, <1>5

-----------------------------------------------------------------------------
(* The inductive invariant.                                                *)

Early == {"mappings", "probing", "masters"}

\* No status, no error and no exit code before the end, and no status at all
\* for a command.
VerdictComesLast ==
    /\ at # "ended" => status = "idle" /\ returned = "running"
    /\ command # "daemon" => status = "idle"

WalkInOrder ==
    /\ at \in Early => pos = 0
    /\ at \in {"mappings", "probing"} => active = {}
    /\ at = "lane" => pos > 0

RowsMissed == walk.fatal \/ walk.failed

\* The daemon's outcome holds every denial and the walk's totals every run that
\* left rows off.
DaemonKnows ==
    command = "daemon" =>
        /\ at \in Early => ~denied /\ ~outcome.auth
        /\ at # "ended" => ~outcome.fetch /\ ~outcome.noMapping /\ ~outcome.other
        /\ at \notin {"mappings", "ended"} => mapped > 0
        /\ at # "ended" /\ denied => outcome.auth \/ (at = "lane" /\ res.auth)
        /\ at # "ended" /\ short => RowsMissed

CommandInOrder ==
    command # "daemon" =>
        /\ at \notin {"probing", "masters"}
        /\ at \in {"walking", "lane"} => worked /\ left > 0

\* sync-all has only the totals to remember by.
SyncAllKnows ==
    command = "sync-all" /\ at # "ended" =>
        /\ short => RowsMissed
        /\ denied => worked \/ unfetched
        /\ denied => WalkFailed \/ (at = "lane" /\ res.auth)

\* sync has one run, and looks at its counters.
SyncKnows ==
    command = "sync" =>
        /\ Len(scope.kinds) = 1
        /\ at \in {"walking", "lane"} => active = 1 .. 1
        /\ at # "ended" /\ short => /\ at = "walking" /\ pos = 1
                                    /\ res.fatal \/ (rows > 0 /\ res.failed > 0)

Knows == DaemonKnows /\ CommandInOrder /\ SyncAllKnows /\ SyncKnows
Told == VerdictIsEarned /\ DenialReachesTheCaller /\ ErrorAndStatusAgree

IInv == CommandTypeOK /\ LP!IInv /\ VerdictComesLast /\ WalkInOrder /\ Knows /\ Told

\* Nothing is told before the end.
LEMMA SilentBeforeTheEnd == VerdictComesLast /\ at # "ended" => Told
  BY DEF VerdictComesLast, Told, VerdictIsEarned, SuccessIsEarned, DenialReachesTheCaller,
         DenialIsReported, ErrorAndStatusAgree

LEMMA SilentAfter == (VerdictComesLast /\ at # "ended" => Told)'
  BY SilentBeforeTheEnd, PTL

\* A step that leaves the run alone.
LEMMA RunAlone == IInv /\ UNCHANGED laneVars => LP!IInv' /\ Lane!TypeOK'
<1>1. LP!IInv' => Lane!TypeOK'
  BY RunFacts, PTL
<1> QED
  BY <1>1, RunStays DEF IInv

LEMMA TypeFacts ==
  ASSUME CommandTypeOK
  PROVE  /\ scope.kinds \in KindLists /\ scope.request \in BOOLEAN
         /\ Len(scope.kinds) \in Nat \ {0}
         /\ mapped \in Nat /\ active \in SUBSET (1 .. mapped)
         /\ Runs \in Nat /\ pos \in Nat /\ pos <= Runs
<1>1. /\ scope.kinds \in KindLists /\ scope.request \in BOOLEAN
      /\ mapped \in Nat /\ active \in SUBSET (1 .. mapped) /\ pos \in 0 .. Runs
  BY SizeAssumption DEF CommandTypeOK, TypeOK
<1>2. Len(scope.kinds) \in Nat \ {0}
  BY <1>1, KindListFacts
<1>3. Runs \in Nat
  BY <1>1, <1>2, RunsAreCounted DEF Runs
<1> QED
  BY <1>1, <1>2, <1>3

\* A verdict is one of the statuses.
LEMMA StatusType ==
  ASSUME NEW o, NEW skipped
  PROVE  StatusOf(o, skipped) \in {"success", "accepted_tick", "rejected_auth",
                                   "mapping_mismatch", "not_readable"}
  BY DEF StatusOf

-----------------------------------------------------------------------------
LEMMA InitInv == CommandInit => IInv
<1> SUFFICES ASSUME CommandInit PROVE IInv
  OBVIOUS
<1>1. Idle /\ scope \in [request : BOOLEAN, kinds : KindLists]
  BY ScopeKindsAreLists DEF CommandInit, Init, Scopes
<1>2. LP!IInv /\ Lane!TypeOK
  BY <1>1, RunInit, RunFacts DEF Idle
<1>3. Runs \in Nat
  <2>1. Len(scope.kinds) \in Nat
    BY <1>1, KindListFacts
  <2> QED
    BY <1>1, <2>1, RunsAreCounted DEF Runs, Idle
<1>4. TypeOK
  <2>1. mapped \in 0 .. MaxMappings /\ active \subseteq 1 .. mapped /\ pos \in 0 .. Runs
    BY <1>1, <1>3, SizeAssumption DEF Idle
  <2>2. walk \in [fatal : BOOLEAN, failed : BOOLEAN, serverErrors : BOOLEAN]
    BY <1>1 DEF Idle
  <2>3. outcome \in [auth : BOOLEAN, fetch : BOOLEAN, noMapping : BOOLEAN, other : BOOLEAN]
    BY <1>1 DEF Idle
  <2> QED
    BY <1>1, <1>2, <2>1, <2>2, <2>3 DEF TypeOK, Idle
<1>5. CommandTypeOK
  <2>1. command \in {"daemon", "sync", "sync-all"} /\ goOn \in BOOLEAN
        /\ worked \in BOOLEAN /\ unfetched \in BOOLEAN
    BY DEF CommandInit
  <2>2. left \in 0 .. MaxConnections
    <3>1. left = 0 \/ left \in 1 .. MaxConnections
      BY DEF CommandInit
    <3> QED
      BY <3>1, ConnectionsAssumption
  <2> QED
    BY <1>4, <2>1, <2>2 DEF CommandTypeOK
<1>6. VerdictComesLast /\ WalkInOrder /\ at = "mappings" /\ ~denied /\ ~short
  BY <1>1 DEF Idle, VerdictComesLast, WalkInOrder
<1>7. Knows
  BY <1>1, <1>6 DEF Knows, DaemonKnows, CommandInOrder, SyncAllKnows, SyncKnows, Idle, CommandInit
<1> QED
  BY <1>2, <1>5, <1>6, <1>7, SilentBeforeTheEnd DEF IInv

-----------------------------------------------------------------------------
(* The daemon's steps before and after the walk.                           *)

LEMMA FetchFailsStep ==
  ASSUME IInv, NEW isAuth \in BOOLEAN, DaemonStep(FetchFails(isAuth))
  PROVE  IInv'
<1> DEFINE o == [outcome EXCEPT !.auth = isAuth, !.fetch = ~isAuth]
<1> USE DEF DaemonStep, FetchFails, Finish, commandVars, passVars
<1>1. LP!IInv' /\ Lane!TypeOK'
  BY RunAlone
<1>2. /\ outcome \in [auth : BOOLEAN, fetch : BOOLEAN, noMapping : BOOLEAN, other : BOOLEAN]
      /\ (~isAuth) \in BOOLEAN
  BY DEF IInv, CommandTypeOK, TypeOK
<1>3. o \in [auth : BOOLEAN, fetch : BOOLEAN, noMapping : BOOLEAN, other : BOOLEAN]
      /\ o.auth = isAuth /\ o.fetch = ~isAuth
  BY <1>2
<1>4. status' = IF isAuth THEN "rejected_auth" ELSE "mapping_mismatch"
  BY <1>3 DEF StatusOf
<1>5. CommandTypeOK'
  BY <1>1, <1>3, <1>4 DEF IInv, CommandTypeOK, TypeOK, Runs
<1>6. VerdictComesLast' /\ WalkInOrder' /\ Knows'
  BY DEF IInv, VerdictComesLast, WalkInOrder, Knows, DaemonKnows, CommandInOrder,
         SyncAllKnows, SyncKnows, Early
<1>7. Told'
  BY <1>4 DEF Told, VerdictIsEarned, SuccessIsEarned, DenialReachesTheCaller,
         DenialIsReported, ErrorAndStatusAgree
<1> QED
  BY <1>1, <1>5, <1>6, <1>7 DEF IInv

LEMMA NoMappingStep ==
  ASSUME IInv, DaemonStep(NoMapping)
  PROVE  IInv'
<1> DEFINE o == [outcome EXCEPT !.noMapping = TRUE]
<1> USE DEF DaemonStep, NoMapping, Finish, commandVars, passVars
<1>1. LP!IInv' /\ Lane!TypeOK'
  BY RunAlone
<1>2. outcome \in [auth : BOOLEAN, fetch : BOOLEAN, noMapping : BOOLEAN, other : BOOLEAN]
      /\ ~outcome.auth
  BY DEF IInv, CommandTypeOK, TypeOK, Knows, DaemonKnows, Early
<1>3. o \in [auth : BOOLEAN, fetch : BOOLEAN, noMapping : BOOLEAN, other : BOOLEAN]
      /\ ~o.auth /\ o.noMapping
  BY <1>2
<1>4. status' = "mapping_mismatch"
  BY <1>3 DEF StatusOf
<1>5. CommandTypeOK'
  BY <1>1, <1>3, <1>4 DEF IInv, CommandTypeOK, TypeOK, Runs
<1>6. VerdictComesLast' /\ WalkInOrder' /\ Knows'
  BY DEF IInv, VerdictComesLast, WalkInOrder, Knows, DaemonKnows, CommandInOrder,
         SyncAllKnows, SyncKnows, Early
<1>7. Told'
  BY <1>4 DEF IInv, Told, VerdictIsEarned, SuccessIsEarned, DenialReachesTheCaller,
         DenialIsReported, ErrorAndStatusAgree, Knows, DaemonKnows, Early
<1> QED
  BY <1>1, <1>5, <1>6, <1>7 DEF IInv

LEMMA MappingsFetchedStep ==
  ASSUME IInv, NEW n \in 1 .. MaxMappings, DaemonStep(MappingsFetched(n))
  PROVE  IInv'
<1> USE DEF DaemonStep, MappingsFetched, commandVars, passVars
<1>1. LP!IInv' /\ Lane!TypeOK'
  BY RunAlone
<1>2. CommandTypeOK'
  <2>1. mapped' \in 0 .. MaxMappings /\ active' \subseteq 1 .. mapped'
    BY SizeAssumption DEF IInv, WalkInOrder
  <2> QED
    BY <1>1, <2>1 DEF IInv, CommandTypeOK, TypeOK, Runs
<1>3. VerdictComesLast' /\ WalkInOrder' /\ Knows'
  <2>1. VerdictComesLast' /\ WalkInOrder'
    BY DEF IInv, VerdictComesLast, WalkInOrder, Early
  <2>2. DaemonKnows'
    BY DEF IInv, Knows, DaemonKnows, RowsMissed, Early
  <2>3. CommandInOrder' /\ SyncAllKnows' /\ SyncKnows'
    BY DEF CommandInOrder, SyncAllKnows, SyncKnows
  <2> QED
    BY <2>1, <2>2, <2>3 DEF Knows
<1>4. Told'
  BY <1>3, SilentAfter
<1> QED
  BY <1>1, <1>2, <1>3, <1>4 DEF IInv

LEMMA MappingsResolvedStep ==
  ASSUME IInv, NEW readable \in SUBSET (1 .. mapped), DaemonStep(MappingsResolved(readable))
  PROVE  IInv'
<1> USE DEF DaemonStep, MappingsResolved, commandVars
<1>1. LP!IInv' /\ Lane!TypeOK'
  BY RunAlone
<1>2. /\ ~outcome.auth /\ ~outcome.fetch /\ ~outcome.noMapping /\ ~outcome.other
      /\ ~denied /\ mapped > 0 /\ pos = 0
      /\ mapped \in Nat
  BY TypeFacts DEF IInv, Knows, DaemonKnows, WalkInOrder, Early
<1>3. \/ /\ readable = {} /\ at' = "ended" /\ outcome' = outcome
         /\ returned' = "error" /\ status' = "not_readable"
      \/ /\ at' = "masters" /\ UNCHANGED <<outcome, status, returned>>
  <2>1. StatusOf(outcome, 1 .. mapped) = "not_readable"
    BY <1>2 DEF StatusOf
  <2> QED
    BY <2>1 DEF Finish
<1>4. CommandTypeOK'
  <2>1. Len(scope.kinds) \in Nat
    BY TypeFacts DEF IInv
  <2>2. Runs' \in Nat
    BY <1>2, <2>1, RunsAreCounted DEF Runs
  <2>3. pos' \in 0 .. Runs'
    BY <1>2, <2>2
  <2> QED
    BY <1>1, <1>3, <2>3 DEF IInv, CommandTypeOK, TypeOK
<1>5. VerdictComesLast' /\ WalkInOrder'
  BY <1>2, <1>3 DEF IInv, VerdictComesLast, WalkInOrder, Early
<1>6. DaemonKnows'
  BY <1>2, <1>3 DEF IInv, Knows, DaemonKnows, RowsMissed, Early
<1>7. CommandInOrder' /\ SyncAllKnows' /\ SyncKnows'
  BY DEF CommandInOrder, SyncAllKnows, SyncKnows
<1>8. Told'
  <2>1. CASE at' = "ended"
    BY <1>2, <1>3, <2>1 DEF Told, VerdictIsEarned, SuccessIsEarned, DenialReachesTheCaller,
                            DenialIsReported, ErrorAndStatusAgree
  <2>2. CASE at' # "ended"
    BY <1>5, <2>2, SilentAfter
  <2> QED
    BY <2>1, <2>2
<1> QED
  BY <1>1, <1>4, <1>5, <1>6, <1>7, <1>8 DEF IInv, Knows

LEMMA MastersPushedStep ==
  ASSUME IInv, NEW isAuth \in BOOLEAN, DaemonStep(MastersPushed(isAuth))
  PROVE  IInv'
<1> USE DEF DaemonStep, MastersPushed, commandVars
<1>1. LP!IInv' /\ Lane!TypeOK'
  BY RunAlone
<1>2. outcome \in [auth : BOOLEAN, fetch : BOOLEAN, noMapping : BOOLEAN, other : BOOLEAN]
  BY DEF IInv, CommandTypeOK, TypeOK
<1>3. /\ outcome' \in [auth : BOOLEAN, fetch : BOOLEAN, noMapping : BOOLEAN, other : BOOLEAN]
      /\ outcome'.auth = isAuth /\ outcome'.fetch = outcome.fetch
      /\ outcome'.noMapping = outcome.noMapping /\ outcome'.other = outcome.other
  BY <1>2
<1>4. CommandTypeOK'
  BY <1>1, <1>3 DEF IInv, CommandTypeOK, TypeOK, Runs
<1>5. VerdictComesLast' /\ WalkInOrder'
  BY DEF IInv, VerdictComesLast, WalkInOrder, Early
<1>6. DaemonKnows'
  BY <1>3 DEF IInv, Knows, DaemonKnows, RowsMissed, Early
<1>7. CommandInOrder' /\ SyncAllKnows' /\ SyncKnows'
  BY DEF CommandInOrder, SyncAllKnows, SyncKnows
<1>8. Told'
  BY <1>5, SilentAfter
<1> QED
  BY <1>1, <1>4, <1>5, <1>6, <1>7, <1>8 DEF IInv, Knows

\* The verdict of a walk: nothing missed and nobody skipped, or it says so.
LEMMA EndWalkStep ==
  ASSUME IInv, DaemonStep(EndWalk)
  PROVE  IInv'
<1> DEFINE o == [outcome EXCEPT !.other = WalkFailed]
<1> USE DEF DaemonStep, EndWalk, Finish, commandVars
<1>1. LP!IInv' /\ Lane!TypeOK'
  BY RunAlone
<1>2. /\ outcome \in [auth : BOOLEAN, fetch : BOOLEAN, noMapping : BOOLEAN, other : BOOLEAN]
      /\ WalkFailed \in BOOLEAN
  BY DEF IInv, CommandTypeOK, TypeOK, WalkFailed
<1>3. /\ o \in [auth : BOOLEAN, fetch : BOOLEAN, noMapping : BOOLEAN, other : BOOLEAN]
      /\ o.auth = outcome.auth /\ o.fetch = outcome.fetch
      /\ o.noMapping = outcome.noMapping /\ o.other = WalkFailed
  BY <1>2
<1>4. /\ ~outcome.fetch /\ ~outcome.noMapping /\ mapped > 0
      /\ denied => outcome.auth
      /\ short => WalkFailed
  BY DEF IInv, Knows, DaemonKnows, RowsMissed, WalkFailed
<1>5. /\ at' = "ended" /\ outcome' = o
      /\ returned' = IF WalkFailed \/ Skipped # {} THEN "error" ELSE "nil"
      /\ status' = IF outcome.auth THEN "rejected_auth"
                   ELSE IF Skipped # {} THEN "not_readable"
                   ELSE IF WalkFailed THEN "accepted_tick" ELSE "success"
  <2> HIDE DEF o
  <2> QED
    BY <1>3, <1>4 DEF StatusOf, o
<1>6. CommandTypeOK'
  BY <1>1, <1>3, <1>5 DEF IInv, CommandTypeOK, TypeOK, Runs
<1>7. VerdictComesLast' /\ WalkInOrder'
  BY <1>5 DEF VerdictComesLast, WalkInOrder, Early
<1>8. Knows'
  BY <1>4, <1>5 DEF Knows, DaemonKnows, CommandInOrder, SyncAllKnows, SyncKnows, Early
<1>9. Told'
  <2>1. Skipped' = Skipped
    BY DEF Skipped
  <2>2. VerdictIsEarned'
    BY <1>4, <1>5, <2>1 DEF VerdictIsEarned, SuccessIsEarned
  <2>3. DenialReachesTheCaller'
    BY <1>4, <1>5 DEF DenialReachesTheCaller, DenialIsReported
  <2>4. ErrorAndStatusAgree'
    BY <1>5 DEF ErrorAndStatusAgree
  <2> QED
    BY <2>2, <2>3, <2>4 DEF Told
<1> QED
  BY <1>1, <1>6, <1>7, <1>8, <1>9 DEF IInv

-----------------------------------------------------------------------------
(* The walk, the daemon's or a command's.                                  *)

LEMMA OneRun ==
  ASSUME IInv, command = "sync", at \in {"walking", "lane"}
  PROVE  Runs = 1
<1>1. active = 1 .. 1 /\ Len(scope.kinds) = 1
  BY DEF IInv, Knows, SyncKnows
<1>2. Cardinality(1 .. 1) = 1
  <2>1. 1 \in Int
    OBVIOUS
  <2>2. Cardinality(1 .. 1) = IF 1 > 1 THEN 0 ELSE 1 - 1 + 1
    BY <2>1, FS_Interval
  <2> QED
    BY <2>2
<1> QED
  BY <1>1, <1>2 DEF Runs

LEMMA StartRunStep ==
  ASSUME IInv, StartRun, UNCHANGED commandVars
  PROVE  IInv'
<1> USE DEF StartRun, commandVars
<1>1. /\ scope.request \in BOOLEAN /\ cancelled \in BOOLEAN
      /\ Len(scope.kinds) \in Nat \ {0} /\ pos \in Nat /\ Runs \in Nat /\ pos < Runs
      /\ \A j \in 1 .. Len(scope.kinds) : scope.kinds[j] \in Lane!Kinds
  BY TypeFacts, KindListFacts DEF IInv, CommandTypeOK, TypeOK, RunsLeft
<1>2. kind' \in Lane!Kinds
  <2>1. 1 + (pos % Len(scope.kinds)) \in 1 .. Len(scope.kinds)
    BY <1>1, PlaceInList
  <2> QED
    BY <1>1, <2>1
<1>3. LP!Fresh'
  BY <1>1, <1>2 DEF LP!Fresh, LP!Kinds, Lane!Kinds, LP!FirstPhase, Lane!FirstPhase,
                    LP!Snapshots, Lane!Snapshots, LP!NoResult, Lane!NoResult,
                    LP!NothingStored, Lane!NothingStored
<1>4. LP!IInv'
  BY <1>3, RunStarts
<1>5. CommandTypeOK'
  <2>1. Lane!TypeOK'
    BY <1>4, RunFacts, PTL
  <2>2. pos' \in 0 .. Runs'
    BY <1>1 DEF Runs
  <2> QED
    BY <2>1, <2>2 DEF IInv, CommandTypeOK, TypeOK
<1>6. VerdictComesLast' /\ WalkInOrder'
  BY <1>1 DEF IInv, VerdictComesLast, WalkInOrder, Early
<1>7. DaemonKnows'
  BY DEF IInv, Knows, DaemonKnows, RowsMissed, Early
<1>8. CommandInOrder'
  BY DEF IInv, Knows, CommandInOrder
<1>9. SyncAllKnows'
  BY DEF IInv, Knows, SyncAllKnows, CommandInOrder, RowsMissed, WalkFailed
<1>10. SyncKnows'
  BY <1>1, OneRun DEF IInv, Knows, SyncKnows
<1>11. Told'
  BY <1>6, SilentAfter
<1> QED
  BY <1>4, <1>5, <1>6, <1>7, <1>8, <1>9, <1>10, <1>11 DEF IInv, Knows

LEMMA RunStepStep ==
  ASSUME IInv, RunStep, UNCHANGED commandVars
  PROVE  IInv'
<1> USE DEF RunStep, commandVars
<1>1. LP!IInv' /\ (res.auth => res'.auth)
  BY RunGoesOn DEF IInv
<1>2. Lane!TypeOK'
  BY <1>1, RunFacts, PTL
<1>3. CommandTypeOK'
  BY <1>2 DEF IInv, CommandTypeOK, TypeOK, Runs
<1>4. VerdictComesLast' /\ WalkInOrder'
  BY DEF IInv, VerdictComesLast, WalkInOrder, Early
<1>5. DaemonKnows'
  BY <1>1 DEF IInv, Knows, DaemonKnows, RowsMissed, Early
<1>6. CommandInOrder'
  BY DEF IInv, Knows, CommandInOrder
<1>7. SyncAllKnows'
  BY <1>1 DEF IInv, Knows, SyncAllKnows, CommandInOrder, RowsMissed, WalkFailed
<1>8. SyncKnows'
  BY DEF IInv, Knows, SyncKnows
<1>9. Told'
  BY <1>4, SilentAfter
<1> QED
  BY <1>1, <1>3, <1>4, <1>5, <1>6, <1>7, <1>8, <1>9 DEF IInv, Knows

\* What the totals keep of a run that has ended.
LEMMA AddUpKeeps ==
  ASSUME IInv, phase = "ended"
  PROVE  /\ AddUp \in [fatal : BOOLEAN, failed : BOOLEAN, serverErrors : BOOLEAN]
         /\ RowsMissed => AddUp.fatal \/ AddUp.failed
         /\ WalkFailed => AddUp.fatal \/ AddUp.failed \/ AddUp.serverErrors
         /\ res.fatal \/ res.failed > 0 => AddUp.fatal \/ AddUp.failed
<1>1. /\ walk \in [fatal : BOOLEAN, failed : BOOLEAN, serverErrors : BOOLEAN]
      /\ res.fatal \in BOOLEAN
      /\ (walk.failed \/ res.failed > 0) \in BOOLEAN
      /\ (walk.serverErrors \/ res.serverErrors > 0) \in BOOLEAN
  BY RunFacts DEF IInv, CommandTypeOK, TypeOK
<1>2. CASE res.fatal
  <2>1. AddUp = [walk EXCEPT !.fatal = TRUE]
    BY <1>2 DEF AddUp
  <2> QED
    BY <1>1, <2>1 DEF RowsMissed, WalkFailed
<1>3. CASE ~res.fatal
  <2>1. AddUp = [walk EXCEPT !.failed = walk.failed \/ res.failed > 0,
                             !.serverErrors = walk.serverErrors \/ res.serverErrors > 0]
    BY <1>3 DEF AddUp, Counted
  <2>2. /\ AddUp \in [fatal : BOOLEAN, failed : BOOLEAN, serverErrors : BOOLEAN]
        /\ AddUp.fatal = walk.fatal
        /\ AddUp.failed = (walk.failed \/ res.failed > 0)
        /\ AddUp.serverErrors = (walk.serverErrors \/ res.serverErrors > 0)
    BY <1>1, <2>1
  <2> QED
    BY <1>3, <2>2 DEF RowsMissed, WalkFailed
<1> QED
  BY <1>2, <1>3

LEMMA EndRunStep ==
  ASSUME IInv, EndRun, UNCHANGED commandVars
  PROVE  IInv'
<1> USE DEF EndRun, commandVars
<1>1. LP!IInv' /\ Lane!TypeOK'
  BY RunAlone
<1>2. /\ res.auth => res.failed > 0
      /\ res.auth \in BOOLEAN /\ res.fatal \in BOOLEAN /\ LeftRowsOff \in BOOLEAN
      /\ ~res.fatal /\ ~res.unsupported /\ LeftRowsOff => rows > 0 /\ res.failed > 0
  BY RunFacts DEF IInv, LeftRowsOff
<1>3. /\ outcome' \in [auth : BOOLEAN, fetch : BOOLEAN, noMapping : BOOLEAN, other : BOOLEAN]
      /\ outcome'.auth = (outcome.auth \/ res.auth) /\ outcome'.fetch = outcome.fetch
      /\ outcome'.noMapping = outcome.noMapping /\ outcome'.other = outcome.other
  <2>1. /\ outcome \in [auth : BOOLEAN, fetch : BOOLEAN, noMapping : BOOLEAN, other : BOOLEAN]
        /\ (outcome.auth \/ res.auth) \in BOOLEAN
    BY <1>2 DEF IInv, CommandTypeOK, TypeOK
  <2> QED
    BY <2>1
<1>4. /\ walk' \in [fatal : BOOLEAN, failed : BOOLEAN, serverErrors : BOOLEAN]
      /\ RowsMissed => RowsMissed'
      /\ WalkFailed => WalkFailed'
      /\ res.fatal \/ res.failed > 0 => RowsMissed'
  <2>1. RowsMissed' = (AddUp.fatal \/ AddUp.failed)
    BY DEF RowsMissed
  <2>2. WalkFailed' = (AddUp.fatal \/ AddUp.failed \/ AddUp.serverErrors)
    BY DEF WalkFailed
  <2> QED
    BY <2>1, <2>2, AddUpKeeps
<1>5. short' => short \/ res.fatal \/ (rows > 0 /\ res.failed > 0)
  BY <1>2
<1>6. CommandTypeOK'
  <2>1. short' \in BOOLEAN
    BY <1>2 DEF IInv, CommandTypeOK, TypeOK
  <2> QED
    BY <1>1, <1>3, <1>4, <2>1 DEF IInv, CommandTypeOK, TypeOK, Runs
<1>7. VerdictComesLast' /\ WalkInOrder'
  BY DEF IInv, VerdictComesLast, WalkInOrder, Early
<1>8. DaemonKnows'
  BY <1>3, <1>4, <1>5 DEF IInv, Knows, DaemonKnows, Early
<1>9. CommandInOrder'
  BY DEF IInv, Knows, CommandInOrder
<1>10. SyncAllKnows'
  <2>1. RowsMissed' => WalkFailed'
    BY DEF RowsMissed, WalkFailed
  <2> QED
    BY <1>2, <1>4, <1>5, <2>1 DEF IInv, Knows, SyncAllKnows
<1>11. SyncKnows'
  <2>1. command = "sync" => pos = 1 /\ ~short
    BY OneRun, TypeFacts DEF IInv, Knows, SyncKnows, WalkInOrder
  <2> QED
    BY <1>5, <2>1 DEF IInv, Knows, SyncKnows, laneVars
<1>12. Told'
  BY <1>7, SilentAfter
<1> QED
  BY <1>1, <1>6, <1>7, <1>8, <1>9, <1>10, <1>11, <1>12 DEF IInv, Knows

LEMMA CancelStep ==
  ASSUME IInv, DaemonStep(Cancel)
  PROVE  IInv'
<1> USE DEF DaemonStep, Cancel, commandVars
<1>1. LP!IInv'
  <2>1. ctxDone \in BOOLEAN
    BY DEF IInv, CommandTypeOK, TypeOK, Lane!TypeOK
  <2>2. ctxDone' \in BOOLEAN /\ (ctxDone => ctxDone')
    BY <2>1
  <2> QED
    BY <2>2, RunIsCancelled DEF IInv
<1>2. CommandTypeOK'
  <2>1. Lane!TypeOK'
    BY <1>1, RunFacts, PTL
  <2> QED
    BY <2>1 DEF IInv, CommandTypeOK, TypeOK, Runs
<1>3. VerdictComesLast' /\ WalkInOrder'
  BY DEF IInv, VerdictComesLast, WalkInOrder, Early
<1>4. DaemonKnows'
  BY DEF IInv, Knows, DaemonKnows, RowsMissed, Early
<1>5. CommandInOrder' /\ SyncAllKnows' /\ SyncKnows'
  BY DEF CommandInOrder, SyncAllKnows, SyncKnows
<1>6. Told'
  BY <1>3, SilentAfter
<1> QED
  BY <1>1, <1>2, <1>3, <1>4, <1>5, <1>6 DEF IInv, Knows

-----------------------------------------------------------------------------
(* The commands' steps before and after the walk.                          *)

\* What every way out of a command leaves as it was.
LEMMA ExitKeeps ==
  ASSUME IInv, NEW how \in {"nil", "error", "usage"}, Exit(how), command # "daemon",
         denied' \in BOOLEAN, unfetched' \in BOOLEAN
  PROVE  LP!IInv' /\ CommandTypeOK' /\ VerdictComesLast' /\ WalkInOrder' /\ Knows'
<1> USE DEF Exit
<1>1. LP!IInv' /\ Lane!TypeOK'
  BY RunAlone
<1>2. CommandTypeOK'
  BY <1>1 DEF IInv, CommandTypeOK, TypeOK, Runs
<1>3. VerdictComesLast' /\ WalkInOrder'
  BY DEF IInv, VerdictComesLast, WalkInOrder, Early
<1>4. Knows'
  BY DEF IInv, Knows, DaemonKnows, CommandInOrder, SyncAllKnows, SyncKnows
<1> QED
  BY <1>1, <1>2, <1>3, <1>4

\* An error is always a safe thing to tell.
LEMMA ErrorExit ==
  ASSUME IInv, Exit("error"), command # "daemon", denied' \in BOOLEAN, unfetched' \in BOOLEAN
  PROVE  IInv'
<1>1. LP!IInv' /\ CommandTypeOK' /\ VerdictComesLast' /\ WalkInOrder' /\ Knows'
  BY ExitKeeps
<1>2. Told'
  BY <1>1 DEF Exit, Told, VerdictIsEarned, SuccessIsEarned, DenialReachesTheCaller,
              DenialIsReported, ErrorAndStatusAgree, VerdictComesLast
<1> QED
  BY <1>1, <1>2 DEF IInv

\* The next connection finds what the walks so far have left in the totals.
LEMMA NextConnectionKeeps ==
  ASSUME IInv, NextConnection, command = "sync-all", at # "ended", left > 0,
         walk' \in [fatal : BOOLEAN, failed : BOOLEAN, serverErrors : BOOLEAN],
         denied' \in BOOLEAN, unfetched' \in BOOLEAN,
         short => RowsMissed',
         denied' => WalkFailed' /\ (worked \/ unfetched')
  PROVE  IInv'
<1> USE DEF NextConnection
<1>1. LP!IInv' /\ Lane!TypeOK'
  BY RunAlone
<1>2. CommandTypeOK'
  <2>1. Len(scope.kinds) \in Nat /\ mapped \in Nat
    BY TypeFacts DEF IInv
  <2>2. Runs' \in Nat
    <3>1. {} \in SUBSET (1 .. mapped)
      OBVIOUS
    <3> QED
      BY <2>1, <3>1, RunsAreCounted DEF Runs
  <2>3. pos' \in 0 .. Runs' /\ active' \subseteq 1 .. mapped'
    BY <2>2
  <2>4. left' \in 0 .. MaxConnections
    BY ConnectionsAssumption DEF IInv, CommandTypeOK
  <2> QED
    BY <1>1, <2>3, <2>4 DEF IInv, CommandTypeOK, TypeOK
<1>3. VerdictComesLast' /\ WalkInOrder'
  BY DEF IInv, VerdictComesLast, WalkInOrder, Early
<1>4. Knows'
  BY DEF Knows, DaemonKnows, CommandInOrder, SyncAllKnows, SyncKnows
<1>5. Told'
  BY <1>3, SilentAfter
<1> QED
  BY <1>1, <1>2, <1>3, <1>4, <1>5 DEF IInv

LEMMA SecretsUnreadableStep ==
  ASSUME IInv, SecretsUnreadable
  PROVE  IInv'
<1>1. denied' \in BOOLEAN /\ unfetched' \in BOOLEAN
  BY DEF SecretsUnreadable, IInv, CommandTypeOK, TypeOK
<1> QED
  BY <1>1, ErrorExit DEF SecretsUnreadable, Fetching

LEMMA CommandFetchFailsStep ==
  ASSUME IInv, NEW isAuth \in BOOLEAN, CommandFetchFails(isAuth)
  PROVE  IInv'
<1> USE DEF CommandFetchFails, Fetching
<1>1. denied' \in BOOLEAN /\ unfetched' \in BOOLEAN /\ unfetched'
  BY DEF IInv, CommandTypeOK, TypeOK
<1>2. CASE ~goOn
  BY <1>1, <1>2, ErrorExit
<1>3. CASE goOn
  <2>1. walk \in [fatal : BOOLEAN, failed : BOOLEAN, serverErrors : BOOLEAN]
    BY DEF IInv, CommandTypeOK, TypeOK
  <2>2. walk' = [walk EXCEPT !.fatal = TRUE] /\ NextConnection
    BY <1>3
  <2>3. walk' \in [fatal : BOOLEAN, failed : BOOLEAN, serverErrors : BOOLEAN] /\ walk'.fatal
    BY <2>1, <2>2
  <2>4. RowsMissed' /\ WalkFailed'
    BY <2>3 DEF RowsMissed, WalkFailed
  <2> QED
    BY <1>1, <2>2, <2>3, <2>4, NextConnectionKeeps
<1> QED
  BY <1>2, <1>3 DEF IInv, CommandTypeOK

LEMMA CommandNoMappingStep ==
  ASSUME IInv, CommandNoMapping
  PROVE  IInv'
<1> USE DEF CommandNoMapping, Fetching
<1>1. /\ denied' \in BOOLEAN /\ unfetched' \in BOOLEAN
      /\ walk' \in [fatal : BOOLEAN, failed : BOOLEAN, serverErrors : BOOLEAN]
  BY DEF IInv, CommandTypeOK, TypeOK
<1>2. /\ short => RowsMissed'
      /\ denied' => WalkFailed' /\ (worked \/ unfetched')
  BY DEF IInv, Knows, SyncAllKnows, RowsMissed, WalkFailed
<1> QED
  BY <1>1, <1>2, NextConnectionKeeps

LEMMA CompaniesKnownStep ==
  ASSUME IInv, NEW n \in 1 .. MaxMappings, CompaniesKnown(n)
  PROVE  IInv'
<1> USE DEF CompaniesKnown, Fetching
<1>1. LP!IInv' /\ Lane!TypeOK'
  BY RunAlone
<1>2. CommandTypeOK'
  <2>1. Len(scope.kinds) \in Nat /\ n \in Nat /\ mapped' \in 0 .. MaxMappings
    BY TypeFacts, SizeAssumption DEF IInv
  <2>2. Runs' \in Nat
    <3>1. 1 .. n \in SUBSET (1 .. n)
      OBVIOUS
    <3> QED
      BY <2>1, <3>1, RunsAreCounted DEF Runs
  <2>3. pos' \in 0 .. Runs' /\ active' \subseteq 1 .. mapped'
    BY <2>2 DEF IInv, WalkInOrder, Early
  <2> QED
    BY <1>1, <2>1, <2>3 DEF IInv, CommandTypeOK, TypeOK
<1>3. VerdictComesLast' /\ WalkInOrder'
  BY DEF IInv, VerdictComesLast, WalkInOrder, Early
<1>4. DaemonKnows' /\ CommandInOrder' /\ SyncAllKnows'
  BY DEF IInv, Knows, DaemonKnows, CommandInOrder, SyncAllKnows, RowsMissed, WalkFailed
<1>5. SyncKnows'
  BY DEF IInv, Knows, SyncKnows
<1>6. Told'
  BY <1>3, SilentAfter
<1> QED
  BY <1>1, <1>2, <1>3, <1>4, <1>5, <1>6 DEF IInv, Knows

LEMMA StopEarlyStep ==
  ASSUME IInv, StopEarly
  PROVE  IInv'
<1>1. denied' \in BOOLEAN /\ unfetched' \in BOOLEAN
  BY DEF StopEarly, IInv, CommandTypeOK, TypeOK
<1> QED
  BY <1>1, ErrorExit DEF StopEarly

LEMMA EndConnectionStep ==
  ASSUME IInv, EndConnection
  PROVE  IInv'
<1> USE DEF EndConnection
<1>1. /\ denied' \in BOOLEAN /\ unfetched' \in BOOLEAN
      /\ walk' \in [fatal : BOOLEAN, failed : BOOLEAN, serverErrors : BOOLEAN]
  BY DEF IInv, CommandTypeOK, TypeOK
<1>2. /\ short => RowsMissed'
      /\ denied' => WalkFailed' /\ (worked \/ unfetched')
      /\ left > 0
  BY DEF IInv, Knows, SyncAllKnows, CommandInOrder, RowsMissed, WalkFailed
<1> QED
  BY <1>1, <1>2, NextConnectionKeeps

\* The exit code of sync: 0 only when its one run left nothing off.
LEMMA EndSyncStep ==
  ASSUME IInv, EndSync
  PROVE  IInv'
<1> DEFINE bad == res.fatal \/ (rows > 0 /\ (res.failed > 0 \/ res.serverErrors > 0))
<1> USE DEF EndSync
<1>1. denied' \in BOOLEAN /\ unfetched' \in BOOLEAN
  BY DEF IInv, CommandTypeOK, TypeOK
<1>2. CASE bad
  BY <1>1, <1>2, ErrorExit
<1>3. CASE ~bad
  <2>1. Exit("nil") /\ ~short /\ worked /\ status = "idle"
    BY <1>3 DEF IInv, Knows, SyncKnows, CommandInOrder, VerdictComesLast
  <2>2. LP!IInv' /\ CommandTypeOK' /\ VerdictComesLast' /\ WalkInOrder' /\ Knows'
    BY <1>1, <2>1, ExitKeeps
  <2>3. Told'
    BY <2>1 DEF Exit, Told, VerdictIsEarned, SuccessIsEarned, DenialReachesTheCaller,
                DenialIsReported, ErrorAndStatusAgree
  <2> QED
    BY <2>2, <2>3 DEF IInv
<1> QED
  BY <1>2, <1>3

\* The exit code of sync-all: 0 only when the totals hold nothing against it.
LEMMA SummaryStep ==
  ASSUME IInv, Summary
  PROVE  IInv'
<1> USE DEF Summary
<1>1. denied' \in BOOLEAN /\ unfetched' \in BOOLEAN /\ denied' = denied
  BY DEF IInv, CommandTypeOK, TypeOK
<1>2. /\ short => WalkFailed
      /\ denied => WalkFailed /\ (worked \/ unfetched)
      /\ status = "idle"
  BY DEF IInv, Knows, SyncAllKnows, VerdictComesLast, RowsMissed, WalkFailed
<1>3. PICK how \in {"nil", "error", "usage"} :
        /\ Exit(how)
        /\ how = "nil" => worked /\ ~WalkFailed
        /\ how = "usage" => ~worked /\ ~unfetched
  <2>1. CASE ~worked /\ unfetched
    BY <2>1
  <2>2. CASE ~worked /\ ~unfetched
    BY <2>2
  <2>3. CASE worked /\ WalkFailed
    BY <2>3
  <2>4. CASE worked /\ ~WalkFailed
    BY <2>4
  <2> QED
    BY <2>1, <2>2, <2>3, <2>4
<1>4. LP!IInv' /\ CommandTypeOK' /\ VerdictComesLast' /\ WalkInOrder' /\ Knows'
  BY <1>1, <1>3, ExitKeeps
<1>5. at' = "ended" /\ returned' = how /\ UNCHANGED <<status, short, worked, command>>
  BY <1>3 DEF Exit
<1>6. Told'
  BY <1>1, <1>2, <1>3, <1>5 DEF Told, VerdictIsEarned, SuccessIsEarned,
        DenialReachesTheCaller, DenialIsReported, ErrorAndStatusAgree
<1> QED
  BY <1>4, <1>6 DEF IInv

-----------------------------------------------------------------------------
(* The theorems.                                                           *)

LEMMA Stutter == IInv /\ UNCHANGED allVars => IInv'
<1> SUFFICES ASSUME IInv, UNCHANGED allVars PROVE IInv'
  OBVIOUS
<1> USE DEF allVars, vars, passVars, commandVars
<1>1. LP!IInv' /\ Lane!TypeOK'
  BY RunAlone
<1>2. CommandTypeOK'
  BY <1>1 DEF IInv, CommandTypeOK, TypeOK, Runs
<1>3. VerdictComesLast' /\ WalkInOrder'
  BY DEF IInv, VerdictComesLast, WalkInOrder, Early
<1>4. Knows'
  BY DEF IInv, Knows, DaemonKnows, CommandInOrder, SyncAllKnows, SyncKnows, RowsMissed,
         WalkFailed, Early, laneVars
<1>5. Told'
  BY DEF IInv, Told, VerdictIsEarned, SuccessIsEarned, DenialReachesTheCaller,
         DenialIsReported, ErrorAndStatusAgree, Skipped
<1> QED
  BY <1>1, <1>2, <1>3, <1>4, <1>5 DEF IInv

LEMMA Step == IInv /\ [CommandNext]_allVars => IInv'
<1> SUFFICES ASSUME IInv, [CommandNext]_allVars PROVE IInv'
  OBVIOUS
<1>1. CASE DaemonStep(Next)
  <2>1. CASE DaemonStep(Prepare)
    BY <2>1, FetchFailsStep, NoMappingStep, MappingsFetchedStep, MappingsResolvedStep,
       MastersPushedStep DEF DaemonStep, Prepare
  <2>2. CASE DaemonStep(Walk)
    BY <2>2, StartRunStep, RunStepStep, EndRunStep, EndWalkStep DEF DaemonStep, Walk
  <2>3. CASE DaemonStep(Cancel)
    BY <2>3, CancelStep
  <2> QED
    BY <1>1, <2>1, <2>2, <2>3 DEF DaemonStep, Next
<1>2. CASE CommandWalks
  BY <1>2, StartRunStep, RunStepStep, EndRunStep DEF CommandWalks, WalkStep
<1>3. CASE Command /\ ~CommandWalks
  BY <1>3, SecretsUnreadableStep, CommandFetchFailsStep, CommandNoMappingStep,
     CompaniesKnownStep, StopEarlyStep, EndConnectionStep, EndSyncStep, SummaryStep DEF Command
<1> QED
  BY <1>1, <1>2, <1>3, Stutter DEF CommandNext, Command

\* The inductive invariant holds in every reachable state.
THEOREM Invariance == CommandSpec => []IInv
  BY InitInv, Step, PTL DEF CommandSpec

\* Every variable stays in its type; the walk never passes its last run.
THEOREM TypeCorrect == CommandSpec => []CommandTypeOK
  BY Invariance, PTL DEF IInv

\* A success and an exit code 0 are earned: no row read was left off the server,
\* whatever the number of companies, lanes, batches and connections, and however
\* the context of the daemon's sync ended.
THEOREM VerdictEarned == CommandSpec => []VerdictIsEarned
  BY Invariance, PTL DEF IInv, Told

\* A rejected credential met by any request of any run is in the daemon's status
\* or in the exit code of sync-all.
THEOREM DenialTold == CommandSpec => []DenialReachesTheCaller
  BY Invariance, PTL DEF IInv, Told

\* The error the scheduler retries on and the status the operator sees agree.
THEOREM ErrorAgrees == CommandSpec => []ErrorAndStatusAgree
  BY Invariance, PTL DEF IInv, Told

\* What a run promises by itself it keeps as one of a walk's, whose context may
\* have ended before it began: a month the server believes complete is complete.
THEOREM EverySnapshotIsWhole == CommandSpec => []Lane!CompleteSnapshotIsWhole
<1>1. LP!IInv => LP!CompleteSnapshotIsWhole
  BY SizeAssumption, LP!WholeSnapshot
<1>2. IInv => Lane!CompleteSnapshotIsWhole
  BY <1>1 DEF IInv, LP!CompleteSnapshotIsWhole, Lane!CompleteSnapshotIsWhole,
              LP!Chunk, Lane!Chunk
<1> QED
  BY <1>2, Invariance, PTL

-----------------------------------------------------------------------------
(* A sync gets on.                                                         *)

Stage == [mappings |-> 4, probing |-> 3, masters |-> 2, walking |-> 1, lane |-> 1, ended |-> 0]

\* What is left: the context's end, the connections, the stages of this one, its
\* runs, the run the walk is at, and then what is left of that run.
ToGo == <<IF cancelled THEN 0 ELSE 1, left, Stage[at], Runs - pos, IF at = "lane" THEN 1 ELSE 0>>

Descends == LP!Below(ToGo', ToGo) \/ (ToGo' = ToGo /\ LP!Descends)

LEMMA ToGoIsNatural == IInv => ToGo \in {0, 1} \X Nat \X Nat \X Nat \X {0, 1}
<1> SUFFICES ASSUME IInv PROVE ToGo \in {0, 1} \X Nat \X Nat \X Nat \X {0, 1}
  OBVIOUS
<1>1. Runs - pos \in Nat
  BY TypeFacts DEF IInv
<1>2. left \in Nat
  BY ConnectionsAssumption DEF IInv, CommandTypeOK
<1>3. Stage[at] \in Nat
  BY DEF IInv, CommandTypeOK, TypeOK, Stage
<1> QED
  BY <1>1, <1>2, <1>3 DEF ToGo

LEMMA StepDescends ==
  ASSUME IInv, CommandNext
  PROVE  Descends
<1>1. /\ cancelled \in BOOLEAN /\ left \in Nat /\ Runs \in Nat /\ pos \in Nat /\ pos <= Runs
      /\ at \in {"mappings", "probing", "masters", "walking", "lane", "ended"}
  BY TypeFacts, ConnectionsAssumption DEF IInv, CommandTypeOK, TypeOK
\* One step for each component.
<1>2. ASSUME ~cancelled, cancelled' PROVE Descends
  BY <1>2 DEF Descends, LP!Below, ToGo
<1>3. ASSUME cancelled' = cancelled, left' < left PROVE Descends
  BY <1>3 DEF Descends, LP!Below, ToGo
<1>4. ASSUME cancelled' = cancelled, left' = left, Stage[at'] < Stage[at] PROVE Descends
  BY <1>4 DEF Descends, LP!Below, ToGo
<1>5. ASSUME cancelled' = cancelled, left' = left, Stage[at'] = Stage[at], Runs' - pos' < Runs - pos
      PROVE  Descends
  BY <1>5 DEF Descends, LP!Below, ToGo
<1>6. ASSUME UNCHANGED <<cancelled, left, Runs, pos>>, at = "lane", at' = "walking"
      PROVE  Descends
  BY <1>6 DEF Descends, LP!Below, ToGo, Stage
<1>7. ASSUME UNCHANGED <<cancelled, left, Runs, pos, at>>, LP!Descends
      PROVE  Descends
  BY <1>7 DEF Descends, ToGo
\* The walk.
<1>8. ASSUME WalkStep, UNCHANGED commandVars PROVE Descends
  <2>1. CASE StartRun
    <3>1. /\ UNCHANGED <<cancelled, left>> /\ Stage[at'] = Stage[at]
          /\ Runs' = Runs /\ pos' = pos + 1
      BY <1>8, <2>1 DEF StartRun, commandVars, Runs, Stage
    <3> QED
      BY <1>1, <1>5, <3>1
  <2>2. CASE RunStep
    <3>1. UNCHANGED <<cancelled, left, Runs, pos, at>> /\ LP!Next
      BY <1>8, <2>2, SameNext DEF RunStep, commandVars, Runs
    <3>2. LP!Descends
      BY <3>1, SizeAssumption, LP!RunDescends DEF IInv
    <3> QED
      BY <1>7, <3>1, <3>2
  <2>3. CASE EndRun
    BY <1>6, <1>8, <2>3 DEF EndRun, commandVars, Runs
  <2> QED
    BY <1>8, <2>1, <2>2, <2>3 DEF WalkStep
\* The daemon.
<1>9. CASE DaemonStep(Next)
  <2>1. CASE Prepare \/ EndWalk
    <3>1. /\ UNCHANGED <<cancelled, left>>
          /\ \/ at = "mappings" /\ at' \in {"probing", "ended"}
             \/ at = "probing" /\ at' \in {"masters", "ended"}
             \/ at = "masters" /\ at' = "walking"
             \/ at = "walking" /\ at' = "ended"
      BY <1>9, <2>1 DEF DaemonStep, commandVars, Prepare, FetchFails, NoMapping, MappingsFetched,
         MappingsResolved, MastersPushed, EndWalk, Finish
    <3> QED
      BY <1>4, <3>1 DEF Stage
  <2>2. CASE WalkStep
    BY <1>8, <1>9, <2>2 DEF DaemonStep
  <2>3. CASE Cancel
    BY <1>2, <2>3 DEF Cancel
  <2> QED
    BY <1>9, <2>1, <2>2, <2>3 DEF DaemonStep, Next, Walk, WalkStep
\* The commands.
<1>10. ASSUME NEW how, Exit(how), at # "ended" PROVE Descends
  BY <1>1, <1>4, <1>10 DEF Exit, Stage
<1>11. ASSUME NextConnection PROVE Descends
  BY <1>1, <1>3, <1>11 DEF NextConnection
<1>12. CASE CommandWalks
  BY <1>8, <1>12 DEF CommandWalks
<1>13. CASE \E n \in 1 .. MaxMappings : CompaniesKnown(n)
  BY <1>4, <1>13 DEF CompaniesKnown, Fetching, Stage
<1>14. CASE \/ SecretsUnreadable \/ StopEarly \/ EndSync \/ Summary
  BY <1>10, <1>14 DEF SecretsUnreadable, StopEarly, EndSync, Summary, Fetching
<1>15. CASE \/ \E isAuth \in BOOLEAN : CommandFetchFails(isAuth)
            \/ CommandNoMapping \/ EndConnection
  BY <1>10, <1>11, <1>15 DEF CommandFetchFails, CommandNoMapping, EndConnection, Fetching
<1> QED
  BY <1>9, <1>12, <1>13, <1>14, <1>15 DEF CommandNext, Command

\* No sync goes on for ever, whatever Tally, the server and the caller do: each of
\* its steps lowers a tuple of natural numbers, the run's last of all.
THEOREM PassGetsOn ==
  CommandSpec => /\ [](ToGo \in {0, 1} \X Nat \X Nat \X Nat \X {0, 1})
                 /\ [](LP!ToGo \in Nat \X Nat \X {0, 1})
                 /\ [][Descends]_allVars
<1>1. IInv => LP!ToGo \in Nat \X Nat \X {0, 1}
  BY SizeAssumption, LP!ToGoIsNatural DEF IInv
<1>2. IInv /\ [CommandNext]_allVars => [Descends]_allVars
  BY StepDescends
<1> QED
  BY <1>1, <1>2, ToGoIsNatural, Invariance, PTL DEF CommandSpec
=============================================================================
