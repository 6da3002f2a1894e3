------------------------------ MODULE SyncPass ------------------------------
(***************************************************************************)
(* One sync of one connection, runWindowSync in cmd/agent/main.go: fetch   *)
(* the mapped companies from the server, keep those whose company is the   *)
(* one Tally has open, push their masters, then walk every company and     *)
(* every lane (WalkAll), one run of IngestLane after the other, and turn   *)
(* what happened into the connection's status and the tick's error.        *)
(*                                                                         *)
(* The lane's variables are those of the run the walk is at.  Which        *)
(* companies are readable is decided elsewhere; here any set may be.       *)
(***************************************************************************)
EXTENDS Integers, Sequences, FiniteSets

CONSTANTS
    BatchSize, MaxItems,   \* as in IngestLane
    MaxMappings,           \* bound on the companies the server lists
    DefaultKinds           \* the lanes, in the order the walk takes them

ASSUME SizeAssumption ==
    BatchSize \in Nat \ {0} /\ MaxItems \in Nat /\ MaxMappings \in Nat

VARIABLES
    kind, forRequest, ctxDone, phase, items, rows, doubt, after, total, i, res,
    server                 \* the run the walk is at, see IngestLane

VARIABLES
    at,          \* the point the sync has reached
    cancelled,   \* the context runWindowSync was given has ended
    scope,       \* [request, kinds]: what a sync_now asked for, or a tick's scope
    mapped,      \* len(mappings.Mappings): the companies are 1 .. mapped
    active,      \* the readable ones
    pos,         \* the position of the walk: the runs started
    walk,        \* WalkResult: which of the totals its readers ask for is above 0
    outcome,     \* syncOutcome's fields that decide its status
    status,      \* the ConnectionStatus result recordSync stored
    returned,    \* what runWindowSync returned
    denied,      \* history: the server answered 401 or 403 to some request
    short        \* history: some run left rows it had read off the server

Lane == INSTANCE IngestLane

ASSUME KindsAssumption == DefaultKinds \in Seq(Lane!Kinds) /\ DefaultKinds # <<>>

laneVars == <<kind, forRequest, ctxDone, phase, items, rows, doubt, after, total, i,
              res, server>>
passVars == <<at, cancelled, scope, mapped, active, pos, walk, outcome, status,
              returned, denied, short>>
vars == <<laneVars, passVars>>

\* Lists of lanes: places in DefaultKinds, each once, in any order. A lane is a place,
\* since several of the agent's eight share a kind (four invoices', two journals').
Picks == {p \in UNION {[1 .. n -> DOMAIN DefaultKinds] : n \in 1 .. Len(DefaultKinds)} :
             \A a, b \in DOMAIN p : a # b => p[a] # p[b]}
LanesOf(p) == [j \in DOMAIN p |-> DefaultKinds[p[j]]]
KindLists == {LanesOf(p) : p \in Picks}

Skipped == 1 .. mapped \ active
Runs == Cardinality(active) * Len(scope.kinds)

TypeOK ==
    /\ Lane!TypeOK
    /\ at \in {"mappings", "probing", "masters", "walking", "lane", "ended"}
    /\ cancelled \in BOOLEAN
    /\ scope \in [request : BOOLEAN, kinds : KindLists]
    /\ mapped \in 0 .. MaxMappings
    /\ active \subseteq 1 .. mapped
    /\ pos \in 0 .. Runs
    /\ walk \in [fatal : BOOLEAN, failed : BOOLEAN, serverErrors : BOOLEAN]
    /\ outcome \in [auth : BOOLEAN, fetch : BOOLEAN, noMapping : BOOLEAN, other : BOOLEAN]
    /\ status \in {"idle", "success", "accepted_tick", "rejected_auth",
                   "mapping_mismatch", "not_readable"}
    /\ returned \in {"running", "nil", "error", "usage"}    \* usage: see CommandLine
    /\ denied \in BOOLEAN
    /\ short \in BOOLEAN

-----------------------------------------------------------------------------
\* syncScopeFor: names the agent does not know are skipped, those it knows run
\* in the walk's order, and when none is left every lane does.
ScopeKinds == {LanesOf(p) : p \in {q \in Picks : \A a, b \in DOMAIN q : a < b => q[a] < q[b]}}

\* A scheduled tick has no request; a sync_now may come without one too.
Scopes == [request : BOOLEAN, kinds : ScopeKinds]

Idle ==
    /\ Lane!Init /\ kind = DefaultKinds[1] /\ ~forRequest    \* no run yet
    /\ at = "mappings"
    /\ cancelled = FALSE
    /\ mapped = 0
    /\ active = {}
    /\ pos = 0
    /\ walk = [fatal |-> FALSE, failed |-> FALSE, serverErrors |-> FALSE]
    /\ outcome = [auth |-> FALSE, fetch |-> FALSE, noMapping |-> FALSE, other |-> FALSE]
    /\ status = "idle"
    /\ returned = "running"
    /\ denied = FALSE
    /\ short = FALSE

Init == Idle /\ scope \in Scopes

-----------------------------------------------------------------------------
\* Mutant: a lane's failure comes before a rejected credential.
StatusOfFailureFirst(o, skipped) ==
    IF o.other THEN "accepted_tick"
    ELSE IF o.auth THEN "rejected_auth"
    ELSE IF o.fetch \/ o.noMapping THEN "mapping_mismatch"
    ELSE IF skipped # {} THEN "not_readable"
    ELSE "success"

\* syncOutcome.status, in its order of priority.  The result of the first
\* skipped company (wrong_company_open, endpoint_unreachable, ...) is left out.
StatusOf(o, skipped) ==
    IF o.auth THEN "rejected_auth"
    ELSE IF o.fetch \/ o.noMapping THEN "mapping_mismatch"
    ELSE IF skipped # {} THEN "not_readable"
    ELSE IF o.other THEN "accepted_tick"
    ELSE "success"

\* Every return of runWindowSync runs the deferred recordSync.
Finish(o, skipped, err) ==
    /\ at' = "ended"
    /\ outcome' = o
    /\ status' = StatusOf(o, skipped)
    /\ returned' = IF err THEN "error" ELSE "nil"

FetchFails(isAuth) ==
    /\ at = "mappings"
    /\ Finish([outcome EXCEPT !.auth = isAuth, !.fetch = ~isAuth], {}, TRUE)
    /\ denied' = isAuth
    /\ UNCHANGED <<laneVars, cancelled, scope, mapped, active, pos, walk, short>>

NoMapping ==
    /\ at = "mappings"
    /\ ~cancelled
    /\ Finish([outcome EXCEPT !.noMapping = TRUE], {}, FALSE)
    /\ UNCHANGED <<laneVars, cancelled, scope, mapped, active, pos, walk, denied, short>>

MappingsFetched(n) ==
    /\ at = "mappings"
    /\ ~cancelled
    /\ n > 0
    /\ mapped' = n
    /\ at' = "probing"
    /\ UNCHANGED <<laneVars, cancelled, scope, active, pos, walk, outcome, status,
                   returned, denied, short>>

\* Mutant: the probe's answer is awaited although nobody asks any more.
MappingsResolvedUncancelled(readable) ==
    /\ at = "probing"
    /\ ~cancelled
    /\ active' = readable
    /\ IF readable = {}
       THEN Finish(outcome, 1 .. mapped, TRUE)
       ELSE at' = "masters" /\ UNCHANGED <<outcome, status, returned>>
    /\ UNCHANGED <<laneVars, cancelled, scope, mapped, pos, walk, denied, short>>

\* resolveMappingsForTick: a probe that cannot run leaves nothing readable.
MappingsResolved(readable) ==
    /\ at = "probing"
    /\ cancelled => readable = {}
    /\ active' = readable
    /\ IF readable = {}
       THEN Finish(outcome, 1 .. mapped, TRUE)
       ELSE at' = "masters" /\ UNCHANGED <<outcome, status, returned>>
    /\ UNCHANGED <<laneVars, cancelled, scope, mapped, pos, walk, denied, short>>

\* syncMastersForMappings: nothing but a rejected credential is remembered.
MastersPushed(isAuth) ==
    /\ at = "masters"
    /\ cancelled => ~isAuth
    /\ outcome' = [outcome EXCEPT !.auth = isAuth]
    /\ denied' = isAuth
    /\ at' = "walking"
    /\ UNCHANGED <<laneVars, cancelled, scope, mapped, active, pos, walk, status,
                   returned, short>>

-----------------------------------------------------------------------------
(* WalkAll: company by company, lane by lane, each run with its own        *)
(* timeout below the walk's context.                                       *)

\* Mutant: one run beyond the last.
RunsLeftTooMany == pos <= Runs

RunsLeft == pos < Runs

StartRun ==
    /\ at = "walking"
    /\ RunsLeft
    /\ pos' = pos + 1
    /\ at' = "lane"
    /\ kind' = scope.kinds[1 + (pos % Len(scope.kinds))]
    /\ forRequest' = scope.request
    /\ ctxDone' = cancelled
    /\ phase' = Lane!FirstPhase(kind')
    /\ items' = 0 /\ rows' = 0 /\ doubt' = FALSE /\ after' = "ok" /\ total' = 0 /\ i' = 0
    /\ res' = Lane!NoResult
    /\ server' = Lane!NothingStored
    /\ UNCHANGED <<cancelled, scope, mapped, active, walk, outcome, status, returned,
                   denied, short>>

RunStep ==
    /\ at = "lane"
    /\ Lane!Next
    /\ denied' = (denied \/ res'.auth)
    /\ UNCHANGED <<at, cancelled, scope, mapped, active, pos, walk, outcome, status,
                   returned, short>>

LeftRowsOff == \E r \in 1 .. rows : \A b \in server.landed : r \notin Lane!Chunk(rows, b)

Counted == [walk EXCEPT !.failed = @ \/ res.failed > 0,
                        !.serverErrors = @ \/ res.serverErrors > 0]

\* Mutant: only what a run counted is added, not that it failed.
AddUpWithoutFatal == Counted

\* A fatal error counts as one and hides the run's own counters.
AddUp ==
    IF res.fatal THEN [walk EXCEPT !.fatal = TRUE] ELSE Counted

\* The result hook notes a rejected credential, then WalkAll adds the run up.
EndRun ==
    /\ at = "lane"
    /\ phase = "ended"
    /\ at' = "walking"
    /\ outcome' = [outcome EXCEPT !.auth = @ \/ res.auth]
    /\ walk' = AddUp
    /\ short' = (short \/ res.fatal \/ (LeftRowsOff /\ ~res.unsupported))
    /\ UNCHANGED <<laneVars, cancelled, scope, mapped, active, pos, status, returned, denied>>

\* errorFromWalkResult.
WalkFailed == walk.fatal \/ walk.failed \/ walk.serverErrors

\* Mutant: the status looks at the fatal errors only.
EndWalkFatalOnly ==
    /\ at = "walking"
    /\ ~RunsLeft
    /\ Finish([outcome EXCEPT !.other = walk.fatal], Skipped,
              WalkFailed \/ Skipped # {})
    /\ UNCHANGED <<laneVars, cancelled, scope, mapped, active, pos, walk, denied, short>>

EndWalk ==
    /\ at = "walking"
    /\ ~RunsLeft
    /\ Finish([outcome EXCEPT !.other = WalkFailed], Skipped, WalkFailed \/ Skipped # {})
    /\ UNCHANGED <<laneVars, cancelled, scope, mapped, active, pos, walk, denied, short>>

\* The tick's deadline passed, the poller's dispatch deadline passed, or the
\* daemon is stopping.
Cancel ==
    /\ at # "ended"
    /\ ~cancelled
    /\ cancelled' = TRUE
    /\ ctxDone' = (ctxDone \/ at = "lane")
    /\ UNCHANGED <<kind, forRequest, phase, items, rows, doubt, after, total, i, res, server,
                   at, scope, mapped, active, pos, walk, outcome, status, returned,
                   denied, short>>

-----------------------------------------------------------------------------
Prepare ==
    \/ \E isAuth \in BOOLEAN : FetchFails(isAuth)
    \/ NoMapping
    \/ \E n \in 1 .. MaxMappings : MappingsFetched(n)
    \/ \E readable \in SUBSET (1 .. mapped) : MappingsResolved(readable)
    \/ \E isAuth \in BOOLEAN : MastersPushed(isAuth)

Walk == StartRun \/ RunStep \/ EndRun \/ EndWalk

Next == Prepare \/ Walk \/ Cancel

\* Every wait of the sync has a timeout of its own, so each of its steps is
\* taken in the end; RunStep's only step that changes nothing but the context
\* can happen once.
Spec == Init /\ [][Next]_vars /\ WF_vars(Prepare \/ Walk)

-----------------------------------------------------------------------------
\* "success" is earned: every company the server lists was read and every row
\* the lanes read is stored by the server, unless the server has no such lane.
\* The counters a fatal run drops, the batches that failed before a stored
\* final one and the companies skipped on the way are all in the verdict
\* (connection_status.go:181-265, main.go:866-903, walk.go:176-192).
SuccessIsEarned == status = "success" => ~short /\ Skipped = {} /\ mapped > 0

\* A rejected credential is reported as such whichever request met it and
\* whatever else went wrong (connection_status.go:161-170, main.go:873-888).
DenialIsReported == at = "ended" /\ denied => status = "rejected_auth"

\* The tick's error and the connection's status never contradict each other: a
\* sync that returned an error is not reported as a success, and one that
\* returned nil is not reported as a partial one, so the retry the scheduler
\* makes and what the operator sees go together (main.go:819-826, 899-903).
ErrorAndStatusAgree ==
    /\ returned = "error" => status # "success"
    /\ returned = "nil" => status \notin {"accepted_tick", "not_readable"}

\* The sync ends and records a status, whatever Tally and the server do.
PassEnds == <>(at = "ended")
=============================================================================
