----------------------------- MODULE AutoUpdate -----------------------------
(***************************************************************************)
(* The daemon that updates itself (internal/selfupdate,                    *)
(* internal/autoupdate), composed with the installer it launches: version  *)
(* checks, the guards of Consider, the attempts it records, the syncs that *)
(* go on beside it, and the installer's restart of the daemon's own        *)
(* service.                                                                *)
(*                                                                         *)
(* A daemon lives in the process of the service until it returns.  A run   *)
(* that somebody starts and the daemon's own never overlap here.           *)
(***************************************************************************)
EXTENDS Installer

CONSTANT MaxAttempts    \* autoupdate.MaxAttempts

ASSUME AttemptsAssumption == MaxAttempts \in Nat \ {0}

VARIABLES
    allowed,   \* the server's kill switch, auto_update.enabled
    sync,      \* the sync in progress: a tick's, or that of a sync_now
    chk,       \* the check: its step, the release and the switch it was answered
    record,    \* autoupdate-state.json: its release and the attempts counted
    hour,      \* hour[r]: an hour has passed since the last attempt at r
    since      \* history: attempts at r since the record of them was last lost

updVars == <<allowed, sync, chk, record, hour, since>>
vars == <<insVars, updVars>>

NoRecord == [release |-> 0, tries |-> 0]
Idle == [at |-> "idle", latest |-> 0, allowed |-> FALSE]

TypeOK ==
    /\ InstallerTypeOK
    /\ allowed \in BOOLEAN
    /\ sync \in {"none", "tick", "request"}
    /\ chk \in [at : {"idle", "asked", "consider", "saving", "download", "launch"},
                latest : {0} \cup Releases, allowed : BOOLEAN]
    /\ record \in [release : {0} \cup Releases, tries : 0 .. MaxAttempts]
    /\ hour \in [Releases -> BOOLEAN]
    /\ since \in [Releases -> Nat]

Init ==
    /\ InstallerInit
    /\ allowed = TRUE
    /\ sync = "none"
    /\ chk = Idle
    /\ record = NoRecord
    /\ hour = [r \in Releases |-> TRUE]
    /\ since = [r \in Releases |-> 0]

-----------------------------------------------------------------------------
(* The world around the check.                                             *)

Switch ==
    /\ allowed' = ~allowed
    /\ UNCHANGED <<insVars, sync, chk, record, hour, since>>

HourPasses ==
    /\ hour' = [r \in Releases |-> TRUE]
    /\ UNCHANGED <<insVars, allowed, sync, chk, record, since>>

Living == svc.lives

SyncBegins ==
    /\ Living /\ sync = "none"
    /\ sync' \in {"tick", "request"}
    /\ UNCHANGED <<insVars, allowed, chk, record, hour, since>>

SyncEnds ==
    /\ sync # "none"
    /\ sync' = "none"
    /\ UNCHANGED <<insVars, allowed, chk, record, hour, since>>

-----------------------------------------------------------------------------
(* Checker.checkOnce and Updater.Consider.                                 *)

Check(step) == chk' = [chk EXCEPT !.at = step]

\* At the daemon's start, then every six hours.
Ask ==
    /\ Living /\ chk = Idle
    /\ Check("asked")
    /\ UNCHANGED <<insVars, allowed, sync, record, hour, since>>

\* No answer, or one without a release or without an installer.
Unanswered ==
    /\ chk.at = "asked"
    /\ chk' = Idle
    /\ UNCHANGED <<insVars, allowed, sync, record, hour, since>>

\* shouldNotify: the daemon hears of every release that is not its own.
Answered ==
    /\ chk.at = "asked"
    /\ chk' = IF published = svc.runs THEN Idle
              ELSE [at |-> "consider", latest |-> published, allowed |-> allowed]
    /\ UNCHANGED <<insVars, allowed, sync, record, hour, since>>

\* RunningCount of the scheduler: a sync_now is none of its ticks.
Busy == sync = "tick"

IsNewer(latest, current) == latest > current

\* loadState, and the record of another release forgotten.
Recorded(r) == IF record.release = r THEN record ELSE [release |-> r, tries |-> 0]

\* Mutants: a guard too few, and one attempt too many.
MayAttemptAtOnce(r) == Recorded(r).tries < MaxAttempts
MayAttemptOnceMore(r) ==
    (Recorded(r).tries > 0 => hour[r]) /\ Recorded(r).tries <= MaxAttempts

MayAttempt(r) ==
    (Recorded(r).tries > 0 => hour[r]) /\ Recorded(r).tries < MaxAttempts

Consider ==
    /\ chk.at = "consider"
    /\ IF chk.allowed /\ IsNewer(chk.latest, svc.runs) /\ ~Busy /\ MayAttempt(chk.latest)
       THEN Check("saving")
       ELSE chk' = Idle
    /\ UNCHANGED <<insVars, allowed, sync, record, hour, since>>

\* Mutant: the release is recorded without its attempts.
CountedAs(r) == [release |-> r, tries |-> 1]

\* The record with this attempt counted.
Counted(r) == [Recorded(r) EXCEPT !.tries = @ + 1]

\* saveState, before anything is downloaded.
Save ==
    /\ chk.at = "saving"
    /\ LET r == chk.latest IN
       /\ record' = Counted(r)
       /\ hour' = [hour EXCEPT ![r] = FALSE]
       /\ since' = [since EXCEPT ![r] = @ + 1]
    /\ Check("download")
    /\ UNCHANGED <<insVars, allowed, sync>>

\* WriteFile truncates first: a save that fails leaves the old record, or none.
Torn ==
    /\ record' = NoRecord
    /\ since' = [r \in Releases |-> IF r = record.release THEN 0 ELSE since[r]]

SaveFails ==
    /\ chk.at = "saving"
    /\ chk' = Idle
    /\ Torn \/ UNCHANGED <<record, since>>
    /\ UNCHANGED <<insVars, allowed, sync, hour>>

Fetched ==
    /\ chk.at = "download"
    /\ Check("launch") \/ chk' = Idle
    /\ UNCHANGED <<insVars, allowed, sync, record, hour, since>>

\* The installer starts detached, without a setup key in its name, with the rights
\* of the service's account.
Launch ==
    /\ chk.at = "launch"
    /\ chk' = Idle
    /\ Begin(TRUE, FALSE, FALSE)
    /\ UNCHANGED <<allowed, sync, record, hour, since>>

LaunchFails ==
    /\ chk.at = "launch"
    /\ chk' = Idle
    /\ UNCHANGED <<insVars, allowed, sync, record, hour, since>>

-----------------------------------------------------------------------------
\* A daemon that ends takes its sync and its check along; the save it was in is
\* done, not begun, or torn.
DaemonEnds ==
    /\ sync' = "none" /\ chk' = Idle
    /\ IF chk.at = "saving" THEN Torn \/ UNCHANGED <<record, since>>
       ELSE UNCHANGED <<record, since>>
    /\ UNCHANGED <<allowed, hour>>

Machine ==
    /\ InstallerSteps \/ Answer \/ TimeIsUp \/ Killed \/ PowerLoss \/ Boot
       \/ DaemonReturns \/ Publish
       \/ \E elevated, key, add \in BOOLEAN : Begin(elevated, key, add)
    /\ IF svc' = svc THEN UNCHANGED updVars ELSE DaemonEnds

Next ==
    \/ Machine
    \/ Switch \/ HourPasses \/ SyncBegins \/ SyncEnds
    \/ Ask \/ Unanswered \/ Answered \/ Consider \/ Save \/ SaveFails
    \/ Fetched \/ Launch \/ LaunchFails

Spec == Init /\ [][Next]_vars

-----------------------------------------------------------------------------
\* A release that cannot install is tried three times in all, whatever restarts,
\* reboots and releases come between, unless the record of its attempts is lost:
\* saveState writes it in place, and a save cut off leaves an empty file.
AttemptsAreBounded == \A r \in Releases : since[r] <= MaxAttempts

\* An hour lies between two attempts at a release, with the same exception.
AttemptsAreSpaced ==
    [][\A r \in Releases : since'[r] > since[r] /\ since[r] > 0 => hour[r]]_vars

=============================================================================
