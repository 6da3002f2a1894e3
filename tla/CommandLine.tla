---------------------------- MODULE CommandLine ----------------------------
(***************************************************************************)
(* agentctl sync and sync-all, cmd/agentctl/sync.go and syncall.go: the    *)
(* operator's way to the same walk.  sync runs one lane of one company he  *)
(* names; sync-all takes the paired connections one after the other,       *)
(* fetches each one's companies and walks them all, with nobody asking     *)
(* Tally which company is open, no masters, no status and no caller that   *)
(* cancels.  What the caller learns is the exit code.                      *)
(*                                                                         *)
(* The walk's variables and steps are SyncPass's; command says who walks.  *)
(* Left out: the flags that are refused with the usage before anything is  *)
(* read, and --dry-run, which sends nothing.                               *)
(***************************************************************************)
EXTENDS SyncPass

CONSTANT MaxConnections    \* bound on the paired connections

ASSUME ConnectionsAssumption == MaxConnections \in Nat \ {0}

VARIABLES
    command,      \* who walks: the daemon, or one of the two commands
    goOn,         \* --continue-on-error
    left,         \* the connections not done yet
    worked,       \* connectionsWithMappings > 0
    unfetched     \* hadFetchMappingsError

commandVars == <<command, goOn, left, worked, unfetched>>
allVars == <<vars, commandVars>>

\* The exit codes are 0 (nil), 1 (error) and 2 (usage: nothing to sync).
CommandTypeOK ==
    /\ TypeOK
    /\ command \in {"daemon", "sync", "sync-all"}
    /\ goOn \in BOOLEAN
    /\ left \in 0 .. MaxConnections
    /\ worked \in BOOLEAN
    /\ unfetched \in BOOLEAN

-----------------------------------------------------------------------------
\* requireAllConnections, requireOneConnection: all of them, or the one named;
\* parseKinds: lanes in the operator's order, each once.
CommandInit ==
    \/ Init /\ command = "daemon" /\ goOn = TRUE /\ left = 0
       /\ worked = FALSE /\ unfetched = FALSE
    \/ /\ Idle
       /\ scope \in [request : {FALSE}, kinds : KindLists]
       /\ command \in {"sync", "sync-all"}
       /\ goOn \in BOOLEAN
       /\ left \in 1 .. MaxConnections
       /\ command = "sync" => goOn /\ left = 1 /\ Len(scope.kinds) = 1
       /\ worked = FALSE /\ unfetched = FALSE

Exit(how) ==
    /\ at' = "ended"
    /\ returned' = how
    /\ UNCHANGED <<laneVars, cancelled, scope, mapped, active, pos, walk, outcome, status,
                   short, command, goOn, left, worked>>

\* The next connection, with nothing of this one's walk left to do.
NextConnection ==
    /\ at' = "mappings"
    /\ left' = left - 1
    /\ active' = {}
    /\ pos' = 0
    /\ UNCHANGED <<laneVars, cancelled, scope, mapped, outcome, status, returned, short,
                   command, goOn, worked>>

Fetching == command # "daemon" /\ at = "mappings" /\ left > 0

\* The keyring does not give the connection's secrets up.
SecretsUnreadable ==
    /\ Fetching
    /\ Exit("error")
    /\ UNCHANGED <<denied, unfetched>>

\* FetchActiveMappings fails, which counts as a fatal error of the walk.
CommandFetchFails(isAuth) ==
    /\ Fetching
    /\ command = "sync-all"
    /\ denied' = (denied \/ isAuth)
    /\ unfetched' = TRUE
    /\ IF goOn
       THEN NextConnection /\ walk' = [walk EXCEPT !.fatal = TRUE]
       ELSE Exit("error")

CommandNoMapping ==
    /\ Fetching
    /\ command = "sync-all"
    /\ NextConnection
    /\ UNCHANGED <<walk, denied, unfetched>>

\* The companies the server lists, or the one the operator names: all are read.
CompaniesKnown(n) ==
    /\ Fetching
    /\ command = "sync" => n = 1
    /\ mapped' = n
    /\ active' = 1 .. n
    /\ at' = "walking"
    /\ worked' = TRUE
    /\ UNCHANGED <<laneVars, cancelled, scope, pos, walk, outcome, status, returned, denied,
                   short, command, goOn, left, unfetched>>

\* WalkAll ends at the first fatal error when it must not go on.
StoppedEarly == ~goOn /\ walk.fatal

WalkStep == StartRun \/ RunStep \/ EndRun

CommandWalks ==
    /\ command # "daemon"
    /\ ~StoppedEarly
    /\ WalkStep
    /\ UNCHANGED commandVars

StopEarly ==
    /\ command = "sync-all"
    /\ at = "walking"
    /\ StoppedEarly
    /\ Exit("error")
    /\ UNCHANGED <<denied, unfetched>>

EndConnection ==
    /\ command = "sync-all"
    /\ at = "walking"
    /\ ~RunsLeft
    /\ ~StoppedEarly
    /\ NextConnection
    /\ UNCHANGED <<walk, denied, unfetched>>

\* sync looks at the rows before it looks at the batches.
EndSync ==
    /\ command = "sync"
    /\ at = "walking"
    /\ ~RunsLeft
    /\ Exit(IF res.fatal \/ (rows > 0 /\ (res.failed > 0 \/ res.serverErrors > 0))
            THEN "error" ELSE "nil")
    /\ UNCHANGED <<denied, unfetched>>

Summary ==
    /\ command = "sync-all"
    /\ at = "mappings"
    /\ left = 0
    /\ Exit(IF ~worked THEN (IF unfetched THEN "error" ELSE "usage")
            ELSE IF WalkFailed THEN "error" ELSE "nil")
    /\ UNCHANGED <<denied, unfetched>>

-----------------------------------------------------------------------------
Command ==
    \/ SecretsUnreadable
    \/ \E isAuth \in BOOLEAN : CommandFetchFails(isAuth)
    \/ CommandNoMapping
    \/ \E n \in 1 .. MaxMappings : CompaniesKnown(n)
    \/ CommandWalks
    \/ StopEarly
    \/ EndConnection
    \/ EndSync
    \/ Summary

DaemonStep(Step) == command = "daemon" /\ Step /\ UNCHANGED commandVars

CommandNext == DaemonStep(Next) \/ Command

CommandSpec ==
    /\ CommandInit
    /\ [][CommandNext]_allVars
    /\ WF_allVars(DaemonStep(Prepare \/ Walk) \/ Command)

-----------------------------------------------------------------------------
\* A good verdict is earned, whoever asked: a connection reported as a success
\* (SuccessIsEarned) and a command that exits with 0 have left no row they read
\* off the server, over all connections, and the command found some company to
\* read (syncall.go:219-225, 247-283, sync.go:230-259).
VerdictIsEarned ==
    /\ SuccessIsEarned
    /\ command # "daemon" /\ returned = "nil" => ~short /\ worked

\* Whoever met a rejected credential, the caller learns of it: the daemon in the
\* connection's status (DenialIsReported), sync-all in its exit code.  sync is
\* not held to it: it reports "nothing to send" and 0 for a lane without rows,
\* although the snapshot lane sends one empty batch that may have been refused
\* (syncall.go:160-168, 274-276; sync.go:242-245).
DenialReachesTheCaller ==
    /\ command = "daemon" => DenialIsReported
    /\ command = "sync-all" /\ at = "ended" /\ denied => returned = "error"
=============================================================================
