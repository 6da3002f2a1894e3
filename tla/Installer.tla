----------------------------- MODULE Installer -----------------------------
(***************************************************************************)
(* The Windows installer (cmd/installer): how one run pairs the machine or *)
(* finds it paired, replaces the two binaries, brings the service up and   *)
(* reports to the approval session it claimed.                             *)
(*                                                                         *)
(* Runs follow one another; that of a caller without administrator rights  *)
(* starts an elevated one and is over.  A run can be killed at every step, *)
(* and its 25 minutes can be over at every step: from then on every        *)
(* request and every command it starts fails, the report of the failure    *)
(* included.                                                               *)
(***************************************************************************)
EXTENDS Integers

CONSTANT Last     \* how many releases are published

ASSUME InstallerAssumption == Last \in Nat \ {0}

Releases == 1 .. Last

VARIABLES
    published,   \* the release of the version manifest
    disk,        \* disk[f]: the release in the file and in its .bak, 0 where there is none
    svc,         \* the service manager: its state, the release its process runs, 0 if none,
                 \* and whether the daemon in that process lives
    paired,      \* detectLocalPairState finds a connection with both secrets
    session,     \* the approval session, as the server has it
    run          \* the run of the installer

insVars == <<published, disk, svc, paired, session, run>>

Files == {"agentctl", "agent"}
Sessions == {"none", "pending", "approved", "claimed", "installing_service",
             "discovering_tally", "ready", "failed", "expired"}
Steps == {"none", "elevate", "inspect", "setup", "start", "poll", "claim", "persist",
          "reload", "fetch", "download", "aside", "place", "clean", "status", "repair",
          "install", "begin", "discover", "fail", "ended"}

\* A run: its step, whether it is elevated, serves a setup key, adds a tenant or updates in
\* silence, the release it installs, the file it replaces and whether that was
\* moved aside, whether it repairs, its time is over, a report was lost, its exit code.
InstallerTypeOK ==
    /\ published \in Releases
    /\ disk \in [Files -> [exe : {0} \cup Releases, bak : {0} \cup Releases]]
    /\ svc \in [state : {"not_installed", "stopped", "running"}, runs : {0} \cup Releases,
                lives : BOOLEAN]
    /\ paired \in BOOLEAN
    /\ session \in Sessions
    /\ run \in [at : Steps, elevated : BOOLEAN, key : BOOLEAN, add : BOOLEAN,
                update : BOOLEAN, target : {0} \cup Releases, file : Files, moved : BOOLEAN,
                repair : BOOLEAN, late : BOOLEAN, unheard : BOOLEAN, exit : 0 .. 2]

NoRun == [at |-> "none", elevated |-> FALSE, key |-> FALSE, add |-> FALSE, update |-> FALSE,
          target |-> 0, file |-> "agentctl", moved |-> FALSE, repair |-> FALSE,
          late |-> FALSE, unheard |-> FALSE, exit |-> 0]

NotInstalled == [state |-> "not_installed", runs |-> 0, lives |-> FALSE]

\* A machine nobody has set up, and one that runs the first release.
InstallerInit ==
    /\ published = 1
    /\ session = "none" /\ run = NoRun
    /\ \/ /\ disk = [f \in Files |-> [exe |-> 0, bak |-> 0]]
          /\ svc = NotInstalled
          /\ paired = FALSE
       \/ /\ disk = [f \in Files |-> [exe |-> 1, bak |-> 0]]
          /\ svc = [state |-> "running", runs |-> 1, lives |-> TRUE]
          /\ paired = TRUE

\* The server "only ever publishes monotonically increasing versions"
\* (internal/selfupdate/checker.go:100-102).
Publish ==
    /\ published + 1 \in Releases
    /\ published' = published + 1
    /\ UNCHANGED <<disk, svc, paired, session, run>>

-----------------------------------------------------------------------------
At(step) == run.at = step
To(step) == run' = [run EXCEPT !.at = step]
\* What is asked of the server or of the system can succeed.
InTime == ~run.late
Exit(code) == run' = [run EXCEPT !.at = "ended", !.exit = code]

\* Session updates go unchecked: one may be lost.
Tell(status, next) ==
    \/ InTime /\ session' = (IF session = "none" THEN session ELSE status) /\ run' = next
    \/ session' = session /\ run' = [next EXCEPT !.unheard = TRUE]

Invoked(elevated, key, add) ==
    [NoRun EXCEPT !.at = "elevate", !.elevated = elevated, !.key = key, !.add = add]

Begin(elevated, key, add) ==
    /\ At("none")
    /\ run' = Invoked(elevated, key, add)
    /\ session' = "none"
    /\ UNCHANGED <<published, disk, svc, paired>>

\* Without the rights, the prompt that starts the same run with them is all there
\* is: exit code 0 once it was accepted, and nobody waits for what it started.
Elevate ==
    /\ At("elevate")
    /\ \/ Exit(1)
       \/ run.elevated /\ To("inspect")
       \/ ~run.elevated /\ Exit(0)
    /\ UNCHANGED <<published, disk, svc, paired, session>>

\* The pairing that cannot be read is looked at again behind an ACL repair, then
\* the path is chosen: a setup key, the silent update, or the approval.
Inspect ==
    /\ At("inspect")
    /\ \/ Exit(1)
       \/ run.key /\ To(IF paired /\ ~run.add THEN "fetch" ELSE "setup")
       \/ /\ ~run.key /\ paired /\ ~run.add
          /\ run' = [run EXCEPT !.at = "fetch", !.update = TRUE]
       \/ ~run.key /\ (~paired \/ run.add) /\ To("start")
    /\ UNCHANGED <<published, disk, svc, paired, session>>

\* pair.Claim of the setup key.
Setup ==
    /\ At("setup")
    /\ \/ InTime /\ paired' = TRUE /\ To("fetch")
       \/ paired' = paired /\ \E code \in {1, 2} : Exit(code)
    /\ UNCHANGED <<published, disk, svc, session>>

StartSession ==
    /\ At("start")
    /\ \/ InTime /\ session' = "pending" /\ To("poll")
       \/ session' = session /\ Exit(1)
    /\ UNCHANGED <<published, disk, svc, paired>>

\* The operator in the browser, and the session's own expiry.
Answer ==
    /\ \/ session = "pending" /\ session' \in {"approved", "failed", "expired"}
       \/ session = "approved" /\ session' = "expired"
    /\ UNCHANGED <<published, disk, svc, paired, run>>

\* waitForApproval: one failed poll is the end, an expiry may start afresh.
Poll ==
    /\ At("poll")
    /\ \/ InTime /\ session = "approved" /\ To("claim")
       \/ InTime /\ session = "expired" /\ To("start")
       \/ Exit(2)
    /\ UNCHANGED <<published, disk, svc, paired, session>>

\* A claim the server answers, one whose answer is lost, and one it refuses.
Claim ==
    /\ At("claim")
    /\ \/ InTime /\ session = "approved" /\ session' = "claimed" /\ To("persist")
       \/ InTime /\ session = "approved" /\ session' = "claimed" /\ Exit(1)
       \/ InTime /\ session = "expired" /\ session' = session /\ To("start")
       \/ session' = session /\ \E code \in {1, 2} : Exit(code)
    /\ UNCHANGED <<published, disk, svc, paired>>

Persist ==
    /\ At("persist")
    /\ \/ paired' = TRUE /\ To("reload") /\ session' = session
       \/ /\ paired' = paired
          /\ Tell("failed", [run EXCEPT !.at = "ended", !.exit = 1])
    /\ UNCHANGED <<published, disk, svc>>

\* The pairing is read back; the return of this error tells nobody.
Reload ==
    /\ At("reload")
    /\ To("fetch") \/ Exit(1)
    /\ UNCHANGED <<published, disk, svc, paired, session>>

\* FetchVersion, the two assets and the directory.
Fetch ==
    /\ At("fetch")
    /\ \/ InTime /\ run' = [run EXCEPT !.at = "download", !.target = published]
       \/ To("fail")
    /\ UNCHANGED <<published, disk, svc, paired, session>>

-----------------------------------------------------------------------------
(* downloadAsset and replaceDownloadedFile.                                *)

\* The file is complete and has the published checksum, or nothing is touched.
Download ==
    /\ At("download")
    /\ \/ InTime /\ To("aside")
       \/ To("fail")
    /\ UNCHANGED <<published, disk, svc, paired, session>>

\* Mutant: the .bak of an earlier run is removed in any case.
AsideClears ==
    /\ At("aside")
    /\ LET d == disk[run.file] IN
       \/ /\ d.exe = 0
          /\ disk' = [disk EXCEPT ![run.file].bak = 0]
          /\ run' = [run EXCEPT !.at = "place", !.moved = FALSE]
       \/ /\ d.exe # 0
          /\ disk' = [disk EXCEPT ![run.file] = [exe |-> 0, bak |-> d.exe]]
          /\ run' = [run EXCEPT !.at = "place", !.moved = TRUE]
    /\ UNCHANGED <<published, svc, paired, session>>

\* An existing file moves to .bak, whose own file goes first; what runs can be
\* renamed, the .bak of a process that still runs can be neither removed nor
\* replaced.
Aside ==
    /\ At("aside")
    /\ LET d == disk[run.file] IN
       \/ /\ d.exe = 0
          /\ run' = [run EXCEPT !.at = "place", !.moved = FALSE]
          /\ disk' = disk
       \/ /\ d.exe # 0
          /\ disk' = [disk EXCEPT ![run.file] = [exe |-> 0, bak |-> d.exe]]
          /\ run' = [run EXCEPT !.at = "place", !.moved = TRUE]
       \/ /\ d.exe # 0
          /\ disk' \in {disk, [disk EXCEPT ![run.file].bak = 0]}
          /\ To("fail")
    /\ UNCHANGED <<published, svc, paired, session>>

\* The download takes the file's place, or the old file its own again.
Place ==
    /\ At("place")
    /\ LET d == disk[run.file] IN
       \/ disk' = [disk EXCEPT ![run.file].exe = run.target] /\ To("clean")
       \/ To("fail") /\ disk' = IF run.moved
                                THEN [disk EXCEPT ![run.file] = [exe |-> d.bak, bak |-> 0]] ELSE disk
       \/ To("fail") /\ run.moved /\ disk' = disk
    /\ UNCHANGED <<published, svc, paired, session>>

\* Chmod may fail; removing the .bak may fail and nobody asks.  Then the next file.
Clean ==
    /\ At("clean")
    /\ \/ /\ disk' \in {disk} \cup (IF run.moved THEN {[disk EXCEPT ![run.file].bak = 0]} ELSE {})
          /\ IF run.file = "agentctl"
             THEN /\ run' = [run EXCEPT !.at = "download", !.file = "agent", !.moved = FALSE]
                  /\ session' = session
             ELSE Tell("installing_service", [run EXCEPT !.at = "status"])
       \/ disk' = disk /\ session' = session /\ To("fail")
    /\ UNCHANGED <<published, svc, paired>>

-----------------------------------------------------------------------------
(* ensureServiceHealthy: every command is the new agent's "service" one.   *)

Stopped == [state |-> "stopped", runs |-> 0, lives |-> FALSE]
Started == [state |-> "running", runs |-> disk["agent"].exe, lives |-> TRUE]

\* The commands that succeed.  Installing what is installed is an error; uninstall
\* stops first and does not ask whether it could.  A start succeeds before the
\* daemon has read its configuration.
ServiceInstall == svc.state = "not_installed" /\ svc' = Stopped
ServiceUninstall == svc' = NotInstalled
ServiceStart == svc' = Started
ServiceStop == svc.state = "running" /\ svc' = Stopped

\* Mutant: what is running is left running.
StatusTrustsRunning ==
    /\ At("status")
    /\ \/ InTime /\ svc.state = "stopped" /\ To("begin")
       \/ InTime /\ svc.state = "not_installed" /\ To("install")
       \/ InTime /\ svc.state = "running" /\ To("discover")
       \/ run' = [run EXCEPT !.at = "repair", !.repair = TRUE]
    /\ UNCHANGED <<published, disk, svc, paired, session>>

\* A running service is stopped, the first half of its restart; a state that
\* cannot be told, or a restart that fails at once, goes to the repair.
Status ==
    /\ At("status")
    /\ \/ InTime /\ svc.state = "stopped" /\ To("begin") /\ svc' = svc
       \/ InTime /\ svc.state = "not_installed" /\ To("install") /\ svc' = svc
       \/ InTime /\ ServiceStop /\ To("begin")
       \/ run' = [run EXCEPT !.at = "repair", !.repair = TRUE] /\ svc' = svc
    /\ UNCHANGED <<published, disk, paired, session>>

\* The repair stops and uninstalls the service, as far as it can.
Uninstall ==
    /\ At("repair")
    /\ To("install")
    /\ \/ svc' = svc
       \/ InTime /\ ServiceStop
       \/ InTime /\ ServiceUninstall
    /\ UNCHANGED <<published, disk, paired, session>>

\* What fails is tried once more behind the repair, and fails the run there.
Otherwise == run' = [run EXCEPT !.at = IF run.repair THEN "fail" ELSE "repair", !.repair = TRUE]

Install ==
    /\ At("install")
    /\ \/ InTime /\ ServiceInstall /\ To("begin")
       \/ svc' = svc /\ Otherwise
    /\ UNCHANGED <<published, disk, paired, session>>

StartService ==
    /\ At("begin")
    /\ \/ /\ InTime /\ ServiceStart
          /\ IF run.update THEN To("discover") /\ session' = session
             ELSE Tell("discovering_tally", [run EXCEPT !.at = "discover"])
       \/ svc' = svc /\ session' = session /\ Otherwise
    /\ UNCHANGED <<published, disk, paired>>

\* An update has nothing to find; the others run agentctl discover, again and on
\* other ports as the person at the machine wishes.
Discover ==
    /\ At("discover")
    /\ \/ (run.update \/ InTime) /\ Tell("ready", [run EXCEPT !.at = "ended", !.exit = 0])
       \/ ~run.update /\ To("fail") /\ session' = session
    /\ UNCHANGED <<published, disk, svc, paired>>

\* Mutant: the run ends without a word to the browser.
FailSilently ==
    /\ At("fail")
    /\ Exit(1)
    /\ UNCHANGED <<published, disk, svc, paired, session>>

\* failSession, then exit code 1.
Fail ==
    /\ At("fail")
    /\ Tell("failed", [run EXCEPT !.at = "ended", !.exit = 1])
    /\ UNCHANGED <<published, disk, svc, paired>>

\* The elevated run, whose process is another, goes on from the beginning.
End ==
    /\ At("ended")
    /\ run' = IF ~run.elevated /\ run.exit = 0 THEN Invoked(TRUE, run.key, run.add) ELSE NoRun
    /\ UNCHANGED <<published, disk, svc, paired, session>>

\* 25 minutes, or Ctrl-C.
TimeIsUp ==
    /\ run.at \notin {"none", "ended"} /\ InTime
    /\ run' = [run EXCEPT !.late = TRUE]
    /\ UNCHANGED <<published, disk, svc, paired, session>>

Killed ==
    /\ run.at \notin {"none", "ended"}
    /\ run' = NoRun
    /\ UNCHANGED <<published, disk, svc, paired, session>>

\* The machine goes down; it comes up, or someone starts the service: a service
\* starts if its binary is there.
PowerLoss ==
    /\ run' = NoRun
    /\ svc' = IF svc.state = "running" THEN Stopped ELSE svc
    /\ UNCHANGED <<published, disk, paired, session>>

Boot ==
    /\ At("none") /\ svc.state = "stopped" /\ disk["agent"].exe # 0
    /\ ServiceStart
    /\ UNCHANGED <<published, disk, paired, session, run>>

\* runWithCtx returns: no configuration, no pairing, no connection it can serve, or
\* every one revoked.  The process stays, and to the service manager it runs.
DaemonReturns ==
    /\ svc.lives
    /\ svc' = [svc EXCEPT !.lives = FALSE]
    /\ UNCHANGED <<published, disk, paired, session, run>>

InstallerSteps ==
    \/ Elevate \/ Inspect \/ Setup \/ StartSession \/ Poll \/ Claim \/ Persist \/ Reload
    \/ Fetch
    \/ Download \/ Aside \/ Place \/ Clean \/ Status \/ Uninstall \/ Install \/ StartService
    \/ Discover \/ Fail \/ End

-----------------------------------------------------------------------------
\* Once a binary was there, the machine keeps a copy of it, under its name or as
\* its .bak, through every failed rename and every run cut off between two.
BinaryIsNeverLost ==
    [][\A f \in Files : disk[f] # [exe |-> 0, bak |-> 0]
                        => disk'[f] # [exe |-> 0, bak |-> 0]]_insVars

\* Exit code 0 of an elevated run: both binaries are of one manifest, and the
\* process of the service is of it too, never one that was left running over the
\* replacement.  The daemon in that process may have returned already.
ZeroMeansUpdated ==
    run.at = "ended" /\ run.exit = 0 /\ run.elevated =>
        /\ \A f \in Files : disk[f].exe = run.target
        /\ svc.state = "running" /\ svc.runs = run.target

\* The browser is told how the session it approved ended, but for a report that
\* was lost and for runs that ended before they fetched a release: a claim whose
\* answer was lost, and a pairing that could not be read back.
SessionIsAnswered ==
    run.at = "ended" /\ ~run.unheard /\ run.target # 0
        => session \in {"none", "ready", "failed"}
=============================================================================
