-------------------------- MODULE AutoUpdate_proofs --------------------------
(***************************************************************************)
(* The safety properties of AutoUpdate and of the Installer it composes,   *)
(* for any number of releases and any bound on the attempts.               *)
(***************************************************************************)
EXTENDS AutoUpdate, TLAPS

USE InstallerAssumption, AttemptsAssumption

Before == {"elevate", "inspect", "setup", "start", "poll", "claim", "persist", "reload", "fetch"}
Replacing == {"download", "aside", "place", "clean"}
Servicing == {"status", "repair", "install", "begin", "discover"}

\* A run knows the release it installs from the manifest it fetches on.
TargetIsFetched ==
    /\ run.at \in Before => run.target = 0 /\ run.file = "agentctl"
    /\ run.at \in Replacing \cup Servicing => run.target \in Releases

\* The files behind the one that is being replaced are of the target.
ReplacedInOrder ==
    /\ run.at \in Replacing /\ run.file = "agent" => disk["agentctl"].exe = run.target
    /\ run.at = "clean" => disk[run.file].exe = run.target
    /\ run.at \in Servicing => \A f \in Files : disk[f].exe = run.target

\* What was moved aside is still there while its place is empty.
AsideIsKept == run.at = "place" /\ run.moved => disk[run.file].bak # 0

\* A service that was started runs what was installed.
InstalledRuns == run.at = "discover" => svc.state = "running" /\ svc.runs = run.target

InstallerInv ==
    /\ InstallerTypeOK /\ TargetIsFetched /\ ReplacedInOrder /\ AsideIsKept /\ InstalledRuns
    /\ ZeroMeansUpdated /\ SessionIsAnswered

RunType == [at : Steps, elevated : BOOLEAN, key : BOOLEAN, add : BOOLEAN,
            update : BOOLEAN, target : {0} \cup Releases, file : Files, moved : BOOLEAN,
            repair : BOOLEAN, late : BOOLEAN, unheard : BOOLEAN, exit : 0 .. 2]

-----------------------------------------------------------------------------
\* What a run keeps when it takes a step, ends, or goes unheard.
LEMMA ToStep ==
    ASSUME run \in RunType, NEW s \in Steps, run' = [run EXCEPT !.at = s]
    PROVE  /\ run' \in RunType /\ run'.at = s
           /\ run'.target = run.target /\ run'.file = run.file /\ run'.moved = run.moved
           /\ run'.exit = run.exit /\ run'.unheard = run.unheard
           /\ run'.elevated = run.elevated
BY DEF RunType

Ended(c) == [run EXCEPT !.at = "ended", !.exit = c]

LEMMA ToEnd ==
    ASSUME run \in RunType, NEW c \in 0 .. 2
    PROVE  /\ Ended(c) \in RunType /\ Ended(c).at = "ended" /\ Ended(c).exit = c
           /\ Ended(c).target = run.target /\ Ended(c).file = run.file
           /\ Ended(c).moved = run.moved /\ Ended(c).unheard = run.unheard
           /\ Ended(c).elevated = run.elevated
BY DEF Ended, RunType, Steps

LEMMA NoRunType ==
    NoRun \in RunType /\ NoRun.at = "none" /\ NoRun.target = 0 /\ NoRun.file = "agentctl"
BY DEF RunType, NoRun, Steps, Files

LEMMA GoesUnheard ==
    ASSUME NEW next \in RunType
    PROVE  /\ [next EXCEPT !.unheard = TRUE] \in RunType
           /\ [next EXCEPT !.unheard = TRUE].at = next.at
           /\ [next EXCEPT !.unheard = TRUE].target = next.target
           /\ [next EXCEPT !.unheard = TRUE].file = next.file
           /\ [next EXCEPT !.unheard = TRUE].exit = next.exit
           /\ [next EXCEPT !.unheard = TRUE].unheard = TRUE
BY DEF RunType

\* A report that is told reaches the session the run has.
LEMMA Told ==
    ASSUME InstallerTypeOK, NEW next \in RunType,
           NEW status \in {"ready", "failed", "installing_service", "discovering_tally"},
           Tell(status, next)
    PROVE  /\ run' \in RunType /\ session' \in Sessions
           /\ run'.at = next.at /\ run'.target = next.target /\ run'.file = next.file
           /\ run'.exit = next.exit
           /\ run'.unheard = TRUE \/ session' = "none" \/ session' = status
BY GoesUnheard DEF Tell, InstallerTypeOK, Sessions

\* The machine at first.
LEMMA InstallerInitInv == InstallerInit => InstallerInv
<1> SUFFICES ASSUME InstallerInit PROVE InstallerInv
  OBVIOUS
<1>1. 0 \in {0} \cup Releases /\ 1 \in Releases
  BY DEF Releases
<1>2. InstallerTypeOK
  <2>1. run \in RunType
    BY NoRunType DEF InstallerInit
  <2>2. disk \in [Files -> [exe : {0} \cup Releases, bak : {0} \cup Releases]]
    BY <1>1 DEF InstallerInit
  <2>3. svc \in [state : {"not_installed", "stopped", "running"}, runs : {0} \cup Releases,
                 lives : BOOLEAN]
    <3>1. CASE svc = NotInstalled
      BY <3>1 DEF NotInstalled
    <3>2. CASE svc = [state |-> "running", runs |-> 1, lives |-> TRUE]
      BY <1>1, <3>2
    <3> QED
      BY <3>1, <3>2 DEF InstallerInit
  <2> QED
    BY <1>1, <2>1, <2>2, <2>3 DEF InstallerInit, InstallerTypeOK, RunType, Sessions
<1> QED
  BY <1>1, <1>2 DEF InstallerInit, InstallerInv, TargetIsFetched, ReplacedInOrder, AsideIsKept,
     InstalledRuns, ZeroMeansUpdated, SessionIsAnswered, NoRun, Before, Replacing, Servicing

-----------------------------------------------------------------------------
\* A step up to the manifest touches neither the binaries nor the service, and does
\* not end the run with exit code 0.
LEMMA BeforeTheManifest ==
    ASSUME InstallerInv, run' \in RunType, run.at \in Before,
           run'.target = run.target, run'.file = run.file,
           run'.at \in Before \cup {"fail", "ended"},
           run'.at = "ended" => run'.exit # 0 \/ ~run'.elevated,
           paired' \in BOOLEAN, session' \in Sessions, UNCHANGED <<published, disk, svc>>
    PROVE  InstallerInv'
<1>1. InstallerTypeOK'
  BY DEF InstallerInv, InstallerTypeOK, RunType
<1> QED
  BY <1>1 DEF InstallerInv, TargetIsFetched, ReplacedInOrder, AsideIsKept, InstalledRuns,
     ZeroMeansUpdated, SessionIsAnswered, Before, Replacing, Servicing

\* The steps from the inspection to the manifest.
LEMMA PairingInv ==
    ASSUME InstallerInv,
           \/ Elevate \/ Inspect \/ Setup \/ StartSession \/ Poll \/ Claim \/ Persist
           \/ Reload \/ Fetch
    PROVE  InstallerInv'
<1>1. run \in RunType /\ session \in Sessions /\ paired \in BOOLEAN /\ published \in Releases
  BY DEF InstallerInv, InstallerTypeOK, RunType
<1>2. ASSUME NEW s \in (Before \cup {"fail"}), To(s), run.at \in Before, paired' \in BOOLEAN,
             session' \in Sessions, UNCHANGED <<published, disk, svc>>
      PROVE  InstallerInv'
  <2>1. s \in Steps /\ s # "ended"
    BY <1>2 DEF Before, Steps
  <2> QED
    BY <1>1, <1>2, <2>1, ToStep, BeforeTheManifest DEF To
<1>3. ASSUME NEW c \in {1, 2}, Exit(c), run.at \in Before, paired' \in BOOLEAN,
             session' \in Sessions, UNCHANGED <<published, disk, svc>>
      PROVE  InstallerInv'
  <2>1. run' = Ended(c)
    BY <1>3 DEF Exit, Ended
  <2>2. c \in 0 .. 2 /\ c # 0
    BY <1>3
  <2> QED
    BY <1>1, <1>3, <2>1, <2>2, ToEnd, BeforeTheManifest
<1> USE DEF At
<1>12. CASE Elevate
  <2>1. UNCHANGED <<published, disk, svc, paired, session>> /\ run.at \in Before
    BY <1>12 DEF Elevate, Before
  <2>2. CASE ~run.elevated /\ Exit(0)
    <3>1. run' = Ended(0) /\ 0 \in 0 .. 2
      BY <2>2 DEF Exit, Ended
    <3> QED
      BY <1>1, <2>1, <2>2, <3>1, ToEnd, BeforeTheManifest
  <2> QED
    BY <1>1, <1>2, <1>3, <1>12, <2>1, <2>2 DEF Elevate, Before
<1>4. CASE Inspect
  <2>1. CASE ~run.key /\ paired /\ ~run.add /\ run' = [run EXCEPT !.at = "fetch", !.update = TRUE]
    <3>1. /\ run' \in RunType /\ run'.at = "fetch" /\ run'.target = run.target
          /\ run'.file = run.file
      BY <1>1, <2>1 DEF RunType, Steps
    <3> QED
      BY <1>1, <1>4, <3>1, BeforeTheManifest DEF Inspect, Before
  <2> QED
    BY <1>1, <1>2, <1>3, <1>4, <2>1 DEF Inspect, Before
<1>5. CASE Setup
  BY <1>1, <1>2, <1>3, <1>5 DEF Setup, Before
<1>6. CASE StartSession
  BY <1>1, <1>2, <1>3, <1>6 DEF StartSession, Before, Sessions
<1>7. CASE Poll
  BY <1>1, <1>2, <1>3, <1>7 DEF Poll, Before
<1>8. CASE Claim
  BY <1>1, <1>2, <1>3, <1>8 DEF Claim, Before, Sessions
<1>9. CASE Persist
  <2>1. CASE paired' = paired /\ Tell("failed", Ended(1))
    <3>1. /\ Ended(1) \in RunType /\ Ended(1).at = "ended" /\ Ended(1).exit = 1
          /\ Ended(1).target = run.target /\ Ended(1).file = run.file
      BY <1>1, ToEnd
    <3>2. /\ run' \in RunType /\ session' \in Sessions
          /\ run'.at = "ended" /\ run'.target = run.target /\ run'.file = run.file /\ run'.exit = 1
      BY <2>1, <3>1, Told DEF InstallerInv
    <3> QED
      BY <1>1, <1>9, <2>1, <3>2, BeforeTheManifest DEF Persist, Before
  <2>2. CASE paired' = TRUE /\ To("reload") /\ session' = session
    BY <1>1, <1>2, <1>9, <2>2 DEF Persist, Before
  <2> QED
    BY <1>9, <2>1, <2>2 DEF Persist, Ended
<1>10. CASE Reload
  BY <1>1, <1>2, <1>3, <1>10 DEF Reload, Before
<1>11. CASE Fetch
  <2>1. CASE run' = [run EXCEPT !.at = "download", !.target = published]
    <3>1. /\ run' \in RunType /\ run'.at = "download" /\ run'.target = published
          /\ run'.file = run.file
      BY <1>1, <2>1 DEF RunType, Steps
    <3>2. run.file = "agentctl"
      BY <1>11 DEF InstallerInv, TargetIsFetched, Fetch, Before
    <3>3. UNCHANGED <<published, disk, svc, paired, session>>
      BY <1>11 DEF Fetch
    <3>4. InstallerTypeOK'
      BY <3>1, <3>3 DEF InstallerInv, InstallerTypeOK, RunType
    <3> QED
      BY <1>1, <3>1, <3>2, <3>3, <3>4 DEF InstallerInv, TargetIsFetched, ReplacedInOrder, AsideIsKept,
         InstalledRuns, ZeroMeansUpdated, SessionIsAnswered, Before, Replacing, Servicing
  <2>2. CASE To("fail")
    BY <1>1, <1>2, <1>11, <2>2 DEF Fetch, Before
  <2> QED
    BY <1>11, <2>1, <2>2 DEF Fetch
<1> QED
  BY <1>4, <1>5, <1>6, <1>7, <1>8, <1>9, <1>10, <1>11, <1>12

-----------------------------------------------------------------------------
DiskType == [Files -> [exe : {0} \cup Releases, bak : {0} \cup Releases]]

\* A step that fails changes no binary the invariant knows, and the run is to end.
LEMMA GoesToFail ==
    ASSUME InstallerInv, To("fail"), run.at \in Replacing \cup Servicing, disk' \in DiskType,
           UNCHANGED <<published, svc, paired, session>>
    PROVE  InstallerInv'
<1>1. run \in RunType
  BY DEF InstallerInv, InstallerTypeOK, RunType
<1>2. run' \in RunType /\ run'.at = "fail"
  BY <1>1, ToStep DEF To, Steps
<1>3. InstallerTypeOK'
  BY <1>2 DEF InstallerInv, InstallerTypeOK, RunType, DiskType
<1> QED
  BY <1>2, <1>3 DEF InstallerInv, TargetIsFetched, ReplacedInOrder, AsideIsKept, InstalledRuns,
     ZeroMeansUpdated, SessionIsAnswered, Before, Replacing, Servicing

\* A step of the replacement that goes on.
LEMMA Replaces ==
    ASSUME InstallerInv, run.at \in Replacing, run' \in RunType, run'.at \in Replacing,
           run'.target = run.target, disk' \in DiskType, UNCHANGED <<published, svc, paired, session>>,
           run'.file = "agent" => disk'["agentctl"].exe = run.target,
           run'.at = "place" /\ run'.moved => disk'[run'.file].bak # 0,
           run'.at = "clean" => disk'[run'.file].exe = run.target
    PROVE  InstallerInv'
<1>1. InstallerTypeOK'
  BY DEF InstallerInv, InstallerTypeOK, RunType, DiskType
<1> QED
  BY <1>1 DEF InstallerInv, TargetIsFetched, ReplacedInOrder, AsideIsKept, InstalledRuns,
     ZeroMeansUpdated, SessionIsAnswered, Before, Replacing, Servicing

\* The steps that replace a binary.
LEMMA ReplacingInv ==
    ASSUME InstallerInv, Download \/ Aside \/ Place \/ Clean
    PROVE  InstallerInv' /\ \A f \in Files : disk[f] # [exe |-> 0, bak |-> 0]
                                             => disk'[f] # [exe |-> 0, bak |-> 0]
<1>1. run \in RunType /\ disk \in DiskType
  BY DEF InstallerInv, InstallerTypeOK, RunType, DiskType
<1>2. run.file \in Files /\ run.target \in {0} \cup Releases /\ 0 \notin Releases
  BY <1>1 DEF RunType, Releases
<1>3. \A f \in Files : disk[f].exe \in {0} \cup Releases /\ disk[f].bak \in {0} \cup Releases
  BY <1>1 DEF DiskType
<1>4. \A f \in Files : disk[f] # [exe |-> 0, bak |-> 0] <=> (disk[f].exe # 0 \/ disk[f].bak # 0)
  BY <1>1 DEF DiskType
<1> USE DEF At
<1>5. CASE Download
  <2>1. UNCHANGED <<published, disk, svc, paired, session>>
    BY <1>5 DEF Download
  <2>2. CASE To("aside")
    <3>1. run' \in RunType /\ run'.at = "aside" /\ run'.target = run.target /\ run'.file = run.file
      BY <1>1, <2>2, ToStep DEF To, Steps
    <3> QED
      BY <1>1, <1>5, <2>1, <3>1, Replaces DEF InstallerInv, ReplacedInOrder, Replacing, Download
  <2>3. CASE To("fail")
    BY <1>1, <1>5, <2>1, <2>3, GoesToFail DEF Download, Replacing
  <2> QED
    BY <1>5, <2>2, <2>3 DEF Download
<1>6. CASE Aside
  <2>1. /\ run.at = "aside" /\ UNCHANGED <<published, svc, paired, session>>
        /\ run.target \in Releases
    BY <1>6 DEF Aside, InstallerInv, TargetIsFetched, Replacing
  <2>2. run.file = "agent" => disk["agentctl"].exe = run.target
    BY <2>1 DEF InstallerInv, ReplacedInOrder, Replacing
  <2>3. ASSUME NEW m \in BOOLEAN, run' = [run EXCEPT !.at = "place", !.moved = m]
        PROVE  /\ run' \in RunType /\ run'.at = "place" /\ run'.moved = m
               /\ run'.target = run.target /\ run'.file = run.file
    BY <1>1, <2>3 DEF RunType, Steps
  <2>4. CASE disk[run.file].exe = 0 /\ disk' = disk /\ run' = [run EXCEPT !.at = "place", !.moved = FALSE]
    <3>1. /\ run' \in RunType /\ run'.at = "place" /\ run'.moved = FALSE
          /\ run'.target = run.target /\ run'.file = run.file
      BY <2>3, <2>4
    <3> QED
      BY <1>1, <2>1, <2>2, <2>4, <3>1, Replaces DEF Replacing
  <2>5. CASE /\ disk[run.file].exe # 0
             /\ disk' = [disk EXCEPT ![run.file] = [exe |-> 0, bak |-> disk[run.file].exe]]
             /\ run' = [run EXCEPT !.at = "place", !.moved = TRUE]
    <3>1. /\ run' \in RunType /\ run'.at = "place" /\ run'.target = run.target /\ run'.file = run.file
      BY <2>3, <2>5
    <3>2. disk' \in DiskType /\ disk'[run.file].bak # 0
      BY <1>1, <1>2, <1>3, <2>5 DEF DiskType
    <3>3. run.file # "agentctl" => disk'["agentctl"] = disk["agentctl"]
      BY <1>1, <2>5 DEF DiskType, Files
    <3>4. InstallerInv'
      BY <1>1, <2>1, <2>2, <3>1, <3>2, <3>3, Replaces DEF Replacing
    <3>5. \A f \in Files : f # run.file => disk'[f] = disk[f]
      BY <1>1, <2>5 DEF DiskType
    <3>6. disk'[run.file] # [exe |-> 0, bak |-> 0]
      BY <3>2
    <3> QED
      BY <3>4, <3>5, <3>6
  <2>6. CASE /\ disk[run.file].exe # 0 /\ To("fail")
             /\ disk' \in {disk, [disk EXCEPT ![run.file].bak = 0]}
    <3>1. disk' \in DiskType
      BY <1>1, <1>2, <2>6 DEF DiskType
    <3>2. \A f \in Files : f # run.file => disk'[f] = disk[f]
      BY <1>1, <2>6 DEF DiskType
    <3>3. disk'[run.file].exe # 0
      BY <1>1, <1>2, <2>6 DEF DiskType
    <3> QED
      BY <2>1, <2>6, <3>1, <3>2, <3>3, GoesToFail DEF Replacing
  <2> QED
    BY <1>6, <2>4, <2>5, <2>6 DEF Aside
<1>7. CASE Place
  <2>1. /\ run.at = "place" /\ UNCHANGED <<published, svc, paired, session>>
        /\ run.target \in Releases
    BY <1>7 DEF Place, InstallerInv, TargetIsFetched, Replacing
  <2>2. run.file = "agent" => disk["agentctl"].exe = run.target
    BY <2>1 DEF InstallerInv, ReplacedInOrder, Replacing
  <2>3. CASE disk' = [disk EXCEPT ![run.file].exe = run.target] /\ To("clean")
    <3>1. /\ run' \in RunType /\ run'.at = "clean" /\ run'.target = run.target /\ run'.file = run.file
      BY <1>1, <2>3, ToStep DEF To, Steps
    <3>2. disk' \in DiskType /\ disk'[run.file].exe = run.target
      BY <1>1, <1>2, <2>3 DEF DiskType
    <3>3. \A f \in Files : f # run.file => disk'[f] = disk[f]
      BY <1>1, <2>3 DEF DiskType
    <3>4. InstallerInv'
      BY <1>1, <2>1, <2>2, <3>1, <3>2, <3>3, Replaces DEF Replacing, Files
    <3>5. disk'[run.file].exe # 0
      BY <1>2, <2>1, <3>2
    <3> QED
      BY <3>3, <3>4, <3>5
  <2>4. CASE To("fail") /\ disk' = disk
    BY <1>1, <2>1, <2>4, GoesToFail DEF Replacing
  <2>5. CASE /\ To("fail") /\ run.moved
             /\ disk' = [disk EXCEPT ![run.file] = [exe |-> disk[run.file].bak, bak |-> 0]]
    <3>1. disk' \in DiskType
      BY <1>1, <1>2, <1>3, <2>5 DEF DiskType
    <3>2. \A f \in Files : f # run.file => disk'[f] = disk[f]
      BY <1>1, <2>5 DEF DiskType
    <3>3. disk[run.file].bak # 0
      BY <2>1, <2>5 DEF InstallerInv, AsideIsKept
    <3>4. disk'[run.file].exe # 0
      BY <1>1, <1>2, <2>5, <3>3 DEF DiskType
    <3> QED
      BY <2>1, <2>5, <3>1, <3>2, <3>4, GoesToFail DEF Replacing
  <2> QED
    BY <1>7, <2>3, <2>4, <2>5 DEF Place
<1>8. CASE Clean
  <2>1. /\ run.at = "clean" /\ UNCHANGED <<published, svc, paired>>
        /\ run.target \in Releases /\ disk[run.file].exe = run.target
    BY <1>8 DEF Clean, InstallerInv, TargetIsFetched, ReplacedInOrder, Replacing
  <2>2. CASE disk' = disk /\ session' = session /\ To("fail")
    BY <1>1, <2>1, <2>2, GoesToFail DEF Replacing
  <2>3. ASSUME disk' \in {disk, [disk EXCEPT ![run.file].bak = 0]}
        PROVE  /\ disk' \in DiskType /\ \A f \in Files : f # run.file => disk'[f] = disk[f]
               /\ \A f \in Files : disk'[f].exe = disk[f].exe
               /\ disk'[run.file].exe # 0
    <3>1. disk' \in DiskType
      BY <1>1, <1>2, <2>3 DEF DiskType
    <3>2. \A f \in Files : f # run.file => disk'[f] = disk[f]
      BY <1>1, <2>3 DEF DiskType
    <3>3. \A f \in Files : disk'[f].exe = disk[f].exe
      BY <1>1, <2>3 DEF DiskType
    <3> QED
      BY <1>2, <2>1, <3>1, <3>2, <3>3
  <2>4. CASE /\ disk' \in {disk, [disk EXCEPT ![run.file].bak = 0]} /\ run.file = "agentctl"
             /\ run' = [run EXCEPT !.at = "download", !.file = "agent", !.moved = FALSE]
             /\ session' = session
    <3>1. run' \in RunType /\ run'.at = "download" /\ run'.target = run.target /\ run'.file = "agent"
      BY <1>1, <2>4 DEF RunType, Steps, Files
    <3>2. disk'["agentctl"].exe = run.target /\ disk' \in DiskType
      BY <1>2, <2>1, <2>3, <2>4
    <3>3. InstallerInv'
      BY <1>1, <2>1, <2>4, <3>1, <3>2, Replaces DEF Replacing
    <3> QED
      BY <2>3, <2>4, <3>3
  <2>5. CASE /\ disk' \in {disk, [disk EXCEPT ![run.file].bak = 0]} /\ run.file # "agentctl"
             /\ Tell("installing_service", [run EXCEPT !.at = "status"])
    <3>1. /\ [run EXCEPT !.at = "status"] \in RunType
          /\ [run EXCEPT !.at = "status"].at = "status"
          /\ [run EXCEPT !.at = "status"].target = run.target
      BY <1>1 DEF RunType, Steps
    <3>2. /\ run' \in RunType /\ session' \in Sessions
          /\ run'.at = "status" /\ run'.target = run.target
      BY <2>5, <3>1, Told DEF InstallerInv
    <3>3. \A f \in Files : disk[f].exe = run.target
      BY <1>2, <2>1, <2>5 DEF InstallerInv, ReplacedInOrder, Replacing, Files
    <3>4. \A f \in Files : disk'[f].exe = run'.target
      BY <2>3, <2>5, <3>2, <3>3
    <3>5. InstallerTypeOK'
      BY <2>1, <2>3, <2>5, <3>2 DEF InstallerInv, InstallerTypeOK, RunType, DiskType
    <3>6. InstallerInv'
      BY <2>1, <3>2, <3>4, <3>5 DEF InstallerInv, TargetIsFetched, ReplacedInOrder, AsideIsKept,
         InstalledRuns, ZeroMeansUpdated, SessionIsAnswered, Before, Replacing, Servicing
    <3> QED
      BY <2>3, <2>5, <3>6
  <2>6. disk \in {disk, [disk EXCEPT ![run.file].bak = 0]}
    OBVIOUS
  <2> QED
    BY <1>8, <2>2, <2>4, <2>5, <2>6 DEF Clean
<1> QED
  BY <1>5, <1>6, <1>7, <1>8

-----------------------------------------------------------------------------
SvcType == [state : {"not_installed", "stopped", "running"}, runs : {0} \cup Releases,
            lives : BOOLEAN]

\* A step of the service's repair or start that goes on.
LEMMA Serves ==
    ASSUME InstallerInv, run.at \in Servicing, run' \in RunType, run'.at \in Servicing,
           run'.target = run.target, svc' \in SvcType, session' \in Sessions,
           UNCHANGED <<published, disk, paired>>,
           run'.at = "discover" => svc'.state = "running" /\ svc'.runs = run.target
    PROVE  InstallerInv'
<1>1. InstallerTypeOK'
  BY DEF InstallerInv, InstallerTypeOK, RunType, SvcType
<1> QED
  BY <1>1 DEF InstallerInv, TargetIsFetched, ReplacedInOrder, AsideIsKept, InstalledRuns,
     ZeroMeansUpdated, SessionIsAnswered, Before, Replacing, Servicing

\* The run has reported its end: with exit code 0 from the last step, or with 1.
LEMMA Reports ==
    ASSUME InstallerInv, NEW c \in {0, 1}, NEW status \in {"ready", "failed"},
           Tell(status, [run EXCEPT !.at = "ended", !.exit = c]),
           c = 0 => run.at = "discover", UNCHANGED <<published, disk, svc, paired>>
    PROVE  InstallerInv'
<1>1. run \in RunType
  BY DEF InstallerInv, InstallerTypeOK, RunType
<1>2. /\ run' \in RunType /\ session' \in Sessions
      /\ run'.at = "ended" /\ run'.target = run.target /\ run'.exit = c
      /\ run'.unheard = TRUE \/ session' = "none" \/ session' = status
  <2>1. Tell(status, Ended(c)) /\ c \in 0 .. 2
    BY DEF Ended
  <2>2. /\ Ended(c) \in RunType /\ Ended(c).at = "ended" /\ Ended(c).exit = c
        /\ Ended(c).target = run.target
    BY <1>1, <2>1, ToEnd
  <2> QED
    BY <2>1, <2>2, Told DEF InstallerInv
<1>3. InstallerTypeOK'
  BY <1>2 DEF InstallerInv, InstallerTypeOK, RunType
<1>4. ZeroMeansUpdated'
  BY <1>2 DEF InstallerInv, ZeroMeansUpdated, ReplacedInOrder, InstalledRuns, Servicing
<1> QED
  BY <1>2, <1>3, <1>4 DEF InstallerInv, TargetIsFetched, ReplacedInOrder, AsideIsKept, InstalledRuns,
     SessionIsAnswered, Before, Replacing, Servicing

\* The steps that bring the service up, and the report of the end.
LEMMA ServicingInv ==
    ASSUME InstallerInv, Status \/ Uninstall \/ Install \/ StartService \/ Discover \/ Fail
    PROVE  InstallerInv'
<1>1. run \in RunType /\ svc \in SvcType /\ session \in Sessions /\ disk \in DiskType
  BY DEF InstallerInv, InstallerTypeOK, RunType, SvcType, DiskType
<1>2. Stopped \in SvcType /\ NotInstalled \in SvcType
  BY DEF Stopped, NotInstalled, SvcType
<1>3. ServiceInstall \/ ServiceUninstall \/ ServiceStop \/ svc' = svc => svc' \in SvcType
  BY <1>1, <1>2 DEF ServiceInstall, ServiceUninstall, ServiceStop
<1>4. ASSUME NEW s \in Servicing \ {"discover"}, To(s) \/ run' = [run EXCEPT !.at = s, !.repair = TRUE],
             run.at \in Servicing, svc' \in SvcType, session' = session,
             UNCHANGED <<published, disk, paired>>
      PROVE  InstallerInv'
  <2>1. s \in Steps
    BY DEF Servicing, Steps
  <2>2. run' \in RunType /\ run'.at = s /\ run'.target = run.target
    <3>1. CASE To(s)
      BY <1>1, <2>1, <3>1, ToStep DEF To
    <3>2. CASE run' = [run EXCEPT !.at = s, !.repair = TRUE]
      BY <1>1, <2>1, <3>2 DEF RunType
    <3> QED
      BY <1>4, <3>1, <3>2
  <2>3. s \in Servicing /\ s # "discover"
    OBVIOUS
  <2> QED
    BY <1>1, <1>4, <2>2, <2>3, Serves
<1>5. ASSUME Otherwise, run.at \in Servicing, UNCHANGED <<published, disk, svc, paired, session>>
      PROVE  InstallerInv'
  <2>1. CASE run.repair = TRUE
    <3>1. /\ run' \in RunType /\ run'.at = "fail"
      BY <1>1, <1>5, <2>1 DEF Otherwise, RunType, Steps
    <3>2. InstallerTypeOK'
      BY <1>5, <3>1 DEF InstallerInv, InstallerTypeOK, RunType
    <3> QED
      BY <1>5, <3>1, <3>2 DEF InstallerInv, TargetIsFetched, ReplacedInOrder, AsideIsKept,
         InstalledRuns, ZeroMeansUpdated, SessionIsAnswered, Before, Replacing, Servicing
  <2>2. CASE run.repair = FALSE
    <3>1. run' = [run EXCEPT !.at = "repair", !.repair = TRUE]
      BY <1>5, <2>2 DEF Otherwise
    <3> QED
      BY <1>1, <1>4, <1>5, <3>1 DEF Servicing
  <2>3. run.repair \in BOOLEAN
    BY <1>1 DEF RunType
  <2> QED
    BY <2>1, <2>2, <2>3
<1> USE DEF At
<1>6. CASE Status
  <2>1. run.at \in Servicing /\ svc' \in SvcType /\ UNCHANGED <<published, disk, paired, session>>
    BY <1>1, <1>3, <1>6 DEF Status, Servicing
  <2>2. \/ To("begin") \/ To("install")
        \/ run' = [run EXCEPT !.at = "repair", !.repair = TRUE]
    BY <1>6 DEF Status
  <2> QED
    BY <1>4, <2>1, <2>2 DEF Servicing
<1>7. CASE Uninstall
  <2>1. run.at \in Servicing /\ svc' \in SvcType /\ UNCHANGED <<published, disk, paired, session>>
    BY <1>1, <1>3, <1>7 DEF Uninstall, Servicing
  <2> QED
    BY <1>4, <1>7, <2>1 DEF Uninstall, Servicing
<1>8. CASE Install
  <2>1. run.at \in Servicing /\ svc' \in SvcType /\ UNCHANGED <<published, disk, paired, session>>
    BY <1>1, <1>3, <1>8 DEF Install, Servicing
  <2>2. CASE To("begin")
    BY <1>4, <2>1, <2>2 DEF Servicing
  <2>3. CASE svc' = svc /\ Otherwise
    BY <1>5, <2>1, <2>3
  <2> QED
    BY <1>8, <2>2, <2>3 DEF Install
<1>9. CASE StartService
  <2>1. run.at \in Servicing /\ UNCHANGED <<published, disk, paired>>
    BY <1>9 DEF StartService, Servicing
  <2>2. CASE svc' = svc /\ session' = session /\ Otherwise
    BY <1>5, <2>1, <2>2
  <2>3. CASE ServiceStart
    <3>1. /\ svc' = [state |-> "running", runs |-> run.target, lives |-> TRUE]
          /\ run.target \in Releases
      BY <2>1, <2>3 DEF ServiceStart, Started, InstallerInv, ReplacedInOrder, TargetIsFetched, Files
    <3>2. svc' \in SvcType
      BY <3>1 DEF SvcType
    <3>3. CASE To("discover") /\ session' = session
      <4>1. run' \in RunType /\ run'.at = "discover" /\ run'.target = run.target
        BY <1>1, <3>3, ToStep DEF To, Steps
      <4> QED
        BY <1>1, <2>1, <3>1, <3>2, <3>3, <4>1, Serves DEF Servicing
    <3>4. CASE Tell("discovering_tally", [run EXCEPT !.at = "discover"])
      <4>1. /\ [run EXCEPT !.at = "discover"] \in RunType
            /\ [run EXCEPT !.at = "discover"].at = "discover"
            /\ [run EXCEPT !.at = "discover"].target = run.target
        BY <1>1 DEF RunType, Steps
      <4>2. /\ run' \in RunType /\ session' \in Sessions
            /\ run'.at = "discover" /\ run'.target = run.target
        BY <3>4, <4>1, Told DEF InstallerInv
      <4> QED
        BY <2>1, <3>1, <3>2, <4>2, Serves DEF Servicing
    <3> QED
      BY <1>5, <1>9, <2>1, <2>2, <3>3, <3>4 DEF StartService
  <2> QED
    BY <1>9, <2>2, <2>3 DEF StartService
<1>10. CASE Discover
  <2>1. run.at = "discover" /\ UNCHANGED <<published, disk, svc, paired>>
    BY <1>10 DEF Discover
  <2>2. CASE Tell("ready", [run EXCEPT !.at = "ended", !.exit = 0])
    BY <2>1, <2>2, Reports
  <2>3. CASE To("fail") /\ session' = session
    BY <1>1, <2>1, <2>3, GoesToFail DEF Servicing
  <2> QED
    BY <1>10, <2>2, <2>3 DEF Discover
<1>11. CASE Fail
  BY <1>11, Reports DEF Fail
<1> QED
  BY <1>6, <1>7, <1>8, <1>9, <1>10, <1>11

-----------------------------------------------------------------------------
\* No run, or one that begins.
LEMMA Afresh ==
    ASSUME InstallerInv, run' \in RunType, run'.at \in {"none", "elevate"}, run'.target = 0,
           run'.file = "agentctl", svc' \in SvcType, session' \in Sessions,
           UNCHANGED <<published, disk, paired>>
    PROVE  InstallerInv'
<1>1. InstallerTypeOK'
  BY DEF InstallerInv, InstallerTypeOK, RunType, SvcType
<1> QED
  BY <1>1 DEF InstallerInv, TargetIsFetched, ReplacedInOrder, AsideIsKept, InstalledRuns,
     ZeroMeansUpdated, SessionIsAnswered, Before, Replacing, Servicing

\* The steps of the world, and a run that begins or ends.
LEMMA AroundInv ==
    ASSUME InstallerInv,
           \/ End \/ Answer \/ TimeIsUp \/ Killed \/ PowerLoss \/ Boot \/ DaemonReturns \/ Publish
           \/ \E elevated, key, add \in BOOLEAN : Begin(elevated, key, add)
    PROVE  InstallerInv' /\ disk' = disk
<1>1. run \in RunType /\ svc \in SvcType /\ session \in Sessions /\ disk \in DiskType
  BY DEF InstallerInv, InstallerTypeOK, RunType, SvcType, DiskType
<1> USE DEF At
<1>0. ASSUME NEW elevated \in BOOLEAN, NEW key \in BOOLEAN, NEW add \in BOOLEAN
      PROVE  /\ Invoked(elevated, key, add) \in RunType
             /\ Invoked(elevated, key, add).at = "elevate"
             /\ Invoked(elevated, key, add).target = 0
             /\ Invoked(elevated, key, add).file = "agentctl"
  <2> DEFINE first == [NoRun EXCEPT !.at = "elevate"]
             second == [first EXCEPT !.elevated = elevated]
             third == [second EXCEPT !.key = key]
  <2>1. /\ first \in RunType /\ first.at = "elevate" /\ first.target = 0
        /\ first.file = "agentctl"
    BY NoRunType DEF RunType, Steps
  <2>2. Invoked(elevated, key, add) = [third EXCEPT !.add = add]
    BY DEF Invoked
  <2> HIDE DEF first
  <2>3. /\ second \in RunType /\ second.at = "elevate" /\ second.target = 0
        /\ second.file = "agentctl"
    BY <2>1 DEF RunType
  <2> HIDE DEF second
  <2>4. /\ third \in RunType /\ third.at = "elevate" /\ third.target = 0
        /\ third.file = "agentctl"
    BY <2>3 DEF RunType
  <2> HIDE DEF third
  <2> QED
    BY <2>2, <2>4 DEF RunType
<1>2. CASE End
  <2>1. PICK elevated \in BOOLEAN, key \in BOOLEAN, add \in BOOLEAN :
          elevated = TRUE /\ key = run.key /\ add = run.add
    BY <1>1 DEF RunType
  <2>2. run' = NoRun \/ run' = Invoked(elevated, key, add)
    BY <1>2, <2>1 DEF End
  <2>3. CASE run' = NoRun
    BY <1>1, <1>2, <2>3, NoRunType, Afresh DEF End
  <2>4. CASE run' = Invoked(elevated, key, add)
    <3>1. /\ run' \in RunType /\ run'.at = "elevate" /\ run'.target = 0
          /\ run'.file = "agentctl"
      BY <1>0, <2>4
    <3> QED
      BY <1>1, <1>2, <3>1, Afresh DEF End
  <2> QED
    BY <2>2, <2>3, <2>4
<1>3. CASE Killed
  BY <1>1, <1>3, NoRunType, Afresh DEF Killed
<1>4. CASE PowerLoss
  <2>1. svc' \in SvcType
    BY <1>1, <1>4 DEF PowerLoss, Stopped, SvcType
  <2> QED
    BY <1>1, <1>4, <2>1, NoRunType, Afresh DEF PowerLoss
<1>5. ASSUME NEW elevated \in BOOLEAN, NEW key \in BOOLEAN, NEW add \in BOOLEAN,
             Begin(elevated, key, add)
      PROVE  InstallerInv' /\ disk' = disk
  <2>1. run' \in RunType /\ run'.at = "elevate" /\ run'.target = 0 /\ run'.file = "agentctl"
    BY <1>0, <1>5 DEF Begin
  <2>2. session' \in Sessions
    BY <1>5 DEF Begin, Sessions
  <2> QED
    BY <1>1, <1>5, <2>1, <2>2, Afresh DEF Begin
<1>6. CASE Boot
  <2>1. svc' \in SvcType
    BY <1>1, <1>6 DEF Boot, ServiceStart, Started, SvcType, DiskType, Files
  <2>2. InstallerTypeOK'
    BY <1>6, <2>1 DEF Boot, InstallerInv, InstallerTypeOK, SvcType
  <2> QED
    BY <1>6, <2>2 DEF Boot, InstallerInv, TargetIsFetched, ReplacedInOrder, AsideIsKept, InstalledRuns,
       ZeroMeansUpdated, SessionIsAnswered, Before, Replacing, Servicing
<1>10. CASE DaemonReturns
  <2>1. svc' \in SvcType /\ svc'.state = svc.state /\ svc'.runs = svc.runs
    BY <1>1, <1>10 DEF DaemonReturns, SvcType
  <2>2. InstallerTypeOK'
    BY <1>10, <2>1 DEF DaemonReturns, InstallerInv, InstallerTypeOK, SvcType
  <2> QED
    BY <1>10, <2>1, <2>2 DEF DaemonReturns, InstallerInv, TargetIsFetched, ReplacedInOrder,
       AsideIsKept, InstalledRuns, ZeroMeansUpdated, SessionIsAnswered
<1>7. CASE Publish
  <2>1. InstallerTypeOK'
    BY <1>7 DEF Publish, InstallerInv, InstallerTypeOK
  <2> QED
    BY <1>7, <2>1 DEF Publish, InstallerInv, TargetIsFetched, ReplacedInOrder, AsideIsKept,
       InstalledRuns, ZeroMeansUpdated, SessionIsAnswered
<1>8. CASE Answer
  <2>1. session' \in Sessions /\ session \notin {"none", "ready", "failed"}
    BY <1>8 DEF Answer, Sessions
  <2>2. InstallerTypeOK'
    BY <1>8, <2>1 DEF Answer, InstallerInv, InstallerTypeOK
  <2> QED
    BY <1>8, <2>1, <2>2 DEF Answer, InstallerInv, TargetIsFetched, ReplacedInOrder, AsideIsKept,
       InstalledRuns, ZeroMeansUpdated, SessionIsAnswered
<1>9. CASE TimeIsUp
  <2>1. /\ run' \in RunType /\ run'.at = run.at /\ run'.target = run.target /\ run'.file = run.file
        /\ run'.moved = run.moved /\ run.at # "ended" /\ UNCHANGED <<published, disk, svc, paired, session>>
    BY <1>1, <1>9 DEF TimeIsUp, RunType
  <2>2. InstallerTypeOK'
    BY <2>1 DEF InstallerInv, InstallerTypeOK, RunType
  <2> QED
    BY <2>1, <2>2 DEF InstallerInv, TargetIsFetched, ReplacedInOrder, AsideIsKept, InstalledRuns,
       ZeroMeansUpdated, SessionIsAnswered
<1> QED
  BY <1>2, <1>3, <1>4, <1>5, <1>6, <1>7, <1>8, <1>9, <1>10

\* A step of the installer, or of the world around it.
LEMMA InstallerStepInv ==
    ASSUME InstallerInv,
           \/ InstallerSteps \/ Answer \/ TimeIsUp \/ Killed \/ PowerLoss \/ Boot
           \/ DaemonReturns \/ Publish
           \/ \E elevated, key, add \in BOOLEAN : Begin(elevated, key, add)
    PROVE  InstallerInv' /\ \A f \in Files : disk[f] # [exe |-> 0, bak |-> 0]
                                             => disk'[f] # [exe |-> 0, bak |-> 0]
<1>1. CASE \/ Elevate \/ Inspect \/ Setup \/ StartSession \/ Poll \/ Claim \/ Persist
           \/ Reload \/ Fetch
  <2>1. disk' = disk
    BY <1>1 DEF Elevate, Inspect, Setup, StartSession, Poll, Claim, Persist, Reload, Fetch
  <2> QED
    BY <1>1, <2>1, PairingInv
<1>2. CASE Download \/ Aside \/ Place \/ Clean
  BY <1>2, ReplacingInv
<1>3. CASE Status \/ Uninstall \/ Install \/ StartService \/ Discover \/ Fail
  <2>1. disk' = disk
    BY <1>3 DEF Status, Uninstall, Install, StartService, Discover, Fail
  <2> QED
    BY <1>3, <2>1, ServicingInv
<1>4. CASE \/ End \/ Answer \/ TimeIsUp \/ Killed \/ PowerLoss \/ Boot \/ DaemonReturns \/ Publish
           \/ \E elevated, key, add \in BOOLEAN : Begin(elevated, key, add)
  BY <1>4, AroundInv
<1> QED
  BY <1>1, <1>2, <1>3, <1>4 DEF InstallerSteps

LEMMA InstallerStutters == ASSUME InstallerInv, UNCHANGED insVars PROVE InstallerInv'
BY DEF InstallerInv, InstallerTypeOK, TargetIsFetched, ReplacedInOrder, AsideIsKept, InstalledRuns,
   ZeroMeansUpdated, SessionIsAnswered, insVars

-----------------------------------------------------------------------------
(* The updater.                                                            *)

ChkType == [at : {"idle", "asked", "consider", "saving", "download", "launch"},
            latest : {0} \cup Releases, allowed : BOOLEAN]
RecordType == [release : {0} \cup Releases, tries : 0 .. MaxAttempts]

\* A check that was answered is about a release.
OfARelease == chk.at \in {"consider", "saving", "download", "launch"}

ChecksThePublished == OfARelease => chk.latest \in Releases /\ chk.latest <= published

\* The record is of no release that is newer than the one the check is about.
RecordedIsPublished ==
    record.release <= published /\ (OfARelease => record.release <= chk.latest)

\* What was attempted and is not in the record is older than what will be attempted.
OthersAreOlder ==
    \A r \in Releases : since[r] > 0 /\ r # record.release
                          => r < published /\ (OfARelease => r < chk.latest)

RecordCountsThem == \A r \in Releases : record.release = r => since[r] <= record.tries

\* An attempt that is being recorded is one that the guards still allow.
SavesWhatItMay == chk.at = "saving" => MayAttempt(chk.latest)

UpdTypes ==
    /\ allowed \in BOOLEAN /\ sync \in {"none", "tick", "request"} /\ chk \in ChkType
    /\ record \in RecordType /\ hour \in [Releases -> BOOLEAN] /\ since \in [Releases -> Nat]

UpdInv ==
    /\ UpdTypes /\ ChecksThePublished /\ RecordedIsPublished /\ OthersAreOlder
    /\ RecordCountsThem /\ SavesWhatItMay /\ AttemptsAreBounded

IInv == InstallerInv /\ UpdInv

LEMMA InitInv == Init => IInv
<1> SUFFICES ASSUME Init PROVE IInv
  OBVIOUS
<1>1. InstallerInv /\ published = 1
  BY InstallerInitInv DEF Init, InstallerInit
<1>2. chk \in ChkType /\ chk.at = "idle"
  BY DEF Init, Idle, ChkType
<1>3. record \in RecordType /\ record.release = 0
  BY DEF Init, NoRecord, RecordType
<1>4. UpdTypes /\ \A r \in Releases : since[r] = 0
  BY <1>2, <1>3 DEF Init, UpdTypes
<1> QED
  BY <1>1, <1>2, <1>3, <1>4 DEF IInv, UpdInv, ChecksThePublished, OfARelease, RecordedIsPublished,
     OthersAreOlder, RecordCountsThem, SavesWhatItMay, AttemptsAreBounded, Releases

\* The record stays or is lost, and the check is over or goes on.
LEMMA Continues ==
    ASSUME UpdInv, published \in Releases, published' \in Releases, published' >= published,
           chk' \in ChkType, allowed' \in BOOLEAN, sync' \in {"none", "tick", "request"},
           hour' \in [Releases -> BOOLEAN], \A r \in Releases : hour[r] => hour'[r],
           Torn \/ UNCHANGED <<record, since>>,
           OfARelease' => /\ \/ (OfARelease /\ chk'.latest = chk.latest)
                             \/ chk'.latest = published
                          /\ chk'.latest \in Releases,
           chk'.at = "saving" => UNCHANGED record /\ MayAttempt(chk'.latest)
    PROVE  UpdInv'
<1> USE DEF UpdInv, UpdTypes
<1>1. /\ record.release \in {0} \cup Releases /\ record.tries \in 0 .. MaxAttempts
      /\ published \in Nat /\ published' \in Nat /\ Releases \subseteq Nat /\ 0 \notin Releases
      /\ \A r \in Releases : since[r] \in Nat
      /\ chk.latest \in Nat /\ chk'.latest \in Nat
  BY DEF RecordType, ChkType, Releases
<1>2. /\ record' \in RecordType
      /\ record' = record \/ record'.release = 0
  BY DEF Torn, NoRecord, RecordType
<1>3. since' \in [Releases -> Nat]
  BY DEF Torn
<1>4. \A r \in Releases : \/ since'[r] = since[r] /\ record' = record
                          \/ since'[r] = since[r] /\ r # record.release /\ record'.release = 0
                          \/ since'[r] = 0
  BY DEF Torn, NoRecord
<1>5. UpdTypes'
  BY <1>2, <1>3
<1>6. ChecksThePublished' /\ RecordedIsPublished'
  <2>1. OfARelease' => chk'.latest \in Releases /\ chk'.latest <= published
    BY <1>1 DEF ChecksThePublished
  <2>2. ChecksThePublished'
    BY <1>1, <2>1 DEF ChecksThePublished
  <2>3. record'.release \in Nat /\ record'.release <= record.release
    <3>1. record.release \in Nat
      BY DEF RecordType, Releases
    <3>2. record' = record \/ record'.release = 0
      BY <1>2
    <3> QED
      BY <3>1, <3>2
  <2>4. OfARelease' => record.release <= chk'.latest
    BY <1>1 DEF RecordedIsPublished
  <2>5. RecordedIsPublished'
    <3>1. record.release \in Nat /\ record.release <= published
      <4>1. record.release \in Nat
        BY DEF RecordType, Releases
      <4> QED
        BY <4>1 DEF RecordedIsPublished
    <3>2. record'.release <= published'
      BY <1>1, <2>3, <3>1
    <3>3. OfARelease' => record'.release <= chk'.latest
      BY <1>1, <2>3, <2>4, <3>1
    <3> QED
      BY <3>2, <3>3 DEF RecordedIsPublished
  <2> QED
    BY <2>2, <2>5
<1>7. OthersAreOlder'
  BY <1>1, <1>4 DEF OthersAreOlder
<1>8. RecordCountsThem'
  BY <1>1, <1>2, <1>4 DEF RecordCountsThem
<1>9. AttemptsAreBounded'
  BY <1>1, <1>4 DEF AttemptsAreBounded
<1>10. SavesWhatItMay'
  <2> SUFFICES ASSUME chk'.at = "saving" PROVE MayAttempt(chk.latest)'
    BY DEF SavesWhatItMay
  <2>1. chk'.latest \in Releases /\ MayAttempt(chk'.latest) /\ record' = record
    BY DEF OfARelease
  <2> QED
    BY <2>1 DEF MayAttempt, Recorded
<1> QED
  BY <1>5, <1>6, <1>7, <1>8, <1>9, <1>10

\* A step of the check that keeps its release, or ends it.
LEMMA NextStep ==
    ASSUME UpdInv, published \in Releases, UNCHANGED <<published, record, since, allowed, sync, hour>>,
           NEW s \in {"saving", "launch"}, OfARelease, Check(s) \/ chk' = Idle,
           s = "saving" => MayAttempt(chk.latest)
    PROVE  UpdInv'
<1>1. CASE chk' = Idle
  <2>1. chk' \in ChkType /\ chk'.at = "idle"
    BY <1>1 DEF Idle, ChkType
  <2> QED
    BY <2>1, Continues DEF UpdInv, UpdTypes, OfARelease, Releases
<1>2. CASE Check(s)
  <2>1. chk' \in ChkType /\ chk'.at = s /\ chk'.latest = chk.latest
    BY <1>2 DEF Check, UpdInv, UpdTypes, ChkType
  <2>2. chk.latest \in Releases
    BY DEF UpdInv, ChecksThePublished
  <2> QED
    BY <2>1, <2>2, Continues DEF UpdInv, UpdTypes, Releases
<1> QED
  BY <1>1, <1>2

\* The attempt is recorded before it is made.
LEMMA SaveInv == ASSUME UpdInv, published \in Releases, published' = published, Save PROVE UpdInv'
<1> DEFINE r == chk.latest
<1> USE DEF UpdInv, UpdTypes
<1>1. OfARelease /\ r \in Releases /\ r <= published /\ r \in Nat /\ MayAttempt(r)
  BY DEF Save, OfARelease, ChecksThePublished, SavesWhatItMay, Releases
<1>2. Recorded(r) \in RecordType /\ Recorded(r).release = r /\ Recorded(r).tries < MaxAttempts
  BY <1>1 DEF Recorded, RecordType, MayAttempt
<1>3. record' = [release |-> r, tries |-> Recorded(r).tries + 1]
  BY <1>2 DEF Save, Counted, RecordType
<1>4. /\ Recorded(r).tries \in Nat /\ record.release \in Nat /\ record.tries \in Nat
      /\ \A q \in Releases : since[q] \in Nat
  BY <1>2 DEF RecordType, Releases
<1>5. \A q \in Releases : since'[q] = IF q = r THEN since[q] + 1 ELSE since[q]
  BY DEF Save
<1>6. since[r] <= Recorded(r).tries
  <2>1. CASE r = record.release
    BY <1>1, <2>1 DEF RecordCountsThem, Recorded
  <2>2. CASE r # record.release
    BY <1>1, <1>4, <2>2 DEF OthersAreOlder
  <2> QED
    BY <2>1, <2>2
<1>7. chk' \in ChkType /\ chk'.at = "download" /\ chk'.latest = r
  BY DEF Save, Check, ChkType
<1>8. UpdTypes'
  <2>1. record' \in RecordType
    BY <1>1, <1>2, <1>3, <1>4 DEF RecordType
  <2>2. since' \in [Releases -> Nat] /\ hour' \in [Releases -> BOOLEAN]
    BY <1>1 DEF Save
  <2> QED
    BY <1>7, <2>1, <2>2 DEF Save
<1>0. chk.latest = r
  OBVIOUS
<1> HIDE DEF r
<1>9. ChecksThePublished' /\ RecordedIsPublished' /\ SavesWhatItMay'
  BY <1>1, <1>3, <1>7 DEF ChecksThePublished, RecordedIsPublished, SavesWhatItMay
<1>10. OthersAreOlder'
  <2> SUFFICES ASSUME NEW q \in Releases, since'[q] > 0, q # r PROVE q < published /\ q < r
    BY <1>3, <1>7 DEF OthersAreOlder
  <2>1. since[q] > 0 /\ q \in Nat /\ published \in Nat
    BY <1>5 DEF Releases
  <2>2. CASE q = record.release
    BY <1>0, <1>1, <2>1, <2>2 DEF RecordedIsPublished
  <2>3. CASE q # record.release
    BY <1>0, <1>1, <2>1, <2>3 DEF OthersAreOlder
  <2> QED
    BY <2>2, <2>3
<1>11. RecordCountsThem' /\ AttemptsAreBounded'
  BY <1>1, <1>2, <1>3, <1>4, <1>5, <1>6 DEF RecordCountsThem, AttemptsAreBounded
<1> QED
  BY <1>8, <1>9, <1>10, <1>11

\* Every step of the updater, and every step of the installer beside it.
LEMMA StepInv == IInv /\ [Next]_vars => IInv'
<1> SUFFICES ASSUME IInv, [Next]_vars PROVE IInv'
  OBVIOUS
<1>1. InstallerInv /\ UpdInv /\ published \in Releases /\ Releases \subseteq Nat
  BY DEF IInv, InstallerInv, InstallerTypeOK, Releases
<1>2. Idle \in ChkType /\ Idle.at = "idle"
  BY DEF Idle, ChkType
<1>3. published >= published
  BY <1>1
\* A step beside the check.
<1>4. ASSUME UNCHANGED <<insVars, chk, record, since>>, allowed' \in BOOLEAN,
             sync' \in {"none", "tick", "request"}, hour' \in [Releases -> BOOLEAN],
             \A r \in Releases : hour[r] => hour'[r]
      PROVE  IInv'
  <2>1. /\ chk' \in ChkType
        /\ OfARelease' => OfARelease /\ chk'.latest = chk.latest /\ chk'.latest \in Releases
        /\ chk'.at = "saving" => MayAttempt(chk'.latest)
    BY <1>1, <1>4 DEF UpdInv, UpdTypes, OfARelease, ChecksThePublished, SavesWhatItMay
  <2>2. published' = published
    BY <1>4 DEF insVars
  <2> QED
    BY <1>1, <1>3, <1>4, <2>1, <2>2, Continues, InstallerStutters DEF IInv
<1>5. allowed \in BOOLEAN /\ sync \in {"none", "tick", "request"} /\ hour \in [Releases -> BOOLEAN]
  BY <1>1 DEF UpdInv, UpdTypes
<1>6. CASE Machine
  <2>1. InstallerInv'
    BY <1>1, <1>6, InstallerStepInv DEF Machine
  <2>2. published' \in Releases /\ published' >= published
    <3>1. published' \in Releases
      BY <2>1 DEF InstallerInv, InstallerTypeOK
    <3>2. published' = published \/ published' = published + 1
      BY <1>6 DEF Machine, InstallerSteps, Elevate, DaemonReturns, Inspect, Setup,
         StartSession, Poll, Claim, Persist, Reload, Fetch, Download, Aside, Place, Clean, Status, Uninstall, Install, StartService, Discover,
         Fail, End, Answer, TimeIsUp, Killed, PowerLoss, Boot, Publish, Begin
    <3> QED
      BY <1>1, <3>1, <3>2
  <2>3. CASE UNCHANGED updVars
    <3>1. UNCHANGED <<allowed, sync, chk, record, hour, since>>
      BY <2>3 DEF updVars
    <3>2. /\ chk' \in ChkType
          /\ OfARelease' => OfARelease /\ chk'.latest = chk.latest /\ chk'.latest \in Releases
          /\ chk'.at = "saving" => MayAttempt(chk'.latest)
      BY <1>1, <3>1 DEF UpdInv, UpdTypes, OfARelease, ChecksThePublished, SavesWhatItMay
    <3> QED
      BY <1>1, <1>5, <2>1, <2>2, <3>1, <3>2, Continues DEF IInv
  <2>4. CASE DaemonEnds
    <3>1. /\ chk' = Idle /\ sync' = "none" /\ UNCHANGED <<allowed, hour>>
          /\ Torn \/ UNCHANGED <<record, since>>
      BY <2>4 DEF DaemonEnds
    <3>2. ~OfARelease'
      BY <1>2, <3>1 DEF OfARelease
    <3> QED
      BY <1>1, <1>2, <1>5, <2>1, <2>2, <3>1, <3>2, Continues DEF IInv
  <2> QED
    BY <1>6, <2>3, <2>4 DEF Machine
<1>7. CASE Switch
  BY <1>4, <1>5, <1>7 DEF Switch
<1>8. CASE HourPasses
  BY <1>4, <1>5, <1>8 DEF HourPasses
<1>9. CASE SyncBegins \/ SyncEnds
  BY <1>4, <1>5, <1>9 DEF SyncBegins, SyncEnds
<1>10. CASE UNCHANGED vars
  BY <1>4, <1>5, <1>10 DEF vars, updVars
\* A step of the check that changes nothing else.
<1>11. ASSUME UpdInv', UNCHANGED insVars PROVE IInv'
  BY <1>1, <1>11, InstallerStutters DEF IInv
<1>12. UNCHANGED insVars => published' = published
  BY DEF insVars
<1>13. CASE Ask \/ Unanswered \/ Answered
  <2>1. UNCHANGED <<insVars, allowed, sync, record, hour, since>>
    BY <1>13 DEF Ask, Unanswered, Answered
  <2>2. /\ chk' \in ChkType
        /\ chk'.at \in {"idle", "asked"} \/ (chk'.at = "consider" /\ chk'.latest = published)
    <3>1. CASE Ask
      BY <1>1, <3>1 DEF Ask, Check, ChkType, UpdInv, UpdTypes
    <3>2. CASE Unanswered
      BY <1>2, <3>2 DEF Unanswered
    <3>3. CASE Answered
      BY <1>1, <1>2, <1>5, <3>3 DEF Answered, ChkType
    <3> QED
      BY <1>13, <3>1, <3>2, <3>3
  <2>3. OfARelease' => chk'.latest = published
    BY <2>2 DEF OfARelease
  <2> QED
    BY <1>1, <1>3, <1>5, <1>11, <1>12, <2>1, <2>2, <2>3, Continues
<1>14. CASE Consider
  <2>1. OfARelease /\ UNCHANGED <<insVars, allowed, sync, record, hour, since>>
    BY <1>14 DEF Consider, OfARelease
  <2>2. (Check("saving") /\ MayAttempt(chk.latest)) \/ chk' = Idle
    BY <1>14 DEF Consider
  <2> QED
    BY <1>1, <1>11, <1>12, <2>1, <2>2, NextStep
<1>15. CASE Save
  <2>1. UNCHANGED insVars
    BY <1>15 DEF Save
  <2> QED
    BY <1>1, <1>11, <1>12, <1>15, <2>1, SaveInv
<1>16. CASE SaveFails
  <2>1. /\ UNCHANGED <<insVars, allowed, sync, hour>> /\ chk' = Idle
        /\ Torn \/ UNCHANGED <<record, since>>
    BY <1>16 DEF SaveFails
  <2>2. ~OfARelease'
    BY <1>2, <2>1 DEF OfARelease
  <2> QED
    BY <1>1, <1>2, <1>3, <1>5, <1>11, <1>12, <2>1, <2>2, Continues
<1>17. CASE Fetched
  <2>1. OfARelease /\ UNCHANGED <<insVars, allowed, sync, record, hour, since>>
    BY <1>17 DEF Fetched, OfARelease
  <2> QED
    BY <1>1, <1>11, <1>12, <1>17, <2>1, NextStep DEF Fetched
<1>18. CASE Launch \/ LaunchFails
  <2>1. OfARelease /\ chk' = Idle /\ UNCHANGED <<allowed, sync, record, hour, since>>
    BY <1>18 DEF Launch, LaunchFails, OfARelease
  <2>2. published' = published
    BY <1>12, <1>18 DEF Launch, LaunchFails, Begin
  <2>3. UpdInv'
    BY <1>1, <2>1, <2>2, NextStep
  <2>4. InstallerInv'
    BY <1>1, <1>18, AroundInv, InstallerStutters DEF Launch, LaunchFails
  <2> QED
    BY <2>3, <2>4 DEF IInv
<1> QED
  BY <1>6, <1>7, <1>8, <1>9, <1>10, <1>13, <1>14, <1>15, <1>16, <1>17, <1>18 DEF Next

-----------------------------------------------------------------------------
\* IInv holds of every state the machine can be in.
THEOREM Invariance == Spec => []IInv
BY InitInv, StepInv, PTL DEF Spec

\* Every variable has its type.
THEOREM TypeCorrect == Spec => []TypeOK
<1>1. IInv => TypeOK
  BY DEF IInv, InstallerInv, UpdInv, UpdTypes, TypeOK, ChkType, RecordType
<1> QED
  BY <1>1, Invariance, PTL

\* A release is attempted MaxAttempts times in all, unless the record is lost.
THEOREM AttemptsBounded == Spec => []AttemptsAreBounded
<1>1. IInv => AttemptsAreBounded
  BY DEF IInv, UpdInv
<1> QED
  BY <1>1, Invariance, PTL

\* Exit code 0 of an elevated run means that both binaries are of one manifest and
\* that the process of the service is of it too.
THEOREM ZeroIsUpdated == Spec => []ZeroMeansUpdated
<1>1. IInv => ZeroMeansUpdated
  BY DEF IInv, InstallerInv
<1> QED
  BY <1>1, Invariance, PTL

\* The browser is told how the session it approved ended.
THEOREM SessionAnswered == Spec => []SessionIsAnswered
<1>1. IInv => SessionIsAnswered
  BY DEF IInv, InstallerInv
<1> QED
  BY <1>1, Invariance, PTL

\* An hour lies between two attempts at a release.
THEOREM AttemptsSpaced == Spec => AttemptsAreSpaced
<1> DEFINE Spaced == \A r \in Releases : since'[r] > since[r] /\ since[r] > 0 => hour[r]
<1>1. IInv /\ [Next]_vars => [Spaced]_vars
  <2> SUFFICES ASSUME IInv, Next, NEW r \in Releases, since'[r] > since[r], since[r] > 0
               PROVE  hour[r]
    OBVIOUS
  <2>1. UpdInv /\ since[r] \in Nat /\ since \in [Releases -> Nat]
    BY DEF IInv, UpdInv, UpdTypes
  <2>2. ~Torn
    BY <2>1 DEF Torn
  <2>3. since' # since
    BY <2>1
  <2>4. Save
    BY <2>2, <2>3 DEF Next, Machine, updVars, DaemonEnds, Switch, HourPasses, SyncBegins, SyncEnds,
       Ask, Unanswered, Answered, Consider, SaveFails, Fetched, Launch, LaunchFails
  <2>5. OfARelease /\ r = chk.latest /\ MayAttempt(r)
    BY <2>1, <2>4 DEF Save, OfARelease, UpdInv, SavesWhatItMay
  <2>6. r = record.release
    BY <2>1, <2>5 DEF UpdInv, OthersAreOlder, Releases
  <2>7. record.tries > 0
    BY <2>1, <2>6 DEF UpdInv, UpdTypes, RecordType, RecordCountsThem
  <2> QED
    BY <2>5, <2>6, <2>7 DEF MayAttempt, Recorded
<1> QED
  BY <1>1, Invariance, PTL DEF Spec, AttemptsAreSpaced

\* The machine keeps a copy of a binary it once had.
THEOREM BinaryKept == Spec => BinaryIsNeverLost
<1> DEFINE Kept ==
      \A f \in Files : disk[f] # [exe |-> 0, bak |-> 0] => disk'[f] # [exe |-> 0, bak |-> 0]
<1>1. IInv /\ [Next]_vars => [Kept]_insVars
  <2> SUFFICES ASSUME IInv, [Next]_vars, insVars' # insVars PROVE Kept
    OBVIOUS
  <2>1. Machine \/ Launch
    BY DEF vars, Next, Switch, HourPasses, SyncBegins, SyncEnds, Ask, Unanswered, Answered, Consider,
       Save, SaveFails, Fetched, LaunchFails
  <2>2. \/ InstallerSteps \/ Answer \/ TimeIsUp \/ Killed \/ PowerLoss \/ Boot
        \/ DaemonReturns \/ Publish
        \/ \E elevated, key, add \in BOOLEAN : Begin(elevated, key, add)
    BY <2>1 DEF Machine, Launch
  <2> QED
    BY <2>2, InstallerStepInv DEF IInv
<1> QED
  BY <1>1, Invariance, PTL DEF Spec, BinaryIsNeverLost
=============================================================================
