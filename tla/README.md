# Verification of the GST Reco Tally agent

The agent runs on a Windows host beside TallyPrime. It reads the host's Tally
companies over HTTP/XML, turns vouchers and ledgers into rows and sends them to
the GST Reco server. This directory holds TLA+ models of it, the TLC runs that
check them and the TLAPS proofs about them.

    tlc -workers 2 -config MC_Scheduler.cfg MC_Scheduler     # any MC module with its .cfg
    tlapm Scheduler_proofs.tla                               # any *_proofs module

## Inventory

| Component | State | Operations | What is hard | What must hold |
|---|---|---|---|---|
| Scheduler, `internal/scheduler` | `stopped`, `running`, `retryTimers`, the cron library, the timers | `Start`, cron firing, `RunNow`, tick, `scheduleRetry`, `Stop` | firings, retries, `RunNow` and `Stop` interleave; check-then-act on `stopped`; timers `Stop` cannot see | exact running count; the ticks of a firing take turns and end; `Stop` returns |
| Ingest lanes, `internal/syncrun` (`run_kinds.go`, `runner.go`), `internal/ingest/batcher.go` | the run's `Result`; the server's rows, run and snapshot | read from Tally, cut into batches, send each, mark the last final | a batch lost or refused in the middle, the timeout between batches, empty lanes, unreadable answers | nothing is claimed that did not happen; no row is hidden |
| Sync pass, `runWindowSync` in `cmd/agent/main.go`, `walk.go`, `connection_status.go` | `syncOutcome`, `WalkResult`, the connection's status | fetch mappings, check the open company, push masters, walk companies and lanes | partial failure anywhere; cancellation anywhere | status and error tell what happened |
| Configuration and pairing, `internal/config`, `secretstore`, `pair`, `autodiscover`, `agentctl discover` | `config.yaml`, its `.tmp`, one secret file per key, the daemon's copy | `PersistCredentials`, discover's saves, the daemon's boot and sweeps | unlocked read-modify-write by two processes; failure or death at any step | a pairing is all or nothing; nothing is lost |
| Daemon, `cmd/agent/main.go`, `internal/heartbeat` | one runtime per connection with its revoked flag and status, the run's context | heartbeat, `sync_now`, `pause`, `revoke`, refetch, schedule change | one poller per connection beside the scheduler; two walks of one connection at once; an action lost with its answer | a revoked connection stays revoked; the others are still served; the daemon stops when all are revoked, and returns unless a version check hangs |
| Updater, `internal/autoupdate`, `internal/selfupdate` | a state file with the attempts | `Consider`, download, verify, launch | busy test before a long download; the record written in place; the installer stops the daemon that launched it | one attempt an hour, three a release |
| Identity and following, `identity.go`, `follow.go` | none | verdict per mapping, choice of endpoint | two companies of one name, two connections for one company, a company that moves between two requests | never read a company that is not the mapped one |
| Ledger caches, `ledger_gstins.go`, `duty_ledgers.go` | entries by endpoint and company, ten minutes | lookup, refresh, failed refresh | an entry stored by another walk, a key that is not the endpoint read, an answer that is no export | never the masters of another company; a read that failed is told |
| Ingest client, `internal/ingest/client.go` | none | one signed request | lost or unreadable answers | |
| Outbox, `internal/ingest/outbox.go` | a SQLite table | enqueue, pending, ack, fail, drop | not used by production code | |
| Normaliser, `ledger_roles.go`, `normalize.go` | the sums of a voucher | classify each ledger leg, add up, cut at zero, split over the bills | rounding, signs, evidence that is missing or contradicts | rows add up; nothing counts as tax on its name alone |
| Tally discovery and XML, the rest of `internal/tally` | none | parallel probes, envelopes, parsers | data | |
| Installer, `cmd/installer`, service wrapper | two binaries and their `.bak`, the service, the approval session | approval, claim, pair, download, replace, restart or repair, discover, report | killed or cut off between any two steps, renames that fail, reports that are lost | no binary is lost; exit code 0 of an elevated run means updated; the session is answered |
| agentctl `sync`, `sync-all`, `cmd/agentctl` | counters and flags of the command | the same walk over companies and lanes, connection by connection | one connection fails and the command goes on | the exit code tells what happened |
| agentctl's other commands, tray, logging | none | | | |

**How they interact.** The daemon reads `config.yaml` and the secrets once, sweeps
for endpoints, then starts the scheduler, the sweep loop, a heartbeat poller per
connection and the updater. Each tick of the scheduler runs one sync pass per
connection; a `sync_now` in a heartbeat's answer runs one more, outside the
scheduler. A pass walks companies and lanes in order, each a run of `RunOne`, and
leaves its status for the next heartbeat. Before it reads, it probes every Tally port
and decides which one has the mapping's company; its lanes take ledger masters from
caches all passes share. The updater launches the installer, which replaces the
binaries and restarts the service the updater runs in. The operator's commands, and
the installer through them, write the same configuration and secrets from another
process. The server is outside the repository: it stores batches, hands out actions and is
modelled only where the agent's writes reach it.

`PROJECT.json` lists the hazards with their lines and the properties aimed at each.

## Modules and the code

| Module | Code | Correspondence |
|---|---|---|
| `Scheduler` | `scheduler.go` | One action per access to what goroutines share. A *run* is a goroutine that may tick: a cron firing, a `RunNow` call, a retry timer (armed before its goroutine exists). `stop` is the program counter of `Stop`; `late` is history. |
| `Publication` | the wire contract of a run | The abstract promise: chunks are delivered in any order, at most one claim is made and nothing follows it; "whole" only by the chunk that completes the delivery. |
| `IngestLane` | `run_kinds.go`, `runner.go`, `batcher.go`, `SelectTaxLedgerVouchers` | One `RunOne`. A row is its position. The invoice kinds share a function; journal, payment and tax ledger are copies of it that differ in what they can drop and count, so there are four lanes. `items` is what the parser kept, which is all a lane knows of Tally. `server` holds what the run made the server store. |
| `SyncPass` | `runWindowSync`, `WalkAll`, `connection_status.go` | The lane's variables are those of the run the walk is at, and `RunStep` is any step of it. The walk is a counter: run `n` is company by company, lane by lane, and the companies themselves are known by their number only. Which are readable is any subset (`Companies` says which); a list of lanes is a list of places in `DefaultKinds`; the name of a skip reason is left out. |
| `CommandLine` | `agentctl` `sync.go`, `syncall.go` | Extends `SyncPass`: the same walk, driven by `command`. Connections are walked one after the other, and what the caller learns is the exit code in `returned`. |
| `Companies` | `resolveMappingsForTick`, `follow.go`, `identity.go`, `ledger_gstins.go`, `duty_ledgers.go` | One mapping and one walk after the other. `open` is the world, which changes between any two requests; `walk.said` is what the probes answered, `moved` (history) the ports that changed after their probe. The order of the cases of `CheckMappingIdentity` is the code's. A reply without a ledger or a group, an error the parser does not know among them, is the directory `Empty`. |
| `ConfigStore` | `config.go`, `store.go`, `pair.go`, `autodiscover.go`, `agentctl/discover.go`, the daemon's boot | Two processes, each with a program counter and its copy of the file. Every write has three outcomes: done, not done, done and reported as failed (the ACL or the write-verify after the rename). A secret is the number of the pairing it came from; between its rename and its ACL it is `bare` and the daemon cannot read it, and an entry in order may fail to be read, or to make a client, as well. |
| `Daemon` | `runWithCtx`, the ticks over connections, `OnRevoke`, `OnSyncNow`, `internal/heartbeat` | A goroutine is a program counter: `tick[t]`, `poll[c]`, `check`, `main`. One goroutine ticks for cron or, while it is in `retries`, for a retry's timer; `main` runs the deferred Stops in their order: the updater's, the pollers', the scheduler's, which waits for cron's ticks only. Flags are read and written one a step, so the gap between `Enabled()` and the pass, and the loop over all connections after a revocation, are both open to the others. |
| `Installer` | `cmd/installer`, the service states | One run after the other over one machine: files, `.bak`s, service, session. A run without rights starts an elevated one and exits with 0 at once. The service's process and the daemon in it (`svc.lives`) are two things: `Start` succeeds before the daemon does, and the process stays when it returns. Killed, out of time or without power at every step. |
| `AutoUpdate` | `internal/autoupdate`, `internal/selfupdate` | Extends `Installer`: the daemon lives in the service's process until it returns, launches the installer, and dies by it. `since` and `hour` are history and clock. |
| `Normalise` | `ledger_roles.go`, `normalize.go` | Roles are operators over all combinations of evidence; the sums, the cut at zero and the split are steps. |
| `*_proofs` | | Theorems and proofs about the module before the underscore; `AutoUpdate_proofs` is also about `Installer`. |
| `MC_*` | | Constants for TLC. |

Operators whose comment begins with *Mutant* stand beside the definition they are a
faulty version of. No specification uses them; each property is known to fail when
one takes that definition's place, so each is known to say something about the code.

`ConfigStore` takes the write of the temporary file as one step, and the reading of
the file too: what a reader sees of a half-written file is left out, since only the
renamed file is ever read. A pairing whose claim request fails changes nothing and is
left out.

`Companies` probes the ports one after the other where the code does so in parallel: what
matters is what a port does between two of its own answers, and the world moves between
any two requests of the model as well. The caches are rely and guarantee: a lookup returns
whatever satisfies `MayBeStored`, of any age, or nothing, and `MastersAreOfTheCompany`
checks that what this walk stores satisfies it too; all walks run the same code, so the
entries of a tick, of a `sync_now` beside it and of earlier passes are all covered.

`AutoUpdate`'s `Busy` is the scheduler's `RunningCount`, as in the code, asked before the
download. The package comment says "never while a sync is running" (`autoupdate.go:13-14`):
a tick that begins during the download, or a `sync_now`, which the scheduler does not
count, is stopped with the daemon. The model has both and no property claims otherwise.

`Normalise` takes amounts as whole paise and the share of a bill as exact until it is
rounded; Go adds `float64` and rounds to two places. A leg is what is known of it, not its
text.

## Runs

| Run | Instance | Checks | Shows |
|---|---|---|---|
| `scheduler` | 2 launches (each cron or `RunNow`), 4 timers, 2 retries | `TypeOK`, `RunningCountExact`, `RetryChainsAreLines`, `LateTickIsLast`, `TicksOfAFiringTakeTurns`, `StopReturns`, `FailedTickIsRetried` | counting, retry chains and shutdown under every interleaving |
| `scheduler_stop` | the same | `StopWaitsForEveryTick`, violated | `Stop` returns while a retry ticks |
| `ingest_lane` | 5 items, batches of 2 | `TypeOK`, `CompleteSnapshotIsWhole`, `ZeroRowsHideNothingRead`, `CleanRunLandedEveryRow`, `BatchesAccountedFor`, `ImplementsPublication` | no false claim, no row hidden once read; the lane implements `Publication` |
| `ingest_lane_dropped` | the same | `DroppedVouchersAreNamed`, violated | all vouchers dropped: the warning has no batch to travel in |
| `sync_pass` | the daemon's sync and agentctl's of up to 2 connections; 2 companies, 2 lanes, 2 items, batches of 1 | `CommandTypeOK`, `VerdictIsEarned`, `DenialReachesTheCaller`, `ErrorAndStatusAgree`, `PassEnds` | the verdict of a pass and the exit code of a command are true, and come |
| `config_store` | 2 connections, 2 endpoints, 2 commands, after any earlier pairing | `TypeOK`, `OnlyStaleWritersLose`, `SecretsBeforeListing`, `PairedAreServed` | what survives failures, kills and races |
| `config_pair_rollback` | the same | `FailedPairingStaysUnpaired`, violated | the rollback leaves a listed connection without secrets |
| `config_endpoints` | the same | `EndpointsLeaveOnlyByOperator`, violated | the daemon's copy overwrites `agentctl discover` |
| `daemon` | 2 connections, 1 goroutine that ticks for cron or a retry, 2 queued actions | `TypeOK`, `StopsExactlyWhenAllRevoked`, `TickServesTheEnabled`, `RevokedStartsNothingNew`, `RevocationReceivedIsObeyed`, `ShutdownCompletes` | revocations that race with ticks, syncs, each other and the shutdown |
| `auto_update` | 2 releases, 3 attempts | `TypeOK`, `AttemptsAreBounded`, `ZeroMeansUpdated`, `SessionIsAnswered`, `AttemptsAreSpaced`, `BinaryIsNeverLost` | an update that fails, or is cut off, anywhere |
| `companies` | 3 ports and one nothing listens on, 2 companies of one name | `TypeOK`, `ReadsTheMapped`, `ReportedGuidIsTheRead`, `MastersAreOfTheCompany`, `FailedMastersAreReported`, `FollowsTheOnlyCopy` | no namesake is read, and no masters of one, however the ports change |
| `normalise_negative` | 2 legs, 3 bills, amounts of 2 paise either way | `NothingNegativeGoesOut`, violated | a row of a split voucher can be negative |

**Bounds.** Two launches are the least that overlap, and each gets all its retries; two
retries let a chain both go on and end. Five items in batches of two give no batch, one, a
short last one and three, so a batch can fail first, in the middle and last. Two companies
and two lanes (one of the snapshot kind) let a failure of one run be followed by a success
of another, of either kind and in both orders; a second connection lets a command go on
behind a failed one. Two commands beside an unbounded number of daemon boots and sweeps,
on a host that may be paired already, include a pairing of a new connection, a second
pairing of the same one and a discovery after each; two endpoints let the two writers'
lists differ both ways. Two connections are the least whose revocations race; two actions
are a revocation of each, a `sync_now` in front of one, or the same revocation twice; a
tick goroutine ticks any number of times. Two releases are the one a machine runs and the
one it is to update to; all three attempts can be used up and refused, and the record lost
in between. Three ports let a company move from one to another while a third has a copy.
The proofs lift the bounds on the safety properties of all of these. `MC_ConfigStore` uses
symmetry in connections and endpoints, which nothing distinguishes. Deadlock is not
checked: runs, lanes and passes end, a daemon returns, and a host may have no command
left.

**Fairness.** `Scheduler`: every goroutine runs, timers fire, and every tick ends, by its
deadline at the latest; nothing forces a firing, a `RunNow` or the shutdown. `CommandLine`
and `SyncPass`: weak fairness of the pass's own steps, since each wait in it (Tally, the
server, the probe) has a timeout. `Daemon`: weak fairness of a tick's steps, of the answer
to a heartbeat (a timeout is one), of the dispatch and of the shutdown, by the same
timeouts; strong fairness of a poller's return, which competes with its ticker in one
`select` that takes either at random, and of the check loop's, for the same reason.
Nothing forces a tick to start, a timer to fire, a heartbeat to be sent or an action to be
queued, and nothing ends a version check, whose request has no deadline:
`ShutdownCompletes` therefore assumes that the loop is time and again outside one
(`[]<>(check # "get")`). The others assume none and check safety only.

## What the violated properties mean

1. `Stop` "waits for any in-flight tick to finish" (`scheduler.go:154`). It waits for the
   library's goroutines; a retry's tick runs on a timer's, and
   the daemon returns while it is under way.
2. "A voucher the agent cannot turn into a row is never dropped silently" (`run_kinds.go:81`).
   It is when no voucher of the window can be turned into one.
3. "so the agent stays clean-unpaired" (`pair.go:244`). Not when `config.Save` fails after
   its rename, or loses its temporary file to the daemon's.
4. `RemoveEndpoints` is "The only way an endpoint leaves config" (`config.go:166`). The
   daemon's save of its boot-time copy is another: it boots, `agentctl discover` saves an
   endpoint, and the next sweep that finds a new one saves the boot copy over it. The
   reverse, a command that saves a copy it read before a sweep saved, is set aside.
5. "Nothing negative goes out" (`normalize.go:374`). The sums are cut at zero, the rows they
   are split into are not: a bill on the other side than the party's amount gives a negative
   row, and so can the residual of the last one. (A negative residual of TDS or TCS is left
   out by `setSourceAmounts`, so those two need not add up; `RowsAddUp` does not claim it.)

`OnlyStaleWritersLose` is the other side of 4: without a stale copy nothing is lost, so the
note on `autodiscover.Options.Cfg`, "Caller is responsible for not racing other writers",
is the exact condition, and `runWithCtx` does not meet it.

## Proofs

Every theorem is about all values of the constants that satisfy the named assumptions of
its module. None of the properties is inductive alone; each proof module has an `IInv` of
named parts, `InitInv`, `StepInv` and the theorems that follow from them.

`Scheduler_proofs` proves, for any finite sets of launches and timers where a theorem needs
it and any number of retries, `TypeOK`, `RunningCountExact`, `RetryChainsAreLines`,
`LateTickIsLast` and `TicksOfAFiringTakeTurns`. `IInv` adds that
`running` counts the ticks, that runs are well formed by kind and point, that every retry has
its predecessor in the chain and that this one is done with it (`RetriesHaveParents`), that
only the last run of a chain is alive (`LiveRunsAreLast`) and how far `Stop` is for each
state of the library (`StopInOrder`). A new timer extends a chain at its end because the run
that arms it is alive, hence last; that is the core of `RetryChainsAreLines`, and with the
flag read before arming, of `LateTickIsLast`. That only the last run of a chain is alive also
gives `TicksOfAFiringTakeTurns` (`RetriesDoNotOverlap`). One thing follows that no run lists: a
firing has at most `MaxRetries + 1` runs (`TicksPerFiringBounded`, the attempts being an injection of the
chain into `0 .. MaxRetries`).

`IngestLane_proofs` proves, for every `BatchSize` above 0 and every `MaxItems`, `TypeOK`,
`BatchesAccountedFor`, `CompleteSnapshotIsWhole`, `CleanRunLandedEveryRow`,
`ZeroRowsHideNothingRead` and that `IngestLane` implements `Publication`. Its arithmetic is in lemmas: the batches of `n` rows
cover `1 .. n` (`ChunksCover`) by the defining inequalities of integer division. `IInv` adds
that rows and batches fit, that the loop is where the phase says and that a claim is made by
the last batch only; with no failure every batch before the loop's index is on the server,
so a complete claim, made at the last, has them all. For a claim of zero rows it adds that an
empty batch is sent only when it was asked for (`EmptyBatchIsAsked`), which a run whose parser
kept an item does not do. `RunGetsOn` is termination without its fairness: phase, batches to go and whether the
context still lives are a triple of naturals that every step lowers in lexicographic order.

`CommandLine_proofs` proves, for any number of connections, companies and lanes in any order,
`CommandTypeOK`, `VerdictIsEarned`, `DenialReachesTheCaller` and `ErrorAndStatusAgree`, from
`SizeAssumption`, `KindsAssumption` and `ConnectionsAssumption` and the lane's constants. The
lane's invariant is cited through `LP == INSTANCE IngestLane_proofs`: a step of the pass is a step
of the lane, or the start of a run in a state that satisfies it. A verdict is built up in three
places, and `IInv` has a part for each: the totals of the walk keep every run that left rows off
or was denied, the sync reads its verdict off these totals (or, when asked for one lane of one
company, off that run's own counters), and the command keeps the worst of its syncs (`Knows`, by
the kind of caller; `Told` for what it returns). `VerdictComesLast` and `WalkInOrder` say when each
is written, so that none is read early. `EverySnapshotIsWhole` carries `CompleteSnapshotIsWhole`
to every run of a walk, whatever the runs before it left in the variables. `PassGetsOn` is the
half of `PassEnds` that needs no fairness: every step lowers a lexicographic tuple of whether the
context lives, connections left, stage, runs left and whether the walk is in one, or else the
lane's own triple.

`ConfigStore_proofs` proves all four properties of `config_store`, for any connections,
endpoints and number of commands. For losses, `IInv` adds that a fresh writer's copy
has all the file has but what it gives up (`CopiesAreCurrent`) and that a temporary file
which is still the writer's holds that copy (`TmpIsTheWriters`); a rename by a writer whose
copy is not fresh sets `raced`, which is where the property stops. For secrets, it adds that
every copy of the list, in the file, in the temporary one or in memory, names only connections
that have both or whose pairing failed (`ListedHaveSecrets`): a stale copy can lose a
connection but never lists one too early. For `PairedAreServed`, it adds that an entry without
its ACL belongs to a pairing under way, failed or killed (`BareAreUnfinished`): any other the
daemon can open, unless the host refuses it.

`Daemon_proofs` proves the safety properties of `daemon`, for any number of connections, tick
goroutines and actions. A poller that scans has disabled its own connection and found those
before its index disabled (`ScanSawDisabled`), and nothing is ever enabled again; so of several
pollers that revoke at once the last to disable finds all the others' flags, and whoever
cancels is right to. A tick's index leaves behind only what was served or is disabled
(`LeftBehind`), and a tick past its check of a disabled connection was so when it was revoked
(`LateBeginsAreExcused`). The safety halves of the two liveness properties are theorems as well.
`RevocationIsNotDropped`: a revocation leaves the answer it came in only when its connection is
disabled, since all that is taken off the head is another action or one that was obeyed, and a
poller asks again only with nothing left of the last answer (`AnswersAreDone`).
`ReturnLeavesOnlyRetries`: the daemon returns with the check loop and every poller gone and no
tick of cron under way (`ShutdownInOrder`: what `main` has waited for stays gone, and behind a
stopped scheduler nothing begins but the tick of a timer that had fired).

`AutoUpdate_proofs` proves all six properties of `auto_update`, for any number of releases and
attempts. The installer's part: a run that replaces a file has the ones behind it at the target
(`ReplacedInOrder`), an empty place has its `.bak` (`AsideIsKept`), and the service a run discovers
under has a process of what that run installed (`InstalledRuns`); `ZeroMeansUpdated` speaks of
elevated runs and of that process, since a daemon in it may have returned (`service.go:58-71`)
and a run that only asked for the rights exits with 0 whatever comes of it (`flow.go:505-514`). The updater's: the record counts the attempts at its
release (`RecordCountsThem`), and a release that is attempted but not in the record is older than
anything a check can still be about (`OthersAreOlder`). That last part is why a record of a
single release is enough: only a newer release is installed, and the server "only ever publishes
monotonically increasing versions" (`selfupdate/checker.go:100`); a release withdrawn and
published again would be counted afresh.

`Companies_proofs` proves all six properties of `companies`, for any number of ports and any
finite set of companies of the name; finiteness is used once, for "the only one that has it".
`SeenIsOpen` ties an answer to the world, a port said to match and unchanged since has no other
company of the name; `ReadIsOpen` carries that to the lane, `MastersAreOurs` to what is fetched
or found stored, `HadIsKnown` says that a port which had the company was told apart, and
`MissingIsTold` follows the warning of a read that failed through the lane.

`Normalise_proofs` proves, for amounts, legs and bills of any size and number, that no leg
counts as tax on its name alone (`TaxHasEvidence`, by cases on the evidence), that every leg
counts once with its sign (`EveryLegCountsOnce`), that the rows of a split voucher add up to
it in every value and tax bucket (`RowsAddUp`, also for negative shares and a party amount of
zero), and that a voucher without a flag balances within a paisa (`UnflaggedRowsBalance`).
`IInv` adds that the parts given away are counted and what a missing flag says of the sums.
No run lists these four; TLC agrees with them for amounts of one paisa either way.

Only model-checked: liveness (`StopReturns`, `FailedTickIsRetried`, `PassEnds`,
`RevocationReceivedIsObeyed`, `ShutdownCompletes`), which needs fairness and is out of the prover's reach. Every safety property, action property
and refinement of a passing run is a theorem.

## Not modelled

- What the parsers leave out of an answer. A voucher that does not decode or has no identity and
  a ledger without a name are dropped with a parse warning only (`parser_v3.go:156-168`,
  `tax_ledger_parser.go:60-72`), so a lane can send its zero-row batch while Tally has items. The
  comment on it says "Vouchers Tally returned but the agent could not read are never zero rows"
  (`run_kinds.go:539`): `ZeroRowsHideNothingRead` shows it of vouchers the parser kept, and of the
  others it does not hold.
- What an answer without a master means. `walkTallyExport` knows two shapes of an error
  (`ledger_gstin.go:408-446`); any other, such as the "Unknown Request" `company_identity.go:74-78`
  looks for, reads as a company without masters and is cached as that without a warning, against
  "an HTTP 200 carrying an error must not read as an empty, successful export"
  (`ledger_gstin.go:406`). The answer is in `Companies` as `Empty`; no property tells the two apart.
- XML: envelopes, parsing and the discovery of row keys, names and dates. They turn text into
  text without state; what the rest relies on, that a request fails or returns rows, is in the
  models. The rows of journal, payment and tax-ledger vouchers are left out with them; their
  lanes are not.
- Signing and encryption, the heartbeat's payload, the wording of statuses, warnings and
  reports: no property depends on them.
- `internal/ingest/outbox.go`, a SQLite queue: only its tests open it.
- The service manager's limit of 25 seconds on `Stop` (`service.go`): the models have no clock.
- agentctl's other commands print; the tray is a stub; logging, period arithmetic and Windows
  ACLs keep no state (an ACL call that fails, and the time before one, are in `ConfigStore`).
- Tally itself, beyond which companies a port has open, and the server, beyond what a run
  stores there, the actions it queues and the session it keeps.

## Plan

Done: `Scheduler`, `Publication` and `IngestLane`, `SyncPass` and `CommandLine`, `ConfigStore`,
`Daemon`, `Installer` and `AutoUpdate`, `Companies`, `Normalise`; proofs for all of them.

1. Abstract specifications of the daemon (a revocation list that only grows, and what may still
   begin) and of the updater, with the refinements proved as `Publication`'s is.
2. The journal, payment and tax-ledger rows beside `Normalise`, for the sums of their legs.
3. `Daemon` with the statuses of overlapping passes, once something promises which of two a
   heartbeat reports.
