---------------------------- MODULE ConfigStore ----------------------------
(***************************************************************************)
(* The configuration file and the secrets of a host, shared by the daemon  *)
(* and the commands an operator runs beside it: pairing (internal/pair,    *)
(* called by agentctl and by the installer) and agentctl discover.         *)
(*                                                                         *)
(* Nothing locks the file.  A writer reads it, works on its copy, writes   *)
(* the copy to config.yaml.tmp and renames that into place; the daemon's   *)
(* copy is the one it read at boot.  Both kinds of writer use the same     *)
(* temporary name.  Any write can fail, before its rename or after it,     *)
(* and both processes can be killed between any two steps.  The operator   *)
(* runs one command at a time.                                             *)
(***************************************************************************)
EXTENDS Naturals

CONSTANTS
    Conns,       \* the connections the server can pair this host with
    Endpoints,   \* the endpoints where a Tally can answer
    MaxCommands  \* bound on the operator's commands

ASSUME MaxCommandsAssumption == MaxCommands \in Nat

VARIABLES
    disk,        \* config.yaml: Connections and TallyEndpoints
    tmp,         \* config.yaml.tmp: who wrote it, what, and the endpoints it gives up
    hmac,        \* the hmac entries of the secret store: 0 for none, 1 for that of
                 \* an earlier pairing, k + 1 for that of the k-th command
    bearer,      \* the bearer entries
    bare,        \* the entries in place whose file the service may not be let read
    cmd,         \* the operator's command
    commands,    \* the commands begun
    daemon,      \* the daemon: the point it is at, its copy and its runtimes
    fresh,       \* history: the writers whose copy is that on disk
    raced,       \* history: whose copy, or file, had gone stale when it was published
    kept,        \* history: the endpoints saved and not removed by the operator
    paired,      \* history: the connections whose pairing was reported a success
    erred,       \* history: those with a pairing that returned an error
    cut          \* history: those with a pairing that was killed

vars == <<disk, tmp, hmac, bearer, bare, cmd, commands, daemon, fresh, raced,
          kept, paired, erred, cut>>

Writers == {"cli", "daemon"}
Entries == {"hmac", "bearer"} \X Conns
Config == [conns : SUBSET Conns, eps : SUBSET Endpoints]
NoConfig == [conns |-> {}, eps |-> {}]
NoTmp == [by |-> "nobody", cfg |-> NoConfig, gone |-> {}]
NoCommand == [pc |-> "idle", save |-> "none", conn |-> {}, cfg |-> NoConfig,
              forget |-> {}, replace |-> FALSE, found |-> {}]
NoDaemon == [pc |-> "down", cfg |-> NoConfig, todo |-> {}, half |-> {}, served |-> {},
             excused |-> {}]

TypeOK ==
    /\ disk \in Config
    /\ tmp \in [by : Writers \cup {"nobody"}, cfg : Config, gone : SUBSET Endpoints]
    /\ hmac \in [Conns -> 0 .. MaxCommands + 1]
    /\ bearer \in [Conns -> 0 .. MaxCommands + 1]
    /\ bare \subseteq Entries
    /\ cmd \in [pc : {"idle", "setHmac", "openHmac", "setBearer", "openBearer",
                      "undoHmac", "undoBearer", "scan", "write", "rename"},
                save : {"none", "pair", "forget", "merge"},
                conn : SUBSET Conns, cfg : Config, forget : SUBSET Endpoints,
                replace : BOOLEAN, found : SUBSET Endpoints]
    /\ commands \in 0 .. MaxCommands
    /\ daemon \in [pc : {"down", "loading", "up", "write", "rename"}, cfg : Config,
                   todo : SUBSET Conns, half : SUBSET Conns, served : SUBSET Conns,
                   excused : SUBSET Conns]
    /\ daemon.half \subseteq daemon.todo
    /\ daemon.todo \cup daemon.served \subseteq daemon.cfg.conns
    /\ fresh \subseteq Writers
    /\ raced \subseteq Writers
    /\ kept \subseteq Endpoints
    /\ paired \cup erred \cup cut \subseteq Conns

\* A host never paired, or one paired earlier whose daemon is down.
Init ==
    /\ disk \in Config /\ (disk.conns = {} => disk.eps = {})
    /\ tmp = NoTmp
    /\ hmac = [c \in Conns |-> IF c \in disk.conns THEN 1 ELSE 0]
    /\ bearer = hmac
    /\ bare = {}
    /\ cmd = NoCommand
    /\ commands = 0
    /\ daemon = NoDaemon
    /\ fresh = {}
    /\ raced = {}
    /\ kept = disk.eps
    /\ paired = disk.conns
    /\ erred = {} /\ cut = {}

-----------------------------------------------------------------------------
(* config.Save, for either writer.                                         *)

\* RemoveEndpoints by the flag --forget; --replace gives up what did not answer.
GivenUp == IF cmd.save = "forget" THEN cmd.forget
           ELSE IF cmd.save = "merge" /\ cmd.replace THEN Endpoints \ cmd.found
           ELSE {}

WriteTmp(w, c, gone) == tmp' = [by |-> w, cfg |-> c, gone |-> gone]

\* os.Rename publishes whatever file has the temporary name.
Publish(w) ==
    /\ tmp.by # "nobody"
    /\ disk' = tmp.cfg
    /\ tmp' = NoTmp
    /\ fresh' = {tmp.by}
    /\ raced' = IF tmp.by = w /\ w \in fresh THEN raced ELSE raced \cup {w, tmp.by}
    /\ kept' = (kept \ tmp.gone) \cup tmp.cfg.eps

\* os.Rename fails, for one when the file is gone; the file is removed.
RenameFails == tmp' = NoTmp /\ UNCHANGED <<disk, fresh, raced, kept>>

NothingSaved == UNCHANGED <<disk, fresh, raced, kept>>

-----------------------------------------------------------------------------
(* The operator runs one command at a time.                                *)

\* What the command pairs, until the save or the rollback is over.
Pairing == IF cmd.save = "pair" THEN cmd.conn ELSE {}

CommandBegins ==
    /\ cmd.pc = "idle"
    /\ commands < MaxCommands
    /\ commands' = commands + 1

-----------------------------------------------------------------------------
(* PersistCredentials: hmac, bearer, configuration, in this order.         *)

PairLoad(c) ==
    /\ CommandBegins
    /\ cmd' = [NoCommand EXCEPT !.pc = "setHmac", !.save = "pair", !.conn = {c},
                                !.cfg = disk]
    /\ fresh' = fresh \cup {"cli"}
    /\ UNCHANGED <<disk, tmp, hmac, bearer, bare, daemon, raced, kept, paired, erred, cut>>

\* Set up to its rename, which can fail; the new file is not yet, or never, one
\* the service is let read.
Put(e, f, ok) ==
    /\ f' = IF ok THEN [c \in Conns |-> IF c \in cmd.conn THEN commands + 1 ELSE f[c]]
            ELSE f
    /\ bare' = IF ok THEN bare \cup ({e} \X cmd.conn) ELSE bare

\* Mutant: Set's error is not looked at.
SetHmacUnchecked(ok) ==
    /\ cmd.pc = "setHmac"
    /\ Put("hmac", hmac, ok)
    /\ cmd' = [cmd EXCEPT !.pc = IF ok THEN "openHmac" ELSE "setBearer"]
    /\ UNCHANGED <<disk, tmp, bearer, commands, daemon, fresh, raced, kept, paired,
                   erred, cut>>

SetHmac(ok) ==
    /\ cmd.pc = "setHmac"
    /\ Put("hmac", hmac, ok)
    /\ IF ok THEN cmd' = [cmd EXCEPT !.pc = "openHmac"] /\ UNCHANGED erred
       ELSE cmd' = NoCommand /\ erred' = erred \cup cmd.conn
    /\ UNCHANGED <<disk, tmp, bearer, commands, daemon, fresh, raced, kept, paired, cut>>

\* A failure rolls the hmac entry back; the bearer entry is left as it is.
BearerFailed ==
    /\ cmd' = [cmd EXCEPT !.pc = "undoHmac", !.save = "none"]
    /\ erred' = erred \cup cmd.conn

SetBearer(ok) ==
    /\ cmd.pc = "setBearer"
    /\ Put("bearer", bearer, ok)
    /\ IF ok THEN cmd' = [cmd EXCEPT !.pc = "openBearer"] /\ UNCHANGED erred
       ELSE BearerFailed
    /\ UNCHANGED <<disk, tmp, hmac, commands, daemon, fresh, raced, kept, paired, cut>>

\* The rest of Set: the ACL that lets the service read the entry, and reading it
\* back, each of which can fail.
Outcomes == {"stored", "unstored", "stored and failed"}
Open(e, out) == bare' = IF out = "unstored" THEN bare ELSE bare \ ({e} \X cmd.conn)

\* Mutant: an ACL that cannot be set is no error.
OpenHmacUnchecked(out) ==
    /\ cmd.pc = "openHmac"
    /\ Open("hmac", out)
    /\ cmd' = [cmd EXCEPT !.pc = "setBearer"]
    /\ UNCHANGED <<disk, tmp, hmac, bearer, commands, daemon, fresh, raced, kept,
                   paired, erred, cut>>

OpenHmac(out) ==
    /\ cmd.pc = "openHmac"
    /\ Open("hmac", out)
    /\ IF out = "stored"
       THEN cmd' = [cmd EXCEPT !.pc = "setBearer"] /\ UNCHANGED erred
       ELSE cmd' = NoCommand /\ erred' = erred \cup cmd.conn
    /\ UNCHANGED <<disk, tmp, hmac, bearer, commands, daemon, fresh, raced, kept,
                   paired, cut>>

OpenBearer(out) ==
    /\ cmd.pc = "openBearer"
    /\ Open("bearer", out)
    /\ IF out = "stored"
       THEN /\ cmd' = [cmd EXCEPT !.pc = "write", !.cfg.conns = @ \cup cmd.conn]
            /\ UNCHANGED erred
       ELSE BearerFailed
    /\ UNCHANGED <<disk, tmp, hmac, bearer, commands, daemon, fresh, raced, kept,
                   paired, cut>>

\* Delete, whose own error is ignored.  Only a failed save goes on to the bearer.
Undo(gone) ==
    /\ cmd.pc \in {"undoHmac", "undoBearer"}
    /\ LET without(f) == [c \in Conns |-> IF gone /\ c \in cmd.conn THEN 0 ELSE f[c]]
           shut(e) == IF gone THEN bare \ ({e} \X cmd.conn) ELSE bare
       IN  IF cmd.pc = "undoHmac"
           THEN hmac' = without(hmac) /\ bare' = shut("hmac") /\ UNCHANGED bearer
           ELSE bearer' = without(bearer) /\ bare' = shut("bearer") /\ UNCHANGED hmac
    /\ cmd' = IF cmd.pc = "undoHmac" /\ cmd.save = "pair"
              THEN [cmd EXCEPT !.pc = "undoBearer"] ELSE NoCommand
    /\ UNCHANGED <<disk, tmp, commands, daemon, fresh, raced, kept, paired, erred, cut>>

-----------------------------------------------------------------------------
(* agentctl discover: read the file, scan, save once for --forget and once *)
(* for what answered.                                                      *)

DiscoverLoad(forget, replace) ==
    /\ CommandBegins
    /\ disk.conns # {}
    /\ cmd' = [NoCommand EXCEPT !.pc = "scan", !.cfg = disk, !.forget = forget,
                                !.replace = replace]
    /\ fresh' = fresh \cup {"cli"}
    /\ UNCHANGED <<disk, tmp, hmac, bearer, bare, daemon, raced, kept, paired, erred, cut>>

\* The save of saved \cup answered, or of what answered; none when nothing did.
ToMerge(c) ==
    IF c.found = {} THEN NoCommand
    ELSE [c EXCEPT !.pc = "write", !.save = "merge",
                   !.cfg.eps = IF c.replace THEN c.found ELSE (@ \ c.forget) \cup c.found]

Scan(found) ==
    /\ cmd.pc = "scan"
    /\ LET seen == [cmd EXCEPT !.found = found]
       IN  cmd' = IF cmd.forget # {}
                  THEN [seen EXCEPT !.pc = "write", !.save = "forget",
                                    !.cfg.eps = @ \ cmd.forget]
                  ELSE ToMerge(seen)
    /\ UNCHANGED <<disk, tmp, hmac, bearer, bare, commands, daemon, fresh, raced, kept,
                   paired, erred, cut>>

-----------------------------------------------------------------------------
(* The command's save.                                                     *)

SaveFailed ==
    IF cmd.save = "pair"
    THEN cmd' = [cmd EXCEPT !.pc = "undoHmac"] /\ erred' = erred \cup cmd.conn
    ELSE cmd' = NoCommand /\ UNCHANGED erred

SaveDone ==
    /\ cmd' = IF cmd.save = "forget" THEN ToMerge(cmd) ELSE NoCommand
    /\ UNCHANGED erred

CliWrite(ok) ==
    /\ cmd.pc = "write"
    /\ IF ok
       THEN /\ WriteTmp("cli", cmd.cfg, GivenUp)
            /\ cmd' = [cmd EXCEPT !.pc = "rename"]
            /\ UNCHANGED erred
       ELSE SaveFailed /\ UNCHANGED tmp
    /\ UNCHANGED <<disk, hmac, bearer, bare, commands, daemon, fresh, raced, kept, paired,
                   cut>>

\* out "stored and failed": the published file cannot be given its ACL or read.
CliRename(out) ==
    /\ cmd.pc = "rename"
    /\ IF out = "unstored" THEN RenameFails ELSE Publish("cli")
    /\ IF out = "stored" THEN SaveDone ELSE SaveFailed
    /\ paired' = IF out = "stored" /\ cmd.save = "pair" THEN paired \cup cmd.conn ELSE paired
    /\ UNCHANGED <<hmac, bearer, bare, commands, daemon, cut>>

CliKilled ==
    /\ cmd.pc # "idle"
    /\ cmd' = NoCommand
    /\ cut' = cut \cup cmd.conn
    /\ UNCHANGED <<disk, tmp, hmac, bearer, bare, commands, daemon, fresh, raced, kept,
                   paired, erred>>

-----------------------------------------------------------------------------
(* The daemon: read the file and the secrets once, then sweep.             *)

Boot ==
    /\ daemon.pc = "down"
    /\ disk.conns # {}
    /\ daemon' = [NoDaemon EXCEPT !.pc = "loading", !.cfg = disk, !.todo = disk.conns]
    /\ fresh' = fresh \cup {"daemon"}
    /\ UNCHANGED <<disk, tmp, hmac, bearer, bare, cmd, commands, raced, kept, paired, erred, cut>>

DaemonOnly == UNCHANGED <<hmac, bearer, bare, cmd, commands, paired, erred, cut>>

\* loadConnectionRuntimes leaves a connection out when an entry of it is missing or
\* cannot be read, or no client can be built of the two, and only the log says so.
\* It has an excuse when the connection is being paired, or when the entry is in
\* order and the host refuses it all the same.
LeftOut(c, e, f) ==
    [daemon EXCEPT !.todo = @ \ {c}, !.half = {},
        !.excused = IF c \in Pairing \/ (f[c] # 0 /\ <<e, c>> \notin bare)
                    THEN @ \cup {c} ELSE @]

\* Mutant: a missing hmac entry does not end the loop's pass.
ReadHmacGoesOn(c, ok) ==
    /\ daemon.pc = "loading" /\ daemon.half = {} /\ c \in daemon.todo
    /\ daemon' = [daemon EXCEPT !.todo = IF hmac[c] = 0 THEN @ \ {c} ELSE @, !.half = {c}]
    /\ UNCHANGED tmp /\ NothingSaved /\ DaemonOnly

\* An entry the service is not let read may be read for all that.
ReadHmac(c, ok) ==
    /\ daemon.pc = "loading" /\ daemon.half = {} /\ c \in daemon.todo
    /\ ok => hmac[c] # 0
    /\ daemon' = IF ok THEN [daemon EXCEPT !.half = {c}] ELSE LeftOut(c, "hmac", hmac)
    /\ UNCHANGED tmp /\ NothingSaved /\ DaemonOnly

\* The bearer entry and the client made of both.
ReadBearer(c, ok) ==
    /\ daemon.pc = "loading" /\ c \in daemon.half
    /\ ok => bearer[c] # 0
    /\ daemon' = IF ok THEN [daemon EXCEPT !.todo = @ \ {c}, !.half = {},
                                           !.served = @ \cup {c}]
                 ELSE LeftOut(c, "bearer", bearer)
    /\ UNCHANGED tmp /\ NothingSaved /\ DaemonOnly

Loaded ==
    /\ daemon.pc = "loading" /\ daemon.todo = {}
    /\ daemon' = IF daemon.served = {} THEN NoDaemon ELSE [daemon EXCEPT !.pc = "up"]
    /\ UNCHANGED tmp /\ NothingSaved /\ DaemonOnly

\* Mutant: the sweep replaces the saved endpoints.
SweepReplaces(found) ==
    /\ daemon.pc = "up"
    /\ found # {} /\ found # daemon.cfg.eps
    /\ daemon' = [daemon EXCEPT !.pc = "write", !.cfg.eps = found]
    /\ UNCHANGED tmp /\ NothingSaved /\ DaemonOnly

\* autodiscover.Run: a sweep that adds nothing to the daemon's copy saves
\* nothing; the copy is updated whether or not the save succeeds.
Sweep(found) ==
    /\ daemon.pc = "up"
    /\ ~(found \subseteq daemon.cfg.eps)
    /\ daemon' = [daemon EXCEPT !.pc = "write", !.cfg.eps = @ \cup found]
    /\ UNCHANGED tmp /\ NothingSaved /\ DaemonOnly

DaemonWrite(ok) ==
    /\ daemon.pc = "write"
    /\ IF ok
       THEN WriteTmp("daemon", daemon.cfg, {}) /\ daemon' = [daemon EXCEPT !.pc = "rename"]
       ELSE daemon' = [daemon EXCEPT !.pc = "up"] /\ UNCHANGED tmp
    /\ NothingSaved /\ DaemonOnly

DaemonRename(ok) ==
    /\ daemon.pc = "rename"
    /\ IF ok THEN Publish("daemon") ELSE RenameFails
    /\ daemon' = [daemon EXCEPT !.pc = "up"]
    /\ DaemonOnly

\* Stopped, killed, or restarted by the installer.
DaemonDown ==
    /\ daemon.pc # "down"
    /\ daemon' = NoDaemon
    /\ UNCHANGED tmp /\ NothingSaved /\ DaemonOnly

-----------------------------------------------------------------------------
Pair ==
    \/ \E c \in Conns : PairLoad(c)
    \/ \E ok \in BOOLEAN : SetHmac(ok) \/ SetBearer(ok)
    \/ \E out \in Outcomes : OpenHmac(out) \/ OpenBearer(out)
    \/ \E gone \in BOOLEAN : Undo(gone)

Discover ==
    \/ \E forget \in SUBSET Endpoints, replace \in BOOLEAN : DiscoverLoad(forget, replace)
    \/ \E found \in SUBSET Endpoints : Scan(found)

Save ==
    \/ \E ok \in BOOLEAN : CliWrite(ok)
    \/ \E out \in Outcomes : CliRename(out)

Daemon ==
    \/ Boot \/ Loaded \/ DaemonDown
    \/ \E c \in Conns, ok \in BOOLEAN : ReadHmac(c, ok) \/ ReadBearer(c, ok)
    \/ \E found \in SUBSET Endpoints : Sweep(found)
    \/ \E ok \in BOOLEAN : DaemonWrite(ok) \/ DaemonRename(ok)

Next == Pair \/ Discover \/ Save \/ CliKilled \/ Daemon

Spec == Init /\ [][Next]_vars

-----------------------------------------------------------------------------
\* Nothing is lost but to a race: as long as every save was made of a copy that
\* was still the file's content, each connection whose pairing succeeded is
\* listed and each endpoint ever saved is there unless the operator removed it,
\* whatever failed and whoever was killed in between (autodiscover.go:68-72,
\* pair.go:236-249, config.go:147-179).
OnlyStaleWritersLose ==
    raced = {} => paired \subseteq disk.conns /\ kept \subseteq disk.eps

\* The secrets come before the listing: unless a pairing of it returned an
\* error, a connection the file lists has both, at every moment and after every
\* kill; and once it is not being paired and no pairing of it was killed, both
\* are of the same pairing (pair.go:223-242).
SecretsBeforeListing ==
    \A c \in Conns \ erred :
        /\ c \in disk.conns => hmac[c] # 0 /\ bearer[c] # 0
        /\ c \notin cut \cup Pairing => hmac[c] = bearer[c]

\* A daemon that is up serves every connection of the file it read, even when it
\* booted beside a command, unless a pairing of it was under way as the daemon
\* looked, returned an error or was killed, or the host refused the daemon what
\* was in order: a pairing reported a success has left both entries there and open
\* to the service (main.go:466-504, store.go:187-221, pair.go:223-249).
PairedAreServed ==
    daemon.pc \in {"up", "write", "rename"} =>
        daemon.cfg.conns \subseteq daemon.served \cup daemon.excused \cup erred \cup cut

\* The comment in PersistCredentials on a failed save: "Roll back both keyring
\* writes so the agent stays clean-unpaired" (pair.go:244).
FailedPairingStaysUnpaired ==
    cmd.pc = "idle" => disk.conns \cap erred \subseteq paired \cup cut

\* The comment on RemoveEndpoints: "The only way an endpoint leaves config"
\* (config.go:166).  Commands of the operator that save a stale copy are set aside:
\* whatever the daemon saves, no endpoint leaves but by the operator.
EndpointsLeaveOnlyByOperator == "cli" \notin raced => kept \subseteq disk.eps
=============================================================================
