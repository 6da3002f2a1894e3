------------------------- MODULE ConfigStore_proofs -------------------------
(***************************************************************************)
(* The safety properties of ConfigStore, for any connections, endpoints    *)
(* and number of commands.                                                 *)
(***************************************************************************)
EXTENDS ConfigStore, TLAPS

USE MaxCommandsAssumption

CmdType == [pc : {"idle", "setHmac", "openHmac", "setBearer", "openBearer",
                  "undoHmac", "undoBearer", "scan", "write", "rename"},
            save : {"none", "pair", "forget", "merge"},
            conn : SUBSET Conns, cfg : Config, forget : SUBSET Endpoints,
            replace : BOOLEAN, found : SUBSET Endpoints]
DaemonType == [pc : {"down", "loading", "up", "write", "rename"}, cfg : Config,
               todo : SUBSET Conns, half : SUBSET Conns, served : SUBSET Conns,
               excused : SUBSET Conns]
TmpType == [by : Writers \cup {"nobody"}, cfg : Config, gone : SUBSET Endpoints]

-----------------------------------------------------------------------------
(* What makes a copy current, as long as nobody raced.                     *)

\* The file under the temporary name is of the writer that is to publish it, if it
\* is that writer's.
TmpIsTheWriters ==
    /\ cmd.pc = "rename" /\ tmp.by = "cli" => tmp.cfg = cmd.cfg /\ tmp.gone = GivenUp
    /\ daemon.pc = "rename" /\ tmp.by = "daemon" => tmp.cfg = daemon.cfg /\ tmp.gone = {}

\* What a fresh writer would publish has all the file has, but what it gives up.
CopiesAreCurrent ==
    /\ cmd.pc # "idle" /\ "cli" \in fresh
         => disk.conns \subseteq cmd.cfg.conns /\ disk.eps \ GivenUp \subseteq cmd.cfg.eps
    /\ daemon.pc # "down" /\ "daemon" \in fresh
         => disk.conns \subseteq daemon.cfg.conns /\ disk.eps \subseteq daemon.cfg.eps

NothingLost == raced = {} => TmpIsTheWriters /\ CopiesAreCurrent

-----------------------------------------------------------------------------
(* Where a command is with the secrets.                                    *)

\* The command's save fits the point it has reached.
CommandInOrder ==
    /\ cmd.pc \in {"setHmac", "openHmac", "setBearer", "openBearer"} => cmd.save = "pair"
    /\ cmd.pc = "scan" => cmd.save = "none"
    /\ cmd.pc = "idle" => cmd = NoCommand
    /\ cmd.pc \in {"write", "rename"} => cmd.save # "none"
    /\ cmd.save = "forget" => cmd.pc \in {"write", "rename"} /\ cmd.cfg.eps \cap cmd.forget = {}
    /\ cmd.save = "merge" => cmd.pc \in {"write", "rename"}

\* A pairing lists its connection behind both entries, and takes them back only
\* after it has failed.
PairsInOrder ==
    /\ cmd.pc \in {"openHmac", "setBearer", "openBearer"}
         => \A c \in cmd.conn : hmac[c] = commands + 1
    /\ cmd.pc = "openBearer" => \A c \in cmd.conn : bearer[c] = commands + 1
    /\ cmd.pc \in {"setBearer", "openBearer"} \/ (cmd.pc \in {"write", "rename"} /\ cmd.save = "pair")
         => \A c \in cmd.conn : <<"hmac", c>> \notin bare
    /\ cmd.pc \in {"write", "rename"} /\ cmd.save = "pair"
         => \A c \in cmd.conn : <<"bearer", c>> \notin bare
    /\ cmd.pc \in {"write", "rename"} /\ cmd.save = "pair"
         => cmd.conn \subseteq cmd.cfg.conns /\ \A c \in cmd.conn : hmac[c] = bearer[c]
    /\ cmd.pc \in {"undoHmac", "undoBearer"} => cmd.conn \subseteq erred

\* Every list of connections there is.
Listed == disk.conns \cup tmp.cfg.conns \cup cmd.cfg.conns \cup daemon.cfg.conns

ListedHaveSecrets == \A c \in Listed \ erred : hmac[c] # 0 /\ bearer[c] # 0

\* An entry closed to the service is one of a pairing under way, failed or killed.
BareAreUnfinished ==
    \A e \in {"hmac", "bearer"}, c \in Conns :
        <<e, c>> \in bare => c \in erred \cup cut \cup Pairing

\* A daemon that loads leaves out, without an excuse, only what a failed or killed
\* pairing left behind.
LoadsThem ==
    daemon.pc = "loading" =>
        daemon.cfg.conns \subseteq daemon.todo \cup daemon.served \cup daemon.excused
                                   \cup erred \cup cut

IInv ==
    /\ TypeOK /\ NothingLost /\ OnlyStaleWritersLose
    /\ CommandInOrder /\ PairsInOrder /\ ListedHaveSecrets /\ SecretsBeforeListing
    /\ BareAreUnfinished /\ LoadsThem /\ PairedAreServed

-----------------------------------------------------------------------------
LEMMA Nobodys ==
    /\ NoConfig \in Config /\ NoConfig.conns = {} /\ NoConfig.eps = {}
    /\ NoCommand \in CmdType /\ NoCommand.pc = "idle" /\ NoCommand.save = "none"
    /\ NoCommand.conn = {} /\ NoCommand.cfg = NoConfig
    /\ NoDaemon \in DaemonType /\ NoDaemon.pc = "down" /\ NoDaemon.cfg = NoConfig
    /\ NoDaemon.todo = {} /\ NoDaemon.half = {} /\ NoDaemon.served = {}
    /\ NoTmp \in TmpType /\ NoTmp.by = "nobody" /\ NoTmp.cfg = NoConfig
<1>1. NoConfig \in Config /\ NoConfig.conns = {} /\ NoConfig.eps = {}
  BY DEF NoConfig, Config
<1> QED
  BY <1>1 DEF NoCommand, CmdType, NoDaemon, DaemonType, NoTmp, TmpType

\* A host never paired, or one paired earlier.
LEMMA InitInv == Init => IInv
<1> SUFFICES ASSUME Init PROVE IInv
  OBVIOUS
<1>1. TypeOK
  <2>1. hmac \in [Conns -> 0 .. MaxCommands + 1]
    BY DEF Init
  <2>2. disk \in Config /\ disk.conns \subseteq Conns /\ disk.eps \subseteq Endpoints
    BY DEF Init, Config
  <2>3. cmd \in CmdType /\ tmp \in TmpType /\ daemon \in DaemonType
    BY Nobodys DEF Init
  <2>4. daemon.half \subseteq daemon.todo /\ daemon.todo \cup daemon.served \subseteq daemon.cfg.conns
    BY Nobodys DEF Init
  <2>5. bearer \in [Conns -> 0 .. MaxCommands + 1] /\ commands \in 0 .. MaxCommands
    BY <2>1 DEF Init
  <2>6. fresh \subseteq Writers /\ raced \subseteq Writers /\ kept \subseteq Endpoints
        /\ bare \subseteq Entries /\ paired \cup erred \cup cut \subseteq Conns
    BY <2>2 DEF Init
  <2> QED
    BY <2>1, <2>2, <2>3, <2>4, <2>5, <2>6 DEF TypeOK, CmdType, DaemonType, TmpType
<1>2. Listed = disk.conns /\ disk.conns \subseteq Conns
  BY Nobodys DEF Init, Listed, Config
<1>3. ListedHaveSecrets /\ SecretsBeforeListing
  <2>1. \A c \in Conns : hmac[c] = (IF c \in disk.conns THEN 1 ELSE 0) /\ bearer[c] = hmac[c]
    BY DEF Init
  <2> QED
    BY <1>2, <2>1 DEF ListedHaveSecrets, SecretsBeforeListing
<1>4. NothingLost /\ OnlyStaleWritersLose
  BY Nobodys DEF Init, NothingLost, OnlyStaleWritersLose, TmpIsTheWriters, CopiesAreCurrent
<1> QED
  BY <1>1, <1>3, <1>4, Nobodys DEF Init, IInv, CommandInOrder, PairsInOrder, LoadsThem,
     PairedAreServed, BareAreUnfinished

-----------------------------------------------------------------------------
\* The daemon moves without touching the file: it keeps what it has listed, or its
\* copy is a fresh one, and its copy only grows.
LEMMA DaemonMoves ==
    ASSUME IInv, daemon' \in DaemonType,
           daemon'.half \subseteq daemon'.todo,
           daemon'.todo \cup daemon'.served \subseteq daemon'.cfg.conns,
           UNCHANGED <<disk, raced, kept, hmac, bearer, bare, cmd, commands, paired, erred, cut>>,
           fresh' \subseteq Writers, fresh \subseteq fresh', "cli" \in fresh' => "cli" \in fresh,
           tmp' \in TmpType,
           \/ tmp' = tmp \/ tmp' = NoTmp
           \/ (tmp'.by = "daemon" /\ tmp'.cfg = daemon.cfg /\ tmp'.gone = {}),
           daemon'.pc = "rename" => tmp'.by = "daemon" /\ tmp'.cfg = daemon'.cfg /\ tmp'.gone = {},
           daemon'.pc # "down" =>
             \/ daemon'.cfg = disk
             \/ /\ daemon.pc # "down" /\ fresh' = fresh /\ daemon'.cfg.conns = daemon.cfg.conns
                /\ daemon.cfg.eps \subseteq daemon'.cfg.eps,
           daemon'.pc = "down" => daemon'.cfg = NoConfig,
           LoadsThem', PairedAreServed'
    PROVE  IInv'
<1>1. TypeOK'
  BY DEF IInv, TypeOK, DaemonType, TmpType
<1>2. NothingLost'
  <2> SUFFICES ASSUME raced = {} PROVE TmpIsTheWriters' /\ CopiesAreCurrent'
    BY DEF NothingLost
  <2>1. TmpIsTheWriters /\ CopiesAreCurrent /\ GivenUp' = GivenUp
    BY DEF IInv, NothingLost, GivenUp
  <2>2. TmpIsTheWriters'
    BY <2>1, Nobodys DEF TmpIsTheWriters
  <2>3. CopiesAreCurrent'
    BY <2>1 DEF CopiesAreCurrent
  <2> QED
    BY <2>2, <2>3
<1>3. OnlyStaleWritersLose'
  BY DEF IInv, OnlyStaleWritersLose
<1>4. CommandInOrder' /\ PairsInOrder'
  BY DEF IInv, CommandInOrder, PairsInOrder
<1>5. Listed' \subseteq Listed
  BY Nobodys DEF Listed
<1>6. ListedHaveSecrets'
  BY <1>5 DEF IInv, ListedHaveSecrets
<1>7. SecretsBeforeListing' /\ BareAreUnfinished'
  BY DEF IInv, SecretsBeforeListing, BareAreUnfinished, Pairing
<1> QED
  BY <1>1, <1>2, <1>3, <1>4, <1>6, <1>7 DEF IInv

\* What the daemon's steps start from.
LEMMA DaemonTypes ==
    ASSUME IInv
    PROVE  /\ daemon \in DaemonType /\ tmp \in TmpType /\ disk \in Config /\ fresh \subseteq Writers
           /\ daemon.half \subseteq daemon.todo
           /\ daemon.todo \cup daemon.served \subseteq daemon.cfg.conns
           /\ daemon.cfg \in Config /\ disk.conns \subseteq Conns
           /\ daemon.cfg = [conns |-> daemon.cfg.conns, eps |-> daemon.cfg.eps]
BY DEF IInv, TypeOK, DaemonType, TmpType, Config

\* Publish of a temporary file that is the writer's own, or a race.
LEMMA Published ==
    ASSUME IInv, NEW w \in Writers, Publish(w)
    PROVE  /\ disk' \in Config /\ tmp' = NoTmp /\ fresh' \subseteq Writers /\ raced' \subseteq Writers
           /\ kept' \subseteq Endpoints /\ disk' = tmp.cfg
           /\ raced' = {} => raced = {} /\ tmp.by = w /\ w \in fresh /\ fresh' = {w}
                         /\ kept' = (kept \ tmp.gone) \cup tmp.cfg.eps
BY DEF IInv, TypeOK, TmpType, Config, Publish, Writers

LEMMA DaemonInv == ASSUME IInv, Daemon PROVE IInv'
<1>1. /\ daemon \in DaemonType /\ tmp \in TmpType /\ disk \in Config /\ fresh \subseteq Writers
      /\ daemon.half \subseteq daemon.todo
      /\ daemon.todo \cup daemon.served \subseteq daemon.cfg.conns
      /\ daemon.cfg \in Config /\ disk.conns \subseteq Conns
      /\ daemon.cfg = [conns |-> daemon.cfg.conns, eps |-> daemon.cfg.eps]
  BY DaemonTypes
<1>2. CASE Boot
  <2>1. /\ daemon' \in DaemonType /\ daemon'.pc = "loading" /\ daemon'.cfg = disk
        /\ daemon'.todo = disk.conns /\ daemon'.half = {} /\ daemon'.served = {}
    BY <1>1, <1>2, Nobodys DEF Boot, DaemonType
  <2>2. LoadsThem' /\ PairedAreServed'
    BY <2>1 DEF LoadsThem, PairedAreServed
  <2>3. /\ UNCHANGED <<disk, raced, kept, hmac, bearer, bare, cmd, commands, paired, erred, cut, tmp>>
        /\ fresh' = fresh \cup {"daemon"}
    BY <1>2 DEF Boot
  <2> QED
    BY <1>1, <2>1, <2>2, <2>3, DaemonMoves DEF Writers
<1>3. ASSUME DaemonOnly, NothingSaved, tmp' = tmp, daemon' = NoDaemon PROVE IInv'
  <2>1. LoadsThem' /\ PairedAreServed'
    BY <1>3, Nobodys DEF LoadsThem, PairedAreServed
  <2> QED
    BY <1>1, <1>3, <2>1, Nobodys, DaemonMoves DEF DaemonOnly, NothingSaved
\* A step that keeps the listing and leaves the file of the temporary name alone.
<1>4. ASSUME DaemonOnly, NothingSaved, tmp' = tmp, daemon' \in DaemonType,
             daemon.pc # "down", daemon'.pc \notin {"down", "rename"},
             daemon'.half \subseteq daemon'.todo,
             daemon'.todo \cup daemon'.served \subseteq daemon'.cfg.conns,
             daemon'.cfg.conns = daemon.cfg.conns, daemon.cfg.eps \subseteq daemon'.cfg.eps,
             LoadsThem', PairedAreServed'
      PROVE  IInv'
  BY <1>1, <1>4, DaemonMoves DEF DaemonOnly, NothingSaved
<1>5. CASE Loaded
  <2>1. CASE daemon.served = {}
    BY <1>3, <1>5, <2>1 DEF Loaded
  <2>2. CASE daemon.served # {}
    <3>1. /\ daemon' \in DaemonType /\ daemon'.pc = "up" /\ daemon'.cfg = daemon.cfg
          /\ daemon'.todo = daemon.todo /\ daemon'.half = daemon.half
          /\ daemon'.served = daemon.served /\ daemon'.excused = daemon.excused
      BY <1>1, <1>5, <2>2 DEF Loaded, DaemonType
    <3>2. LoadsThem' /\ PairedAreServed'
      BY <1>5, <3>1 DEF Loaded, IInv, LoadsThem, PairedAreServed, DaemonOnly
    <3> QED
      BY <1>1, <1>4, <1>5, <3>1, <3>2 DEF Loaded
  <2> QED
    BY <2>1, <2>2
<1>6. CASE DaemonDown
  BY <1>3, <1>6 DEF DaemonDown
\* A connection left out without an excuse is one a failed or killed pairing left.
<1>7. ASSUME NEW c \in Conns, NEW e \in {"hmac", "bearer"},
             NEW f \in [Conns -> 0 .. MaxCommands + 1],
             c \in daemon.cfg.conns \ erred => f[c] # 0,
             daemon.pc = "loading", daemon' = LeftOut(c, e, f), tmp' = tmp, NothingSaved, DaemonOnly
      PROVE  IInv'
  <2>1. PICK E \in SUBSET Conns :
          E = IF c \in Pairing \/ (f[c] # 0 /\ <<e, c>> \notin bare)
              THEN daemon.excused \cup {c} ELSE daemon.excused
    BY <1>1 DEF DaemonType
  <2>2. daemon' = [daemon EXCEPT !.todo = daemon.todo \ {c}, !.half = {}, !.excused = E]
    BY <1>1, <1>7, <2>1 DEF LeftOut, DaemonType
  <2>3. /\ daemon' \in DaemonType /\ daemon'.pc = "loading" /\ daemon'.cfg = daemon.cfg
        /\ daemon'.half = {} /\ daemon'.todo = daemon.todo \ {c}
        /\ daemon'.served = daemon.served /\ daemon'.excused = E
    BY <1>1, <1>7, <2>2 DEF DaemonType
  <2>4. c \in daemon.cfg.conns => c \in E \cup erred \cup cut
    BY <1>7, <2>1 DEF IInv, BareAreUnfinished
  <2>5. daemon.excused \subseteq E
    BY <2>1
  <2>6. LoadsThem' /\ PairedAreServed'
    BY <1>7, <2>3, <2>4, <2>5 DEF IInv, LoadsThem, PairedAreServed, DaemonOnly
  <2> QED
    BY <1>1, <1>4, <1>7, <2>3, <2>6
<1>8. ASSUME NEW c \in Conns, NEW ok \in BOOLEAN, ReadHmac(c, ok) \/ ReadBearer(c, ok) PROVE IInv'
  <2>1. daemon.pc = "loading" /\ tmp' = tmp /\ NothingSaved /\ DaemonOnly
    BY <1>8 DEF ReadHmac, ReadBearer
  <2>2. c \in daemon.cfg.conns \ erred => hmac[c] # 0 /\ bearer[c] # 0
    BY DEF IInv, ListedHaveSecrets, Listed
  <2>3. hmac \in [Conns -> 0 .. MaxCommands + 1] /\ bearer \in [Conns -> 0 .. MaxCommands + 1]
    BY DEF IInv, TypeOK
  <2>4. CASE daemon' = LeftOut(c, "hmac", hmac) \/ daemon' = LeftOut(c, "bearer", bearer)
    BY <1>7, <2>1, <2>2, <2>3, <2>4
  <2>5. CASE daemon' = [daemon EXCEPT !.half = {c}] /\ c \in daemon.todo
    <3>1. /\ daemon' \in DaemonType /\ daemon'.pc = "loading" /\ daemon'.cfg = daemon.cfg
          /\ daemon'.half = {c} /\ daemon'.todo = daemon.todo
          /\ daemon'.served = daemon.served /\ daemon'.excused = daemon.excused
      BY <1>1, <2>1, <2>5 DEF DaemonType
    <3>2. LoadsThem' /\ PairedAreServed'
      BY <2>1, <3>1 DEF IInv, LoadsThem, PairedAreServed, DaemonOnly
    <3> QED
      BY <1>1, <1>4, <2>1, <2>5, <3>1, <3>2
  <2>6. CASE /\ daemon' = [daemon EXCEPT !.todo = @ \ {c}, !.half = {}, !.served = @ \cup {c}]
             /\ c \in daemon.todo
    <3>1. /\ daemon' \in DaemonType /\ daemon'.pc = "loading" /\ daemon'.cfg = daemon.cfg
          /\ daemon'.half = {} /\ daemon'.todo = daemon.todo \ {c}
          /\ daemon'.served = daemon.served \cup {c} /\ daemon'.excused = daemon.excused
      BY <1>1, <2>1, <2>6 DEF DaemonType
    <3>2. LoadsThem' /\ PairedAreServed'
      BY <2>1, <3>1 DEF IInv, LoadsThem, PairedAreServed, DaemonOnly
    <3> QED
      BY <1>1, <1>4, <2>1, <2>6, <3>1, <3>2
  <2> QED
    BY <1>1, <1>8, <2>4, <2>5, <2>6 DEF ReadHmac, ReadBearer
<1>9. ASSUME NEW found \in SUBSET Endpoints, Sweep(found) PROVE IInv'
  <2>1. /\ daemon' \in DaemonType /\ daemon'.pc = "write" /\ daemon'.half = daemon.half
        /\ daemon'.todo = daemon.todo /\ daemon'.served = daemon.served
        /\ daemon'.excused = daemon.excused
        /\ daemon'.cfg.conns = daemon.cfg.conns /\ daemon.cfg.eps \subseteq daemon'.cfg.eps
    BY <1>1, <1>9 DEF Sweep, DaemonType, Config
  <2>2. LoadsThem' /\ PairedAreServed'
    BY <1>9, <2>1 DEF Sweep, IInv, LoadsThem, PairedAreServed, DaemonOnly
  <2> QED
    BY <1>1, <1>4, <1>9, <2>1, <2>2 DEF Sweep
<1>10. ASSUME NEW ok \in BOOLEAN, DaemonWrite(ok) PROVE IInv'
  <2>1. PICK pc \in {"up", "rename"} : daemon' = [daemon EXCEPT !.pc = pc]
    BY <1>10 DEF DaemonWrite
  <2>2. /\ daemon' \in DaemonType /\ daemon'.pc = pc /\ daemon'.half = daemon.half
        /\ daemon'.todo = daemon.todo /\ daemon'.served = daemon.served
        /\ daemon'.excused = daemon.excused
        /\ daemon'.cfg = daemon.cfg
    BY <1>1, <2>1 DEF DaemonType
  <2>3. LoadsThem' /\ PairedAreServed'
    BY <1>10, <2>2 DEF DaemonWrite, IInv, LoadsThem, PairedAreServed, DaemonOnly
  <2>4. /\ tmp' \in TmpType
        /\ tmp' = tmp \/ (tmp'.by = "daemon" /\ tmp'.cfg = daemon.cfg /\ tmp'.gone = {})
        /\ daemon'.pc = "rename" => tmp'.by = "daemon" /\ tmp'.cfg = daemon.cfg /\ tmp'.gone = {}
    <3>1. CASE ok = TRUE
      BY <1>1, <1>10, <3>1 DEF DaemonWrite, WriteTmp, TmpType, Writers
    <3>2. CASE ok = FALSE
      <4>1. tmp' = tmp /\ daemon' = [daemon EXCEPT !.pc = "up"]
        BY <1>10, <3>2 DEF DaemonWrite
      <4>2. daemon'.pc = "up"
        BY <1>1, <4>1 DEF DaemonType
      <4> QED
        BY <1>1, <4>1, <4>2
    <3> QED
      BY <3>1, <3>2
  <2>5. /\ UNCHANGED <<disk, raced, kept, hmac, bearer, bare, cmd, commands, paired, erred, cut, fresh>>
        /\ daemon.pc # "down"
    BY <1>10 DEF DaemonWrite, DaemonOnly, NothingSaved
  <2> QED
    BY <1>1, <2>2, <2>3, <2>4, <2>5, DaemonMoves
<1>11. ASSUME NEW ok \in BOOLEAN, DaemonRename(ok) PROVE IInv'
  <2>1. /\ daemon' \in DaemonType /\ daemon'.pc = "up" /\ daemon'.half = daemon.half
        /\ daemon'.todo = daemon.todo /\ daemon'.served = daemon.served
        /\ daemon'.excused = daemon.excused
        /\ daemon'.cfg = daemon.cfg
    BY <1>1, <1>11 DEF DaemonRename, DaemonType
  <2>2. daemon.pc = "rename" /\ DaemonOnly
    BY <1>11 DEF DaemonRename
  <2>3. LoadsThem' /\ PairedAreServed'
    BY <2>1, <2>2 DEF IInv, LoadsThem, PairedAreServed, DaemonOnly
  <2>4. CASE RenameFails
    <3>1. tmp' = NoTmp /\ UNCHANGED <<disk, fresh, raced, kept>>
      BY <2>4 DEF RenameFails
    <3> QED
      BY <1>1, <2>1, <2>2, <2>3, <3>1, Nobodys, DaemonMoves DEF DaemonOnly
  <2>5. CASE Publish("daemon")
    <3>1. /\ disk' \in Config /\ tmp' = NoTmp /\ fresh' \subseteq Writers /\ raced' \subseteq Writers
          /\ kept' \subseteq Endpoints /\ disk' = tmp.cfg
          /\ raced' = {} => raced = {} /\ tmp.by = "daemon" /\ "daemon" \in fresh /\ fresh' = {"daemon"}
                        /\ kept' = (kept \ tmp.gone) \cup tmp.cfg.eps
      BY <2>5, Published DEF Writers
    <3>2. raced' = {} => disk' = daemon.cfg /\ tmp.gone = {}
      BY <2>2, <3>1 DEF IInv, NothingLost, TmpIsTheWriters
    <3>3. raced' = {} => /\ disk.conns \subseteq daemon.cfg.conns /\ disk.eps \subseteq daemon.cfg.eps
                     /\ paired \subseteq disk.conns /\ kept \subseteq disk.eps
      BY <2>2, <3>1 DEF IInv, NothingLost, CopiesAreCurrent, OnlyStaleWritersLose
    <3>4. TypeOK'
      BY <1>1, <2>1, <2>2, <3>1, Nobodys DEF DaemonOnly, IInv, TypeOK, DaemonType, TmpType
    <3>5. NothingLost'
      BY <2>1, <3>1, <3>2, Nobodys DEF NothingLost, TmpIsTheWriters, CopiesAreCurrent
    <3>6. OnlyStaleWritersLose'
      BY <2>2, <3>1, <3>2, <3>3 DEF OnlyStaleWritersLose, DaemonOnly
    <3>7. CommandInOrder' /\ PairsInOrder' /\ SecretsBeforeListing' /\ BareAreUnfinished'
      <4>1. Listed' \subseteq Listed
        BY <2>1, <2>2, <3>1, Nobodys DEF Listed, DaemonOnly
      <4>2. ListedHaveSecrets'
        BY <2>2, <4>1 DEF IInv, ListedHaveSecrets, DaemonOnly
      <4>3. \A c \in Conns \ erred : c \notin cut \cup Pairing => hmac[c] = bearer[c]
        BY DEF IInv, SecretsBeforeListing
      <4>4. SecretsBeforeListing'
        BY <2>2, <4>2, <4>3 DEF DaemonOnly, SecretsBeforeListing, Pairing, ListedHaveSecrets, Listed
      <4> QED
        BY <2>2, <4>4 DEF DaemonOnly, IInv, CommandInOrder, PairsInOrder, BareAreUnfinished, Pairing
    <3>8. ListedHaveSecrets'
      <4>1. Listed' \subseteq Listed
        BY <2>1, <2>2, <3>1, Nobodys DEF Listed, DaemonOnly
      <4> QED
        BY <2>2, <4>1 DEF IInv, ListedHaveSecrets, DaemonOnly
    <3> QED
      BY <2>3, <3>4, <3>5, <3>6, <3>7, <3>8 DEF IInv
  <2> QED
    BY <1>11, <2>4, <2>5 DEF DaemonRename
<1> QED
  BY <1>2, <1>5, <1>6, <1>8, <1>9, <1>10, <1>11 DEF Daemon

-----------------------------------------------------------------------------
\* The command moves without touching the file.
LEMMA CommandMoves ==
    ASSUME IInv, cmd' \in CmdType, commands' \in 0 .. MaxCommands,
           hmac' \in [Conns -> 0 .. MaxCommands + 1], bearer' \in [Conns -> 0 .. MaxCommands + 1],
           bare' \subseteq Entries, BareAreUnfinished',
           UNCHANGED <<disk, daemon, raced, kept, paired>>,
           fresh' \subseteq Writers, "daemon" \in fresh' => "daemon" \in fresh,
           erred \subseteq erred', erred' \subseteq Conns, cut \subseteq cut', cut' \subseteq Conns,
           tmp' \in TmpType,
           tmp' = tmp \/ tmp' = NoTmp \/ (tmp'.by = "cli" /\ tmp'.cfg = cmd.cfg),
           cmd'.pc = "rename" => tmp'.by = "cli" /\ tmp'.cfg = cmd'.cfg /\ tmp'.gone = GivenUp',
           raced = {} /\ cmd'.pc # "idle" /\ "cli" \in fresh'
             => disk.conns \subseteq cmd'.cfg.conns /\ disk.eps \ GivenUp' \subseteq cmd'.cfg.eps,
           CommandInOrder', PairsInOrder',
           \A c \in Conns \ erred' : /\ hmac[c] # 0 => hmac'[c] # 0
                                     /\ bearer[c] # 0 => bearer'[c] # 0
                                     /\ c \in cmd'.cfg.conns \ Listed => hmac'[c] # 0 /\ bearer'[c] # 0
                                     /\ c \notin cut' \cup Pairing' => hmac'[c] = bearer'[c]
    PROVE  IInv'
<1>1. TypeOK'
  BY DEF IInv, TypeOK, CmdType, TmpType
<1>2. (TmpIsTheWriters /\ CopiesAreCurrent) /\ raced = {} => NothingLost'
  BY Nobodys DEF NothingLost, TmpIsTheWriters, CopiesAreCurrent
<1>3. NothingLost'
  BY <1>2 DEF IInv, NothingLost
<1>4. OnlyStaleWritersLose' /\ LoadsThem' /\ PairedAreServed'
  BY DEF IInv, OnlyStaleWritersLose, LoadsThem, PairedAreServed
<1>5. Listed' \subseteq Conns /\ Listed' \subseteq Listed \cup cmd'.cfg.conns
  <2>1. Listed' \subseteq Listed \cup cmd'.cfg.conns
    BY Nobodys DEF Listed
  <2>2. disk'.conns \subseteq Conns /\ tmp'.cfg.conns \subseteq Conns
        /\ cmd'.cfg.conns \subseteq Conns /\ daemon'.cfg.conns \subseteq Conns
    BY <1>1 DEF TypeOK, Config
  <2> QED
    BY <2>1, <2>2 DEF Listed
<1>6. ListedHaveSecrets'
  BY <1>5 DEF IInv, ListedHaveSecrets
<1>7. SecretsBeforeListing'
  BY <1>6 DEF SecretsBeforeListing, ListedHaveSecrets, Listed
<1> QED
  BY <1>1, <1>3, <1>4, <1>6, <1>7 DEF IInv

\* What the command's steps start from.
LEMMA CommandTypes ==
    ASSUME IInv
    PROVE  /\ cmd \in CmdType /\ tmp \in TmpType /\ disk \in Config /\ fresh \subseteq Writers
           /\ hmac \in [Conns -> 0 .. MaxCommands + 1] /\ bearer \in [Conns -> 0 .. MaxCommands + 1]
           /\ commands \in 0 .. MaxCommands /\ erred \subseteq Conns /\ cut \subseteq Conns
           /\ cmd.cfg \in Config /\ cmd.conn \subseteq Conns /\ disk.conns \subseteq Conns
           /\ disk.eps \subseteq Endpoints /\ cmd.cfg.conns \subseteq Listed /\ disk.conns \subseteq Listed
           /\ bare \subseteq Entries
BY DEF IInv, TypeOK, CmdType, TmpType, Config, Listed

\* A command that reads the file begins with what it has.
LEMMA LoadInv ==
    ASSUME IInv,
           \/ \E c \in Conns : PairLoad(c)
           \/ \E forget \in SUBSET Endpoints, replace \in BOOLEAN : DiscoverLoad(forget, replace)
    PROVE  IInv'
<1>1. /\ cmd \in CmdType /\ tmp \in TmpType /\ disk \in Config /\ fresh \subseteq Writers
      /\ hmac \in [Conns -> 0 .. MaxCommands + 1] /\ bearer \in [Conns -> 0 .. MaxCommands + 1]
      /\ commands \in 0 .. MaxCommands /\ erred \subseteq Conns /\ cut \subseteq Conns
      /\ bare \subseteq Entries
      /\ disk.conns \subseteq Listed
  BY CommandTypes
<1>2. ASSUME cmd.pc = "idle", commands < MaxCommands, commands' = commands + 1,
             cmd' \in CmdType, cmd'.cfg = disk,
             \/ cmd'.pc = "setHmac" /\ cmd'.save = "pair"
             \/ cmd'.pc = "scan" /\ cmd'.save = "none",
             fresh' = fresh \cup {"cli"},
             UNCHANGED <<disk, tmp, hmac, bearer, bare, daemon, raced, kept, paired, erred, cut>>
      PROVE  IInv'
  <2>1. commands' \in 0 .. MaxCommands
    BY <1>1, <1>2
  <2>2. cmd.conn = {} /\ Pairing = {}
    BY <1>2, Nobodys DEF IInv, CommandInOrder, Pairing
  <2>3. CommandInOrder' /\ PairsInOrder'
    BY <1>2 DEF CommandInOrder, PairsInOrder
  <2>4. \A c \in Conns \ erred : c \notin cut => hmac[c] = bearer[c]
    BY <2>2 DEF IInv, SecretsBeforeListing
  <2>5. BareAreUnfinished'
    BY <1>2, <2>2 DEF IInv, BareAreUnfinished
  <2> QED
    BY <1>1, <1>2, <2>1, <2>3, <2>4, <2>5, CommandMoves DEF Writers
<1>3. ASSUME NEW c \in Conns, PairLoad(c) PROVE IInv'
  <2>1. cmd' \in CmdType /\ cmd'.cfg = disk /\ cmd'.pc = "setHmac" /\ cmd'.save = "pair"
    BY <1>1, <1>3, Nobodys DEF PairLoad, CmdType
  <2> QED
    BY <1>2, <1>3, <2>1 DEF PairLoad, CommandBegins
<1>4. ASSUME NEW forget \in SUBSET Endpoints, NEW replace \in BOOLEAN, DiscoverLoad(forget, replace)
      PROVE  IInv'
  <2>1. cmd' \in CmdType /\ cmd'.cfg = disk /\ cmd'.pc = "scan" /\ cmd'.save = "none"
    BY <1>1, <1>4, Nobodys DEF DiscoverLoad, CmdType
  <2> QED
    BY <1>2, <1>4, <2>1 DEF DiscoverLoad, CommandBegins
<1> QED
  BY <1>3, <1>4

\* A command that is over, with what it was pairing noted as an error or as cut.
LEMMA CommandEnds ==
    ASSUME IInv, cmd' = NoCommand,
           UNCHANGED <<disk, hmac, bearer, bare, commands, daemon, fresh, raced, kept, paired>>,
           erred \subseteq erred', erred' \subseteq Conns, cut \subseteq cut', cut' \subseteq Conns,
           tmp' = tmp \/ tmp' = NoTmp,
           Pairing \subseteq erred' \cup cut'
    PROVE  IInv'
<1>1. /\ cmd \in CmdType /\ tmp \in TmpType /\ disk \in Config /\ fresh \subseteq Writers
      /\ hmac \in [Conns -> 0 .. MaxCommands + 1] /\ bearer \in [Conns -> 0 .. MaxCommands + 1]
      /\ commands \in 0 .. MaxCommands /\ bare \subseteq Entries
  BY CommandTypes
<1>2. cmd' \in CmdType /\ cmd'.pc = "idle" /\ cmd'.cfg.conns = {} /\ cmd'.save = "none"
  BY Nobodys
<1>3. CommandInOrder' /\ PairsInOrder'
  BY <1>2 DEF CommandInOrder, PairsInOrder, NoCommand
<1>4. \A c \in Conns \ erred' : c \notin cut' => hmac[c] = bearer[c]
  BY DEF IInv, SecretsBeforeListing
<1>5. BareAreUnfinished'
  BY DEF IInv, BareAreUnfinished
<1> QED
  BY <1>1, <1>2, <1>3, <1>4, <1>5, Nobodys, CommandMoves

\* An entry of a pairing is written before it is listed.
LEMMA PutSets ==
    ASSUME IInv, NEW f \in [Conns -> 0 .. MaxCommands + 1], NEW g, NEW ok \in BOOLEAN,
           g = IF ok THEN [c \in Conns |-> IF c \in cmd.conn THEN commands + 1 ELSE f[c]] ELSE f
    PROVE  /\ g \in [Conns -> 0 .. MaxCommands + 1]
           /\ \A c \in Conns : f[c] # 0 => g[c] # 0
           /\ \A c \in Conns \ cmd.conn : g[c] = f[c]
           /\ ok => \A c \in cmd.conn : g[c] = commands + 1
<1>1. commands \in 0 .. MaxCommands /\ cmd.conn \subseteq Conns
  BY CommandTypes
<1>2. commands + 1 \in 0 .. MaxCommands + 1 /\ commands + 1 # 0
  BY <1>1
<1>3. CASE ok = FALSE
  BY <1>3
<1>4. CASE ok = TRUE
  BY <1>1, <1>2, <1>4
<1> QED
  BY <1>3, <1>4

\* A pairing that goes on with its secrets.
LEMMA PairMoves ==
    ASSUME IInv, cmd.save = "pair", cmd.pc \in {"setHmac", "openHmac", "setBearer", "openBearer"},
           UNCHANGED <<disk, tmp, commands, daemon, fresh, raced, kept, paired, erred, cut>>,
           cmd' \in CmdType, cmd'.pc \in {"openHmac", "setBearer", "openBearer", "write"},
           cmd'.save = "pair", cmd'.conn = cmd.conn, cmd.cfg.conns \subseteq cmd'.cfg.conns,
           cmd'.cfg.conns \subseteq cmd.cfg.conns \cup cmd.conn, cmd'.cfg.eps = cmd.cfg.eps,
           hmac' \in [Conns -> 0 .. MaxCommands + 1], bearer' \in [Conns -> 0 .. MaxCommands + 1],
           \A c \in Conns : /\ hmac[c] # 0 => hmac'[c] # 0
                            /\ bearer[c] # 0 => bearer'[c] # 0,
           \A c \in Conns \ cmd.conn : hmac'[c] = hmac[c] /\ bearer'[c] = bearer[c],
           cmd'.cfg.conns = cmd.cfg.conns
             \/ \A c \in cmd.conn : hmac'[c] # 0 /\ bearer'[c] # 0,
           bare' \subseteq bare \cup ({"hmac", "bearer"} \X cmd.conn),
           PairsInOrder'
    PROVE  IInv'
<1>1. /\ tmp \in TmpType /\ fresh \subseteq Writers /\ commands \in 0 .. MaxCommands
      /\ erred \subseteq Conns /\ cut \subseteq Conns /\ cmd.cfg.conns \subseteq Listed
      /\ bare \subseteq Entries /\ cmd.conn \subseteq Conns
  BY CommandTypes
<1>2. Pairing = cmd.conn /\ Pairing' = cmd.conn /\ GivenUp = {} /\ GivenUp' = {}
  BY DEF Pairing, GivenUp
<1>3. \A c \in Conns \ erred : c \notin cut \cup cmd.conn => hmac[c] = bearer[c]
  BY <1>2 DEF IInv, SecretsBeforeListing
<1>4. raced = {} /\ "cli" \in fresh => disk.conns \subseteq cmd.cfg.conns /\ disk.eps \subseteq cmd.cfg.eps
  BY <1>2 DEF IInv, NothingLost, CopiesAreCurrent
<1>5. bare' \subseteq Entries /\ BareAreUnfinished'
  <2>1. bare' \subseteq Entries
    BY <1>1 DEF Entries
  <2>2. \A e \in {"hmac", "bearer"}, c \in Conns : <<e, c>> \in bare' => <<e, c>> \in bare \/ c \in cmd.conn
    OBVIOUS
  <2> QED
    BY <1>2, <2>1, <2>2 DEF IInv, BareAreUnfinished
<1>6. CommandInOrder'
  BY DEF CommandInOrder
<1> QED
  BY <1>1, <1>2, <1>3, <1>4, <1>5, <1>6, CommandMoves

\* A pairing that fails at its bearer entry goes back.
LEMMA BearerFailedInv ==
    ASSUME IInv, BearerFailed, cmd.save = "pair", cmd.pc # "idle",
           UNCHANGED <<disk, tmp, hmac, commands, daemon, fresh, raced, kept, paired, cut>>,
           bearer' \in [Conns -> 0 .. MaxCommands + 1],
           \A c \in Conns : bearer[c] # 0 => bearer'[c] # 0,
           \A c \in Conns \ cmd.conn : bearer'[c] = bearer[c],
           bare' \subseteq bare
    PROVE  IInv'
<1>1. /\ cmd \in CmdType /\ tmp \in TmpType /\ fresh \subseteq Writers
      /\ hmac \in [Conns -> 0 .. MaxCommands + 1] /\ commands \in 0 .. MaxCommands
      /\ erred \subseteq Conns /\ cut \subseteq Conns /\ cmd.cfg.conns \subseteq Listed
      /\ bare \subseteq Entries /\ cmd.conn \subseteq Conns
  BY CommandTypes
<1>2. cmd' = [cmd EXCEPT !.pc = "undoHmac", !.save = "none"] /\ erred' = erred \cup cmd.conn
  BY DEF BearerFailed
<1>3. /\ cmd' \in CmdType /\ cmd'.pc = "undoHmac" /\ cmd'.save = "none"
      /\ cmd'.conn = cmd.conn /\ cmd'.cfg = cmd.cfg
  BY <1>1, <1>2 DEF CmdType
<1>4. CommandInOrder' /\ PairsInOrder'
  BY <1>2, <1>3 DEF CommandInOrder, PairsInOrder
<1>5. Pairing = cmd.conn /\ GivenUp = {} /\ GivenUp' = {}
  BY <1>3 DEF Pairing, GivenUp
<1>6. \A c \in Conns \ erred' : c \notin cut => hmac[c] = bearer'[c]
  BY <1>2, <1>5 DEF IInv, SecretsBeforeListing
<1>7. raced = {} /\ "cli" \in fresh => disk.conns \subseteq cmd.cfg.conns /\ disk.eps \subseteq cmd.cfg.eps
  BY <1>5 DEF IInv, NothingLost, CopiesAreCurrent
<1>8. bare' \subseteq Entries /\ BareAreUnfinished'
  BY <1>1, <1>2, <1>5 DEF IInv, BareAreUnfinished
<1> QED
  BY <1>1, <1>2, <1>3, <1>4, <1>5, <1>6, <1>7, <1>8, CommandMoves

\* A pairing that fails at its hmac entry is over.
LEMMA HmacFailedInv ==
    ASSUME IInv, cmd.save = "pair", cmd' = NoCommand, erred' = erred \cup cmd.conn,
           UNCHANGED <<disk, tmp, hmac, bearer, commands, daemon, fresh, raced, kept, paired, cut>>,
           bare' \subseteq bare
    PROVE  IInv'
<1>1. /\ tmp \in TmpType /\ fresh \subseteq Writers /\ bare \subseteq Entries
      /\ hmac \in [Conns -> 0 .. MaxCommands + 1] /\ bearer \in [Conns -> 0 .. MaxCommands + 1]
      /\ commands \in 0 .. MaxCommands /\ erred \subseteq Conns /\ cut \subseteq Conns
      /\ cmd.conn \subseteq Conns
  BY CommandTypes
<1>2. cmd' \in CmdType /\ cmd'.pc = "idle" /\ cmd'.cfg.conns = {} /\ cmd'.save = "none"
  BY Nobodys
<1>3. CommandInOrder' /\ PairsInOrder'
  BY <1>2 DEF CommandInOrder, PairsInOrder, NoCommand
<1>4. Pairing = cmd.conn
  BY DEF Pairing
<1>5. \A c \in Conns \ erred' : c \notin cut => hmac[c] = bearer[c]
  BY <1>4 DEF IInv, SecretsBeforeListing
<1>6. bare' \subseteq Entries /\ BareAreUnfinished'
  BY <1>1, <1>4 DEF IInv, BareAreUnfinished
<1> QED
  BY <1>1, <1>2, <1>3, <1>5, <1>6, CommandMoves

LEMMA SecretsInv ==
    ASSUME IInv,
           \/ \E ok \in BOOLEAN : SetHmac(ok) \/ SetBearer(ok)
           \/ \E out \in Outcomes : OpenHmac(out) \/ OpenBearer(out)
    PROVE  IInv'
<1>1. /\ cmd \in CmdType /\ hmac \in [Conns -> 0 .. MaxCommands + 1]
      /\ bearer \in [Conns -> 0 .. MaxCommands + 1]
      /\ commands \in 0 .. MaxCommands /\ cmd.conn \subseteq Conns /\ cmd.cfg \in Config
  BY CommandTypes
<1>2. cmd.save = "pair" /\ cmd.pc \in {"setHmac", "openHmac", "setBearer", "openBearer"}
  BY DEF SetHmac, SetBearer, OpenHmac, OpenBearer, IInv, CommandInOrder
<1>3. PairsInOrder /\ commands + 1 # 0
  BY <1>1 DEF IInv
<1>4. ASSUME NEW pc \in {"openHmac", "setBearer", "openBearer"}, cmd' = [cmd EXCEPT !.pc = pc]
      PROVE  /\ cmd' \in CmdType /\ cmd'.pc = pc /\ cmd'.save = "pair"
             /\ cmd'.conn = cmd.conn /\ cmd'.cfg = cmd.cfg
  BY <1>1, <1>2, <1>4 DEF CmdType
<1>5. ASSUME NEW ok \in BOOLEAN, SetHmac(ok) PROVE IInv'
  <2>1. /\ hmac' \in [Conns -> 0 .. MaxCommands + 1]
        /\ \A c \in Conns : hmac[c] # 0 => hmac'[c] # 0
        /\ \A c \in Conns \ cmd.conn : hmac'[c] = hmac[c]
        /\ ok => \A c \in cmd.conn : hmac'[c] = commands + 1
    BY <1>1, <1>5, PutSets DEF SetHmac, Put
  <2>2. /\ UNCHANGED <<disk, tmp, bearer, commands, daemon, fresh, raced, kept, paired, cut>>
        /\ cmd.pc = "setHmac"
    BY <1>5 DEF SetHmac
  <2>3. CASE ok = TRUE
    <3>1. cmd' = [cmd EXCEPT !.pc = "openHmac"] /\ erred' = erred
      BY <1>5, <2>3 DEF SetHmac
    <3>2. /\ cmd' \in CmdType /\ cmd'.pc = "openHmac" /\ cmd'.save = "pair"
          /\ cmd'.conn = cmd.conn /\ cmd'.cfg = cmd.cfg
      BY <1>4, <3>1
    <3>3. bare' = bare \cup ({"hmac"} \X cmd.conn)
      BY <1>5, <2>3 DEF SetHmac, Put
    <3>4. PairsInOrder'
      BY <2>1, <2>2, <2>3, <3>2 DEF PairsInOrder
    <3>5. bare' \subseteq bare \cup ({"hmac", "bearer"} \X cmd.conn)
      BY <3>3
    <3> QED
      BY <1>1, <1>2, <2>1, <2>2, <3>1, <3>2, <3>4, <3>5, PairMoves
  <2>4. CASE ok = FALSE
    BY <1>2, <1>5, <2>4, HmacFailedInv DEF SetHmac, Put
  <2> QED
    BY <2>3, <2>4
<1>6. ASSUME NEW ok \in BOOLEAN, SetBearer(ok) PROVE IInv'
  <2>1. /\ bearer' \in [Conns -> 0 .. MaxCommands + 1]
        /\ \A c \in Conns : bearer[c] # 0 => bearer'[c] # 0
        /\ \A c \in Conns \ cmd.conn : bearer'[c] = bearer[c]
        /\ ok => \A c \in cmd.conn : bearer'[c] = commands + 1
    BY <1>1, <1>6, PutSets DEF SetBearer, Put
  <2>2. /\ UNCHANGED <<disk, tmp, hmac, commands, daemon, fresh, raced, kept, paired, cut>>
        /\ cmd.pc = "setBearer"
    BY <1>6 DEF SetBearer
  <2>3. CASE ok = TRUE
    <3>1. cmd' = [cmd EXCEPT !.pc = "openBearer"] /\ erred' = erred
      BY <1>6, <2>3 DEF SetBearer
    <3>2. /\ cmd' \in CmdType /\ cmd'.pc = "openBearer" /\ cmd'.save = "pair"
          /\ cmd'.conn = cmd.conn /\ cmd'.cfg = cmd.cfg
      BY <1>4, <3>1
    <3>3. bare' = bare \cup ({"bearer"} \X cmd.conn)
      BY <1>6, <2>3 DEF SetBearer, Put
    <3>4. \A c \in cmd.conn : hmac[c] = commands + 1 /\ <<"hmac", c>> \notin bare'
      BY <1>3, <2>2, <3>3 DEF PairsInOrder
    <3>5. PairsInOrder'
      BY <2>1, <2>2, <2>3, <3>2, <3>4 DEF PairsInOrder
    <3>6. bare' \subseteq bare \cup ({"hmac", "bearer"} \X cmd.conn)
      BY <3>3
    <3> QED
      BY <1>1, <1>2, <2>1, <2>2, <3>1, <3>2, <3>5, <3>6, PairMoves
  <2>4. CASE ok = FALSE
    BY <1>2, <1>6, <2>1, <2>2, <2>4, BearerFailedInv DEF SetBearer, Put
  <2> QED
    BY <2>3, <2>4
<1>7. ASSUME NEW out \in Outcomes, OpenHmac(out) PROVE IInv'
  <2>1. /\ UNCHANGED <<disk, tmp, hmac, bearer, commands, daemon, fresh, raced, kept, paired, cut>>
        /\ cmd.pc = "openHmac"
    BY <1>7 DEF OpenHmac
  <2>2. bare' \subseteq bare /\ (out # "unstored" => \A c \in cmd.conn : <<"hmac", c>> \notin bare')
    BY <1>7 DEF OpenHmac, Open
  <2>3. CASE out = "stored"
    <3>1. cmd' = [cmd EXCEPT !.pc = "setBearer"] /\ erred' = erred
      BY <1>7, <2>3 DEF OpenHmac
    <3>2. /\ cmd' \in CmdType /\ cmd'.pc = "setBearer" /\ cmd'.save = "pair"
          /\ cmd'.conn = cmd.conn /\ cmd'.cfg = cmd.cfg
      BY <1>4, <3>1
    <3>3. PairsInOrder'
      BY <1>3, <2>1, <2>2, <2>3, <3>2 DEF PairsInOrder
    <3> QED
      BY <1>1, <1>2, <2>1, <2>2, <3>1, <3>2, <3>3, PairMoves
  <2>4. CASE out # "stored"
    BY <1>2, <1>7, <2>1, <2>2, <2>4, HmacFailedInv DEF OpenHmac
  <2> QED
    BY <2>3, <2>4
<1>8. ASSUME NEW out \in Outcomes, OpenBearer(out) PROVE IInv'
  <2>1. /\ UNCHANGED <<disk, tmp, hmac, bearer, commands, daemon, fresh, raced, kept, paired, cut>>
        /\ cmd.pc = "openBearer"
    BY <1>8 DEF OpenBearer
  <2>2. bare' \subseteq bare /\ (out # "unstored" => \A c \in cmd.conn : <<"bearer", c>> \notin bare')
    BY <1>8 DEF OpenBearer, Open
  <2>3. CASE out = "stored"
    <3>1. cmd' = [cmd EXCEPT !.pc = "write", !.cfg.conns = @ \cup cmd.conn] /\ erred' = erred
      BY <1>8, <2>3 DEF OpenBearer
    <3>2. /\ cmd' \in CmdType /\ cmd'.pc = "write" /\ cmd'.save = "pair"
          /\ cmd'.conn = cmd.conn /\ cmd'.cfg.conns = cmd.cfg.conns \cup cmd.conn
          /\ cmd'.cfg.eps = cmd.cfg.eps
      BY <1>1, <1>2, <3>1 DEF CmdType, Config
    <3>3. \A c \in cmd.conn : /\ hmac[c] = commands + 1 /\ bearer[c] = commands + 1
                              /\ <<"hmac", c>> \notin bare
      BY <1>3, <2>1 DEF PairsInOrder
    <3>4. PairsInOrder'
      BY <2>1, <2>2, <2>3, <3>2, <3>3 DEF PairsInOrder
    <3> QED
      BY <1>1, <1>2, <1>3, <2>1, <2>2, <3>1, <3>2, <3>3, <3>4, PairMoves
  <2>4. CASE out # "stored"
    BY <1>1, <1>2, <1>8, <2>1, <2>2, <2>4, BearerFailedInv DEF OpenBearer
  <2> QED
    BY <2>3, <2>4
<1> QED
  BY <1>5, <1>6, <1>7, <1>8

\* A rollback takes entries of connections whose pairing has failed.
LEMMA UndoInv == ASSUME IInv, NEW gone \in BOOLEAN, Undo(gone) PROVE IInv'
<1>1. /\ cmd \in CmdType /\ tmp \in TmpType /\ disk \in Config /\ fresh \subseteq Writers
      /\ hmac \in [Conns -> 0 .. MaxCommands + 1] /\ bearer \in [Conns -> 0 .. MaxCommands + 1]
      /\ commands \in 0 .. MaxCommands /\ erred \subseteq Conns /\ cut \subseteq Conns
      /\ bare \subseteq Entries
      /\ cmd.cfg.conns \subseteq Listed
  BY CommandTypes
<1>2. /\ cmd.pc \in {"undoHmac", "undoBearer"} /\ cmd.conn \subseteq erred
      /\ UNCHANGED <<disk, tmp, commands, daemon, fresh, raced, kept, paired, erred, cut>>
  BY DEF Undo, IInv, PairsInOrder
<1>3. /\ hmac' \in [Conns -> 0 .. MaxCommands + 1] /\ bearer' \in [Conns -> 0 .. MaxCommands + 1]
      /\ \A c \in Conns \ erred : hmac'[c] = hmac[c] /\ bearer'[c] = bearer[c]
  <2> DEFINE without(f) == [c \in Conns |-> IF gone /\ c \in cmd.conn THEN 0 ELSE f[c]]
  <2>1. ASSUME NEW f \in [Conns -> 0 .. MaxCommands + 1]
        PROVE  /\ without(f) \in [Conns -> 0 .. MaxCommands + 1]
               /\ \A c \in Conns \ erred : without(f)[c] = f[c]
    BY <1>2
  <2>2. (hmac' = without(hmac) /\ bearer' = bearer) \/ (bearer' = without(bearer) /\ hmac' = hmac)
    BY DEF Undo
  <2> HIDE DEF without
  <2> QED
    BY <1>1, <2>1, <2>2
<1>9. bare' \subseteq Entries /\ BareAreUnfinished'
  <2>1. bare' \subseteq bare
    BY DEF Undo
  <2>2. Pairing \subseteq erred
    BY <1>2 DEF Pairing
  <2> QED
    BY <1>1, <1>2, <2>1, <2>2 DEF IInv, BareAreUnfinished
<1>4. \A c \in Conns \ erred : c \notin cut => hmac[c] = bearer[c]
  BY <1>2 DEF IInv, SecretsBeforeListing, Pairing
<1>5. CASE cmd.pc = "undoHmac" /\ cmd.save = "pair"
  <2>1. cmd' = [cmd EXCEPT !.pc = "undoBearer"]
    BY <1>5 DEF Undo
  <2>2. /\ cmd' \in CmdType /\ cmd'.pc = "undoBearer" /\ cmd'.save = "pair"
        /\ cmd'.conn = cmd.conn /\ cmd'.cfg = cmd.cfg
    BY <1>1, <1>5, <2>1 DEF CmdType
  <2>3. CommandInOrder' /\ PairsInOrder'
    BY <1>2, <2>2 DEF CommandInOrder, PairsInOrder
  <2>4. GivenUp' = {} /\ GivenUp = {}
    BY <1>5, <2>2 DEF GivenUp
  <2>5. raced = {} /\ "cli" \in fresh => disk.conns \subseteq cmd.cfg.conns /\ disk.eps \subseteq cmd.cfg.eps
    BY <1>2, <2>4 DEF IInv, NothingLost, CopiesAreCurrent
  <2> QED
    BY <1>1, <1>2, <1>3, <1>4, <1>9, <2>2, <2>3, <2>4, <2>5, CommandMoves
<1>6. CASE ~(cmd.pc = "undoHmac" /\ cmd.save = "pair")
  <2>1. cmd' = NoCommand
    BY <1>6 DEF Undo
  <2>2. /\ cmd' \in CmdType /\ cmd'.pc = "idle" /\ cmd'.cfg.conns = {} /\ cmd'.save = "none"
    BY <2>1, Nobodys
  <2>3. CommandInOrder' /\ PairsInOrder'
    BY <2>1, <2>2 DEF CommandInOrder, PairsInOrder, NoCommand
  <2> QED
    BY <1>1, <1>2, <1>3, <1>4, <1>9, <2>2, <2>3, CommandMoves
<1> QED
  BY <1>5, <1>6

\* What ToMerge leaves: a copy that has all it had but what the operator removes.
LEMMA Merging ==
    ASSUME NEW c \in CmdType
    PROVE  /\ ToMerge(c) \in CmdType
           /\ \/ ToMerge(c) = NoCommand
              \/ /\ ToMerge(c).pc = "write" /\ ToMerge(c).save = "merge"
                 /\ ToMerge(c).conn = c.conn /\ ToMerge(c).replace = c.replace
                 /\ ToMerge(c).found = c.found /\ ToMerge(c).cfg.conns = c.cfg.conns
                 /\ ToMerge(c).cfg.eps = IF c.replace THEN c.found
                                         ELSE (c.cfg.eps \ c.forget) \cup c.found
<1>1. CASE c.found = {}
  BY <1>1, Nobodys DEF ToMerge
<1>2. CASE c.found # {}
  <2>1. PICK E \in SUBSET Endpoints :
          E = IF c.replace THEN c.found ELSE (c.cfg.eps \ c.forget) \cup c.found
    BY DEF CmdType, Config
  <2> DEFINE m == [c EXCEPT !.pc = "write", !.save = "merge", !.cfg.eps = E]
  <2>2. ToMerge(c) = m
    BY <1>2, <2>1 DEF ToMerge
  <2>3. m \in CmdType
    BY DEF CmdType, Config
  <2>4. m.pc = "write" /\ m.save = "merge" /\ m.conn = c.conn /\ m.replace = c.replace
        /\ m.found = c.found
    BY DEF CmdType
  <2>5. m.cfg.conns = c.cfg.conns /\ m.cfg.eps = E
    BY DEF CmdType, Config
  <2> HIDE DEF m
  <2> QED
    BY <2>1, <2>2, <2>3, <2>4, <2>5
<1> QED
  BY <1>1, <1>2

\* The scan is over: the first of the saves is to come, or none.
LEMMA ScanInv == ASSUME IInv, NEW found \in SUBSET Endpoints, Scan(found) PROVE IInv'
<1>1. /\ cmd \in CmdType /\ tmp \in TmpType /\ disk \in Config /\ fresh \subseteq Writers
      /\ hmac \in [Conns -> 0 .. MaxCommands + 1] /\ bearer \in [Conns -> 0 .. MaxCommands + 1]
      /\ commands \in 0 .. MaxCommands /\ erred \subseteq Conns /\ cut \subseteq Conns
      /\ bare \subseteq Entries
      /\ disk.eps \subseteq Endpoints /\ cmd.cfg.conns \subseteq Listed
  BY CommandTypes
<1>2. /\ cmd.pc = "scan" /\ cmd.save = "none" /\ Pairing = {} /\ GivenUp = {}
      /\ UNCHANGED <<disk, tmp, hmac, bearer, bare, commands, daemon, fresh, raced, kept, paired, erred,
                     cut>>
  BY DEF Scan, IInv, CommandInOrder, Pairing, GivenUp
<1>3. raced = {} /\ "cli" \in fresh => disk.conns \subseteq cmd.cfg.conns /\ disk.eps \subseteq cmd.cfg.eps
  BY <1>2 DEF IInv, NothingLost, CopiesAreCurrent
<1>4. \A c \in Conns \ erred : c \notin cut => hmac[c] = bearer[c]
  BY <1>2 DEF IInv, SecretsBeforeListing
<1>8. BareAreUnfinished'
  BY <1>2 DEF IInv, BareAreUnfinished
<1> DEFINE seen == [cmd EXCEPT !.found = found]
<1>5. /\ seen \in CmdType /\ seen.found = found /\ seen.replace = cmd.replace
      /\ seen.forget = cmd.forget /\ seen.cfg = cmd.cfg /\ seen.conn = cmd.conn
  BY <1>1 DEF CmdType
<1>6. CASE cmd.forget # {}
  <2>1. cmd' = [seen EXCEPT !.pc = "write", !.save = "forget", !.cfg.eps = @ \ cmd.forget]
    BY <1>6 DEF Scan
  <2> HIDE DEF seen
  <2>2. /\ cmd' \in CmdType /\ cmd'.pc = "write" /\ cmd'.save = "forget"
        /\ cmd'.forget = cmd.forget /\ cmd'.cfg.conns = cmd.cfg.conns
        /\ cmd'.cfg.eps = cmd.cfg.eps \ cmd.forget
    BY <1>5, <2>1 DEF CmdType, Config
  <2>3. GivenUp' = cmd.forget
    BY <2>2 DEF GivenUp
  <2>4. CommandInOrder' /\ PairsInOrder'
    BY <2>2 DEF CommandInOrder, PairsInOrder
  <2> QED
    BY <1>1, <1>2, <1>3, <1>4, <1>8, <2>2, <2>3, <2>4, CommandMoves
<1>7. CASE cmd.forget = {}
  <2>1. cmd' = ToMerge(seen)
    BY <1>7 DEF Scan
  <2> HIDE DEF seen
  <2>2. CASE cmd' = NoCommand
    BY <1>1, <1>2, <2>2, CommandEnds
  <2>3. CASE cmd' # NoCommand
    <3>1. /\ cmd' \in CmdType /\ cmd'.pc = "write" /\ cmd'.save = "merge"
          /\ cmd'.replace = cmd.replace /\ cmd'.found = found /\ cmd'.cfg.conns = cmd.cfg.conns
          /\ cmd'.cfg.eps = IF cmd.replace THEN found ELSE cmd.cfg.eps \cup found
      BY <1>5, <1>7, <2>1, <2>3, Merging
    <3>2. GivenUp' = IF cmd.replace THEN Endpoints \ found ELSE {}
      BY <3>1 DEF GivenUp
    <3>3. disk.eps \subseteq cmd.cfg.eps => disk.eps \ GivenUp' \subseteq cmd'.cfg.eps
      BY <1>1, <3>1, <3>2
    <3>4. CommandInOrder' /\ PairsInOrder'
      BY <3>1 DEF CommandInOrder, PairsInOrder
    <3> QED
      BY <1>1, <1>2, <1>3, <1>4, <1>8, <3>1, <3>3, <3>4, CommandMoves
  <2> QED
    BY <2>2, <2>3
<1> QED
  BY <1>6, <1>7

\* A save that failed: a pairing goes back, any other command is over.
LEMMA FailedSave ==
    ASSUME IInv, SaveFailed, cmd.pc \in {"write", "rename"},
           UNCHANGED <<disk, hmac, bearer, bare, commands, daemon, fresh, raced, kept, paired, cut>>,
           tmp' = tmp \/ tmp' = NoTmp
    PROVE  IInv'
<1>1. /\ cmd \in CmdType /\ tmp \in TmpType /\ disk \in Config /\ fresh \subseteq Writers
      /\ hmac \in [Conns -> 0 .. MaxCommands + 1] /\ bearer \in [Conns -> 0 .. MaxCommands + 1]
      /\ commands \in 0 .. MaxCommands /\ erred \subseteq Conns /\ cut \subseteq Conns
      /\ bare \subseteq Entries
      /\ cmd.cfg.conns \subseteq Listed /\ cmd.conn \subseteq Conns
  BY CommandTypes
<1>2. CASE cmd.save # "pair"
  BY <1>1, <1>2, CommandEnds DEF SaveFailed, Pairing
<1>3. CASE cmd.save = "pair"
  <2>1. cmd' = [cmd EXCEPT !.pc = "undoHmac"] /\ erred' = erred \cup cmd.conn
    BY <1>3 DEF SaveFailed
  <2>2. /\ cmd' \in CmdType /\ cmd'.pc = "undoHmac" /\ cmd'.save = "pair"
        /\ cmd'.conn = cmd.conn /\ cmd'.cfg = cmd.cfg
    BY <1>1, <1>3, <2>1 DEF CmdType
  <2>3. CommandInOrder' /\ PairsInOrder'
    BY <2>1, <2>2 DEF CommandInOrder, PairsInOrder
  <2>4. GivenUp' = {} /\ GivenUp = {}
    BY <1>3, <2>2 DEF GivenUp
  <2>5. raced = {} /\ "cli" \in fresh => disk.conns \subseteq cmd.cfg.conns /\ disk.eps \subseteq cmd.cfg.eps
    BY <2>4 DEF IInv, NothingLost, CopiesAreCurrent
  <2>6. \A c \in Conns \ erred' : c \notin cut => hmac[c] = bearer[c]
    BY <1>3, <2>1 DEF IInv, SecretsBeforeListing, Pairing
  <2>7. BareAreUnfinished'
    BY <1>3, <2>1 DEF IInv, BareAreUnfinished, Pairing
  <2> QED
    BY <1>1, <2>1, <2>2, <2>3, <2>4, <2>5, <2>6, <2>7, Nobodys, CommandMoves
<1> QED
  BY <1>2, <1>3

LEMMA CliWriteInv == ASSUME IInv, NEW ok \in BOOLEAN, CliWrite(ok) PROVE IInv'
<1>1. /\ cmd \in CmdType /\ tmp \in TmpType /\ disk \in Config /\ fresh \subseteq Writers
      /\ hmac \in [Conns -> 0 .. MaxCommands + 1] /\ bearer \in [Conns -> 0 .. MaxCommands + 1]
      /\ commands \in 0 .. MaxCommands /\ erred \subseteq Conns /\ cut \subseteq Conns
      /\ bare \subseteq Entries
      /\ cmd.cfg \in Config /\ cmd.cfg.conns \subseteq Listed /\ cmd.conn \subseteq Conns
  BY CommandTypes
<1>2. /\ cmd.pc = "write"
      /\ UNCHANGED <<disk, hmac, bearer, bare, commands, daemon, fresh, raced, kept, paired, cut>>
  BY DEF CliWrite
<1>3. CASE ok = TRUE
  <2>1. /\ tmp' = [by |-> "cli", cfg |-> cmd.cfg, gone |-> GivenUp]
        /\ cmd' = [cmd EXCEPT !.pc = "rename"] /\ erred' = erred
    BY <1>3 DEF CliWrite, WriteTmp
  <2>2. /\ cmd' \in CmdType /\ cmd'.pc = "rename" /\ cmd'.save = cmd.save
        /\ cmd'.conn = cmd.conn /\ cmd'.cfg = cmd.cfg /\ cmd'.forget = cmd.forget
        /\ cmd'.replace = cmd.replace /\ cmd'.found = cmd.found
    BY <1>1, <2>1 DEF CmdType
  <2>3. GivenUp' = GivenUp /\ GivenUp \in SUBSET Endpoints /\ Pairing' = Pairing
    BY <1>1, <2>2 DEF GivenUp, CmdType, Pairing
  <2>4. tmp' \in TmpType
    BY <1>1, <2>1, <2>3 DEF TmpType, Writers
  <2>5. CommandInOrder' /\ PairsInOrder'
    BY <1>2, <2>2 DEF IInv, CommandInOrder, PairsInOrder
  <2>6. raced = {} /\ "cli" \in fresh
          => disk.conns \subseteq cmd.cfg.conns /\ disk.eps \ GivenUp \subseteq cmd.cfg.eps
    BY <1>2 DEF IInv, NothingLost, CopiesAreCurrent
  <2>7. \A c \in Conns \ erred : c \notin cut \cup Pairing => hmac[c] = bearer[c]
    BY DEF IInv, SecretsBeforeListing
  <2>8. BareAreUnfinished'
    BY <1>2, <2>1, <2>3 DEF IInv, BareAreUnfinished
  <2> QED
    BY <1>1, <1>2, <2>1, <2>2, <2>3, <2>4, <2>5, <2>6, <2>7, <2>8, CommandMoves
<1>4. CASE ok = FALSE
  BY <1>2, <1>4, FailedSave DEF CliWrite
<1> QED
  BY <1>3, <1>4

LEMMA KilledInv == ASSUME IInv, CliKilled PROVE IInv'
BY CommandTypes, CommandEnds DEF CliKilled, Pairing

-----------------------------------------------------------------------------
\* The command's file is published: unless somebody raced, it is the command's copy,
\* and has all the file had but what the operator removes.
LEMMA CliPublishes ==
    ASSUME IInv, Publish("cli"), cmd.pc = "rename", cmd' \in CmdType,
           UNCHANGED <<hmac, bearer, bare, commands, daemon, cut>>,
           erred \subseteq erred', erred' \subseteq Conns,
           paired' = paired \/ (cmd.save = "pair" /\ paired' = paired \cup cmd.conn),
           cmd'.cfg.conns \subseteq Listed, cmd'.pc # "rename",
           cmd'.pc # "idle" => /\ cmd.cfg.conns \subseteq cmd'.cfg.conns
                               /\ cmd.cfg.eps \ GivenUp' \subseteq cmd'.cfg.eps,
           CommandInOrder', PairsInOrder', BareAreUnfinished',
           \A c \in Conns \ erred' : c \notin cut \cup Pairing' => hmac[c] = bearer[c]
    PROVE  IInv'
<1>1. /\ cmd \in CmdType /\ tmp \in TmpType /\ disk \in Config /\ fresh \subseteq Writers
      /\ hmac \in [Conns -> 0 .. MaxCommands + 1] /\ bearer \in [Conns -> 0 .. MaxCommands + 1]
      /\ commands \in 0 .. MaxCommands /\ erred \subseteq Conns /\ cut \subseteq Conns
      /\ bare \subseteq Entries
      /\ cmd.conn \subseteq Conns
  BY CommandTypes
<1>2. /\ disk' \in Config /\ tmp' = NoTmp /\ fresh' \subseteq Writers /\ raced' \subseteq Writers
      /\ kept' \subseteq Endpoints /\ disk' = tmp.cfg
      /\ raced' = {} => raced = {} /\ tmp.by = "cli" /\ "cli" \in fresh /\ fresh' = {"cli"}
                    /\ kept' = (kept \ tmp.gone) \cup tmp.cfg.eps
  BY Published DEF Writers
<1>3. raced' = {} => disk' = cmd.cfg /\ tmp.gone = GivenUp
  BY <1>2 DEF IInv, NothingLost, TmpIsTheWriters
<1>4. raced' = {} => /\ disk.conns \subseteq cmd.cfg.conns /\ disk.eps \ GivenUp \subseteq cmd.cfg.eps
                 /\ paired \subseteq disk.conns /\ kept \subseteq disk.eps
  BY <1>2 DEF IInv, NothingLost, CopiesAreCurrent, OnlyStaleWritersLose
<1>5. cmd.save = "pair" => cmd.conn \subseteq cmd.cfg.conns
  BY DEF IInv, PairsInOrder
<1>6. TypeOK'
  BY <1>1, <1>2, Nobodys DEF IInv, TypeOK, CmdType, TmpType
<1>7. NothingLost'
  BY <1>2, <1>3, Nobodys DEF NothingLost, TmpIsTheWriters, CopiesAreCurrent
<1>8. OnlyStaleWritersLose'
  BY <1>2, <1>3, <1>4, <1>5 DEF OnlyStaleWritersLose
<1>9. Listed' \subseteq Listed
  BY <1>2, Nobodys DEF Listed
<1>10. ListedHaveSecrets'
  BY <1>9 DEF IInv, ListedHaveSecrets
<1>11. SecretsBeforeListing'
  BY <1>10 DEF SecretsBeforeListing, ListedHaveSecrets, Listed
<1>12. LoadsThem' /\ PairedAreServed'
  BY DEF IInv, LoadsThem, PairedAreServed
<1> QED
  BY <1>6, <1>7, <1>8, <1>10, <1>11, <1>12 DEF IInv

LEMMA CliRenameInv == ASSUME IInv, NEW out \in Outcomes, CliRename(out) PROVE IInv'
<1>1. /\ cmd \in CmdType /\ erred \subseteq Conns /\ cut \subseteq Conns
      /\ cmd.cfg.conns \subseteq Listed /\ cmd.conn \subseteq Conns
  BY CommandTypes
<1>2. cmd.pc = "rename" /\ UNCHANGED <<hmac, bearer, bare, commands, daemon, cut>>
  BY DEF CliRename
<1>3. \A c \in Conns \ erred : c \notin cut \cup Pairing => hmac[c] = bearer[c]
  BY DEF IInv, SecretsBeforeListing
<1>4. cmd.save = "pair" => \A c \in cmd.conn : hmac[c] = bearer[c]
  BY <1>2 DEF IInv, PairsInOrder
<1>8. ASSUME erred' = erred \cup (IF out = "stored" THEN {} ELSE Pairing), cmd.save # "pair" => erred' = erred
      PROVE  BareAreUnfinished'
  <2>1. out = "stored" /\ cmd.save = "pair"
          => \A e \in {"hmac", "bearer"}, c \in cmd.conn : <<e, c>> \notin bare
    BY <1>2 DEF IInv, PairsInOrder
  <2> QED
    BY <1>2, <1>8, <2>1 DEF IInv, BareAreUnfinished, Pairing
<1>5. CASE out = "unstored"
  BY <1>2, <1>5, FailedSave DEF CliRename, RenameFails
<1>6. CASE out = "stored and failed"
  <2>1. Publish("cli") /\ SaveFailed /\ paired' = paired
    BY <1>6 DEF CliRename
  <2>2. CASE cmd.save = "pair"
    <3>1. cmd' = [cmd EXCEPT !.pc = "undoHmac"] /\ erred' = erred \cup cmd.conn
      BY <2>1, <2>2 DEF SaveFailed
    <3>2. /\ cmd' \in CmdType /\ cmd'.pc = "undoHmac" /\ cmd'.save = "pair"
          /\ cmd'.conn = cmd.conn /\ cmd'.cfg = cmd.cfg
      BY <1>1, <2>2, <3>1 DEF CmdType
    <3>3. CommandInOrder' /\ PairsInOrder'
      BY <3>1, <3>2 DEF CommandInOrder, PairsInOrder
    <3>4. Pairing' = cmd.conn /\ Pairing = cmd.conn
      BY <2>2, <3>2 DEF Pairing
    <3> QED
      BY <1>1, <1>2, <1>3, <1>6, <1>8, <2>1, <2>2, <3>1, <3>2, <3>3, <3>4, CliPublishes
  <2>3. CASE cmd.save # "pair"
    <3>1. cmd' = NoCommand /\ erred' = erred /\ Pairing = {}
      BY <2>1, <2>3 DEF SaveFailed, Pairing
    <3>2. /\ cmd' \in CmdType /\ cmd'.pc = "idle" /\ cmd'.cfg.conns = {} /\ cmd'.save = "none"
      BY <3>1, Nobodys
    <3>3. CommandInOrder' /\ PairsInOrder'
      BY <3>1, <3>2 DEF CommandInOrder, PairsInOrder, NoCommand
    <3> QED
      BY <1>1, <1>2, <1>3, <1>6, <1>8, <2>1, <3>1, <3>2, <3>3, CliPublishes
  <2> QED
    BY <2>2, <2>3
<1>7. CASE out = "stored"
  <2>1. /\ Publish("cli") /\ SaveDone /\ erred' = erred
        /\ paired' = IF cmd.save = "pair" THEN paired \cup cmd.conn ELSE paired
    BY <1>7 DEF CliRename, SaveDone
  <2>2. CASE cmd' = NoCommand
    <3>1. /\ cmd' \in CmdType /\ cmd'.pc = "idle" /\ cmd'.cfg.conns = {} /\ cmd'.save = "none"
      BY <2>2, Nobodys
    <3>2. CommandInOrder' /\ PairsInOrder'
      BY <2>2, <3>1 DEF CommandInOrder, PairsInOrder, NoCommand
    <3>3. \A c \in Conns \ erred : c \notin cut => hmac[c] = bearer[c]
      BY <1>3, <1>4 DEF Pairing
    <3> QED
      BY <1>1, <1>2, <1>7, <1>8, <2>1, <3>1, <3>2, <3>3, CliPublishes
  <2>3. CASE cmd' # NoCommand
    <3>1. cmd.save = "forget" /\ cmd' = ToMerge(cmd) /\ Pairing = {}
      BY <2>1, <2>3 DEF SaveDone, Pairing
    <3>2. /\ cmd' \in CmdType /\ cmd'.pc = "write" /\ cmd'.save = "merge"
          /\ cmd'.replace = cmd.replace /\ cmd'.found = cmd.found /\ cmd'.cfg.conns = cmd.cfg.conns
          /\ cmd'.cfg.eps = IF cmd.replace THEN cmd.found
                            ELSE (cmd.cfg.eps \ cmd.forget) \cup cmd.found
      BY <1>1, <2>3, <3>1, Merging
    <3>3. cmd.cfg.eps \cap cmd.forget = {} /\ cmd.cfg.eps \subseteq Endpoints
      BY <1>1, <3>1 DEF IInv, CommandInOrder, CmdType, Config
    <3>4. GivenUp' = IF cmd.replace THEN Endpoints \ cmd.found ELSE {}
      BY <3>2 DEF GivenUp
    <3>5. cmd.cfg.eps \ GivenUp' \subseteq cmd'.cfg.eps
      BY <3>2, <3>3, <3>4
    <3>6. CommandInOrder' /\ PairsInOrder'
      BY <3>2 DEF CommandInOrder, PairsInOrder
    <3> QED
      BY <1>1, <1>2, <1>3, <1>7, <1>8, <2>1, <3>1, <3>2, <3>5, <3>6, CliPublishes
  <2> QED
    BY <2>2, <2>3
<1> QED
  BY <1>5, <1>6, <1>7 DEF Outcomes

-----------------------------------------------------------------------------
LEMMA StepInv == IInv /\ [Next]_vars => IInv'
<1> SUFFICES ASSUME IInv, [Next]_vars PROVE IInv'
  OBVIOUS
<1>1. CASE Pair
  BY <1>1, LoadInv, SecretsInv, UndoInv DEF Pair
<1>2. CASE Discover
  BY <1>2, LoadInv, ScanInv DEF Discover
<1>3. CASE Save
  BY <1>3, CliWriteInv, CliRenameInv DEF Save
<1>4. CASE UNCHANGED vars
  BY <1>4 DEF vars, IInv, TypeOK, NothingLost, TmpIsTheWriters, CopiesAreCurrent, GivenUp,
     OnlyStaleWritersLose, CommandInOrder, PairsInOrder, ListedHaveSecrets, Listed,
     SecretsBeforeListing, Pairing, BareAreUnfinished, LoadsThem, PairedAreServed
<1> QED
  BY <1>1, <1>2, <1>3, <1>4, KilledInv, DaemonInv DEF Next

\* IInv holds of every state the host can be in.
THEOREM Invariance == Spec => []IInv
BY InitInv, StepInv, PTL DEF Spec

\* Every variable has its type.
THEOREM TypeCorrect == Spec => []TypeOK
<1>1. IInv => TypeOK
  BY DEF IInv
<1> QED
  BY <1>1, Invariance, PTL

\* Nothing that was saved is lost but to a writer whose copy was stale.
THEOREM StaleWritersLose == Spec => []OnlyStaleWritersLose
<1>1. IInv => OnlyStaleWritersLose
  BY DEF IInv
<1> QED
  BY <1>1, Invariance, PTL

\* A listed connection has both secrets, of one pairing.
THEOREM SecretsFirst == Spec => []SecretsBeforeListing
<1>1. IInv => SecretsBeforeListing
  BY DEF IInv
<1> QED
  BY <1>1, Invariance, PTL

\* A daemon that is up serves every connection whose pairing was over and well, but
\* those the host refuses it.
THEOREM PairedServed == Spec => []PairedAreServed
<1>1. IInv => PairedAreServed
  BY DEF IInv
<1> QED
  BY <1>1, Invariance, PTL
=============================================================================
