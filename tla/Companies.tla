----------------------------- MODULE Companies -----------------------------
(***************************************************************************)
(* Which company a mapping is read from, and whose ledger masters its      *)
(* vouchers meet (cmd/agent resolveMappingsForTick; internal/syncrun       *)
(* follow.go, identity.go, ledger_gstins.go, duty_ledgers.go).             *)
(*                                                                         *)
(* One mapping, the companies that bear its name, and one walk after the   *)
(* other: it probes every port twice, List of Companies and the NAME+GUID  *)
(* collection, resolves the mapping, and its lanes read the chosen port BY *)
(* NAME.  Companies are opened and closed between any two requests.  Ports *)
(* are probed one after the other here, in parallel in the code: all that  *)
(* matters is what a port does between two of its own answers.             *)
(*                                                                         *)
(* The caches are shared by all walks of the process, of the tick, of a    *)
(* sync_now beside it and of earlier ones, so a lookup finds whatever any  *)
(* walk may have stored, of any age below ten minutes, or nothing.  What a *)
(* walk may store is stated once (MayBeStored), assumed of the others and  *)
(* checked of this one.                                                    *)
(***************************************************************************)
EXTENDS Integers, FiniteSets

CONSTANTS
    N,            \* Tally ports, 1 .. N; port 0 is one where nothing listens
    Books,        \* the companies that bear the mapping's name
    Ours,         \* the one the mapping is for
    DutyGroup     \* DutyGroup[c]: what company c calls its Duties & Taxes group

Standard == "Duties & Taxes"

ASSUME CompaniesAssumption ==
    /\ N \in Nat \ {0}
    /\ IsFiniteSet(Books)
    /\ Ours \in Books /\ Books \cap {"none", "blank", "empty"} = {}
    /\ DOMAIN DutyGroup = Books

VARIABLES
    set,       \* the settings: enforce, the mapping's port, whether it has a GUID
    open,      \* open[p]: the companies of Books that are open on port p
    walk,      \* where the walk is, what the probes said, the port it reads
    lane       \* the lane it is in: what that read, met and reported

vars == <<set, open, walk, lane>>

Ports == 1 .. N
None == "none"
Blank == "blank"      \* a company returned without its GUID
Empty == "empty"      \* an answer without a single master: no company has none

Verdicts == {"unprobed", "unreachable", "not_open", "match", "no_stored_guid", "doubt"}
Answers == [listed : BOOLEAN, verdict : Verdicts, guid : Books \cup {None}]
\* Of whom masters are, and, as history, whether the company that was probed was
\* still the one open when they were fetched.
Masters == [of : Books \cup {None, Empty}, tree : Books \cup {None, Empty}, clean : BOOLEAN]
Duties == [of : Books \cup {None}, clean : BOOLEAN]

TypeOK ==
    /\ set \in [enforce : BOOLEAN, port : {0, 1}, stored : BOOLEAN]
    /\ open \in [Ports -> SUBSET Books]
    /\ walk \in [at : {"list", "identity", "resolve", "lane", "ledgers", "ask", "groups",
                       "store", "duties", "askduties", "done"},
                 i : 1 .. N + 1, listed : {"error", "no", "yes"}, said : [Ports -> Answers],
                 had : SUBSET Ports, moved : SUBSET Ports, port : 0 .. N,
                 told : Books \cup {None}]
    /\ lane \in [of : Books \cup {None}, invoice : BOOLEAN, masters : Masters,
                 book : Duties, warned : BOOLEAN]

NoWalk == [at |-> "list", i |-> 1, listed |-> "no",
           said |-> [p \in Ports |-> [listed |-> FALSE, verdict |-> "unprobed", guid |-> None]],
           had |-> {}, moved |-> {}, port |-> 0, told |-> None]
NoLane == [of |-> None, invoice |-> FALSE, masters |-> [of |-> None, tree |-> None, clean |-> TRUE],
           book |-> [of |-> None, clean |-> TRUE], warned |-> FALSE]

Init ==
    /\ set \in [enforce : BOOLEAN, port : {0, 1}, stored : BOOLEAN]
    /\ open \in [Ports -> SUBSET Books]
    /\ walk = NoWalk
    /\ lane = NoLane

-----------------------------------------------------------------------------
\* Someone opens or closes companies in the Tally of a port.
Change(p) ==
    /\ \E books \in SUBSET Books : books # open[p] /\ open' = [open EXCEPT ![p] = books]
    /\ walk' = IF walk.said[p].verdict # "unprobed" \/ walk.port = p
               THEN [walk EXCEPT !.moved = @ \cup {p}] ELSE walk
    /\ UNCHANGED <<set, lane>>

-----------------------------------------------------------------------------
(* The probes of one port and what they say of the mapping.                *)

At(step) == walk.at = step
To(step) == walk' = [walk EXCEPT !.at = step]

\* List of Companies: names only, and any request may fail or be too slow.
List ==
    /\ At("list")
    /\ \E listed \in {"error", IF open[walk.i] = {} THEN "no" ELSE "yes"} :
         walk' = [walk EXCEPT !.at = "identity", !.listed = listed,
                              !.had = IF Ours \in open[walk.i] /\ listed = "yes"
                                      THEN @ \cup {walk.i} ELSE @]
    /\ UNCHANGED <<set, open, lane>>

\* What the NAME+GUID collection returns for the name: at least what is open, a
\* company without its GUID perhaps, and perhaps companies that are not open.
\* "same": the two probes list the same names.
NoCollection == [ok : {FALSE}, guids : {{}}, same : {FALSE}]
Collections(p) ==
    NoCollection \cup
    [ok : {TRUE}, same : BOOLEAN,
     guids : {g \in SUBSET (Books \cup {Blank}) : Blank \in g \/ open[p] \subseteq g}]

Says(listed, verdict, guids) ==
    [listed |-> listed = "yes", verdict |-> verdict,
     guid |-> IF verdict \in {"match", "no_stored_guid"} THEN CHOOSE g \in guids : TRUE ELSE None]

\* Mutant: one GUID among several that is the stored one is enough.
CheckMappingIdentityByMembership(listed, id) ==
    LET others == IF set.stored /\ Ours \in id.guids THEN {Ours} ELSE id.guids
        verdict ==
          IF listed = "error" THEN "unreachable"
          ELSE IF listed = "no" /\ (~id.ok \/ id.guids = {}) THEN "not_open"
          ELSE IF ~id.ok \/ listed = "no" \/ id.guids = {} THEN "doubt"
          ELSE IF Cardinality(others) > 1 \/ others = {Blank} THEN "doubt"
          ELSE IF set.stored /\ others # {Ours} THEN "doubt"
          ELSE IF ~id.same THEN "doubt"
          ELSE IF ~set.stored THEN "no_stored_guid"
          ELSE "match"
    IN  Says(listed, verdict, others)

\* Mutant: a company without its GUID counts as identified.
CheckMappingIdentityBlank(listed, id) ==
    LET verdict ==
          IF listed = "error" THEN "unreachable"
          ELSE IF listed = "no" /\ (~id.ok \/ id.guids = {}) THEN "not_open"
          ELSE IF ~id.ok \/ listed = "no" \/ Cardinality(id.guids) # 1 THEN "doubt"
          ELSE IF set.stored /\ id.guids # {Ours} THEN "doubt"
          ELSE IF ~id.same THEN "doubt"
          ELSE IF ~set.stored THEN "no_stored_guid"
          ELSE "match"
    IN  Says(listed, verdict, id.guids)

\* CheckMappingIdentity, in the order of its cases.  identity_unavailable,
\* probes_disagree, ambiguous, guid_not_returned and guid_mismatch decide alike:
\* each is a doubt.
CheckMappingIdentity(listed, id) ==
    LET verdict ==
          IF listed = "error" THEN "unreachable"
          ELSE IF listed = "no" /\ (~id.ok \/ id.guids = {}) THEN "not_open"
          ELSE IF ~id.ok \/ listed = "no" \/ id.guids = {} THEN "doubt"
          ELSE IF Cardinality(id.guids) > 1 \/ id.guids = {Blank} THEN "doubt"
          ELSE IF set.stored /\ id.guids # {Ours} THEN "doubt"
          ELSE IF ~id.same THEN "doubt"
          ELSE IF ~set.stored THEN "no_stored_guid"
          ELSE "match"
    IN  Says(listed, verdict, id.guids)

\* The second probe runs where the first answered.
ProbeCompanyIdentity ==
    /\ At("identity")
    /\ \E id \in IF walk.listed = "error" THEN NoCollection ELSE Collections(walk.i) :
         walk' = [walk EXCEPT !.at = IF walk.i = N THEN "resolve" ELSE "list",
                              !.i = @ + 1, !.listed = "no",
                              !.said[walk.i] = CheckMappingIdentity(walk.listed, id)]
    /\ UNCHANGED <<set, open, lane>>

-----------------------------------------------------------------------------
(* resolveMappingsForTick.                                                 *)

\* Mutant: the first port that has it.
FollowFirst(found, doubts) == IF found # {} THEN CHOOSE p \in found : TRUE ELSE 0

\* The port a company that is not on its own is followed to: the only one that
\* has it, with no doubt about another.  0 is a mapping that is skipped.
Follow(found, doubts) ==
    IF doubts = {} /\ Cardinality(found) = 1 THEN CHOOSE p \in found : TRUE ELSE 0

\* ResolveMappingEndpoints: names decide.
ByName ==
    IF set.port # 0 /\ walk.said[1].listed THEN 1
    ELSE Follow({p \in Ports : walk.said[p].listed}, {})

\* ResolveMappingEndpointsEnforced: the stored GUID does, and any doubt skips.
ByIdentity ==
    LET Where(verdicts) == {p \in Ports : walk.said[p].verdict \in verdicts}
    IN  IF set.port # 0 /\ 1 \in Where({"match"}) THEN 1
        ELSE Follow(Where({"match"}), Where({"doubt", "no_stored_guid"}))

\* Mutant: the GUID of the first port that knows the company.
GuidSeenFirst(port) ==
    LET known == {p \in Ports : walk.said[p].guid # None}
    IN  IF known = {} THEN None ELSE walk.said[CHOOSE p \in known : TRUE].guid

\* ObserveIdentity and ApplyIdentityGUIDs: the GUID the lanes report.
GuidSeen(port) == walk.said[port].guid

Resolve ==
    /\ At("resolve")
    /\ LET port == IF set.enforce THEN ByIdentity ELSE ByName
       IN  walk' = IF port = 0 THEN NoWalk
                   ELSE [NoWalk EXCEPT !.at = "lane", !.port = port, !.told = GuidSeen(port),
                                       !.moved = walk.moved \cap {port}]
    /\ UNCHANGED <<set, open, lane>>

-----------------------------------------------------------------------------
(* A lane: vouchers, then the ledger directory, then the duty ledgers.     *)

\* The company Tally takes by its name.
Here == open[walk.port]
Unmoved == walk.moved = {}
Warned == [lane EXCEPT !.warned = TRUE]

\* A request that fails, and vouchers that need no masters, end the lane at once.
Vouchers ==
    /\ At("lane")
    /\ \E c \in Here, invoice \in BOOLEAN :
         lane' = [NoLane EXCEPT !.of = c, !.invoice = invoice]
    /\ To("ledgers")
    /\ UNCHANGED <<set, open>>

EndWalk ==
    /\ At("lane")
    /\ walk' = NoWalk
    /\ UNCHANGED <<set, open, lane>>

\* What is stored under the mapping's endpoint and company name, wherever it was
\* read: with the gate enforced, of our company, unless a port changed meanwhile.
MayBeStored(entry) ==
    entry.of # None /\ (set.enforce /\ entry.clean => entry.of \in {Ours, Empty})

\* Mutant: the failure of the group tree is told by the lane that met it only.
CachedLedgersSilent ==
    /\ At("ledgers")
    /\ \E entry \in Masters : MayBeStored(entry) /\ lane' = [lane EXCEPT !.masters = entry]
    /\ To("duties")
    /\ UNCHANGED <<set, open>>

\* ledgerGSTINsFor: a fresh entry is used, and the failure kept with it told.
CachedLedgers ==
    /\ At("ledgers")
    /\ \E entry \in Masters :
         /\ MayBeStored(entry)
         /\ lane' = [lane EXCEPT !.masters = entry, !.warned = (entry.tree = None)]
    /\ To("duties")
    /\ UNCHANGED <<set, open>>

MissLedgers ==
    /\ At("ledgers")
    /\ To("ask")
    /\ UNCHANGED <<set, open, lane>>

\* Mutant: the masters are asked of the port the mapping names.
AskLedgersThere ==
    /\ At("ask")
    /\ \/ /\ \E c \in (IF set.port = 0 THEN Here ELSE open[1]) \cup {Empty} :
               lane' = [lane EXCEPT !.masters = [of |-> c, tree |-> None, clean |-> Unmoved]]
          /\ To("groups")
       \/ lane' = Warned /\ To("duties")
    /\ UNCHANGED <<set, open>>

\* The ledgers, outside the lock; what fails is not cached.  walkTallyExport knows
\* Tally's errors by STATUS 0 and LINEERROR: every other answer in which it finds no
\* ledger is a directory of none, and kept.
AskLedgers ==
    /\ At("ask")
    /\ \/ /\ \E c \in Here \cup {Empty} :
               lane' = [lane EXCEPT !.masters = [of |-> c, tree |-> None, clean |-> Unmoved]]
          /\ To("groups")
       \/ lane' = Warned /\ To("duties")
    /\ UNCHANGED <<set, open>>

\* The group tree, a tree of no groups on the same terms, or the failure that is
\* cached with the ledgers.
AskGroups ==
    /\ At("groups")
    /\ \/ \E c \in Here \cup {Empty} :
            lane' = [lane EXCEPT !.masters.tree = c, !.masters.clean = @ /\ Unmoved]
       \/ lane' = Warned
    /\ To("store")
    /\ UNCHANGED <<set, open>>

StoreLedgers ==
    /\ At("store")
    /\ To("duties")
    /\ UNCHANGED <<set, open, lane>>

-----------------------------------------------------------------------------
\* DutiesAndTaxesGroup of the directory: the tree's spelling, or Tally's own.
GroupAsked ==
    IF lane.masters.tree \in Books THEN DutyGroup[lane.masters.tree] ELSE Standard

\* dutyLedgerLookup; a journal or a payment has no duty legs.
NoDutyLookup ==
    /\ At("duties") /\ ~lane.invoice
    /\ To("done")
    /\ UNCHANGED <<set, open, lane>>

\* dutyLedgersFor: an entry under the group's name, a book or an empty export.
\* An empty book is none; what takes its place, from the group tree or from
\* nothing, is reported.
CachedDuties ==
    /\ At("duties") /\ lane.invoice
    /\ \/ \E entry \in Duties :
            /\ MayBeStored(entry) /\ DutyGroup[entry.of] = GroupAsked
            /\ lane' = [lane EXCEPT !.book = entry]
       \/ lane' = Warned
    /\ To("done")
    /\ UNCHANGED <<set, open>>

MissDuties ==
    /\ At("duties") /\ lane.invoice
    /\ To("askduties")
    /\ UNCHANGED <<set, open, lane>>

\* A company has no ledgers under a group it does not have.
AskDuties ==
    /\ At("askduties")
    /\ \/ \E c \in Here :
            lane' = IF GroupAsked = DutyGroup[c]
                    THEN [lane EXCEPT !.book = [of |-> c, clean |-> Unmoved]] ELSE Warned
       \/ lane' = Warned
    /\ To("done")
    /\ UNCHANGED <<set, open>>

EndLane ==
    /\ At("done")
    /\ lane' = NoLane
    /\ To("lane")
    /\ UNCHANGED <<set, open>>

-----------------------------------------------------------------------------
Probe == List \/ ProbeCompanyIdentity \/ Resolve

Lane ==
    \/ Vouchers \/ CachedLedgers \/ MissLedgers \/ AskLedgers \/ AskGroups \/ StoreLedgers
    \/ NoDutyLookup \/ CachedDuties \/ MissDuties \/ AskDuties \/ EndLane

Next == Probe \/ Lane \/ EndWalk \/ \E p \in Ports : Change(p)

Spec == Init /\ [][Next]_vars

-----------------------------------------------------------------------------
\* With the identity gate enforced, what is read is the mapped company, whatever
\* copies, namesakes and unopened companies the ports show, as long as the port
\* read has not changed since its probe.
ReadsTheMapped == set.enforce /\ Unmoved /\ lane.of # None => lane.of = Ours

\* The company GUID a lane reports is that of the company it read, in both modes,
\* with the same exception.
ReportedGuidIsTheRead ==
    Unmoved /\ lane.of # None /\ walk.told # None => walk.told = lane.of

\* A company is followed to another port only when no other port that answered had
\* it open as it did: "the agent must not guess which is the books".
FollowsTheOnlyCopy ==
    [][At("resolve") /\ walk'.port \notin {0, set.port}
         => walk.had \subseteq {walk'.port}]_vars

\* With the gate enforced, vouchers meet masters of their own company, fetched by
\* this walk or by any other, unless a port changed under the one that fetched
\* them; and what this walk stores is what it relies on in what others stored.
MastersAreOfTheCompany ==
    /\ set.enforce /\ Unmoved /\ lane.of # None =>
         \A entry \in {lane.masters, lane.book} :
             entry.of \notin {None, Empty} /\ entry.clean => entry.of = lane.of
    /\ At("store") => MayBeStored(lane.masters)
    /\ At("done") /\ lane.book.of # None => MayBeStored(lane.book)

\* A lane whose read of the ledgers or of the group tree failed, or that has no duty
\* masters, says so in its sync warnings, also when it was a cache that remembered
\* the failure.
FailedMastersAreReported ==
    At("done") /\ ~lane.warned =>
        /\ lane.masters.of # None /\ lane.masters.tree # None
        /\ lane.invoice => lane.book.of # None
=============================================================================
