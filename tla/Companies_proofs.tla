-------------------------- MODULE Companies_proofs --------------------------
(***************************************************************************)
(* The safety properties of Companies, for any number of ports and any     *)
(* finite set of companies of one name.                                    *)
(***************************************************************************)
EXTENDS Companies, FiniteSetTheorems, TLAPS

\* The types of walk and lane, as in TypeOK.
WalkType == [at : {"list", "identity", "resolve", "lane", "ledgers", "ask", "groups",
                   "store", "duties", "askduties", "done"},
             i : 1 .. N + 1, listed : {"error", "no", "yes"}, said : [Ports -> Answers],
             had : SUBSET Ports, moved : SUBSET Ports, port : 0 .. N, told : Books \cup {None}]
LaneType == [of : Books \cup {None}, invoice : BOOLEAN, masters : Masters,
             book : Duties, warned : BOOLEAN]

\* The steps before a port is chosen.
Probing == walk.at \in {"list", "identity", "resolve"}

Unprobed == [listed |-> FALSE, verdict |-> "unprobed", guid |-> None]

\* The probes go port by port, a lane begins afresh, and outside the probes there
\* is a port to read and only its changes count.
WalkInOrder ==
    /\ walk.at \in {"list", "identity"} => walk.i \in Ports
    /\ Probing => walk.port = 0
    /\ \A p \in Ports : IF p < walk.i THEN walk.said[p].verdict # "unprobed"
                       ELSE walk.said[p] = Unprobed
    /\ ~Probing => walk.i = 1 /\ walk.port \in Ports /\ walk.moved \subseteq {walk.port}
    /\ Probing \/ walk.at = "lane" => lane = NoLane

\* A port known to have the mapped company, or one company, and not changed since,
\* has no other of the name.
SeenIsOpen ==
    Probing => \A p \in Ports \ walk.moved :
        /\ walk.said[p].verdict = "match" => open[p] \subseteq {Ours}
        /\ walk.said[p].guid # None => open[p] \subseteq {walk.said[p].guid}

\* So has the port that is read, and what a lane read is open there.
ReadIsOpen ==
    ~Probing /\ walk.moved = {} =>
        /\ set.enforce => open[walk.port] \subseteq {Ours}
        /\ walk.told # None => open[walk.port] \subseteq {walk.told}
        /\ lane.of # None => lane.of \in open[walk.port]

\* Masters fetched from an unchanged port are the mapped company's.
MastersAreOurs ==
    set.enforce => \A entry \in {lane.masters, lane.book} :
        entry.of # None /\ entry.clean => entry.of \in {Ours, Empty}

\* A port that had the mapped company open when it answered has been told apart.
HadIsKnown ==
    Probing => \A p \in walk.had :
        \/ /\ walk.said[p].listed
           /\ walk.said[p].verdict \in {"match", "no_stored_guid", "doubt"}
        \/ walk.at = "identity" /\ walk.i = p /\ walk.listed = "yes"

\* What is missing has been told as soon as it is known to be missing.
MissingIsTold ==
    /\ walk.at = "groups" => lane.masters.of # None
    /\ walk.at = "store" => /\ lane.masters.of # None
                            /\ lane.warned \/ lane.masters.tree # None
    /\ walk.at \in {"duties", "askduties"} =>
           lane.warned \/ (lane.masters.of # None /\ lane.masters.tree # None)
    /\ FailedMastersAreReported

IInv ==
    /\ TypeOK /\ WalkInOrder /\ SeenIsOpen /\ ReadIsOpen /\ MastersAreOurs
    /\ HadIsKnown /\ MissingIsTold

USE CompaniesAssumption

-----------------------------------------------------------------------------
LEMMA InitInv == Init => IInv
<1> SUFFICES ASSUME Init PROVE IInv
  OBVIOUS
<1> USE DEF Init, NoWalk, NoLane, None, Ports
<1>1. TypeOK
  BY DEF TypeOK, Answers, Verdicts, Masters, Duties
<1>2. WalkInOrder /\ SeenIsOpen /\ ReadIsOpen /\ MastersAreOurs /\ HadIsKnown
  BY DEF WalkInOrder, Unprobed, Probing, SeenIsOpen, ReadIsOpen, MastersAreOurs, HadIsKnown
<1>3. MissingIsTold
  BY DEF MissingIsTold, FailedMastersAreReported, At
<1> QED
  BY <1>1, <1>2, <1>3 DEF IInv

\* Companies opened or closed on a port are marked where they matter.
LEMMA ChangeInv == ASSUME IInv, NEW p \in Ports, Change(p) PROVE IInv'
<1> USE DEF IInv, Change
<1>1. walk' \in {walk, [walk EXCEPT !.moved = @ \cup {p}]} /\ set' = set /\ lane' = lane
  OBVIOUS
<1>2. \A q \in Ports : q # p => open'[q] = open[q]
  BY DEF TypeOK
<1>3. walk.said[p].verdict # "unprobed" \/ walk.port = p => p \in walk'.moved
  BY DEF TypeOK
<1>4. /\ walk'.at = walk.at /\ walk'.i = walk.i /\ walk'.said = walk.said
      /\ walk'.port = walk.port /\ walk'.told = walk.told /\ walk'.had = walk.had
      /\ walk'.listed = walk.listed
      /\ walk'.moved \in {walk.moved, walk.moved \cup {p}}
  BY <1>1 DEF TypeOK
<1>5. TypeOK'
  <2>1. walk' \in WalkType
    <3> HIDE DEF Change
    <3> QED
      BY <1>1 DEF TypeOK, WalkType
  <2>2. open' \in [Ports -> SUBSET Books]
    BY DEF TypeOK
  <2> QED
    BY <1>1, <2>1, <2>2 DEF TypeOK
<1>6. WalkInOrder'
  <2>1. ~Probing => walk'.moved \subseteq {walk.port}
    <3>1. CASE walk' = walk
      BY <3>1 DEF WalkInOrder
    <3>2. CASE walk' # walk /\ walk.port = p
      BY <3>2, <1>4 DEF WalkInOrder
    <3>3. CASE walk' # walk /\ walk.port # p
      BY <3>3 DEF WalkInOrder, Unprobed, Ports
    <3> QED
      BY <3>1, <3>2, <3>3
  <2> QED
    BY <2>1, <1>1, <1>4 DEF WalkInOrder, Probing
<1>7. SeenIsOpen'
  <2>1. \A q \in Ports : walk.said[q].verdict = "unprobed" => walk.said[q].guid = None
    BY DEF WalkInOrder, Unprobed
  <2> QED
    BY <2>1, <1>2, <1>3, <1>4 DEF SeenIsOpen, Probing
<1>8. ReadIsOpen'
  BY <1>1, <1>2, <1>3, <1>4 DEF ReadIsOpen, Probing, TypeOK, WalkInOrder
<1>9. MastersAreOurs' /\ HadIsKnown' /\ MissingIsTold'
  BY <1>1, <1>4 DEF MastersAreOurs, HadIsKnown, MissingIsTold, FailedMastersAreReported, Probing, At
<1> QED
  BY <1>5, <1>6, <1>7, <1>8, <1>9

-----------------------------------------------------------------------------
\* Guids that are neither several nor none are one.
LEMMA OneGuid ==
    ASSUME NEW guids \in SUBSET (Books \cup {Blank}), guids # {}, ~(Cardinality(guids) > 1)
    PROVE  \E g \in guids : guids = {g}
<1>1. IsFiniteSet(Books \cup {Blank})
  BY FS_AddElement
<1>2. IsFiniteSet(guids)
  BY <1>1, FS_Subset
<1>3. Cardinality(guids) \in Nat /\ Cardinality(guids) # 0
  BY <1>2, FS_CardinalityType, FS_EmptySet
<1>4. Cardinality(guids) = 1
  BY <1>3
<1> QED
  BY <1>2, <1>4, FS_Singleton

\* What the two probes of a port say of the mapping is true of it at that moment.
LEMMA VerdictsAreTrue ==
    ASSUME TypeOK, NEW p \in Ports, NEW listed \in {"error", "no", "yes"},
           NEW id \in Collections(p), NEW a, a = CheckMappingIdentity(listed, id)
    PROVE  /\ a \in Answers
           /\ a.verdict # "unprobed"
           /\ a.verdict = "match" => open[p] \subseteq {Ours}
           /\ a.guid # None => open[p] \subseteq {a.guid}
           /\ listed = "yes" => a.listed /\ a.verdict \in {"match", "no_stored_guid", "doubt"}
<1>1. /\ id.ok \in BOOLEAN /\ id.same \in BOOLEAN
      /\ id.guids \in SUBSET (Books \cup {Blank})
      /\ id.ok => Blank \in id.guids \/ open[p] \subseteq id.guids
  BY DEF Collections, NoCollection
<1>2. a.listed = (listed = "yes") /\ a.verdict \in Verdicts \ {"unprobed"}
  BY DEF CheckMappingIdentity, Says, Verdicts
<1>3. listed = "yes" => a.verdict \in {"match", "no_stored_guid", "doubt"}
  BY DEF CheckMappingIdentity, Says
<1>4. ASSUME a.verdict \in {"match", "no_stored_guid"}
      PROVE  /\ a.guid \in Books /\ open[p] \subseteq {a.guid}
             /\ a.verdict = "match" => a.guid = Ours
  <2>1. /\ id.ok /\ id.guids # {} /\ ~(Cardinality(id.guids) > 1) /\ id.guids # {Blank}
        /\ a.verdict = "match" => id.guids = {Ours}
        /\ a.guid = CHOOSE g \in id.guids : TRUE
    BY <1>1, <1>4 DEF CheckMappingIdentity, Says
  <2>2. PICK g \in id.guids : id.guids = {g}
    BY <1>1, <2>1, OneGuid
  <2>3. a.guid = g
    BY <2>1, <2>2
  <2>4. g # Blank /\ g \in Books
    BY <1>1, <2>1, <2>2
  <2>5. open[p] \subseteq {g}
    BY <1>1, <2>1, <2>2, <2>4
  <2> QED
    BY <2>1, <2>2, <2>3, <2>4, <2>5
<1>5. a.verdict \notin {"match", "no_stored_guid"} => a.guid = None
  BY DEF CheckMappingIdentity, Says
<1>6. a \in Answers
  <2>1. a = [listed |-> a.listed, verdict |-> a.verdict, guid |-> a.guid]
    BY DEF CheckMappingIdentity, Says
  <2> QED
    BY <2>1, <1>2, <1>4, <1>5 DEF Answers
<1> QED
  BY <1>2, <1>3, <1>4, <1>5, <1>6

\* The first probe of a port.
LEMMA ListInv == ASSUME IInv, List PROVE IInv'
<1> USE DEF IInv
<1>1. PICK listed \in {"error", "no", "yes"} :
        walk' = [walk EXCEPT !.at = "identity", !.listed = listed,
                             !.had = IF Ours \in open[walk.i] /\ listed = "yes"
                                     THEN @ \cup {walk.i} ELSE @]
  BY DEF List
<1>2. walk.at = "list" /\ UNCHANGED <<set, open, lane>>
  BY DEF List, At
<1>3. walk.i \in Ports
  BY <1>2 DEF WalkInOrder
<1>4. /\ walk'.at = "identity" /\ walk'.listed = listed /\ walk'.i = walk.i
      /\ walk'.said = walk.said /\ walk'.moved = walk.moved /\ walk'.port = walk.port
      /\ walk'.told = walk.told
      /\ walk'.had \subseteq walk.had \cup (IF listed = "yes" THEN {walk.i} ELSE {})
      /\ walk'.had \subseteq Ports
  BY <1>1, <1>3 DEF TypeOK
<1>5. TypeOK'
  <2>1. walk' = [at |-> "identity", i |-> walk.i, listed |-> listed, said |-> walk.said,
                 had |-> walk'.had, moved |-> walk.moved, port |-> walk.port, told |-> walk.told]
    BY <1>1 DEF TypeOK
  <2> QED
    BY <1>2, <1>4, <2>1 DEF TypeOK
<1>6. WalkInOrder'
  BY <1>2, <1>3, <1>4 DEF WalkInOrder, Probing
<1>7. SeenIsOpen' /\ ReadIsOpen' /\ MastersAreOurs'
  BY <1>2, <1>4 DEF SeenIsOpen, ReadIsOpen, MastersAreOurs, Probing
<1>8. HadIsKnown'
  BY <1>2, <1>4 DEF HadIsKnown, Probing
<1>9. MissingIsTold'
  BY <1>2, <1>4 DEF MissingIsTold, FailedMastersAreReported, At
<1> QED
  BY <1>5, <1>6, <1>7, <1>8, <1>9

\* The second one.
LEMMA ProbeInv == ASSUME IInv, ProbeCompanyIdentity PROVE IInv'
<1> USE DEF IInv
<1>1. walk.at = "identity" /\ UNCHANGED <<set, open, lane>> /\ walk.i \in Ports
  BY DEF ProbeCompanyIdentity, At, WalkInOrder
<1>2. PICK id \in Collections(walk.i) :
        walk' = [walk EXCEPT !.at = IF walk.i = N THEN "resolve" ELSE "list",
                             !.i = @ + 1, !.listed = "no",
                             !.said[walk.i] = CheckMappingIdentity(walk.listed, id)]
  BY DEF ProbeCompanyIdentity, Collections
<1> DEFINE a == CheckMappingIdentity(walk.listed, id)
<1>3. walk.listed \in {"error", "no", "yes"} /\ walk.said \in [Ports -> Answers]
      /\ walk.i \in 1 .. N
  BY <1>1 DEF TypeOK, Ports
<1>4. /\ a \in Answers /\ a.verdict # "unprobed"
      /\ a.verdict = "match" => open[walk.i] \subseteq {Ours}
      /\ a.guid # None => open[walk.i] \subseteq {a.guid}
      /\ walk.listed = "yes" => a.listed /\ a.verdict \in {"match", "no_stored_guid", "doubt"}
  BY <1>1, <1>3, VerdictsAreTrue
<1> HIDE DEF a
<1>5. /\ walk'.at = (IF walk.i = N THEN "resolve" ELSE "list") /\ walk'.listed = "no"
      /\ walk'.i = walk.i + 1 /\ walk'.moved = walk.moved /\ walk'.port = walk.port
      /\ walk'.told = walk.told /\ walk'.had = walk.had
      /\ walk'.said = [walk.said EXCEPT ![walk.i] = a]
  BY <1>2 DEF TypeOK, a
<1>6. TypeOK'
  <2>1. walk' = [at |-> walk'.at, i |-> walk.i + 1, listed |-> "no", said |-> walk'.said,
                 had |-> walk.had, moved |-> walk.moved, port |-> walk.port, told |-> walk.told]
    BY <1>2, <1>5 DEF TypeOK
  <2>2. walk'.said \in [Ports -> Answers]
    BY <1>3, <1>4, <1>5
  <2>3. walk.i + 1 \in 1 .. N + 1 /\ walk'.at \in {"list", "resolve"}
    BY <1>3, <1>5
  <2> QED
    BY <1>1, <2>1, <2>2, <2>3 DEF TypeOK
<1>7. \A q \in Ports : walk'.said[q] = IF q = walk.i THEN a ELSE walk.said[q]
  BY <1>3, <1>5
<1>8. WalkInOrder'
  <2>1. walk'.at = "list" => walk.i + 1 \in Ports
    BY <1>3, <1>5 DEF Ports
  <2>2. \A p \in Ports : IF p < walk.i + 1 THEN walk'.said[p].verdict # "unprobed"
                         ELSE walk'.said[p] = Unprobed
    BY <1>3, <1>4, <1>7 DEF WalkInOrder, Ports
  <2> QED
    BY <1>1, <1>5, <2>1, <2>2 DEF WalkInOrder, Probing
<1>9. SeenIsOpen' /\ ReadIsOpen' /\ MastersAreOurs'
  BY <1>1, <1>4, <1>5, <1>7 DEF SeenIsOpen, ReadIsOpen, MastersAreOurs, Probing
<1>10. HadIsKnown'
  <2>1. walk.had \subseteq Ports
    BY DEF TypeOK
  <2>2. walk.said[walk.i] = Unprobed
    BY <1>1, <1>3 DEF WalkInOrder
  <2> QED
    BY <1>1, <1>4, <1>5, <1>7, <2>1, <2>2 DEF HadIsKnown, Probing, Unprobed
<1>11. MissingIsTold'
  BY <1>1, <1>5 DEF MissingIsTold, FailedMastersAreReported, At
<1> QED
  BY <1>6, <1>8, <1>9, <1>10, <1>11

-----------------------------------------------------------------------------
\* A company is followed to the only port found, and only without a doubt.
LEMMA FollowsTheOnly ==
    ASSUME NEW found \in SUBSET Ports, NEW doubts, Follow(found, doubts) # 0
    PROVE  found = {Follow(found, doubts)} /\ doubts = {} /\ Follow(found, doubts) \in Ports
<1>1. doubts = {} /\ Cardinality(found) = 1 /\ Follow(found, doubts) = CHOOSE p \in found : TRUE
  BY DEF Follow
<1>2. IsFiniteSet(found)
  <2>1. IsFiniteSet(1 .. N)
    BY FS_Interval
  <2> QED
    BY <2>1, FS_Subset DEF Ports
<1>3. PICK p : found = {p}
  BY <1>1, <1>2, FS_Singleton
<1> QED
  BY <1>1, <1>3

\* The port Resolve chooses.
Chosen == IF set.enforce THEN ByIdentity ELSE ByName

LEMMA ChosenPort ==
    ASSUME TypeOK, Chosen # 0
    PROVE  /\ Chosen \in Ports
           /\ set.enforce => walk.said[Chosen].verdict = "match"
           /\ Chosen # set.port =>
                LET known == {p \in Ports :
                                IF set.enforce
                                THEN walk.said[p].verdict \in {"match", "doubt", "no_stored_guid"}
                                ELSE walk.said[p].listed}
                IN  known = {Chosen}
<1>1. set.port \in {0, 1} /\ 1 \in Ports /\ 0 \notin Ports
  BY DEF TypeOK, Ports
<1>2. CASE set.enforce
  <2> DEFINE match == {p \in Ports : walk.said[p].verdict \in {"match"}}
             doubts == {p \in Ports : walk.said[p].verdict \in {"doubt", "no_stored_guid"}}
  <2>1. Chosen = IF set.port # 0 /\ 1 \in match THEN 1 ELSE Follow(match, doubts)
    BY <1>2 DEF Chosen, ByIdentity
  <2>2. CASE set.port # 0 /\ 1 \in match
    BY <1>1, <1>2, <2>1, <2>2
  <2>3. CASE ~(set.port # 0 /\ 1 \in match)
    <3>1. match = {Chosen} /\ doubts = {} /\ Chosen \in Ports
      BY <2>1, <2>3, FollowsTheOnly
    <3> QED
      BY <1>2, <3>1
  <2> QED
    BY <2>2, <2>3
<1>3. CASE ~set.enforce
  <2> DEFINE listed == {p \in Ports : walk.said[p].listed}
  <2>1. Chosen = IF set.port # 0 /\ walk.said[1].listed THEN 1 ELSE Follow(listed, {})
    BY <1>3 DEF Chosen, ByName
  <2>2. CASE set.port # 0 /\ walk.said[1].listed
    BY <1>1, <1>3, <2>1, <2>2
  <2>3. CASE ~(set.port # 0 /\ walk.said[1].listed)
    <3>1. listed = {Chosen} /\ Chosen \in Ports
      BY <2>1, <2>3, FollowsTheOnly
    <3> QED
      BY <1>3, <3>1
  <2> QED
    BY <2>2, <2>3
<1> QED
  BY <1>2, <1>3

\* A walk that begins.
LEMMA FreshWalk ==
    /\ NoWalk \in WalkType
    /\ NoWalk.said \in [Ports -> Answers]
    /\ \A p \in Ports : NoWalk.said[p] = Unprobed
<1>1. Unprobed \in Answers
  BY DEF Unprobed, Answers, Verdicts
<1>2. NoWalk = [at |-> "list", i |-> 1, listed |-> "no", said |-> [p \in Ports |-> Unprobed],
                had |-> {}, moved |-> {}, port |-> 0, told |-> None]
  BY DEF NoWalk, Unprobed
<1>3. 1 \in 1 .. N + 1 /\ 0 \in 0 .. N
  OBVIOUS
<1> QED
  BY <1>1, <1>2, <1>3 DEF WalkType

LEMMA FreshWalkInv ==
    ASSUME walk' = NoWalk, lane' = NoLane
    PROVE  WalkInOrder' /\ SeenIsOpen' /\ ReadIsOpen' /\ HadIsKnown'
<1>1. /\ walk'.at = "list" /\ walk'.i = 1 /\ walk'.had = {} /\ walk'.moved = {}
      /\ walk'.port = 0
      /\ \A p \in Ports : walk'.said[p] = Unprobed
  BY FreshWalk DEF NoWalk
<1>2. 1 \in Ports /\ \A p \in Ports : ~(p < 1)
  BY DEF Ports
<1>3. WalkInOrder'
  BY <1>1, <1>2 DEF WalkInOrder, Probing
<1> QED
  BY <1>1, <1>3 DEF SeenIsOpen, ReadIsOpen, HadIsKnown, Probing, Unprobed

\* The mapping is skipped, or gets its port.
LEMMA ResolveInv == ASSUME IInv, Resolve PROVE IInv'
<1> USE DEF IInv
<1>1. /\ walk.at = "resolve" /\ UNCHANGED <<set, open, lane>>
      /\ walk' = IF Chosen = 0 THEN NoWalk
                 ELSE [NoWalk EXCEPT !.at = "lane", !.port = Chosen, !.told = GuidSeen(Chosen),
                                     !.moved = walk.moved \cap {Chosen}]
  BY DEF Resolve, At, Chosen
<1>2. lane = NoLane
  BY <1>1 DEF WalkInOrder, Probing
<1>3. CASE Chosen = 0
  <2>1. walk' = NoWalk
    BY <1>1, <1>3
  <2>2. TypeOK'
    BY <1>1, <2>1, FreshWalk DEF TypeOK, WalkType
  <2>3. WalkInOrder' /\ SeenIsOpen' /\ ReadIsOpen' /\ HadIsKnown'
    BY <1>1, <1>2, <2>1, FreshWalkInv
  <2>4. MastersAreOurs' /\ MissingIsTold'
    BY <1>1, <2>1 DEF MastersAreOurs, MissingIsTold, FailedMastersAreReported, At, NoWalk
  <2> QED
    BY <2>2, <2>3, <2>4
<1>4. CASE Chosen # 0
  <2>1. Chosen \in Ports /\ (set.enforce => walk.said[Chosen].verdict = "match")
    BY <1>4, ChosenPort
  <2>2. walk' = [at |-> "lane", i |-> 1, listed |-> "no", said |-> NoWalk.said, had |-> {},
                 moved |-> walk.moved \cap {Chosen}, port |-> Chosen, told |-> GuidSeen(Chosen)]
    BY <1>1, <1>4 DEF NoWalk
  <2>3. /\ \A p \in Ports : NoWalk.said[p] = Unprobed
        /\ NoWalk.said \in [Ports -> Answers]
    BY FreshWalk
  <2>4. GuidSeen(Chosen) \in Books \cup {None} /\ GuidSeen(Chosen) = walk.said[Chosen].guid
    BY <2>1 DEF TypeOK, GuidSeen, Answers
  <2>5. TypeOK'
    <3>1. walk.moved \cap {Chosen} \in SUBSET Ports /\ Chosen \in 0 .. N /\ 1 \in 1 .. N + 1
      BY <2>1 DEF TypeOK, Ports
    <3>2. walk' \in WalkType
      BY <2>2, <2>3, <2>4, <3>1 DEF WalkType
    <3> QED
      BY <1>1, <3>2 DEF TypeOK, WalkType
  <2>6. WalkInOrder'
    <3>1. \A p \in Ports : ~(p < 1)
      BY DEF Ports
    <3>2. walk'.at = "lane" /\ walk'.i = 1 /\ walk'.port = Chosen /\ walk'.said = NoWalk.said
          /\ walk'.moved \subseteq {Chosen}
      BY <2>2
    <3> QED
      BY <1>1, <1>2, <2>1, <2>3, <3>1, <3>2 DEF WalkInOrder, Probing
  <2>7. SeenIsOpen' /\ HadIsKnown'
    BY <2>2 DEF SeenIsOpen, HadIsKnown, Probing
  <2>8. ReadIsOpen'
    <3>1. lane.of = None
      BY <1>2 DEF NoLane
    <3>2. walk'.moved = {} => Chosen \notin walk.moved
      BY <2>2
    <3> QED
      BY <1>1, <2>1, <2>2, <2>4, <3>1, <3>2 DEF ReadIsOpen, SeenIsOpen, Probing
  <2>9. MastersAreOurs' /\ MissingIsTold'
    BY <1>1, <2>2 DEF MastersAreOurs, MissingIsTold, FailedMastersAreReported, At
  <2> QED
    BY <2>5, <2>6, <2>7, <2>8, <2>9
<1> QED
  BY <1>3, <1>4

-----------------------------------------------------------------------------
\* A step of a lane leaves the port and what is open there alone.
LaneStep(at) ==
    /\ walk' = [walk EXCEPT !.at = at]
    /\ ~Probing /\ at \in {"lane", "ledgers", "ask", "groups", "store", "duties", "askduties", "done"}
    /\ UNCHANGED <<set, open>>

\* What is left to show of a step of a lane.
LEMMA LaneStepInv ==
    ASSUME IInv, NEW at, LaneStep(at),
           lane' \in LaneType,
           at = "lane" => lane' = NoLane,
           walk.moved = {} /\ lane'.of # None => lane'.of \in open[walk.port],
           MastersAreOurs', MissingIsTold'
    PROVE  IInv'
<1> USE DEF IInv, LaneStep
<1>1. walk' = [at |-> at, i |-> walk.i, listed |-> walk.listed, said |-> walk.said,
               had |-> walk.had, moved |-> walk.moved, port |-> walk.port, told |-> walk.told]
  BY DEF TypeOK
<1>2. TypeOK'
  <2>1. set' = set /\ open' = open
    OBVIOUS
  <2> HIDE DEF LaneStep
  <2>2. at \in {"lane", "ledgers", "ask", "groups", "store", "duties", "askduties", "done"}
    BY DEF LaneStep
  <2> QED
    BY <1>1, <2>1, <2>2 DEF TypeOK, LaneType
<1>3. WalkInOrder'
  BY <1>1 DEF WalkInOrder, Probing
<1>4. SeenIsOpen' /\ HadIsKnown' /\ ReadIsOpen'
  BY <1>1 DEF SeenIsOpen, HadIsKnown, ReadIsOpen, Probing
<1> QED
  BY <1>2, <1>3, <1>4

\* NoLane has neither vouchers nor masters.
LEMMA NoLaneFacts ==
    /\ NoLane \in LaneType
    /\ NoLane.of = None /\ NoLane.masters.of = None /\ NoLane.book.of = None
  BY DEF NoLane, LaneType, Masters, Duties

\* What is missing is told.
LEMMA ToldStep ==
    ASSUME IInv, NEW at \in {"store", "duties", "done"}, LaneStep(at), lane' = Warned,
           at = "store" => lane.masters.of # None
    PROVE  IInv'
<1> USE DEF IInv
<1>1. lane' = [of |-> lane.of, invoice |-> lane.invoice, masters |-> lane.masters,
               book |-> lane.book, warned |-> TRUE]
  BY DEF Warned, TypeOK
<1>2. lane' \in LaneType
  BY <1>1 DEF TypeOK, LaneType
<1>3. walk'.at = at /\ set' = set
  BY DEF LaneStep, TypeOK
<1>4. MastersAreOurs'
  BY <1>1, <1>3 DEF MastersAreOurs
<1>5. lane'.warned = TRUE /\ (at = "store" => lane'.masters.of # None)
  BY <1>1
<1>6. MissingIsTold'
  BY <1>3, <1>5 DEF MissingIsTold, FailedMastersAreReported, At
<1> QED
  BY <1>1, <1>2, <1>4, <1>6, LaneStepInv DEF LaneType, LaneStep, ReadIsOpen

\* The book of the duty ledgers, from the cache or from Tally.
LEMMA BookStep ==
    ASSUME IInv, LaneStep("done"), walk.at \in {"duties", "askduties"},
           NEW entry \in Duties, MayBeStored(entry), lane' = [lane EXCEPT !.book = entry]
    PROVE  IInv'
<1> USE DEF IInv
<1>1. lane' = [of |-> lane.of, invoice |-> lane.invoice, masters |-> lane.masters,
               book |-> entry, warned |-> lane.warned]
  BY DEF TypeOK
<1>2. lane' \in LaneType
  BY <1>1 DEF TypeOK, LaneType
<1>3. walk'.at = "done"
  BY DEF LaneStep, TypeOK
<1>4. MastersAreOurs' /\ MissingIsTold'
  BY <1>1, <1>3 DEF MastersAreOurs, MissingIsTold, FailedMastersAreReported, At, LaneStep,
                    MayBeStored
<1> QED
  BY <1>1, <1>2, <1>4, LaneStepInv DEF LaneType, LaneStep, ReadIsOpen

\* Every step of a lane, and its end.
LEMMA LaneInv == ASSUME IInv, Lane PROVE IInv'
<1> USE DEF IInv
<1>0. lane \in LaneType /\ lane.masters \in Masters /\ lane.book \in Duties
      /\ open \in [Ports -> SUBSET Books]
  BY DEF TypeOK, LaneType
<1>1. ASSUME ~Probing, walk.moved = {}
      PROVE  /\ set.enforce => open[walk.port] \subseteq {Ours}
             /\ lane.of # None => lane.of \in open[walk.port]
  BY <1>1 DEF ReadIsOpen
<1>2. ~Probing => Here \in SUBSET Books
  BY <1>0 DEF Here, WalkInOrder
<1>3. CASE Vouchers
  <2>1. PICK c \in Here, invoice \in BOOLEAN : lane' = [NoLane EXCEPT !.of = c, !.invoice = invoice]
    BY <1>3 DEF Vouchers
  <2>2. LaneStep("ledgers")
    BY <1>3 DEF Vouchers, LaneStep, To, At, Probing
  <2>3. c \in Books
    BY <1>2, <2>2 DEF LaneStep
  <2>4. lane' = [of |-> c, invoice |-> invoice, masters |-> NoLane.masters, book |-> NoLane.book,
                 warned |-> FALSE]
    BY <2>1 DEF NoLane
  <2>5. lane' \in LaneType
    BY <2>3, <2>4, NoLaneFacts DEF LaneType
  <2>6. MastersAreOurs'
    BY <2>2, <2>4, NoLaneFacts DEF MastersAreOurs, LaneStep
  <2>7. walk'.at = "ledgers"
    BY <2>2 DEF LaneStep, TypeOK
  <2>8. MissingIsTold'
    BY <2>7 DEF MissingIsTold, FailedMastersAreReported, At
  <2> QED
    BY <2>1, <2>2, <2>4, <2>5, <2>6, <2>8, LaneStepInv DEF LaneType, Here
<1>4. CASE CachedLedgers
  <2>1. PICK entry \in Masters :
          MayBeStored(entry) /\ lane' = [lane EXCEPT !.masters = entry, !.warned = (entry.tree = None)]
    BY <1>4 DEF CachedLedgers
  <2>2. LaneStep("duties")
    BY <1>4 DEF CachedLedgers, LaneStep, To, At, Probing
  <2>3. lane' = [of |-> lane.of, invoice |-> lane.invoice, masters |-> entry, book |-> lane.book,
                 warned |-> (entry.tree = None)]
    BY <1>0, <2>1 DEF LaneType
  <2>4. lane' \in LaneType
    BY <1>0, <2>3 DEF LaneType
  <2>5. MastersAreOurs'
    BY <2>1, <2>2, <2>3 DEF MastersAreOurs, MayBeStored, LaneStep
  <2>6. walk'.at = "duties"
    BY <2>2 DEF LaneStep, TypeOK
  <2>7. lane'.warned \/ (lane'.masters.of # None /\ lane'.masters.tree # None)
    <3>1. CASE entry.tree = None
      BY <2>3, <3>1
    <3>2. CASE entry.tree # None
      BY <2>1, <2>3, <3>2 DEF MayBeStored
    <3> QED
      BY <3>1, <3>2
  <2>8. MissingIsTold'
    BY <2>6, <2>7 DEF MissingIsTold, FailedMastersAreReported, At
  <2> QED
    BY <1>1, <2>2, <2>3, <2>4, <2>5, <2>8, LaneStepInv DEF LaneType, LaneStep
<1>5. CASE MissLedgers
  <2>1. LaneStep("ask") /\ lane' = lane /\ walk'.at = "ask"
    BY <1>5 DEF MissLedgers, LaneStep, To, At, Probing, TypeOK
  <2>2. MastersAreOurs' /\ MissingIsTold'
    BY <2>1 DEF MastersAreOurs, MissingIsTold, FailedMastersAreReported, At, LaneStep
  <2> QED
    BY <1>0, <1>1, <2>1, <2>2, LaneStepInv DEF LaneType, LaneStep
<1>6. CASE AskLedgers
  <2>1. CASE \E c \in Here \cup {Empty} :
               /\ lane' = [lane EXCEPT !.masters = [of |-> c, tree |-> None, clean |-> Unmoved]]
               /\ To("groups")
    <3>1. PICK c \in Here \cup {Empty} :
            lane' = [lane EXCEPT !.masters = [of |-> c, tree |-> None, clean |-> Unmoved]]
      BY <2>1
    <3>2. LaneStep("groups") /\ walk'.at = "groups"
      BY <1>6, <2>1 DEF AskLedgers, LaneStep, To, At, Probing, TypeOK
    <3>3. PICK clean \in BOOLEAN : clean = Unmoved
      BY DEF Unmoved
    <3>4. lane' = [of |-> lane.of, invoice |-> lane.invoice,
                   masters |-> [of |-> c, tree |-> None, clean |-> clean],
                   book |-> lane.book, warned |-> lane.warned]
      BY <1>0, <3>1, <3>3 DEF LaneType
    <3>5. /\ c \in Books \cup {None, Empty} /\ c # None
          /\ clean /\ set.enforce => c \in {Ours, Empty}
      BY <1>1, <1>2, <3>1, <3>2, <3>3 DEF LaneStep, Here, Unmoved, None, Empty
    <3>6. lane' \in LaneType
      BY <1>0, <3>4, <3>5 DEF LaneType, Masters
    <3>7. MastersAreOurs'
      BY <3>2, <3>4, <3>5 DEF MastersAreOurs, LaneStep
    <3>8. MissingIsTold'
      BY <3>2, <3>4, <3>5 DEF MissingIsTold, FailedMastersAreReported, At
    <3> QED
      BY <1>1, <3>2, <3>4, <3>6, <3>7, <3>8, LaneStepInv DEF LaneType, LaneStep
  <2>2. CASE lane' = Warned /\ To("duties")
    <3>1. LaneStep("duties")
      BY <1>6, <2>2 DEF AskLedgers, LaneStep, To, At, Probing
    <3> QED
      BY <2>2, <3>1, ToldStep
  <2> QED
    BY <1>6, <2>1, <2>2 DEF AskLedgers
<1>7. CASE AskGroups
  <2>0. LaneStep("store") /\ walk'.at = "store" /\ lane.masters.of # None
    BY <1>7 DEF AskGroups, LaneStep, To, At, Probing, TypeOK, MissingIsTold
  <2>1. CASE lane' = Warned
    BY <2>0, <2>1, ToldStep
  <2>2. ASSUME NEW c \in Here \cup {Empty},
               lane' = [lane EXCEPT !.masters.tree = c, !.masters.clean = @ /\ Unmoved]
        PROVE  IInv'
    <3>1. PICK clean \in BOOLEAN : clean = (lane.masters.clean /\ Unmoved)
      BY DEF Unmoved
    <3>2. lane' = [of |-> lane.of, invoice |-> lane.invoice,
                   masters |-> [of |-> lane.masters.of, tree |-> c, clean |-> clean],
                   book |-> lane.book, warned |-> lane.warned]
      BY <1>0, <2>2, <3>1 DEF LaneType, Masters
    <3>3. c \in Books \cup {None, Empty} /\ c # None
      BY <1>2, <2>0 DEF LaneStep, None, Empty
    <3>4. lane' \in LaneType
      BY <1>0, <3>2, <3>3 DEF LaneType, Masters
    <3>5. MastersAreOurs'
      <4>1. /\ lane'.masters.of = lane.masters.of /\ lane'.book = lane.book
            /\ lane'.masters.clean => lane.masters.clean
        BY <3>1, <3>2
      <4> QED
        BY <2>0, <4>1 DEF MastersAreOurs, LaneStep
    <3>6. MissingIsTold'
      BY <2>0, <3>2, <3>3 DEF MissingIsTold, FailedMastersAreReported, At
    <3> QED
      BY <1>1, <2>0, <3>2, <3>4, <3>5, <3>6, LaneStepInv DEF LaneType, LaneStep
  <2> QED
    BY <1>7, <2>1, <2>2 DEF AskGroups
<1>8. CASE StoreLedgers
  <2>1. LaneStep("duties") /\ lane' = lane /\ walk'.at = "duties" /\ walk.at = "store"
    BY <1>8 DEF StoreLedgers, LaneStep, To, At, Probing, TypeOK
  <2>2. MastersAreOurs'
    BY <2>1 DEF MastersAreOurs, LaneStep
  <2>3. lane.warned \/ (lane.masters.of # None /\ lane.masters.tree # None)
    BY <2>1 DEF MissingIsTold
  <2>4. MissingIsTold'
    BY <2>1, <2>3 DEF MissingIsTold, FailedMastersAreReported, At
  <2> QED
    BY <1>0, <1>1, <2>1, <2>2, <2>4, LaneStepInv DEF LaneType, LaneStep
<1>9. CASE NoDutyLookup
  <2>1. LaneStep("done") /\ lane' = lane /\ walk'.at = "done" /\ walk.at = "duties" /\ ~lane.invoice
    BY <1>9 DEF NoDutyLookup, LaneStep, To, At, Probing, TypeOK
  <2>2. MastersAreOurs' /\ MissingIsTold'
    BY <2>1 DEF MastersAreOurs, MissingIsTold, FailedMastersAreReported, At, LaneStep
  <2> QED
    BY <1>0, <1>1, <2>1, <2>2, LaneStepInv DEF LaneType, LaneStep
<1>10. CASE CachedDuties
  <2>0. LaneStep("done") /\ walk'.at = "done" /\ walk.at = "duties"
    BY <1>10 DEF CachedDuties, LaneStep, To, At, Probing, TypeOK
  <2>1. CASE lane' = Warned
    BY <2>0, <2>1, ToldStep
  <2>2. ASSUME NEW entry \in Duties, MayBeStored(entry), lane' = [lane EXCEPT !.book = entry]
        PROVE  IInv'
    BY <1>0, <2>0, <2>2, BookStep
  <2> QED
    BY <1>10, <2>1, <2>2 DEF CachedDuties
<1>11. CASE MissDuties
  <2>1. LaneStep("askduties") /\ lane' = lane /\ walk'.at = "askduties" /\ walk.at = "duties"
    BY <1>11 DEF MissDuties, LaneStep, To, At, Probing, TypeOK
  <2>2. MastersAreOurs' /\ MissingIsTold'
    BY <2>1 DEF MastersAreOurs, MissingIsTold, FailedMastersAreReported, At, LaneStep
  <2> QED
    BY <1>0, <1>1, <2>1, <2>2, LaneStepInv DEF LaneType, LaneStep
<1>12. CASE AskDuties
  <2>0. LaneStep("done") /\ walk'.at = "done" /\ walk.at = "askduties"
    BY <1>12 DEF AskDuties, LaneStep, To, At, Probing, TypeOK
  <2>1. CASE lane' = Warned
    BY <2>0, <2>1, ToldStep
  <2>2. ASSUME NEW c \in Here, lane' = [lane EXCEPT !.book = [of |-> c, clean |-> Unmoved]]
        PROVE  IInv'
    <3>1. PICK clean \in BOOLEAN : clean = Unmoved
      BY DEF Unmoved
    <3>2. c \in Books /\ c # None /\ (clean /\ set.enforce => c = Ours)
      BY <1>1, <1>2, <2>0, <3>1 DEF LaneStep, Here, Unmoved, None
    <3> DEFINE entry == [of |-> c, clean |-> clean]
    <3>3. entry \in Duties /\ MayBeStored(entry)
      BY <3>2 DEF Duties, MayBeStored
    <3>4. lane' = [lane EXCEPT !.book = entry]
      BY <2>2, <3>1
    <3> QED
      BY <2>0, <3>3, <3>4, BookStep
  <2> QED
    BY <1>12, <2>1, <2>2 DEF AskDuties
<1>13. CASE EndLane
  <2>1. LaneStep("lane") /\ lane' = NoLane /\ walk'.at = "lane"
    BY <1>13 DEF EndLane, LaneStep, To, At, Probing, TypeOK
  <2>2. MastersAreOurs' /\ MissingIsTold'
    BY <2>1, NoLaneFacts DEF MastersAreOurs, MissingIsTold, FailedMastersAreReported, At, LaneStep
  <2> QED
    BY <2>1, <2>2, NoLaneFacts, LaneStepInv DEF LaneType, LaneStep
<1> QED
  BY <1>3, <1>4, <1>5, <1>6, <1>7, <1>8, <1>9, <1>10, <1>11, <1>12, <1>13 DEF Lane

\* The walk ends; another begins.
LEMMA EndWalkInv == ASSUME IInv, EndWalk PROVE IInv'
<1> USE DEF IInv
<1>1. walk' = NoWalk /\ UNCHANGED <<set, open, lane>> /\ lane = NoLane
  BY DEF EndWalk, At, WalkInOrder
<1>2. TypeOK'
  BY <1>1, FreshWalk DEF TypeOK, WalkType
<1>3. WalkInOrder' /\ SeenIsOpen' /\ ReadIsOpen' /\ HadIsKnown'
  BY <1>1, FreshWalkInv
<1>4. MastersAreOurs' /\ MissingIsTold'
  BY <1>1 DEF MastersAreOurs, MissingIsTold, FailedMastersAreReported, At, NoWalk
<1> QED
  BY <1>2, <1>3, <1>4

\* Every step keeps the invariant.
LEMMA StepInv == IInv /\ [Next]_vars => IInv'
<1> SUFFICES ASSUME IInv, [Next]_vars PROVE IInv'
  OBVIOUS
<1>1. CASE Probe
  BY <1>1, ListInv, ProbeInv, ResolveInv DEF Probe
<1>2. CASE Lane
  BY <1>2, LaneInv
<1>3. CASE EndWalk
  BY <1>3, EndWalkInv
<1>4. ASSUME NEW p \in Ports, Change(p) PROVE IInv'
  BY <1>4, ChangeInv
<1>5. CASE UNCHANGED vars
  BY <1>5 DEF vars, IInv, TypeOK, WalkInOrder, SeenIsOpen, ReadIsOpen, MastersAreOurs, HadIsKnown,
              MissingIsTold, FailedMastersAreReported, Probing, At
<1> QED
  BY <1>1, <1>2, <1>3, <1>4, <1>5 DEF Next

-----------------------------------------------------------------------------
\* The inductive invariant.
THEOREM Invariance == Spec => []IInv
<1> QED
  BY InitInv, StepInv, PTL DEF Spec

\* The state is well typed.
THEOREM TypeCorrect == Spec => []TypeOK
<1>1. IInv => TypeOK
  BY DEF IInv
<1> QED
  BY <1>1, Invariance, PTL

\* With the gate enforced only the mapped company is read, whatever is open where.
THEOREM TheMappedIsRead == Spec => []ReadsTheMapped
<1>1. IInv => ReadsTheMapped
  BY DEF IInv, ReadsTheMapped, ReadIsOpen, WalkInOrder, Unmoved, NoLane
<1> QED
  BY <1>1, Invariance, PTL

\* The GUID reported is that of the company read.
THEOREM TheReadIsReported == Spec => []ReportedGuidIsTheRead
<1>1. IInv => ReportedGuidIsTheRead
  BY DEF IInv, ReportedGuidIsTheRead, ReadIsOpen, WalkInOrder, Unmoved, NoLane
<1> QED
  BY <1>1, Invariance, PTL

\* Vouchers meet masters of their own company, and what a walk relies on in the
\* caches is what every walk stores.
THEOREM MastersMatch == Spec => []MastersAreOfTheCompany
<1>1. IInv => MastersAreOfTheCompany
  <2>1. IInv => ReadsTheMapped
    BY DEF IInv, ReadsTheMapped, ReadIsOpen, WalkInOrder, Unmoved, NoLane
  <2> QED
    BY <2>1 DEF IInv, MastersAreOfTheCompany, ReadsTheMapped, MastersAreOurs, MayBeStored,
                MissingIsTold, At
<1> QED
  BY <1>1, Invariance, PTL

\* No failure of a read of the masters goes untold.
THEOREM FailuresAreReported == Spec => []FailedMastersAreReported
<1>1. IInv => FailedMastersAreReported
  BY DEF IInv, MissingIsTold
<1> QED
  BY <1>1, Invariance, PTL

\* A company is followed only to the one port that had it.
THEOREM OnlyCopyFollowed == Spec => FollowsTheOnlyCopy
<1> DEFINE Step == At("resolve") /\ walk'.port \notin {0, set.port} => walk.had \subseteq {walk'.port}
<1>1. IInv /\ [Next]_vars => [Step]_vars
  <2> SUFFICES ASSUME IInv, Next, walk.at = "resolve", walk'.port \notin {0, set.port}
               PROVE  walk.had \subseteq {walk'.port}
    BY DEF At, vars
  <2>1. CASE Resolve
    <3>1. Chosen # 0 /\ walk'.port = Chosen
      BY <2>1 DEF Resolve, Chosen, NoWalk
    <3>2. TypeOK /\ HadIsKnown /\ walk.had \subseteq Ports
      BY DEF IInv, TypeOK
    <3>3. \A p \in walk.had : p = Chosen
      BY <3>1, <3>2, ChosenPort DEF HadIsKnown, Probing
    <3> QED
      BY <3>1, <3>3
  <2>2. CASE \E p \in Ports : Change(p)
    <3>1. walk'.port = walk.port
      BY <2>2 DEF Change, IInv, TypeOK
    <3> QED
      BY <3>1 DEF IInv, WalkInOrder, Probing
  <2> QED
    BY <2>1, <2>2 DEF Next, Probe, List, ProbeCompanyIdentity, Lane, EndWalk, At, Vouchers,
       CachedLedgers, MissLedgers, AskLedgers, AskGroups, StoreLedgers, NoDutyLookup,
       CachedDuties, MissDuties, AskDuties, EndLane
<1> QED
  BY <1>1, Invariance, PTL DEF Spec, FollowsTheOnlyCopy
=============================================================================
