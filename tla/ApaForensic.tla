----------------------------- MODULE ApaForensic -----------------------------
(***************************************************************************)
(* The portable APA forensic planner (src/src/apa_forensic.c): a raw scan  *)
(* collects every plausible partition header, three hypotheses of the      *)
(* partition ring are built from the evidence, and a hypothesis that is    *)
(* strong enough becomes a plan of link corrections.                       *)
(*                                                                         *)
(* disk maps an LBA to the header stored there; an LBA without an entry    *)
(* reads as a zero-filled sector pair.  orig is the disk before it was     *)
(* damaged: the program never sees it, the properties compare with it.     *)
(* A node set, an index and an order array of the code become sets and     *)
(* sequences of LBAs: add_candidate keeps at most one node per LBA.        *)
(***************************************************************************)
EXTENDS Integers, Sequences, FiniteSets, SequencesExt, FiniteSetsExt, Functions

CONSTANTS
    Total,        \* sectors of the drive
    ScanStep,     \* APA_FORENSIC_SCAN_STEP
    MaxNodes,     \* APA_FORENSIC_MAX_NODES
    MaxSubs,      \* APA_MAX_SUBS
    WordSize,     \* 2^32 scaled down, still above every sum of two links
    Unreadable,   \* what disk holds where the drive cannot read
    Layouts,      \* the undamaged disks
    Damage(_),    \* what may become of a header, itself included
    MaxFaults     \* headers damaged at most: 1 or 2

ASSUME ForensicConstants ==
    /\ {Total, ScanStep, MaxNodes, WordSize} \subseteq Nat \ {0}
    /\ MaxSubs \in Nat
    /\ WordSize > 2 * Total

VARIABLES disk, orig, scan, plan

forensicVars == <<disk, orig, scan, plan>>

-----------------------------------------------------------------------------
(* Headers.  rest is the sum of the words no link rule reads (magic, id,   *)
(* type, subs, boot pointer); sum is the stored checksum word.             *)

Blank == [magic |-> FALSE, next |-> 0, prev |-> 0, id |-> "none", start |-> 0,
          length |-> 0, type |-> "free", subs |-> <<>>, main |-> 0,
          rest |-> 0, sum |-> 0]

Header == [magic : BOOLEAN, next : Nat, prev : Nat,
           id : {"none", "named", "__empty"}, start : Nat, length : Nat,
           type : {"free", "data", "other"}, subs : Seq(Nat), main : Nat,
           rest : Nat, sum : Nat]

\* A sector that cannot be read holds no header.
ASSUME UnreadableAssumption == Unreadable \notin Header

apa_checksum(h) ==
    (h.next + h.prev + h.start + h.length + h.main + h.rest) % WordSize

Read(d, lba) == IF lba \in DOMAIN d THEN d[lba] ELSE Blank

type_plausible(type) == type \in {"free", "data"}

id_plausible(id) == id \in {"named", "__empty"}

\* What the evidence of a header adds up to.
Score(ev) ==
    LET points(e, n) == IF e \in ev THEN n ELSE 0
    IN  points("MAGIC", 25) + points("SELF_START", 20) + points("CHECKSUM", 20)
        + points("LENGTH", 15) + points("NSUB", 5) + points("TYPE", 5)
        + points("ID", 10)

clamp_confidence(v) == IF v < 0 THEN 0 ELSE IF v > 100 THEN 100 ELSE v

\* Evidence a header offers at lba; a grid sample that has neither the magic
\* nor its own LBA is turned away before the checksum is computed.
Evidence(h, lba, source) ==
    LET anchors == (IF h.magic THEN {"MAGIC"} ELSE {})
                   \cup (IF h.start = lba THEN {"SELF_START"} ELSE {})
        weak == (IF h.sum = apa_checksum(h) THEN {"CHECKSUM"} ELSE {})
                \cup (IF h.length # 0 /\ h.start < Total
                         /\ h.start + h.length <= Total
                      THEN {"LENGTH"} ELSE {})
                \cup (IF Len(h.subs) <= MaxSubs THEN {"NSUB"} ELSE {})
                \cup (IF type_plausible(h.type) THEN {"TYPE"} ELSE {})
                \cup (IF id_plausible(h.id) THEN {"ID"} ELSE {})
    IN  IF source = "GRID" /\ anchors = {}
        THEN {source}
        ELSE {source} \cup anchors \cup weak

inspect_header(h, lba, source) ==
    LET ev == Evidence(h, lba, source)
        gridReject == source = "GRID" /\ ev \cap {"MAGIC", "SELF_START"} = {}
        noAnchor == ev \cap {"MAGIC", "LENGTH", "ID"} = {}
    IN  [evidence |-> ev,
         confidence |->
            IF gridReject \/ noAnchor THEN 0 ELSE clamp_confidence(Score(ev))]

-----------------------------------------------------------------------------
(* Discovery.  A result r collects nodes in the order they were found.     *)

EmptyResult == [nodes |-> <<>>, unreadable |-> 0, truncated |-> FALSE,
                dormant |-> {}, maps |-> <<>>]

Lbas(r) == {r.nodes[i].lba : i \in DOMAIN r.nodes}

find_node(r, lba) == CHOOSE i \in DOMAIN r.nodes : r.nodes[i].lba = lba

NodeAt(r, lba) == r.nodes[find_node(r, lba)]

AddEvidence(r, lba, source) ==
    [r EXCEPT !.nodes[find_node(r, lba)].evidence = @ \cup {source}]

\* A full table drops the candidate without a word.
Bug_add_candidate(d, r, lba, source) ==
    LET h == Read(d, lba)
        seen == inspect_header(h, lba, source)
    IN  IF \/ lba >= Total - 1 \/ lba \in Lbas(r) \/ h = Unreadable
           \/ Len(r.nodes) >= MaxNodes
        THEN r
        ELSE IF seen.confidence < 30 THEN r
        ELSE [r EXCEPT !.nodes =
                Append(@, [lba |-> lba, header |-> h, evidence |-> seen.evidence,
                           confidence |-> seen.confidence])]

add_candidate(d, r, lba, source) ==
    IF lba >= Total \/ Total - lba < 2 THEN r
    ELSE IF lba \in Lbas(r) THEN AddEvidence(r, lba, source)
    ELSE IF Read(d, lba) = Unreadable THEN [r EXCEPT !.unreadable = @ + 1]
    ELSE LET h == Read(d, lba)
             seen == inspect_header(h, lba, source)
         IN  IF seen.confidence < 30 /\ ~(lba = 0 /\ seen.confidence >= 20)
             THEN r
             ELSE IF Len(r.nodes) >= MaxNodes
             THEN [r EXCEPT !.truncated = TRUE]
             ELSE [r EXCEPT !.nodes =
                     Append(@, [lba |-> lba, header |-> h,
                                evidence |-> seen.evidence,
                                confidence |-> seen.confidence])]

Samples == (Total + ScanStep - 1) \div ScanStep

\* LBA 0, then every further sample until the end of the drive or the cap.
grid_sample(d, r, i) ==
    IF i > 1 /\ r.truncated THEN r
    ELSE add_candidate(d, r, (i - 1) * ScanStep, "GRID")

GridPass(d) ==
    FoldLeft(LAMBDA r, i : grid_sample(d, r, i), EmptyResult,
             [i \in 1..Samples |-> i])

referenced_node_candidate(n) ==
    n.confidence >= 50 /\ {"MAGIC", "LENGTH"} \subseteq n.evidence

follow_reference(d, r, lba) ==
    IF lba = 0 \/ lba >= Total THEN r
    ELSE add_candidate(d, r, lba, "REFERENCED")

references(n) ==
    <<n.header.next, n.header.prev, n.header.main>>
    \o (IF Len(n.header.subs) <= MaxSubs /\ n.confidence >= 60
        THEN n.header.subs ELSE <<>>)

follow_all(d, r, lbas) ==
    FoldLeft(LAMBDA s, lba : follow_reference(d, s, lba), r, lbas)

visit_node(d, r, cursor) ==
    IF cursor > Len(r.nodes) \/ r.truncated THEN r
    ELSE IF ~referenced_node_candidate(r.nodes[cursor]) THEN r
    ELSE follow_all(d, r, references(r.nodes[cursor]))

\* The cursor visits nodes in discovery order, those it adds included.
chase_references(d, r0) ==
    FoldLeft(LAMBDA r, cursor : visit_node(d, r, cursor), r0,
             [i \in 1..MaxNodes |-> i])

-----------------------------------------------------------------------------
(* The three hypotheses: sequences of LBAs.                                *)

None == -1

unique_link_candidate(r, excluded, lba, link) ==
    LET found == {c \in Lbas(r) \ excluded :
                    /\ NodeAt(r, c).confidence >= 55
                    /\ NodeAt(r, c).header[link] = lba}
    IN  IF Cardinality(found) = 1 THEN CHOOSE c \in found : TRUE ELSE None

ForwardStep(r, order) ==
    LET current == Last(order)
        next == NodeAt(r, current).header.next
    IN  IF next = 0 /\ current # 0 THEN None
        ELSE IF next # 0 /\ next \in Lbas(r) \ Range(order) THEN next
        ELSE unique_link_candidate(r, Range(order), current, "prev")

extend_forward(r, order) ==
    IF ForwardStep(r, order) = None THEN order
    ELSE Append(order, ForwardStep(r, order))

build_forward_map(r) ==
    IF 0 \notin Lbas(r) THEN <<>>
    ELSE FoldLeft(LAMBDA o, i : extend_forward(r, o), <<0>>,
                  [i \in 1..(MaxNodes - 1) |-> i])

\* The type "free" stands for type 0 without flags; a free header that has flags is
\* "data": no other rule tells the two apart.
canonical_empty_node(n) ==
    /\ n.header.type = "free" /\ n.header.id = "__empty"
    /\ n.header.length # 0
    /\ n.header.sum = apa_checksum(n.header)
    /\ {"MAGIC", "SELF_START", "CHECKSUM", "LENGTH", "TYPE", "ID"}
          \subseteq n.evidence

End(n) == n.header.start + n.header.length

\* Old free-space headers stay competing evidence.
Bug_classify_dormant_free_remnants(r, forward) == r

classify_dormant_free_remnants(r, forward) ==
    [r EXCEPT !.dormant =
        {lba \in Lbas(r) \ Range(forward) :
            /\ canonical_empty_node(NodeAt(r, lba))
            /\ \E c \in Range(forward) :
                  LET node == NodeAt(r, lba)
                      container == NodeAt(r, c)
                  IN  /\ canonical_empty_node(container)
                      /\ node.header.start > container.header.start
                      /\ End(node) <= End(container)}]

ReverseTail(r) ==
    LET last == NodeAt(r, 0).header.prev
    IN  IF last # 0 /\ last \in Lbas(r) THEN last
        ELSE unique_link_candidate(r, {}, 0, "next")

ReverseStep(r, order) ==
    LET prev == NodeAt(r, Last(order)).header.prev
    IN  IF prev = 0 THEN None
        ELSE IF prev \in Lbas(r) THEN prev
        ELSE unique_link_candidate(r, Range(order), Last(order), "next")

extend_reverse(r, walk) ==
    IF walk.current = None \/ walk.current \in Range(walk.order) THEN walk
    ELSE LET order == Append(walk.order, walk.current)
         IN  [order |-> order, current |-> ReverseStep(r, order)]

\* Walks prev from the tail; the headers seen do not contain the master, which is
\* put in front afterwards.
ReverseWalk(r) ==
    FoldLeft(LAMBDA w, i : extend_reverse(r, w),
             [order |-> <<>>, current |-> ReverseTail(r)],
             [i \in 1..(MaxNodes - 1) |-> i])

build_reverse_map(r) ==
    IF 0 \notin Lbas(r) THEN <<>> ELSE <<0>> \o Reverse(ReverseWalk(r).order)

\* Increasing order of a set of numbers.
sort_by_lba(S) ==
    [i \in 1..Cardinality(S) |->
        CHOOSE x \in S : Cardinality({y \in S : y < x}) = i - 1]

build_geometry_map(r) ==
    sort_by_lba({lba \in Lbas(r) \ r.dormant :
                   \/ lba = 0
                   \/ /\ NodeAt(r, lba).confidence >= 50
                      /\ {"SELF_START", "LENGTH"} \subseteq NodeAt(r, lba).evidence})

\* The links a ring in this order would have.
Desired(order) ==
    LET n == Len(order)
    IN  [i \in 1..n |->
            [prev |-> IF i = 1 THEN (IF n > 1 THEN order[n] ELSE 0)
                      ELSE IF i = 2 THEN 0 ELSE order[i - 1],
             next |-> IF i < n THEN order[i + 1] ELSE 0]]

LinksOf(h) == [next |-> h.next, prev |-> h.prev]

evaluate_map(r, kind, order) ==
    LET node(i) == NodeAt(r, order[i])
        wrong == {w \in (DOMAIN order) \X {"prev", "next"} :
                    node(w[1]).header[w[2]] # Desired(order)[w[1]][w[2]]}
        conflicts == {w \in wrong :
                        LET target == node(w[1]).header[w[2]]
                        IN  target # 0 /\ target \in Lbas(r)}
        overlaps == {i \in 2..(Len(order) - 1) :
                        End(node(i)) > node(i + 1).header.start}
        weak == {i \in DOMAIN order : node(i).confidence < 60}
        high == {lba \in Lbas(r) \ r.dormant : NodeAt(r, lba).confidence >= 60}
        missing == Cardinality(high) - Len(order)
        score == 100 - 15 * Cardinality(conflicts) - 30 * Cardinality(overlaps)
                 - 2 * Cardinality(wrong) - 4 * Cardinality(weak)
                 - (IF missing > 0 THEN 5 * missing ELSE 0)
                 - (IF r.truncated THEN 10 ELSE 0)
        confidence == IF order = <<>> THEN 0 ELSE clamp_confidence(score)
    IN  [kind |-> kind, order |-> order, confidence |-> confidence,
         conflicts |-> Cardinality(conflicts),
         overlaps |-> Cardinality(overlaps),
         repairable |->
            /\ ~r.truncated /\ Len(order) >= 2 /\ order[1] = 0
            /\ confidence >= 85 /\ conflicts = {} /\ overlaps = {}
            /\ \A i \in DOMAIN order :
                  {"MAGIC", "SELF_START", "LENGTH"} \subseteq node(i).evidence]

add_map_if_unique(r, map) ==
    IF map.order = <<>> \/ \E i \in DOMAIN r.maps : r.maps[i].order = map.order
    THEN r
    ELSE [r EXCEPT !.maps = Append(@, map)]

apa_forensic_scan(d) ==
    LET found == chase_references(d, GridPass(d))
        forward == build_forward_map(found)
        r0 == classify_dormant_free_remnants(found, forward)
        add(r, kind, order) == add_map_if_unique(r, evaluate_map(r0, kind, order))
    IN  add(add(add(r0, "FORWARD", forward),
                "REVERSE", build_reverse_map(r0)),
            "GEOMETRY", build_geometry_map(r0))

-----------------------------------------------------------------------------
(* From a hypothesis to link corrections.                                  *)

Relinked(h, links) == [h EXCEPT !.next = links.next, !.prev = links.prev]

\* Every header with a stale checksum is taken for corroboration.
Bug_patch_checksum_corroborated(h, links) == h.sum # apa_checksum(h)

patch_checksum_corroborated(h, links) ==
    apa_checksum(Relinked(h, links)) = h.sum

NoPlan == [map |-> 0, patches |-> <<>>, automatic_safe |-> FALSE,
           manual_allowed |-> FALSE]

\* A ring has at most MaxNodes entries, which is also the size of the patch list
\* (APA_FORENSIC_MAX_PATCHES): it cannot overflow.
apa_forensic_build_repair_plan(r, m) ==
    LET map == r.maps[m]
        position == {i \in 1..MaxNodes :          \* the size of map.order
                        /\ i \in DOMAIN map.order
                        /\ LET h == NodeAt(r, map.order[i]).header
                           IN  Relinked(h, Desired(map.order)[i]) # h}
        patchOf(i) ==
            [lba |-> map.order[i],
             links |-> Desired(map.order)[i],
             corroborated |->
                patch_checksum_corroborated(NodeAt(r, map.order[i]).header,
                                            Desired(map.order)[i])]
        list == sort_by_lba(position)
        patches == [k \in DOMAIN list |-> patchOf(list[k])]
        enough == patches # <<>> /\ map.confidence >= 90
    IN  IF r.truncated \/ ~map.repairable THEN [NoPlan EXCEPT !.map = m]
        ELSE [map |-> m, patches |-> patches,
              automatic_safe |->
                 enough /\ \A k \in DOMAIN patches : patches[k].corroborated,
              manual_allowed |->
                 enough /\ map.conflicts = 0 /\ map.overlaps = 0]

\* The two links change places.
Bug_apa_forensic_build_patched_header(r, patch) ==
    LET h == Relinked(NodeAt(r, patch.lba).header,
                      [next |-> patch.links.prev, prev |-> patch.links.next])
    IN  [h EXCEPT !.sum = apa_checksum(h)]

\* The header the writer builds for a patch: only links and checksum change.
apa_forensic_build_patched_header(r, patch) ==
    LET h == Relinked(NodeAt(r, patch.lba).header, patch.links)
    IN  [h EXCEPT !.sum = apa_checksum(h)]

-----------------------------------------------------------------------------
(* The undamaged disks.                                                    *)

\* A header with nothing to object to at its place.  Its type may be any, and its id
\* may be empty: that of a sub-partition normally is.
Sound(h, lba) ==
    /\ h \in Header /\ h.magic /\ h.start = lba
    /\ h.length >= 2 /\ h.start + h.length <= Total
    /\ Len(h.subs) <= MaxSubs
    /\ h.sum = apa_checksum(h)

IsFree(h) == h.type = "free" /\ h.id = "__empty"

\* The partitions of a disk; a remnant of old free space is not one.
RingOf(d) ==
    {lba \in DOMAIN d :
        lba = 0 \/ (d[lba].prev \in DOMAIN d /\ d[d[lba].prev].next = lba)}

\* A formatted disk: sound headers, a ring through two partitions or more in the
\* order of their places, and otherwise only remnants inside free space.
Healthy(d) ==
    LET ring == RingOf(d)
        order == sort_by_lba(ring)
    IN  /\ 0 \in DOMAIN d /\ DOMAIN d \subseteq 0..(Total - 1)
        /\ \A lba \in DOMAIN d : Sound(d[lba], lba)
        /\ Cardinality(ring) >= 2
        /\ \A i \in DOMAIN order : LinksOf(d[order[i]]) = Desired(order)[i]
        /\ \A a, b \in ring : a < b => a + d[a].length <= b
        /\ \A lba \in DOMAIN d \ ring :
              /\ IsFree(d[lba])
              /\ \E c \in ring : /\ IsFree(d[c]) /\ c < lba
                                 /\ lba + d[lba].length <= c + d[c].length

\* Damage changes the bytes of a header or makes it unreadable.
ASSUME LayoutAssumption ==
    \A d \in Layouts :
        /\ Healthy(d)
        /\ \A lba \in DOMAIN d : Damage(d[lba]) \subseteq Header \cup {Unreadable}

-----------------------------------------------------------------------------
(* The planner on its own, as the host tools and the tests drive it.       *)

DamagedFrom(healthy) ==
    \E a, b \in DOMAIN healthy :
        /\ MaxFaults = 1 => a = b
        /\ \E g \in Damage(healthy[a]), h \in Damage(healthy[b]) :
              disk = [healthy EXCEPT ![a] = g, ![b] = h]

PlannerInit ==
    /\ orig \in Layouts
    /\ DamagedFrom(orig)
    /\ scan = EmptyResult
    /\ plan = NoPlan

Scan ==
    /\ scan = EmptyResult
    /\ scan' = apa_forensic_scan(disk)
    /\ UNCHANGED <<disk, orig, plan>>

BuildPlan ==
    /\ plan = NoPlan
    /\ \E m \in DOMAIN scan.maps :
          plan' = apa_forensic_build_repair_plan(scan, m)
    /\ UNCHANGED <<disk, orig, scan>>

PlannerNext == Scan \/ BuildPlan

PlannerSpec == PlannerInit /\ [][PlannerNext]_forensicVars

-----------------------------------------------------------------------------
(* Properties of the planner.                                              *)

\* The disk once every patch of a plan is written.
Applied(d, r, p) ==
    [lba \in DOMAIN d |->
        IF \E k \in DOMAIN p.patches : p.patches[k].lba = lba
        THEN apa_forensic_build_patched_header(
                r, CHOOSE q \in Range(p.patches) : q.lba = lba)
        ELSE d[lba]]

OrigRing == RingOf(orig)

\* The links the plan leaves a header with.
PlannedLinks(lba) ==
    IF \E q \in Range(plan.patches) : q.lba = lba
    THEN (CHOOSE q \in Range(plan.patches) : q.lba = lba).links
    ELSE LinksOf(disk[lba])

Stale(h) == h.sum # apa_checksum(h)

\* An automatic-safe plan whose headers all had a stale checksum, as the
\* documentation takes for granted, leaves every header that can be read with
\* the links it had before the damage: it restores, it never re-cuts the ring.
AutomaticRestores ==
    /\ plan.automatic_safe
    /\ \A k \in DOMAIN plan.patches : Stale(disk[plan.patches[k].lba])
    =>
        \A lba \in OrigRing :
            disk[lba] \notin {Unreadable, Blank} =>
                PlannedLinks(lba) = LinksOf(orig[lba])

\* Writing any plan the screen lets through, the expert ones included, ends the
\* matter: a new scan of the repaired disk proposes the same ring and nothing
\* more to write for it.
PlanConverges ==
    plan.manual_allowed =>
        LET again == apa_forensic_scan(Applied(disk, scan, plan))
        IN  \E m \in DOMAIN again.maps :
                /\ again.maps[m].order = scan.maps[plan.map].order
                /\ apa_forensic_build_repair_plan(again, m).patches = <<>>

\* On an undamaged disk that fits the node table the three methods agree on the
\* ring with full confidence and nothing is offered, whatever remnants of old free
\* space lie in it and however many partitions start off the sampling grid.
HealthyUntouched ==
    (disk = orig /\ Cardinality(DOMAIN orig) <= MaxNodes /\ scan # EmptyResult) =>
        /\ Len(scan.maps) = 1
        /\ Range(scan.maps[1].order) = OrigRing
        /\ scan.maps[1].confidence = 100
        /\ plan.patches = <<>>

\* No plan is built from a scan that ran out of node slots: a ring written from
\* it would end where the table did.  A scan that yields patches knows every
\* intact header on the sampling grid, and with an intact header both neighbours
\* that are intact: no part of the chain that hangs together is left out.
NoPartOfTheChainCutOff ==
    LET intact == {lba \in DOMAIN orig : disk[lba] = orig[lba]}
    IN  plan.patches # <<>> =>
            \A lba \in intact :
                \/ lba % ScanStep = 0
                \/ \E o \in intact \cap Lbas(scan) : lba \in {disk[o].next, disk[o].prev}
                => lba \in Lbas(scan)

\* docs/FORENSIC_RECOVERY.md: the reverse map reconstructs the chain from the
\* opposite direction.  A chain has each header once, the master included.
MapListsHeaderOnce ==
    \A m \in DOMAIN scan.maps :
        Cardinality(Range(scan.maps[m].order)) = Len(scan.maps[m].order)

\* docs/HDD_FIXTURES.md: a checksum-valid link error is a hypothesis, never
\* automatic-safe.
ChecksumValidIsNotAutomatic ==
    plan.automatic_safe =>
        \A k \in DOMAIN plan.patches :
            Stale(disk[plan.patches[k].lba])
=============================================================================
