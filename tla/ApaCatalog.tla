----------------------------- MODULE ApaCatalog -----------------------------
(***************************************************************************)
(* The walk of the APA chain behind every HDL operation: the list of       *)
(* installed games, the free space an install is admitted with, and the    *)
(* search that must find a target before it may be created or removed      *)
(* (hdl_tools/catalog.inc).  The walk trusts nothing on the disk; a header *)
(* holds any value.  Headers are chosen when they are first read and stay  *)
(* as they are: what was never read cannot matter.                         *)
(***************************************************************************)
EXTENDS Integers, Sequences, FiniteSets, Functions

CONSTANTS
    Total,        \* sectors of the drive, in units of a header
    NodeLimit,    \* HDL_CHAIN_NODE_LIMIT
    Lengths       \* lengths a header may hold

ASSUME CatalogConstants ==
    /\ {Total, NodeLimit} \subseteq Nat \ {0}
    /\ Lengths \subseteq Nat

Lba == 0..(Total - 1)

\* valid: magic and checksum.  Types: free space, a game's main part, a game's
\* sub-partition, any other used partition; target: the id is the one looked for.
Header == [valid : BOOLEAN, start : Lba, length : Lengths, prev : Lba,
           next : 0..Total, type : {"free", "main", "sub", "other"},
           target : BOOLEAN]

VARIABLES
    disk,        \* headers read so far
    current, previous, nodes,
    visited,     \* history: the LBAs in the order of the walk
    free_sectors, used_sectors, games, subs, found,
    result       \* "walking", "ok", "invalid"

scan_vars == <<disk, current, previous, nodes, visited, free_sectors,
               used_sectors, games, subs, found, result>>

\* The master, admitted by is_standard_apa_header: length and next are free.
ScanInit ==
    /\ disk = <<>>
    /\ current \in 0..Total /\ previous = 0 /\ nodes = 0 /\ visited = <<>>
    /\ free_sectors = 0 /\ used_sectors \in Lengths \ {0}
    /\ games = <<>> /\ subs = 0 /\ found = FALSE
    /\ result = "walking"

-----------------------------------------------------------------------------
valid_apa_node(h, lba) ==
    /\ h.valid /\ h.start = lba /\ h.length # 0
    /\ lba + h.length <= Total

\* The back link is not compared.
Bug_Accepted(h) ==
    /\ valid_apa_node(h, current)
    /\ h.next # current /\ (h.next = 0 \/ h.next < Total)

\* A header the walk goes past.
Accepted(h) ==
    /\ valid_apa_node(h, current)
    /\ h.prev = previous
    /\ h.next # current /\ (h.next = 0 \/ h.next < Total)

\* What the drive may return for the current LBA.
Readable == IF current \in DOMAIN disk THEN {disk[current]} ELSE Header

\* A free remnant that still carries the name counts.
Bug_TargetHere(h) == h.target

TargetHere(h) == h.type # "free" /\ h.target

\* One turn of the loop.  The sub-partitions of a game are counted apart.
scan_step ==
    /\ result = "walking" /\ current # 0
    /\ nodes < NodeLimit /\ current < Total
    /\ \E h \in Readable :
          /\ Accepted(h)
          /\ disk' = [lba \in DOMAIN disk \cup {current} |->
                          IF lba = current THEN h ELSE disk[lba]]
          /\ IF h.type = "free"
             THEN free_sectors' = free_sectors + h.length /\ UNCHANGED used_sectors
             ELSE used_sectors' = used_sectors + h.length /\ UNCHANGED free_sectors
          /\ found' = (found \/ TargetHere(h))
          /\ games' = IF h.type = "main" THEN Append(games, current) ELSE games
          /\ subs' = IF h.type = "sub" THEN subs + 1 ELSE subs
          /\ previous' = current /\ current' = h.next
    /\ nodes' = nodes + 1 /\ visited' = Append(visited, current)
    /\ UNCHANGED result

\* Over the node limit, out of range, unreadable, or a header that is not
\* accepted: each return leaves the same state, and any read may fail.
scan_refuse ==
    /\ result = "walking" /\ current # 0
    /\ result' = "invalid"
    /\ UNCHANGED <<disk, current, previous, nodes, visited, free_sectors,
                   used_sectors, games, subs, found>>

\* The end of the chain; the totals must fit the drive.
scan_finish ==
    /\ result = "walking" /\ current = 0
    /\ result' = IF used_sectors + free_sectors > Total THEN "invalid" ELSE "ok"
    /\ UNCHANGED <<disk, current, previous, nodes, visited, free_sectors,
                   used_sectors, games, subs, found>>

ScanNext == scan_step \/ scan_refuse \/ scan_finish

ScanSpec == ScanInit /\ [][ScanNext]_scan_vars

-----------------------------------------------------------------------------
(* Properties.                                                             *)

\* Every header the walk accepted lies inside the drive, and so does the link it
\* follows next.
ScanTypeOK ==
    /\ current \in 0..Total /\ previous \in Lba /\ nodes \in 0..NodeLimit
    /\ nodes > 0 => current \in Lba
    /\ {free_sectors, used_sectors, subs} \subseteq Nat
    /\ result \in {"walking", "ok", "invalid"}
    /\ \A i \in DOMAIN visited :
          /\ visited[i] \in DOMAIN disk
          /\ visited[i] + disk[visited[i]].length <= Total

\* Whatever the disk holds, loops included, the comparison with the back link
\* keeps the walk from meeting a header twice: nothing is counted or listed
\* twice, and the walk ends without help from the node limit.
VisitedOnce == \A i, j \in DOMAIN visited : visited[i] = visited[j] => i = j

\* The numbers an install is admitted with are those of the chain: each free
\* partition counted once, each game listed once, and the target found exactly
\* when a used partition of the chain carries its name.
CatalogExact ==
    result = "ok" =>
        LET chain == {visited[i] : i \in DOMAIN visited}
        IN  /\ free_sectors = SumFunctionOnSet([l \in chain |-> disk[l].length],
                                               {l \in chain : disk[l].type = "free"})
            /\ {games[i] : i \in DOMAIN games} = {l \in chain : disk[l].type = "main"}
            /\ Len(games) = Cardinality({l \in chain : disk[l].type = "main"})
            /\ found <=> \E l \in chain : disk[l].type # "free" /\ disk[l].target
=============================================================================
