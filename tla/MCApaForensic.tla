--------------------------- MODULE MCApaForensic ---------------------------
(***************************************************************************)
(* Disks of sixteen sectors with a sample every four.  The layouts: a      *)
(* plain chain, a chain with a sub-partition without an id and off the     *)
(* sampling grid, a chain ending in free space with a remnant header inside it, and a chain *)
(* of five headers, one more than the planner's run has node slots for.    *)
(***************************************************************************)
EXTENDS ApaForensic, TLC

CONSTANTS
    Chosen,    \* which of the layouts below
    Targets,   \* values a damaged link may take
    Kinds      \* which kinds of damage

Sealed(h) == [h EXCEPT !.sum = apa_checksum(h)]

Part(lba, len, prev, next) ==
    Sealed([magic |-> TRUE, next |-> next, prev |-> prev, id |-> "named",
            start |-> lba, length |-> len, type |-> "data", subs |-> <<>>,
            main |-> 0, rest |-> 7, sum |-> 0])

Free(h) == Sealed([h EXCEPT !.id = "__empty", !.type = "free", !.rest = 3])

AllLayouts ==
    [plain |-> (0 :> Part(0, 4, 12, 4)) @@ (4 :> Part(4, 4, 0, 8))
               @@ (8 :> Part(8, 4, 4, 12)) @@ (12 :> Part(12, 4, 8, 0)),
     subs  |-> (0 :> Part(0, 4, 10, 4)) @@ (4 :> Part(4, 4, 0, 8))
               @@ (8 :> Sealed([Part(8, 2, 4, 10) EXCEPT !.subs = <<10>>]))
               @@ (10 :> Sealed([Part(10, 6, 8, 0) EXCEPT !.main = 8, !.id = "none"])),
     free  |-> (0 :> Part(0, 4, 8, 4)) @@ (4 :> Part(4, 4, 0, 8))
               @@ (8 :> Free(Part(8, 8, 4, 0)))
               @@ (12 :> Free(Part(12, 4, 8, 0))),
     full  |-> (0 :> Part(0, 4, 14, 4)) @@ (4 :> Part(4, 4, 0, 8))
               @@ (8 :> Part(8, 4, 4, 12)) @@ (12 :> Part(12, 2, 8, 14))
               @@ (14 :> Part(14, 2, 12, 0))]

WrongLinks(h) == {[h EXCEPT !.next = n, !.prev = p] : n, p \in Targets}
            \cup {[h EXCEPT !.next = n] : n \in Targets}
            \cup {[h EXCEPT !.prev = p] : p \in Targets}

MCLayouts == {AllLayouts[l] : l \in Chosen}

MCDamage(h) ==
    UNION {{h},
           IF "stale" \in Kinds THEN WrongLinks(h) ELSE {},
           IF "sealed" \in Kinds THEN {Sealed(g) : g \in WrongLinks(h)} ELSE {},
           IF "wiped" \in Kinds THEN {Blank} ELSE {},
           IF "unreadable" \in Kinds THEN {Unreadable} ELSE {},
           IF "magic" \in Kinds THEN {[h EXCEPT !.magic = FALSE, !.rest = 0]} ELSE {},
           IF "length" \in Kinds THEN {[h EXCEPT !.length = 8]} ELSE {}}
=============================================================================
