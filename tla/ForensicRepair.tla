---------------------------- MODULE ForensicRepair ----------------------------
(***************************************************************************)
(* The forensic workspace of the manager: scan cached across screens, plan *)
(* screen, HDDMETA snapshot on USB storage, and the guarded multi-header   *)
(* write (forensic_controller_ps2.c, forensic_snapshot.c,                  *)
(* hdd_forensic_repair_ps2.c), with power loss at every point.             *)
(*                                                                         *)
(* disk is what a read of the drive returns, platter what survives a power *)
(* loss; they differ in sectors written and not yet flushed.  Links and    *)
(* checksum share the first sector of a header, so a lost header write is  *)
(* either complete or absent.                                              *)
(***************************************************************************)
EXTENDS ApaForensic

CONSTANTS
    Slots,        \* number of HDDMETA files
    StatMayFail   \* may fileXioGetStat fail for a file that is there

ASSUME RepairConstants == Slots \in Nat /\ StatMayFail \in BOOLEAN

VARIABLES
    platter,
    slots,      \* HDDMETA.BIN, HDDMETA2.BIN
    pc,         \* where the session is
    slot,       \* slot being written
    committed,  \* positions of the patches written and read back
    base,       \* history: disk without the repairs
    goal        \* history: the last ring whose commit was begun

vars == <<disk, orig, scan, plan, platter, slots, pc, slot, committed, base, goal>>

NoGoal == [order |-> <<>>, lbas |-> {}, disk |-> <<>>, master |-> FALSE]

\* A slot without a file, with an incomplete one, and with a whole image.
Absent == [file |-> "absent", headers |-> <<>>]
Torn == [file |-> "torn", headers |-> <<>>]
Image(headers) == [file |-> "whole", headers |-> headers]

is_standard_apa_header(h) ==
    h # Unreadable /\ h.magic /\ h.id = "named" /\ h.sum = apa_checksum(h)

Init ==
    /\ PlannerInit
    /\ is_standard_apa_header(disk[0])
    /\ platter = disk /\ base = disk
    /\ slots = [s \in 1..Slots |-> Absent]
    /\ pc = "menu" /\ slot = 0 /\ committed = {}
    /\ goal = NoGoal

-----------------------------------------------------------------------------
(* Start of a session and the forensic screens.                            *)

\* main.c admits a drive only with a standard master; statics start empty.
main ==
    /\ pc = "boot"
    /\ pc' = IF is_standard_apa_header(disk[0]) THEN "menu" ELSE "fatal"
    /\ UNCHANGED <<disk, orig, scan, plan, platter, slots, slot, committed, base, goal>>

\* The first visit, or START on the forensic screen.  A result is kept until
\* the next scan, whatever the other menus do meanwhile.  A re-scan fails only before
\* the first read, when the size of the drive cannot be had: the result stays.
run_scan ==
    /\ pc = "menu"
    /\ scan' = apa_forensic_scan(disk)
    /\ UNCHANGED <<disk, orig, plan, platter, slots, pc, slot, committed, base, goal>>

\* Another menu changes the boot pointer (module Bootstrap): the master gets
\* other bytes and a new checksum, flushed before the menu returns.
set_osd_pointer ==
    /\ pc = "menu"
    /\ \E r \in {orig[0].rest, orig[0].rest + 1} \ {disk[0].rest} :
          LET written(h) == [h EXCEPT !.rest = r,
                                      !.sum = apa_checksum([h EXCEPT !.rest = r])]
          IN  /\ disk' = [disk EXCEPT ![0] = written(@)]
              /\ base' = [base EXCEPT ![0] = written(@)]
    /\ platter' = disk'
    /\ UNCHANGED <<orig, scan, plan, slots, pc, slot, committed, goal>>

\* repair_plan_screen: a plan that is empty or too weak returns at once.
repair_plan_screen ==
    /\ pc = "menu" /\ ~scan.truncated
    /\ \E m \in DOMAIN scan.maps :
          LET p == apa_forensic_build_repair_plan(scan, m)
          IN  /\ p.patches # <<>> /\ p.manual_allowed
              /\ plan' = p
    /\ pc' = "plan"
    /\ UNCHANGED <<disk, orig, scan, platter, slots, slot, committed, base, goal>>

\* TRIANGLE on the plan or on the authorization screen.
leave_plan ==
    /\ pc \in {"plan", "authorize"}
    /\ plan' = NoPlan /\ pc' = "menu"
    /\ UNCHANGED <<disk, orig, scan, platter, slots, slot, committed, base, goal>>

-----------------------------------------------------------------------------
(* The snapshot: every header the plan touches, as the scan read it.       *)

Touched(p) == {p.patches[k].lba : k \in DOMAIN p.patches}

build_snapshot_image(r, p) == Image([lba \in Touched(p) |-> NodeAt(r, lba).header])

\* A slot whose status cannot be read counts as free and is truncated.
SeenFree(s) == slots[s] = Absent \/ StatMayFail

\* The slots forensic_snapshot_save may end at: the first that is free or
\* already holds this very image.
ChosenSlots ==
    LET image == build_snapshot_image(scan, plan)
    IN  {s \in 1..Slots :
            /\ SeenFree(s) \/ slots[s] = image
            /\ \A t \in 1..(s - 1) : slots[t] \notin {Absent, image}}

\* NO_SLOT: both files exist and hold something else.
snapshot_no_slot ==
    /\ pc = "plan" /\ \A s \in 1..Slots :
          slots[s] \notin {Absent, build_snapshot_image(scan, plan)}
    /\ plan' = NoPlan /\ pc' = "menu"
    /\ UNCHANGED <<disk, orig, scan, platter, slots, slot, committed, base, goal>>

snapshot_reuse ==
    /\ pc = "plan"
    /\ \E s \in ChosenSlots : slots[s] = build_snapshot_image(scan, plan)
    /\ pc' = "authorize"
    /\ UNCHANGED <<disk, orig, scan, plan, platter, slots, slot, committed, base, goal>>

\* write_whole_file truncates first: from here the file is incomplete.
snapshot_write ==
    /\ pc = "plan"
    /\ \E s \in ChosenSlots :
          /\ slots[s] # build_snapshot_image(scan, plan) \/ StatMayFail
          /\ slot' = s
          /\ slots' = [slots EXCEPT ![s] = Torn]
    /\ pc' = "snapshot"
    /\ UNCHANGED <<disk, orig, scan, plan, platter, committed, base, goal>>

\* The result of the read-back is ignored.
Bug_snapshot_verify ==
    /\ pc = "snapshot"
    /\ pc' = "authorize" /\ slot' = 0
    /\ \/ slots' = [slots EXCEPT ![slot] = build_snapshot_image(scan, plan)]
       \/ UNCHANGED slots
    /\ UNCHANGED <<disk, orig, scan, plan, platter, committed, base, goal>>

\* Complete and equal when read back, or the plan is abandoned with whatever
\* the write left behind.
snapshot_verify ==
    /\ pc = "snapshot"
    /\ \/ /\ slots' = [slots EXCEPT ![slot] = build_snapshot_image(scan, plan)]
          /\ pc' = "authorize" /\ UNCHANGED plan
       \/ /\ pc' = "menu" /\ plan' = NoPlan /\ UNCHANGED slots
    /\ slot' = 0
    /\ UNCHANGED <<disk, orig, scan, platter, committed, base, goal>>

-----------------------------------------------------------------------------
(* The writer.                                                             *)

Remaining == DOMAIN plan.patches \ committed

\* Plan order: the master comes first.
Bug_Position == Min(Remaining)

\* The two loops of hdd_forensic_repair_apply_verified: interior headers in plan
\* order, then the master.
Position ==
    LET interior == {k \in Remaining : plan.patches[k].lba # 0}
    IN  Min(IF interior # {} THEN interior ELSE Remaining)

Current == plan.patches[Position]

\* The chord, then the gates of hdd_forensic_repair_apply_verified.
authorize ==
    /\ pc = "authorize"
    /\ ~scan.truncated /\ plan.manual_allowed /\ plan.patches # <<>>
    /\ pc' = "write" /\ committed' = {}
    /\ goal' = [order |-> scan.maps[plan.map].order, lbas |-> Touched(plan),
                disk |-> [lba \in Touched(plan) |->
                            apa_forensic_build_patched_header(scan,
                                CHOOSE q \in Range(plan.patches) : q.lba = lba)],
                master |-> FALSE]
    /\ UNCHANGED <<disk, orig, scan, plan, platter, slots, slot, base>>

patch_header_is_safe(q) ==
    LET h == apa_forensic_build_patched_header(scan, q)
    IN  /\ {"MAGIC", "SELF_START", "LENGTH"} \subseteq NodeAt(scan, q.lba).evidence
        /\ h.magic /\ h.start = q.lba /\ h.length # 0 /\ h.sum = apa_checksum(h)

\* Bytes changed since the scan, or no longer readable, stop the repair.
source_changed ==
    /\ pc = "write"
    /\ \/ Read(disk, Current.lba) # NodeAt(scan, Current.lba).header
       \/ ~patch_header_is_safe(Current)
    /\ pc' = "restart"
    /\ UNCHANGED <<disk, orig, scan, plan, platter, slots, slot, committed, base, goal>>

\* The source is not compared with the scan.
Bug_write_one ==
    /\ pc = "write"
    /\ Read(disk, Current.lba) # Unreadable
    /\ disk' = [disk EXCEPT ![Current.lba] =
                    apa_forensic_build_patched_header(scan, Current)]
    /\ goal' = [goal EXCEPT !.master = @ \/ Current.lba = 0]
    /\ pc' = "flush"
    /\ UNCHANGED <<orig, scan, plan, platter, slots, slot, committed, base>>

write_one ==
    /\ pc = "write"
    /\ Read(disk, Current.lba) = NodeAt(scan, Current.lba).header
    /\ patch_header_is_safe(Current)
    /\ disk' = [disk EXCEPT ![Current.lba] =
                    apa_forensic_build_patched_header(scan, Current)]
    /\ goal' = [goal EXCEPT !.master = @ \/ Current.lba = 0]
    /\ pc' = "flush"
    /\ UNCHANGED <<orig, scan, plan, platter, slots, slot, committed, base>>

\* The read, the write or the flush reports an error: a failed write may have
\* reached the drive or not.
io_failure ==
    /\ pc \in {"write", "flush", "readback", "final"}
    /\ pc' = "restart"
    /\ UNCHANGED <<disk, orig, scan, plan, platter, slots, slot, committed, base, goal>>

flush ==
    /\ pc = "flush"
    /\ platter' = disk /\ pc' = "readback"
    /\ UNCHANGED <<disk, orig, scan, plan, slots, slot, committed, base, goal>>

readback ==
    /\ pc = "readback"
    /\ IF Read(disk, Current.lba) # apa_forensic_build_patched_header(scan, Current)
       THEN pc' = "restart" /\ UNCHANGED committed
       ELSE /\ committed' = committed \cup {Position}
            /\ pc' = IF committed' = DOMAIN plan.patches THEN "final" ELSE "write"
    /\ UNCHANGED <<disk, orig, scan, plan, platter, slots, slot, base, goal>>

\* The whole touched set once more; good or bad, the screen only restarts.
verify_final ==
    /\ pc = "final"
    /\ pc' = "restart"
    /\ UNCHANGED <<disk, orig, scan, plan, platter, slots, slot, committed, base, goal>>

-----------------------------------------------------------------------------
(* Leaving: the mandatory restart keeps the drive powered, a power loss    *)
(* keeps any part of what was not flushed.                                 *)

Forget ==
    /\ scan' = EmptyResult /\ plan' = NoPlan
    /\ pc' = "boot" /\ slot' = 0 /\ committed' = {}

restart_to_browser ==
    /\ pc \in {"restart", "menu"}
    /\ Forget
    /\ UNCHANGED <<disk, orig, platter, slots, base, goal>>

PowerLoss ==
    /\ pc # "fatal"
    /\ \E lost \in SUBSET {lba \in DOMAIN disk : disk[lba] # platter[lba]} :
          disk' = [lba \in DOMAIN disk |->
                      IF lba \in lost THEN platter[lba] ELSE disk[lba]]
    /\ platter' = disk'
    /\ Forget
    /\ UNCHANGED <<orig, slots, base, goal>>

Next ==
    \/ main \/ run_scan \/ set_osd_pointer \/ repair_plan_screen \/ leave_plan
    \/ snapshot_no_slot \/ snapshot_reuse \/ snapshot_write \/ snapshot_verify
    \/ authorize \/ source_changed \/ write_one \/ io_failure \/ flush
    \/ readback \/ verify_final \/ restart_to_browser \/ PowerLoss

Spec == Init /\ [][Next]_vars

-----------------------------------------------------------------------------
(* Properties.                                                             *)

\* The values each variable takes, and what the steps of a repair rely on.
TypeOK ==
    /\ DOMAIN disk = DOMAIN orig /\ DOMAIN platter = DOMAIN orig
    /\ slot \in 0..Slots /\ committed \subseteq DOMAIN plan.patches
    /\ pc \in {"boot", "menu", "fatal", "plan", "snapshot", "authorize", "write",
               "flush", "readback", "final", "restart"}
    /\ pc \in {"plan", "snapshot", "authorize", "write", "flush", "readback",
               "final"} => plan.patches # <<>>
    /\ pc \in {"write", "flush", "readback"} => Remaining # {}

\* Whatever was repaired, interrupted and repaired again, the links each header
\* had before the program first touched it are in a complete HDDMETA file.
SnapshotCoversWrites ==
    \A lba \in DOMAIN disk :
        disk[lba] # base[lba] =>
            \E s \in 1..Slots :
                /\ slots[s].file = "whole" /\ lba \in DOMAIN slots[s].headers
                /\ LinksOf(slots[s].headers[lba]) = LinksOf(base[lba])

\* The master is not written before every interior header of the new ring is safe
\* from a power loss, and from then on they are, whatever fails or restarts.
MasterLast ==
    goal.master =>
        \A lba \in goal.lbas \ {0} : LinksOf(platter[lba]) = LinksOf(goal.disk[lba])

\* A repair that stopped half-way, for a power loss, an I/O error or a master
\* changed since the scan, can be taken up again: a new scan finds the same ring
\* and either offers it or finds nothing left to write.
InterruptedCanResume ==
    (pc = "boot" /\ goal # NoGoal) =>
        LET again == apa_forensic_scan(disk)
        IN  \E m \in DOMAIN again.maps :
                LET p == apa_forensic_build_repair_plan(again, m)
                IN  /\ again.maps[m].order = goal.order
                    /\ p.patches = <<>> \/ p.manual_allowed

\* A commit from an old scan does not undo what another menu wrote meanwhile:
\* links and checksum apart, every header is the one of the disk without repairs,
\* the boot pointer in the master included.
NoForeignChangeLost ==
    \A lba \in DOMAIN disk :
        disk[lba] # base[lba] =>
            [disk[lba] EXCEPT !.next = 0, !.prev = 0, !.sum = 0]
            = [base[lba] EXCEPT !.next = 0, !.prev = 0, !.sum = 0]

\* A complete HDDMETA file is never overwritten (docs/FORENSIC_RECOVERY.md:
\* existing snapshot slots are not silently overwritten).
SnapshotsKept ==
    [][\A s \in 1..Slots : slots[s].file = "whole" => slots'[s] = slots[s]]_vars
=============================================================================
