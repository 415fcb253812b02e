----------------------------- MODULE MasterRepair -----------------------------
(***************************************************************************)
(* Start-up of the manager: the hook around the first HDIOC_STATUS, the    *)
(* deterministic repair of a damaged APA master it may offer, the fail-    *)
(* closed admission of main.c, and the health screen of the admitted disk  *)
(* (hdd_recovery_wrap.c, repair_controller_ps2.c, apa_repair.c, apa.c,     *)
(* repair_snapshot.c, hdd_repair_ps2.c, repair_health.c, main.c).          *)
(*                                                                         *)
(* A master header is a word per field the code distinguishes and its      *)
(* stored checksum.  Identity and anchor words hold the difference from    *)
(* the canonical value, so 0 is canonical.  Every field lies in the first  *)
(* of the two sectors: a torn master write leaves the old or the new one.  *)
(***************************************************************************)
EXTENDS Integers, FiniteSets

CONSTANTS
    WordSize,     \* 2^32 scaled down
    Values,       \* what a damaged word may hold
    MaxDamage,    \* words that may be damaged
    Storages,     \* number of USB / memory-card targets
    RawSlots,     \* HDDRAW files on each
    Absent, Torn

ASSUME MasterConstants ==
    /\ {Storages, RawSlots} \subseteq Nat \ {0}
    /\ WordSize \in Nat /\ WordSize > 3         \* room for the pointer and its size
    /\ MaxDamage \in Nat /\ Values \subseteq 0..(WordSize - 1)

VARIABLES
    disk, platter,       \* master as read / as it survives a power loss
    raw,                 \* HDDRAW files
    pc, status,          \* where start-up is; what ps2hdd answered
    storage, slot,       \* selected target; file being written
    evidence,            \* payload result in boot_chain
    payload,             \* whether the boot program on disk is a valid KELF
    orig, damaged        \* history: undamaged master; master as found

vars == <<disk, platter, raw, pc, status, storage, slot, evidence, payload,
          orig, damaged>>

Identity == {"magic", "id", "sony"}
Anchors == {"start", "type", "version"}
Words == Identity \cup Anchors \cup {"osdStart", "osdSize", "pcsig", "rest"}

-----------------------------------------------------------------------------
(* apa.c and apa_repair.c.                                                 *)

apa_checksum(w) ==
    (w["magic"] + w["id"] + w["sony"] + w["start"] + w["type"] + w["version"]
     + w["osdStart"] + w["osdSize"] + w["pcsig"] + w["rest"]) % WordSize

is_standard_apa_header(h) ==
    /\ \A x \in Identity : h.word[x] = 0
    /\ h.sum = apa_checksum(h.word)

is_hybrid_gpt(h) == h.word["pcsig"] = 1

Sealed(w) == [word |-> w, sum |-> apa_checksum(w)]

apply_known_fixes(w, fixes) == [x \in Words |-> IF x \in fixes THEN 0 ELSE w[x]]

apa_repair_analyze(h) ==
    LET identity == {x \in Identity : h.word[x] # 0}
        anchors == {x \in Anchors : h.word[x] # 0}
        mismatch == h.sum # apa_checksum(h.word)
        pointerBad == (h.word["osdStart"] = 0) # (h.word["osdSize"] = 0)
        identitySafe == Cardinality(identity) = 1 /\ anchors = {}
        anchorSafe == Cardinality(anchors) = 1 /\ identity = {}
        fixes == (IF identitySafe THEN identity ELSE {})
                 \cup (IF anchorSafe THEN anchors ELSE {})
        doubts == (IF identity # {} /\ ~identitySafe THEN {"LOW_IDENTITY"} ELSE {})
                  \cup (IF anchors # {} /\ ~anchorSafe THEN {"NOT_MASTER"} ELSE {})
        explained == fixes # {} /\ doubts = {} /\ mismatch
                     /\ apa_checksum(apply_known_fixes(h.word, fixes)) = h.sum
        blockers == IF is_hybrid_gpt(h) THEN {"HYBRID"}
                    ELSE doubts \cup
                         (IF ~explained /\ (mismatch \/ (fixes # {} /\ doubts = {}))
                          THEN {"UNEXPLAINED_CHECKSUM"} ELSE {})
    IN  [issues |-> identity \cup anchors
                    \cup (IF mismatch THEN {"CHECKSUM"} ELSE {}),
         blockers |-> blockers,
         fixes |-> IF is_hybrid_gpt(h) THEN {} ELSE fixes,
         pointerClear |-> pointerBad,
         header_patch_safe |-> blockers = {} /\ fixes # {}]

\* The rebuilt header starts from zeros, not from a copy of the source.
Bug_apa_repair_build_header(h) ==
    LET w == [x \in Words |-> IF x \in Identity \cup Anchors THEN h.word[x] ELSE 0]
    IN  Sealed(apply_known_fixes(w, apa_repair_analyze(h).fixes))

apa_repair_build_header(h) ==
    Sealed(apply_known_fixes(h.word, apa_repair_analyze(h).fixes))

\* The last gate of hdd_repair_write_master_header_verified.
CanonicalMaster(h) ==
    /\ is_standard_apa_header(h) /\ ~is_hybrid_gpt(h)
    /\ \A x \in Anchors : h.word[x] = 0

-----------------------------------------------------------------------------
Healthy(start, size) ==
    Sealed([x \in Words |-> IF x = "osdStart" THEN start
                            ELSE IF x = "osdSize" THEN size ELSE 0])

\* A healthy master with up to MaxDamage words overwritten, the checksum word
\* among them, or recomputed over the damage.
Damaged(h) ==
    \E hit \in SUBSET (Words \cup {"sum"}) :
        /\ Cardinality(hit) <= MaxDamage
        /\ \E v \in [hit -> Values] :
              LET w == [x \in Words |-> IF x \in hit THEN v[x] ELSE h.word[x]]
              IN  damaged \in {Sealed(w),
                               [word |-> w,
                                sum |-> IF "sum" \in hit THEN v["sum"] ELSE h.sum]}

Init ==
    /\ orig \in {Healthy(0, 0), Healthy(2, 1)}
    /\ Damaged(orig)
    /\ disk = damaged /\ platter = damaged
    /\ raw = [t \in 1..Storages |-> [i \in 1..RawSlots |-> Absent]]
    /\ pc = "status" /\ status = 0 /\ storage = 1 /\ slot = 0
    /\ evidence = "pending" /\ payload \in {"good", "bad"}

-----------------------------------------------------------------------------
(* __wrap_fileXioDevctl and repair_controller_startup.                     *)

\* What ps2hdd thinks of the drive is outside this code: any answer.  A master
\* that cannot be read skips recovery; admission follows with that answer.
wrap_status ==
    /\ pc = "status"
    /\ status' \in {0, -1}
    /\ LET p == apa_repair_analyze(disk)
       IN  \/ pc' = "admission"                      \* raw read failed
           \/ p.issues = {} /\ p.blockers = {} /\ pc' = "admission"
           \/ p.issues \cup p.blockers # {} /\ ~p.header_patch_safe /\ pc' = "fatal"
           \/ p.header_patch_safe /\ pc' = "analysis"
    /\ UNCHANGED <<disk, platter, raw, storage, slot, evidence, payload, orig, damaged>>

cycle_storage ==
    /\ pc = "analysis"
    /\ storage' = (storage % Storages) + 1
    /\ UNCHANGED <<disk, platter, raw, pc, status, slot, evidence, payload, orig, damaged>>

\* TRIANGLE on the analysis screen blocks the session.
cancel_analysis ==
    /\ pc = "analysis"
    /\ pc' = "fatal"
    /\ UNCHANGED <<disk, platter, raw, status, storage, slot, evidence, payload, orig, damaged>>

\* repair_snapshot_save: files that exist and hold other bytes are passed over;
\* the first that holds these very bytes serves as the snapshot.
PassedOver(i) == \A j \in 1..(i - 1) : raw[storage][j] \notin {Absent, disk}

snapshot_reuse ==
    /\ pc = "analysis"
    /\ \E i \in 1..RawSlots : PassedOver(i) /\ raw[storage][i] = disk
    /\ pc' = "confirm"
    /\ UNCHANGED <<disk, platter, raw, status, storage, slot, evidence, payload, orig, damaged>>

\* A file whose status cannot be read, absent or not, is truncated and written.
snapshot_write ==
    /\ pc = "analysis"
    /\ \E i \in 1..RawSlots :
          /\ PassedOver(i)
          /\ slot' = i
          /\ raw' = [raw EXCEPT ![storage][i] = Torn]
    /\ pc' = "snapshot"
    /\ UNCHANGED <<disk, platter, status, storage, evidence, payload, orig, damaged>>

\* The confirmation screen appears whether or not the copy could be read back.
Bug_snapshot_verify ==
    /\ pc = "snapshot" /\ slot' = 0 /\ pc' = "confirm"
    /\ \/ raw' = [raw EXCEPT ![storage][slot] = disk]
       \/ UNCHANGED raw
    /\ UNCHANGED <<disk, platter, status, storage, evidence, payload, orig, damaged>>

\* Verified, or given up: then start-up goes on without a repair.
snapshot_verify ==
    /\ pc = "snapshot" /\ slot' = 0
    /\ \/ raw' = [raw EXCEPT ![storage][slot] = disk] /\ pc' = "confirm"
       \/ UNCHANGED raw /\ pc' = "admission"
    /\ UNCHANGED <<disk, platter, status, storage, evidence, payload, orig, damaged>>

snapshot_no_slot ==
    /\ pc = "analysis" /\ \A i \in 1..RawSlots : raw[storage][i] \notin {Absent, disk}
    /\ pc' = "admission"
    /\ UNCHANGED <<disk, platter, raw, status, storage, slot, evidence, payload, orig, damaged>>

cancel_chord ==
    /\ pc = "confirm"
    /\ pc' = "admission"
    /\ UNCHANGED <<disk, platter, raw, status, storage, slot, evidence, payload, orig, damaged>>

write_master ==
    /\ pc = "confirm"
    /\ CanonicalMaster(apa_repair_build_header(disk))
    /\ disk' = apa_repair_build_header(disk)
    /\ pc' = "flush"
    /\ UNCHANGED <<platter, raw, status, storage, slot, evidence, payload, orig, damaged>>

\* The flush is skipped.
Bug_flush_master ==
    /\ pc = "flush" /\ pc' = "readback"
    /\ UNCHANGED <<disk, platter, raw, status, storage, slot, evidence, payload, orig, damaged>>

flush_master ==
    /\ pc = "flush"
    /\ platter' = disk /\ pc' = "readback"
    /\ UNCHANGED <<disk, raw, status, storage, slot, evidence, payload, orig, damaged>>

readback_master ==
    /\ pc = "readback"
    /\ pc' = "restart"
    /\ UNCHANGED <<disk, platter, raw, status, storage, slot, evidence, payload, orig, damaged>>

\* A write, flush or read-back that fails blocks the session.
io_failure ==
    /\ pc \in {"confirm", "flush", "readback"}
    /\ pc' = "fatal"
    /\ UNCHANGED <<disk, platter, raw, status, storage, slot, evidence, payload, orig, damaged>>

-----------------------------------------------------------------------------
(* main.c after the status query, and the admitted session.                *)

main_admission ==
    /\ pc = "admission"
    /\ \/ pc' = "fatal"                             \* the header read failed
       \/ pc' = IF status = 0 /\ is_standard_apa_header(disk) /\ ~is_hybrid_gpt(disk)
                THEN "menu" ELSE "fatal"
    /\ evidence' = "pending"                        \* mark_boot_chain_pending
    /\ UNCHANGED <<disk, platter, raw, status, storage, slot, payload, orig, damaged>>

diagnostics_refresh ==
    /\ pc = "menu"
    /\ evidence' = payload
    /\ UNCHANGED <<disk, platter, raw, pc, status, storage, slot, payload, orig, damaged>>

\* hdd_validate_payload_bounds, whose rules are those of module Bootstrap: of the
\* pointers here only the healthy one lies in the reserved area.
PointerInBounds(h) == h.word["osdStart"] = 2 /\ h.word["osdSize"] = 1

\* repair_health_assess; a payload result of -1, pending or bad, counts against
\* the pointer.
repair_health_assess(h, ev) ==
    LET start == h.word["osdStart"]
        size == h.word["osdSize"]
    IN  \/ (start = 0) # (size = 0)
        \/ start # 0 /\ (~PointerInBounds(h) \/ ev # "good")
        \/ apa_repair_analyze(h).pointerClear

health_screen ==
    /\ pc = "menu" /\ pc' = "health"
    /\ UNCHANGED <<disk, platter, raw, status, storage, slot, evidence, payload, orig, damaged>>

leave_health ==
    /\ pc = "health" /\ pc' = "menu"
    /\ UNCHANGED <<disk, platter, raw, status, storage, slot, evidence, payload, orig, damaged>>

\* SQUARE: the normal disable of module Bootstrap, which clears the pointer, lets
\* ps2hdd recompute the checksum and refreshes the diagnostics.
request_disable ==
    /\ pc = "health" /\ repair_health_assess(disk, evidence)
    /\ disk' = Sealed([disk.word EXCEPT !["osdStart"] = 0, !["osdSize"] = 0])
    /\ platter' = disk' /\ orig' = disk' /\ damaged' = disk'
    /\ pc' = "menu" /\ evidence' = payload
    /\ UNCHANGED <<raw, status, storage, slot, payload>>

Restarted ==
    /\ pc' = "status" /\ slot' = 0 /\ storage' = 1 /\ evidence' = "pending"
    /\ status' = 0

\* From the fatal screen, after a verified repair, or from the power menu.
restart_to_browser ==
    /\ pc \in {"fatal", "restart", "menu"}
    /\ Restarted
    /\ UNCHANGED <<disk, platter, raw, payload, orig, damaged>>

PowerLoss ==
    /\ disk' \in {disk, platter} /\ platter' = disk'
    /\ Restarted
    /\ UNCHANGED <<raw, payload, orig, damaged>>

Next ==
    \/ wrap_status \/ cycle_storage \/ cancel_analysis \/ snapshot_reuse
    \/ snapshot_write \/ snapshot_verify \/ snapshot_no_slot \/ cancel_chord
    \/ write_master \/ flush_master \/ readback_master \/ io_failure
    \/ main_admission \/ diagnostics_refresh \/ health_screen \/ leave_health
    \/ request_disable \/ restart_to_browser \/ PowerLoss

Spec == Init /\ [][Next]_vars

-----------------------------------------------------------------------------
(* Properties.                                                             *)

Header == [word : [Words -> 0..(WordSize - 1)], sum : 0..(WordSize - 1)]

\* Headers keep their shape, and selections stay among the targets and files there are.
TypeOK ==
    /\ {disk, platter, orig, damaged} \subseteq Header
    /\ raw \in [1..Storages -> [1..RawSlots -> Header \cup {Absent, Torn}]]
    /\ status \in {0, -1} /\ storage \in 1..Storages /\ slot \in 0..RawSlots
    /\ payload \in {"good", "bad"} /\ evidence \in {"pending", "good", "bad"}
    /\ pc \in {"status", "analysis", "snapshot", "confirm", "flush", "readback",
               "restart", "admission", "menu", "health", "fatal"}

\* With up to MaxDamage words wrong, compensating pairs and recomputed checksums
\* included, start-up recovery writes the undamaged master or nothing at all.
RepairRestores == disk \in {damaged, orig} /\ platter \in {damaged, orig}

\* The exact damaged sectors are in a complete HDDRAW file before they change.
SnapshotBeforeWrite ==
    disk # damaged =>
        \E t \in 1..Storages, i \in 1..RawSlots : raw[t][i] = damaged

\* A repair announced as verified survives a power loss and passes admission.
RestartOnlyWhenDurable == pc = "restart" => CanonicalMaster(platter)

\* However recovery was left (refused, cancelled at the chord, no snapshot), the
\* admitted session never offers to rewrite the master: raw repair stays confined
\* to the start-up window.
HealthNeverRewritesMaster ==
    pc \in {"menu", "health"} => ~apa_repair_analyze(disk).header_patch_safe

\* Behind the start-up window the master needs no more raw writes: a restart follows
\* only a durable repair, and an admitted session is offered none.
PastRecovery == RestartOnlyWhenDurable /\ HealthNeverRewritesMaster

\* docs/HDD_FIXTURES.md: an enabled disk with a valid boot program needs no
\* repair.
HealthyNotRecommended ==
    (pc = "health" /\ disk = Healthy(2, 1) /\ payload = "good") =>
        ~repair_health_assess(disk, evidence)

\* docs/ROADMAP.md: the raw forensic scan does not depend on ps2hdd admission, so
\* a master beyond deterministic repair does not end the session before the menu.
ForensicReachable == pc = "fatal" => apa_repair_analyze(disk).blockers = {}
=============================================================================
