-------------------------- MODULE MasterRepairProofs --------------------------
(***************************************************************************)
(* Proofs about MasterRepair, for every word size, every number of targets *)
(* and files and every set of damaged values.  MInv says how far start-up  *)
(* recovery may have got in terms of the header it found: what is read is  *)
(* that header or a canonical one whose damaged form is in a snapshot.     *)
(***************************************************************************)
EXTENDS MasterRepair, TLAPS, FiniteSetTheorems

Snapped(files, h) == \E t \in 1..Storages, i \in 1..RawSlots : files[t][i] = h

Safe(h) == apa_repair_analyze(h).header_patch_safe

\* The surviving master is the one read or the one found.
Copies == platter \in {disk, damaged}

\* A changed master is canonical, and the damaged one is kept in a file.
Repaired == disk # damaged => CanonicalMaster(disk) /\ Snapped(raw, damaged)

\* Up to the write, the header on screen is one the analysis calls safe to patch.
Offered == pc \in {"analysis", "snapshot", "confirm"} => Safe(disk)

\* A snapshot is being written to a file there is, and the chord follows it.
Kept ==
    /\ pc = "snapshot" => slot \in 1..RawSlots
    /\ pc = "confirm" => Snapped(raw, disk)

\* Behind the write the new master is canonical, behind the flush durably so.
Written ==
    /\ pc = "flush" => CanonicalMaster(disk)
    /\ pc \in {"readback", "restart"} => CanonicalMaster(platter)

\* What main.c admitted.
Admitted ==
    pc \in {"menu", "health"} => is_standard_apa_header(disk) /\ ~is_hybrid_gpt(disk)

MInv == TypeOK /\ Copies /\ Repaired /\ Offered /\ Kept /\ Written /\ Admitted

\* The only header recovery can build from the one it found is the undamaged one.
Restorable ==
    /\ Safe(damaged) => apa_repair_build_header(damaged) = orig
    /\ disk \in {damaged, orig}

-----------------------------------------------------------------------------
(* The header operators.                                                   *)

\* A checksum is a word.
LEMMA ChecksumType ==
  ASSUME NEW w \in [Words -> 0..(WordSize - 1)]
  PROVE  apa_checksum(w) \in 0..(WordSize - 1)
<1>1. \A x \in Words : w[x] \in Int BY MasterConstants
<1>2. PICK a \in Int : a = w["magic"] + w["id"] + w["sony"] + w["start"] + w["type"]
          + w["version"] + w["osdStart"] + w["osdSize"] + w["pcsig"] + w["rest"]
  BY <1>1 DEF Words, Identity, Anchors
<1>3. a % WordSize \in 0..(WordSize - 1) BY MasterConstants
<1> QED BY <1>2, <1>3 DEF apa_checksum

\* Sealing words gives a header that passes its own checksum.
LEMMA SealedType ==
  ASSUME NEW w \in [Words -> 0..(WordSize - 1)]
  PROVE  Sealed(w) \in Header /\ Sealed(w).word = w /\ Sealed(w).sum = apa_checksum(w)
BY ChecksumType DEF Sealed, Header

\* Known fixes only clear words.
LEMMA FixedType ==
  ASSUME NEW w \in [Words -> 0..(WordSize - 1)], NEW fixes
  PROVE  apply_known_fixes(w, fixes) \in [Words -> 0..(WordSize - 1)]
<1>1. 0 \in 0..(WordSize - 1) BY MasterConstants
<1> QED BY <1>1 DEF apply_known_fixes

\* The rebuilt header is a header.
LEMMA BuildType ==
  ASSUME NEW h \in Header
  PROVE  apa_repair_build_header(h) \in Header
<1>1. h.word \in [Words -> 0..(WordSize - 1)] BY DEF Header
<1> QED BY <1>1, FixedType, SealedType DEF apa_repair_build_header

\* What header_patch_safe means: one identity or anchor word is wrong, the disk is
\* no hybrid, and clearing that word is exactly what the stored checksum asks for.
LEMMA SafeShape ==
  ASSUME NEW h, Safe(h)
  PROVE  \E x \in Identity \cup Anchors :
            /\ h.word[x] # 0
            /\ \A y \in (Identity \cup Anchors) \ {x} : h.word[y] = 0
            /\ apa_repair_analyze(h).fixes = {x}
            /\ ~is_hybrid_gpt(h)
            /\ h.sum # apa_checksum(h.word)
            /\ apa_checksum(apply_known_fixes(h.word, {x})) = h.sum
<1> DEFINE identity == {x \in Identity : h.word[x] # 0}
           anchors == {x \in Anchors : h.word[x] # 0}
           mismatch == h.sum # apa_checksum(h.word)
           identitySafe == Cardinality(identity) = 1 /\ anchors = {}
           anchorSafe == Cardinality(anchors) = 1 /\ identity = {}
           fixes == (IF identitySafe THEN identity ELSE {})
                    \cup (IF anchorSafe THEN anchors ELSE {})
           doubts == (IF identity # {} /\ ~identitySafe THEN {"LOW_IDENTITY"} ELSE {})
                     \cup (IF anchors # {} /\ ~anchorSafe THEN {"NOT_MASTER"} ELSE {})
           explained == fixes # {} /\ doubts = {} /\ mismatch
                        /\ apa_checksum(apply_known_fixes(h.word, fixes)) = h.sum
           blockers == IF is_hybrid_gpt(h) THEN {"HYBRID"}
                       ELSE doubts \cup
                            (IF ~explained /\ (mismatch \/ (fixes # {} /\ doubts = {}))
                             THEN {"UNEXPLAINED_CHECKSUM"} ELSE {})
<1>1. Safe(h) = (blockers = {} /\ fixes # {}) BY DEF Safe, apa_repair_analyze
<1>2. apa_repair_analyze(h).fixes = IF is_hybrid_gpt(h) THEN {} ELSE fixes
  BY DEF apa_repair_analyze
<1>3. IsFiniteSet(identity) /\ IsFiniteSet(anchors)
  <2>1. IsFiniteSet(Identity)
    <3>1. IsFiniteSet({"magic"}) BY FS_Singleton
    <3>2. IsFiniteSet({"magic"} \cup {"id"}) BY <3>1, FS_AddElement
    <3>3. IsFiniteSet({"magic"} \cup {"id"} \cup {"sony"}) BY <3>2, FS_AddElement
    <3>4. Identity = {"magic"} \cup {"id"} \cup {"sony"} BY DEF Identity
    <3> QED BY <3>3, <3>4
  <2>2. IsFiniteSet(Anchors)
    <3>1. IsFiniteSet({"start"}) BY FS_Singleton
    <3>2. IsFiniteSet({"start"} \cup {"type"}) BY <3>1, FS_AddElement
    <3>3. IsFiniteSet({"start"} \cup {"type"} \cup {"version"}) BY <3>2, FS_AddElement
    <3>4. Anchors = {"start"} \cup {"type"} \cup {"version"} BY DEF Anchors
    <3> QED BY <3>3, <3>4
  <2>3. identity \in SUBSET Identity /\ anchors \in SUBSET Anchors OBVIOUS
  <2> QED BY <2>1, <2>2, <2>3, FS_Subset
<1>4. ~is_hybrid_gpt(h) /\ blockers = {} /\ fixes # {} BY <1>1
<1>5. doubts = {} /\ explained BY <1>4
<1>6. PICK x : fixes = {x} /\ ((identity = {x} /\ anchors = {}) \/ (anchors = {x} /\ identity = {}))
  <2>1. identitySafe \/ anchorSafe BY <1>4
  <2>2. CASE identitySafe
    <3>1. PICK x : identity = {x} BY <1>3, <2>2, FS_Singleton
    <3>2. ~anchorSafe BY <3>1
    <3>3. fixes = identity BY <2>2, <3>2
    <3>4. anchors = {} BY <2>2
    <3> HIDE DEF identity, anchors, fixes
    <3> QED BY <3>1, <3>3, <3>4
  <2>3. CASE anchorSafe
    <3>1. PICK x : anchors = {x} BY <1>3, <2>3, FS_Singleton
    <3>2. ~identitySafe BY <3>1
    <3>3. fixes = anchors BY <2>3, <3>2
    <3>4. identity = {} BY <2>3
    <3> HIDE DEF identity, anchors, fixes
    <3> QED BY <3>1, <3>3, <3>4
  <2> QED BY <2>1, <2>2, <2>3
<1>7. x \in Identity \cup Anchors /\ h.word[x] # 0 BY <1>6
<1>8. \A y \in (Identity \cup Anchors) \ {x} : h.word[y] = 0 BY <1>6
<1> HIDE DEF blockers, explained
<1>9. apa_checksum(apply_known_fixes(h.word, {x})) = h.sum /\ mismatch
  BY <1>5, <1>6 DEF explained
<1> QED BY <1>2, <1>4, <1>6, <1>7, <1>8, <1>9

\* A header that passes its checksum is never offered a rewrite.
LEMMA StandardNotSafe ==
  ASSUME NEW h, is_standard_apa_header(h)
  PROVE  ~Safe(h)
BY SafeShape DEF is_standard_apa_header

\* Recovery never starts from a canonical master.
LEMMA CanonicalNotSafe ==
  ASSUME NEW h, CanonicalMaster(h)
  PROVE  ~Safe(h)
BY StandardNotSafe DEF CanonicalMaster

-----------------------------------------------------------------------------
(* The invariant.                                                          *)

\* A healthy master is a header.
LEMMA HealthyType == Healthy(0, 0) \in Header /\ Healthy(2, 1) \in Header
<1>1. {0, 1, 2} \subseteq 0..(WordSize - 1) BY MasterConstants
<1>2. ASSUME NEW a \in {0, 2}, NEW b \in {0, 1}
      PROVE  [x \in Words |-> IF x = "osdStart" THEN a ELSE IF x = "osdSize" THEN b ELSE 0]
                \in [Words -> 0..(WordSize - 1)]
  BY <1>1
<1> QED BY <1>2, SealedType DEF Healthy

\* Every header start-up may meet is a header.
LEMMA DamagedType ==
  ASSUME orig \in Header, Damaged(orig)
  PROVE  damaged \in Header
<1>0. PICK hit \in SUBSET (Words \cup {"sum"}) : \E v \in [hit -> Values] :
         LET w == [x \in Words |-> IF x \in hit THEN v[x] ELSE orig.word[x]]
         IN  damaged \in {Sealed(w),
                          [word |-> w, sum |-> IF "sum" \in hit THEN v["sum"] ELSE orig.sum]}
  BY DEF Damaged
<1>1. PICK v \in [hit -> Values] :
         LET w == [x \in Words |-> IF x \in hit THEN v[x] ELSE orig.word[x]]
         IN  damaged \in {Sealed(w),
                          [word |-> w, sum |-> IF "sum" \in hit THEN v["sum"] ELSE orig.sum]}
  BY <1>0
<1> DEFINE w == [x \in Words |-> IF x \in hit THEN v[x] ELSE orig.word[x]]
           s == IF "sum" \in hit THEN v["sum"] ELSE orig.sum
<1>2. orig.word \in [Words -> 0..(WordSize - 1)] /\ orig.sum \in 0..(WordSize - 1)
  BY DEF Header
<1>3. \A x \in hit : v[x] \in 0..(WordSize - 1) BY MasterConstants
<1>4. w \in [Words -> 0..(WordSize - 1)] BY <1>2, <1>3
<1>5. s \in 0..(WordSize - 1) BY <1>2, <1>3
<1>6. [word |-> w, sum |-> s] \in Header
  <2> HIDE DEF w, s
  <2> QED BY <1>4, <1>5 DEF Header
<1>7. Sealed(w) \in Header BY <1>4, SealedType
<1> QED BY <1>1, <1>6, <1>7

\* Start-up begins in the invariant.
LEMMA InitInvariant == Init => MInv
<1> SUFFICES ASSUME Init PROVE MInv
  OBVIOUS
<1>1. orig \in Header BY HealthyType DEF Init
<1>2. damaged \in Header BY <1>1, DamagedType DEF Init
<1>3. raw \in [1..Storages -> [1..RawSlots -> Header \cup {Absent, Torn}]] BY DEF Init
<1>4. TypeOK BY <1>1, <1>2, <1>3, MasterConstants DEF Init, TypeOK
<1> QED BY <1>4 DEF Init, MInv, Copies, Repaired, Offered, Kept, Written, Admitted

\* A snapshot stays one when the files do.
LEMMA RawStep ==
  ASSUME TypeOK, NEW i \in 1..RawSlots, NEW h,
         raw' = [raw EXCEPT ![storage][i] = h]
  PROVE  Snapped(raw', h) /\ (h \in Header \cup {Torn}
            => raw' \in [1..Storages -> [1..RawSlots -> Header \cup {Absent, Torn}]])
<1>1. storage \in 1..Storages /\ raw \in [1..Storages -> [1..RawSlots -> Header \cup {Absent, Torn}]]
  BY DEF TypeOK
<1>2. raw'[storage][i] = h BY <1>1
<1>3. Snapped(raw', h) BY <1>1, <1>2 DEF Snapped
<1>4. ASSUME h \in Header \cup {Torn}
      PROVE  raw' \in [1..Storages -> [1..RawSlots -> Header \cup {Absent, Torn}]]
  BY <1>1, <1>4
<1> QED BY <1>3, <1>4

\* Before the chord nothing has been written: what is read is what was found.
LEMMA OfferedFound ==
  ASSUME MInv, pc \in {"analysis", "snapshot", "confirm"}
  PROVE  disk = damaged /\ platter = damaged /\ Safe(disk)
BY CanonicalNotSafe DEF MInv, Copies, Repaired, Offered

\* Every step keeps the invariant.
LEMMA StepInvariant == MInv /\ [Next]_vars => MInv'
<1> SUFFICES ASSUME MInv, [Next]_vars PROVE MInv'
  OBVIOUS
<1>t. TypeOK BY DEF MInv
<1>1. CASE wrap_status
  BY <1>1, <1>t DEF MInv, TypeOK, Copies, Repaired, Offered, Kept, Written, Admitted, wrap_status, Safe
<1>2. CASE cycle_storage
  <2>1. storage' \in 1..Storages
    <3>1. storage \in 1..Storages /\ Storages \in Nat \ {0} BY <1>t, MasterConstants DEF TypeOK
    <3>2. storage % Storages \in 0..(Storages - 1) BY <3>1
    <3> QED BY <1>2, <3>1, <3>2 DEF cycle_storage
  <2> QED BY <1>2, <1>t, <2>1 DEF MInv, TypeOK, Copies, Repaired, Offered, Kept, Written, Admitted, cycle_storage
<1>3. CASE cancel_analysis
  BY <1>3, <1>t DEF MInv, TypeOK, Copies, Repaired, Offered, Kept, Written, Admitted, cancel_analysis
<1>4. CASE snapshot_reuse
  <2>1. Snapped(raw, disk)
    BY <1>4, <1>t DEF snapshot_reuse, TypeOK, Snapped
  <2> QED BY <1>4, <1>t, <2>1 DEF MInv, TypeOK, Copies, Repaired, Offered, Kept, Written, Admitted, snapshot_reuse
<1>5. CASE snapshot_write
  <2>1. disk = damaged /\ platter = damaged /\ Safe(disk)
    BY <1>5, OfferedFound DEF snapshot_write
  <2>2. PICK i \in 1..RawSlots : slot' = i /\ raw' = [raw EXCEPT ![storage][i] = Torn]
    BY <1>5 DEF snapshot_write
  <2>3. raw' \in [1..Storages -> [1..RawSlots -> Header \cup {Absent, Torn}]]
    BY <1>t, <2>2, RawStep
  <2>4. slot' \in 0..RawSlots /\ slot' \in 1..RawSlots BY <2>2, MasterConstants
  <2>5. TypeOK' BY <1>5, <1>t, <2>3, <2>4 DEF TypeOK, snapshot_write
  <2> QED BY <1>5, <2>1, <2>4, <2>5 DEF MInv, Copies, Repaired, Offered, Kept, Written, Admitted, snapshot_write
<1>6. CASE snapshot_verify
  <2>1. disk = damaged /\ platter = damaged /\ Safe(disk)
    BY <1>6, OfferedFound DEF snapshot_verify
  <2>2. slot \in 1..RawSlots BY <1>6 DEF MInv, Kept, snapshot_verify
  <2>3. CASE raw' = [raw EXCEPT ![storage][slot] = disk] /\ pc' = "confirm"
    <3>1. disk \in Header \cup {Torn} BY <1>t DEF TypeOK
    <3>2. Snapped(raw', disk)
          /\ raw' \in [1..Storages -> [1..RawSlots -> Header \cup {Absent, Torn}]]
      BY <1>t, <2>2, <2>3, <3>1, RawStep
    <3>3. TypeOK' BY <1>6, <1>t, <2>3, <3>2, MasterConstants DEF TypeOK, snapshot_verify
    <3>4. disk' = disk /\ platter' = platter /\ damaged' = damaged
      BY <1>6 DEF snapshot_verify
    <3> QED BY <2>1, <2>3, <3>2, <3>3, <3>4 DEF MInv, Copies, Repaired, Offered, Kept, Written, Admitted
  <2>4. CASE UNCHANGED raw /\ pc' = "admission"
    <3>1. TypeOK' BY <1>6, <1>t, <2>4, MasterConstants DEF TypeOK, snapshot_verify
    <3> QED BY <1>6, <2>1, <2>4, <3>1 DEF MInv, Copies, Repaired, Offered, Kept, Written, Admitted, snapshot_verify
  <2> QED BY <1>6, <2>3, <2>4 DEF snapshot_verify
<1>7. CASE snapshot_no_slot
  BY <1>7, <1>t DEF MInv, TypeOK, Copies, Repaired, Offered, Kept, Written, Admitted, snapshot_no_slot
<1>8. CASE cancel_chord
  BY <1>8, <1>t DEF MInv, TypeOK, Copies, Repaired, Offered, Kept, Written, Admitted, cancel_chord
<1>9. CASE write_master
  <2>1. disk = damaged /\ platter = damaged /\ Safe(disk)
    BY <1>9, OfferedFound DEF write_master
  <2>2. Snapped(raw, damaged) BY <1>9, <2>1 DEF MInv, Kept, write_master
  <2>3. disk' \in Header BY <1>9, <1>t, BuildType DEF TypeOK, write_master
  <2>4. CanonicalMaster(disk') BY <1>9 DEF write_master
  <2>5. TypeOK' BY <1>9, <1>t, <2>3 DEF TypeOK, write_master
  <2> QED BY <1>9, <2>1, <2>2, <2>4, <2>5 DEF MInv, Copies, Repaired, Offered, Kept, Written, Admitted, write_master
<1>10. CASE flush_master
  BY <1>10, <1>t DEF MInv, TypeOK, Copies, Repaired, Offered, Kept, Written, Admitted, flush_master
<1>11. CASE readback_master
  BY <1>11, <1>t DEF MInv, TypeOK, Copies, Repaired, Offered, Kept, Written, Admitted, readback_master
<1>12. CASE io_failure
  BY <1>12, <1>t DEF MInv, TypeOK, Copies, Repaired, Offered, Kept, Written, Admitted, io_failure
<1>13. CASE main_admission
  BY <1>13, <1>t DEF MInv, TypeOK, Copies, Repaired, Offered, Kept, Written, Admitted, main_admission
<1>14. CASE diagnostics_refresh
  BY <1>14, <1>t DEF MInv, TypeOK, Copies, Repaired, Offered, Kept, Written, Admitted, diagnostics_refresh
<1>15. CASE health_screen
  BY <1>15, <1>t DEF MInv, TypeOK, Copies, Repaired, Offered, Kept, Written, Admitted, health_screen
<1>16. CASE leave_health
  BY <1>16, <1>t DEF MInv, TypeOK, Copies, Repaired, Offered, Kept, Written, Admitted, leave_health
<1>17. CASE request_disable
  <2>1. disk.word \in [Words -> 0..(WordSize - 1)] BY <1>t DEF TypeOK, Header
  <2> DEFINE w == [disk.word EXCEPT !["osdStart"] = 0, !["osdSize"] = 0]
  <2>2. w \in [Words -> 0..(WordSize - 1)]
    <3>1. 0 \in 0..(WordSize - 1) BY MasterConstants
    <3> QED BY <2>1, <3>1
  <2>3. \A x \in Words \ {"osdStart", "osdSize"} : w[x] = disk.word[x]
    BY <2>1
  <2>4. disk' = Sealed(w) BY <1>17 DEF request_disable
  <2>5. disk' \in Header /\ disk'.word = w /\ disk'.sum = apa_checksum(w)
    BY <2>2, <2>4, SealedType
  <2>6. is_standard_apa_header(disk) /\ ~is_hybrid_gpt(disk)
    BY <1>17 DEF MInv, Admitted, request_disable
  <2>7. is_standard_apa_header(disk') /\ ~is_hybrid_gpt(disk')
    <3> HIDE DEF w
    <3> QED BY <2>3, <2>5, <2>6
            DEF is_standard_apa_header, is_hybrid_gpt, Words, Identity, Anchors
  <2>8. TypeOK'
    <3> HIDE DEF w
    <3> QED BY <1>17, <1>t, <2>5 DEF TypeOK, request_disable
  <2> QED BY <1>17, <2>7, <2>8 DEF MInv, Copies, Repaired, Offered, Kept, Written, Admitted, request_disable
<1>18. CASE restart_to_browser
  BY <1>18, <1>t, MasterConstants DEF MInv, TypeOK, Copies, Repaired, Offered, Kept, Written, Admitted, restart_to_browser, Restarted
<1>19. CASE PowerLoss
  BY <1>19, <1>t, MasterConstants DEF MInv, TypeOK, Copies, Repaired, Offered, Kept, Written, Admitted, PowerLoss, Restarted
<1>20. CASE UNCHANGED vars
  BY <1>20, <1>t DEF MInv, TypeOK, Copies, Repaired, Offered, Kept, Written, Admitted, vars
<1> QED
  BY <1>1, <1>2, <1>3, <1>4, <1>5, <1>6, <1>7, <1>8, <1>9, <1>10, <1>11, <1>12, <1>13, <1>14, <1>15, <1>16, <1>17, <1>18, <1>19, <1>20 DEF Next

\* The invariant, over every behaviour of start-up.
THEOREM Invariance == Spec => []MInv
BY InitInvariant, StepInvariant, PTL DEF Spec

\* Headers keep their shape and selections stay in range, whatever ps2hdd answers
\* and wherever the power fails.
THEOREM TypeCorrect == Spec => []TypeOK
<1>1. MInv => TypeOK BY DEF MInv
<1> QED BY Invariance, <1>1, PTL

\* The write of the rebuilt master comes after a verified snapshot of the very
\* sectors it replaces (repair_snapshot_save before the chord), and no later
\* start-up overwrites that file.
THEOREM Snapshots == Spec => []SnapshotBeforeWrite
<1>1. MInv => SnapshotBeforeWrite BY DEF MInv, Repaired, Snapped, SnapshotBeforeWrite
<1> QED BY Invariance, <1>1, PTL

\* A restart after a repair follows a durable canonical master, and an admitted
\* session is never offered another raw write of the master.
THEOREM Past == Spec => []PastRecovery
<1>1. MInv => RestartOnlyWhenDurable BY DEF MInv, Written, RestartOnlyWhenDurable
<1>2. MInv => HealthNeverRewritesMaster
  BY StandardNotSafe DEF MInv, Admitted, HealthNeverRewritesMaster, Safe
<1> QED BY Invariance, <1>1, <1>2, PTL DEF PastRecovery

-----------------------------------------------------------------------------
(* What recovery writes.                                                   *)

\* Division with remainder.
LEMMA Remainder ==
  ASSUME NEW n \in Nat \ {0}, NEW a \in Int
  PROVE  a \div n \in Int /\ a % n \in Int /\ a = (a % n) + n * (a \div n)
<1>1. a = (a % n) + n * (a \div n) BY SMTT(30)
<1>2. a \div n \in Int BY SMTT(30)
<1>3. a % n \in Int BY SMTT(30)
<1> QED BY <1>1, <1>2, <1>3

\* Equal remainders of numbers less than the modulus apart.
LEMMA SameRemainder ==
  ASSUME NEW n \in Nat \ {0}, NEW s \in Int,
         NEW a \in 0..(n - 1), NEW b \in 0..(n - 1), (s + a) % n = (s + b) % n
  PROVE  a = b
<1>1. PICK m \in Int, q \in Int : s + a = m + n * q /\ m = (s + a) % n
  BY Remainder, s + a \in Int
<1>2. PICK r \in Int : s + b = m + n * r
  <2>1. s + b = ((s + b) % n) + n * ((s + b) \div n) /\ (s + b) \div n \in Int
    BY Remainder, s + b \in Int
  <2> QED BY <1>1, <2>1
<1>3. a - b = n * q - n * r BY <1>1, <1>2
<1>4. PICK k \in Int : k = q - r OBVIOUS
<1>5. a - b = n * k BY <1>3, <1>4
<1>6. n * k < n /\ n * k > 0 - n BY <1>5
<1>7. k = 0 BY <1>6
<1> QED BY <1>5, <1>7

\* The checksum tells apart two masters that differ in one word.
LEMMA OneWord ==
  ASSUME NEW f \in [Words -> 0..(WordSize - 1)], NEW g \in [Words -> 0..(WordSize - 1)],
         NEW y \in Words, \A z \in Words \ {y} : f[z] = g[z],
         apa_checksum(f) = apa_checksum(g)
  PROVE  f = g
<1>1. \A x \in Words : f[x] \in Int /\ g[x] \in Int BY MasterConstants
<1> DEFINE total(w) == w["magic"] + w["id"] + w["sony"] + w["start"] + w["type"]
               + w["version"] + w["osdStart"] + w["osdSize"] + w["pcsig"] + w["rest"]
<1>2. total(g) \in Int /\ g[y] \in Int BY <1>1 DEF Words, Identity, Anchors
<1>3. PICK s \in Int : s = total(g) - g[y]
  <2> HIDE DEF total
  <2> QED BY <1>2
<1>4. total(g) = s + g[y]
  <2> HIDE DEF total
  <2> QED BY <1>2, <1>3
<1>5. total(f) = s + f[y]
  <2>1. total(f) - f[y] = total(g) - g[y]
    <3>1. CASE y = "magic" BY <1>1, <3>1 DEF Words, Identity, Anchors
    <3>2. CASE y = "id" BY <1>1, <3>2 DEF Words, Identity, Anchors
    <3>3. CASE y = "sony" BY <1>1, <3>3 DEF Words, Identity, Anchors
    <3>4. CASE y = "start" BY <1>1, <3>4 DEF Words, Identity, Anchors
    <3>5. CASE y = "type" BY <1>1, <3>5 DEF Words, Identity, Anchors
    <3>6. CASE y = "version" BY <1>1, <3>6 DEF Words, Identity, Anchors
    <3>7. CASE y = "osdStart" BY <1>1, <3>7 DEF Words, Identity, Anchors
    <3>8. CASE y = "osdSize" BY <1>1, <3>8 DEF Words, Identity, Anchors
    <3>9. CASE y = "pcsig" BY <1>1, <3>9 DEF Words, Identity, Anchors
    <3>10. CASE y = "rest" BY <1>1, <3>10 DEF Words, Identity, Anchors
    <3> QED BY <3>1, <3>2, <3>3, <3>4, <3>5, <3>6, <3>7, <3>8, <3>9, <3>10
           DEF Words, Identity, Anchors
  <2>2. total(f) \in Int /\ f[y] \in Int BY <1>1 DEF Words, Identity, Anchors
  <2> HIDE DEF total
  <2> QED BY <1>3, <2>1, <2>2
<1>6. (s + f[y]) % WordSize = (s + g[y]) % WordSize
  <2>1. total(f) % WordSize = total(g) % WordSize BY DEF apa_checksum
  <2> HIDE DEF total
  <2> QED BY <1>4, <1>5, <2>1
<1>7. WordSize \in Nat \ {0} /\ f[y] \in 0..(WordSize - 1) /\ g[y] \in 0..(WordSize - 1)
  BY MasterConstants
<1>8. f[y] = g[y] BY <1>6, <1>7, SameRemainder
<1> QED BY <1>8

\* What a healthy master looks like.
LEMMA HealthyShape ==
  ASSUME NEW h \in {Healthy(0, 0), Healthy(2, 1)}
  PROVE  /\ h.word \in [Words -> 0..(WordSize - 1)]
         /\ h = Sealed(h.word) /\ h.sum = apa_checksum(h.word)
         /\ \A x \in Identity \cup Anchors : h.word[x] = 0
<1>1. ASSUME NEW a \in {0, 2}, NEW b \in {0, 1}, h = Healthy(a, b)
      PROVE  /\ h.word \in [Words -> 0..(WordSize - 1)]
             /\ h = Sealed(h.word) /\ h.sum = apa_checksum(h.word)
             /\ \A x \in Identity \cup Anchors : h.word[x] = 0
  <2> DEFINE w == [x \in Words |-> IF x = "osdStart" THEN a
                                   ELSE IF x = "osdSize" THEN b ELSE 0]
  <2>1. {0, 1, 2} \subseteq 0..(WordSize - 1) BY MasterConstants
  <2>2. w \in [Words -> 0..(WordSize - 1)] BY <2>1
  <2>3. h = Sealed(w) BY <1>1 DEF Healthy
  <2>4. h.word = w /\ h.sum = apa_checksum(w) BY <2>2, <2>3, SealedType
  <2>5. \A x \in Identity \cup Anchors : w[x] = 0 BY DEF Words, Identity, Anchors
  <2> QED BY <2>2, <2>3, <2>4, <2>5
<1> QED BY <1>1

\* There are finitely many words to damage.
LEMMA FiniteWords == IsFiniteSet(Words \cup {"sum"})
<1> DEFINE a == {"magic"} \cup {"id"} \cup {"sony"}
           b == a \cup {"start"} \cup {"type"} \cup {"version"}
           c == b \cup {"osdStart"} \cup {"osdSize"} \cup {"pcsig"} \cup {"rest"} \cup {"sum"}
<1>1. IsFiniteSet(a) BY FS_Singleton, FS_AddElement
<1>2. IsFiniteSet(b)
  <2> HIDE DEF a
  <2> QED BY <1>1, FS_AddElement
<1>3. IsFiniteSet(c)
  <2> HIDE DEF b
  <2> QED BY <1>2, FS_AddElement
<1>4. c = Words \cup {"sum"} BY DEF Words, Identity, Anchors
<1> QED BY <1>3, <1>4

\* With at most two words damaged, a header the analysis calls safe to patch is
\* rebuilt as the undamaged one: a second damaged word would show in the checksum.
LEMMA Rebuilt ==
  ASSUME MaxDamage \in 0..2, orig \in {Healthy(0, 0), Healthy(2, 1)}, Damaged(orig),
         Safe(damaged)
  PROVE  apa_repair_build_header(damaged) = orig
<1> DEFINE ow == orig.word
<1>1. PICK hit \in SUBSET (Words \cup {"sum"}) :
         /\ Cardinality(hit) <= MaxDamage
         /\ \E v \in [hit -> Values] :
               LET w == [x \in Words |-> IF x \in hit THEN v[x] ELSE ow[x]]
               IN  damaged \in {Sealed(w),
                          [word |-> w, sum |-> IF "sum" \in hit THEN v["sum"] ELSE orig.sum]}
  BY DEF Damaged
<1>2. PICK v \in [hit -> Values] :
         LET w == [x \in Words |-> IF x \in hit THEN v[x] ELSE ow[x]]
         IN  damaged \in {Sealed(w),
                          [word |-> w, sum |-> IF "sum" \in hit THEN v["sum"] ELSE orig.sum]}
  BY <1>1
<1> DEFINE w == [x \in Words |-> IF x \in hit THEN v[x] ELSE ow[x]]
           s == IF "sum" \in hit THEN v["sum"] ELSE orig.sum
<1>3. /\ ow \in [Words -> 0..(WordSize - 1)]
      /\ orig = Sealed(ow) /\ orig.sum = apa_checksum(ow)
      /\ \A x \in Identity \cup Anchors : ow[x] = 0
  BY HealthyShape
<1>4. w \in [Words -> 0..(WordSize - 1)] BY <1>3, MasterConstants
<1>5. Sealed(w).word = w /\ Sealed(w).sum = apa_checksum(w) BY <1>4, SealedType
<1>6. damaged = Sealed(w) \/ damaged = [word |-> w, sum |-> s] BY <1>2
<1>7. PICK x \in Identity \cup Anchors :
         /\ damaged.word[x] # 0
         /\ apa_repair_analyze(damaged).fixes = {x}
         /\ damaged.sum # apa_checksum(damaged.word)
         /\ apa_checksum(apply_known_fixes(damaged.word, {x})) = damaged.sum
  BY SafeShape
<1>8. damaged.word = w /\ damaged.sum = s
  <2> HIDE DEF w, s
  <2> QED BY <1>5, <1>6, <1>7
<1> DEFINE f == apply_known_fixes(w, {x})
<1>9. f \in [Words -> 0..(WordSize - 1)] BY <1>4, FixedType
<1>10. apa_checksum(f) = s /\ apa_repair_build_header(damaged) = Sealed(f)
  <2> HIDE DEF w, s
  <2> QED BY <1>7, <1>8 DEF apa_repair_build_header
<1>11. x \in Words /\ x # "sum" BY DEF Words, Identity, Anchors
<1>12. x \in hit
  <2>1. w[x] # 0 BY <1>7, <1>8
  <2> QED BY <1>3, <1>11, <2>1
<1>13. \A z \in Words : z \notin hit \/ z = x => f[z] = ow[z]
  <2>1. \A z \in Words : z \notin hit => w[z] = ow[z] OBVIOUS
  <2>2. \A z \in Words : f[z] = IF z = x THEN 0 ELSE w[z] BY DEF apply_known_fixes
  <2> HIDE DEF w, f
  <2> QED BY <1>3, <1>12, <2>1, <2>2
<1>14. hit \ {x} = {} \/ \E y : hit \ {x} = {y}
  <2>1. IsFiniteSet(hit) BY FiniteWords, FS_Subset
  <2>2. IsFiniteSet(hit \ {x}) /\ Cardinality(hit \ {x}) = Cardinality(hit) - 1
    BY <1>12, <2>1, FS_RemoveElement
  <2>3. Cardinality(hit) \in Nat /\ Cardinality(hit \ {x}) \in Nat
    BY <2>1, <2>2, FS_CardinalityType
  <2>4. Cardinality(hit \ {x}) \in {0, 1} BY <1>1, <2>2, <2>3
  <2> QED BY <2>2, <2>4, FS_EmptySet, FS_Singleton
<1>15. f = ow
  <2>1. CASE hit \ {x} \subseteq {"sum"}
    <3>1. \A z \in Words : z \notin hit \/ z = x
      BY <2>1 DEF Words, Identity, Anchors
    <3> HIDE DEF f, ow
    <3> QED BY <1>3, <1>9, <1>13, <3>1
  <2>2. CASE ~(hit \ {x} \subseteq {"sum"})
    <3>1. PICK y : hit \ {x} = {y} BY <1>14, <2>2
    <3>2. y \in Words /\ y # "sum" BY <2>2, <3>1
    <3>3. "sum" \notin hit BY <1>11, <3>1, <3>2
    <3>4. apa_checksum(f) = apa_checksum(ow) BY <1>3, <1>10, <3>3
    <3>5. \A z \in Words \ {y} : f[z] = ow[z] BY <1>13, <3>1
    <3> HIDE DEF f, ow
    <3> QED BY <1>3, <1>9, <3>2, <3>4, <3>5, OneWord
  <2> QED BY <2>1, <2>2
<1> QED BY <1>3, <1>10, <1>15

\* Every step keeps what recovery may write: only the rebuild of the header it found.
LEMMA RestorableStep == MInv /\ Restorable /\ [Next]_vars => Restorable'
<1> SUFFICES ASSUME MInv, Restorable, [Next]_vars PROVE Restorable'
  OBVIOUS
<1>1. CASE write_master
  <2>1. disk = damaged /\ Safe(disk) BY <1>1, OfferedFound DEF write_master
  <2> QED BY <1>1, <2>1 DEF Restorable, write_master
<1>2. CASE request_disable
  <2>1. MInv' BY StepInvariant
  <2>2. is_standard_apa_header(disk') /\ disk' = damaged'
    BY <1>2, <2>1 DEF MInv, Admitted, request_disable
  <2>3. ~Safe(damaged') BY <2>2, StandardNotSafe
  <2> QED BY <2>2, <2>3 DEF Restorable
<1>3. CASE PowerLoss
  <2>1. platter \in {damaged, orig} /\ UNCHANGED <<orig, damaged>> /\ disk' \in {disk, platter}
    BY <1>3 DEF MInv, Copies, Restorable, PowerLoss
  <2> QED BY <2>1 DEF Restorable
<1>4. CASE UNCHANGED <<disk, orig, damaged>>
  BY <1>4 DEF Restorable
<1>5. write_master \/ request_disable \/ PowerLoss \/ UNCHANGED <<disk, orig, damaged>>
  BY DEF Next, vars, wrap_status, cycle_storage, cancel_analysis, snapshot_reuse,
         snapshot_write, snapshot_verify, snapshot_no_slot, cancel_chord, flush_master,
         readback_master, io_failure, main_admission, diagnostics_refresh, health_screen,
         leave_health, restart_to_browser
<1> QED BY <1>1, <1>2, <1>3, <1>4, <1>5

\* With at most two words wrong, compensating pairs and recomputed checksums
\* included, start-up recovery leaves the master it found or the undamaged one, on
\* the platter too, and through any sequence of restarts and power losses.
THEOREM Restores ==
  ASSUME MaxDamage \in 0..2
  PROVE  Spec => []RepairRestores
<1>1. Init => Restorable
  <2> SUFFICES ASSUME Init PROVE Restorable
    OBVIOUS
  <2>1. Safe(damaged) => apa_repair_build_header(damaged) = orig BY Rebuilt DEF Init
  <2> QED BY <2>1 DEF Init, Restorable
<1>2. MInv /\ Restorable => RepairRestores
  BY DEF MInv, Copies, Restorable, RepairRestores
<1> QED BY Invariance, <1>1, RestorableStep, <1>2, PTL DEF Spec
=============================================================================
