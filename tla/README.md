# Verification of FHDB Bootstrap Manager

TLA+ models of the PlayStation 2 program in `src/`, the TLC runs that check
them, and TLAPS proofs. FHDB Bootstrap Manager writes to a console's internal
hard disk: it installs and removes the boot code of FreeHDBoot, repairs damaged
APA partition tables and installs games in the HDLoader format. The disk is the
user's only copy, the drive has a write-back cache, the console can be switched
off at any moment, and there is no journal below the program: the order of its
writes, flushes, read-backs and journal entries is all that protects the data.

## 1. Inventory

| Part | State it keeps | Operations | Hard behaviour |
|---|---|---|---|
| HDL transaction record (`hdl_transaction.c`) | stage, progress, identity of the source | encode, decode, set_stage | monotone stages; a torn or forged record |
| HDL installer (`hdl_installer_ps2.c`, `hdl_tools/*.inc`) | journal `HDLINSTALL.TXN`/`.NEW` on USB; partitions, metadata and payload on the HDD | new install, resume, remove incomplete, delete game | power loss between any two writes, lost cache, another ISO behind the path, failing clean-up |
| `hdl0:` stream (`iop/hdl_stream/hdl_stream.c`) and EE fast I/O (`hdl_tools/fast_io.inc`) | two staging buffers, prefetch request, three semaphores, position; pump flags of the EE | source→EE, pump, target→EE, seek, flush, commit metadata, close | three threads, shared descriptor, shutdown |
| HDL catalogue and planning (`catalog.inc`, `hdl_partition.c`, `hdl_iso.c`) | none (pure) | APA walk, choose slice, plan, metadata image, target name | 32-bit arithmetic, plan limits |
| Bootstrap transaction (`bootstrap_transaction*.c`, `hdd_write.c`) | boot payload sectors, OSD pointer of the master header | write payload verified, set pointer, verify | payload before pointer; flush failing after the pointer is set |
| Bootstrap controller, backups (`bootstrap_controller_ps2.c`, `header_backup.c`, `rescue_storage.c`, `rescue_image.c`, `capsule_format.c`) | numbered backup files on memory card and USB | backup, disable, restore pointer, restore payload, install | backup is mandatory; slots are never overwritten; partial files |
| APA repair (`apa*.c`, `hdd_repair_ps2.c`, `repair_*.c`, `hdd_recovery_wrap.c`) | master header, repair snapshot | check, plan, apply, recover at start | interrupted repair, recovery once per start |
| APA forensics (`apa_forensic.c`, `hdd_forensic_repair_ps2.c`, `forensic_*.c`) | candidate headers, forensic snapshot | scan, rank, plan, commit (master last), roll back | several sectors, partial failure |
| Bounds (`hdd_bounds.c`) | none | LBA range checks | overflow |
| Boot chain, report, KELF, signing | none | read-only diagnosis, parsing, crypto | none that needs a model |
| UI: menus, video mode, pad activity, disk status, log | current screen, nesting counters, keep-or-revert timer | menus | confirmation timeout, nesting |
| Host tools, tests | – | – | – |

The parts call each other in one direction: a menu runs a controller, the
controller runs a transaction, which calls the storage helpers (USB) and
`fileXio` (HDD, over RPC to the IOP). There is one EE thread; concurrency exists
inside the IOP (serving thread and prefetch worker) and between the console and
what the user does to it (power, USB stick, other software that uses the disk).

What makes each part correct:

* Installer: a game a loader can see is one whole image; the journal never
  claims more than a power loss would leave; nothing is removed that the
  journal does not own; every run ends.
* Stream: no staging buffer is used by two threads; signals are balanced; each
  block counted as copied is on the target; memory is freed after the worker
  ended.
* Bootstrap: the pointer is set only over a verified payload, a backup exists
  before the first write, an interrupted operation leaves a bootable or a
  disabled disk.
* Repair: the header on disk is the old one or the repaired one, and the
  snapshot suffices to go back.
* Forensic repair: a plan restores the ring or says that it is a guess, the
  master changes last, and a commit that stopped can be taken up again.
* Catalogue and planning: the chain is counted exactly whatever is on the disk,
  and plan, stream and metadata agree on where each sector lies.
* Video and status: an unconfirmed mode is never kept, and lamp and status line
  tell the truth.

The hazards behind these are in `PROJECT.json`, each at the line where it bites.

## 2. Plan

1. `HdlTransaction`, `HdlInstall`, `HdlCatalog` (abstract), `MCHdlInstall`; done.
2. `HdlStream`; done.
3. `HdlStreamProofs`, `HdlInstallProofs`, the refinement of `HdlCatalog` included; done.
4. `Bootstrap`, `MCBootstrap`, `BootstrapProofs`: payload, pointer, backup, restore
   and disable with a write-back drive and power loss; done.
5. `MasterRepair` (start-up recovery, admission, health); `ApaForensic`,
   `ForensicRepair`; with `MasterRepairProofs` and `ForensicRepairProofs`; done.
6. `HdlPlan` (partition plan, addresses, metadata) and `ApaCatalog` (chain walk)
   with `HdlPlanningProofs`; done.
7. Small machines: `VideoMode`, `DiskStatus`, with their proof modules; done.
8. Proofs of the planner in `ApaForensic`, part one of `ForensicRepairProofs`; done
   but for `AutomaticRestores` (section 5 says why).
9. Not begun: boot chain diagnosis, ISO directory parser, splitting the stream's
   fallback reads.

## 3. Modules and code

**`HdlTransaction`** is `hdl_transaction.c`: `transaction_valid`,
`hdl_transaction_transition_allowed` and `hdl_transaction_set_stage`. A record is
stage, progress and an image that stands for all that is written once.

**`HdlInstall`** has one action per step between which the console can lose
power. `txn` and `new` are the two journal files, each absent, torn or a record.
For every target, `parts` counts its APA partitions, `disk` is what a read
returns and `platter` what survives a power loss; a flush makes them equal and
`PowerLoss` keeps any subset of the blocks that differ. `journal_save` is the
subroutine `SaveOpen`, `SaveWrite`, `SaveRemove`, `SaveRename` with a
continuation in `cont`; each can fail where the code can, and the results the
code ignores are ignored. `execute_transaction` is `Preflight` …
`FinishMetadata`; every step has a second disjunct, its error return. The menu
entries are `BeginNewInstall`, `Resume`, `RemoveIncomplete` and `DeleteGame`;
`SwapSource` and `RemoveCorruptJournal` are the user's.
A payload block is named by the image it was read from, so digest equality is
equality of contents (SHA-256 is taken to be collision free) while the
fingerprint, which covers only the size and both ends, is a function that two
images may share. `Identity` stands for what `hdl_remove_incomplete_target_journal`
compares of a metadata block: title, start-up name, disc type and number of partitions. APA changes (create, add sub, remove) are taken as durable
when the call returns: the APA driver journals them itself. A journal file
write is durable when it returns, as the code's read-back presumes.

**`HdlCatalog`** is what the installer promises to a loader: games appear whole,
never change in place and leave whole. `PublishesAtomically` maps what a power
loss would leave at any moment to it.

**`HdlStream`** is `hdl_stream.c` with the calls `copy_payload` and
`verify_target_digest` make through `fast_io.inc`. The EE, the thread serving it
and the worker interleave at every point where they touch shared state: the two
semaphore handshakes, the staging buffers, the file pointer of the shared
descriptor. One block is one request (`HDL_INSTALL_IO_BYTES`, which is at most the
staging size); block `b` of the source has content `b`, and a buffer that is being
filled holds `Garbage`. Any device operation can fail, the seeks of the copy
included (`SeekFailed`).

**`Bootstrap`** is the bootstrap menu with everything below it. `Begin` is the menu's
choice, taken by the RAM copy `header`; `HeaderSlot` and `HeaderWrite` are
`header_backup_save`, `Acquire`, `RescueSlot` and `RescueWrite`
`rescue_storage_save_current`, `Confirm` the chord (and, in an install, the
signing), `WriteUnit` … `VerifyPayload` `hdd_write_payload_verified`, and
`SetPointer`, `SetFlush`, `VerifyPointer` the pointer transaction. `op` says which
of the four controllers (or the legacy restore) is running. As in the installer,
`disk` is what a read returns and `platter` what a power loss leaves. A pointer is its
length in transfer units, 0 is disabled, `OutOfBounds` any pointer
`hdd_validate_payload_bounds` rejects; a program is a model value whose first unit
is its KELF header. The drive may store a unit wrongly and report success, since
the comparison is there for that. `PowerOff` is also the only way out of the
fatal screen, which shuts DEV9 or the console down. `StatMayFail` lets
`fileXioGetStat` fail for a file that exists; `Damage` is what may be wrong with a
capsule found at the start, `Garbled` being one whose flags contradict its payload
fields.

**`MasterRepair`** is the start of the program: the hook around the first
`HDIOC_STATUS` (`wrap_status`), the analysis screen, the HDDRAW snapshot
(`snapshot_reuse`, `snapshot_write`, `snapshot_verify`, `snapshot_no_slot`), the chord, the
write of sectors 0 and 1 with flush and read-back, then the fail-closed admission of
`main.c` and the health screen. A header is one word per field the code tells apart
plus its stored checksum; identity and anchor words hold the difference from the
canonical value, so that an additive checksum, compensating pairs of errors and a
checksum recomputed over the damage are all in the model. `damaged` and `orig` are
history: what the disk held at the start and before the damage.

**`ApaForensic`** is the planner of `apa_forensic.c`: `inspect_header` with its weights,
`add_candidate` with the capacity of the node table, the forward, reverse and
geometry maps, `evaluate_map`, and `apa_forensic_build_repair_plan`. They are operators
over a function from LBA to header. Each loop of the code is a fold of one named step:
`grid_sample` over the sampling grid, `visit_node` over the cursor of the node table and
`follow_all` over the links of a node, `extend_forward` and `extend_reverse` along a
map. The number of steps is the code's bound, the size of the node table, so a walk that
goes round ends where the code's does. The maps are built and rated over the table in which the
old free-space headers are already marked dormant. The damage is chosen once, so that the
properties compare a plan with the undamaged disk. `Healthy` says what an undamaged disk
is: sound headers of any type and identifier (sub-partitions, whose identifier is empty,
included), a ring of two partitions or more in the order of their places, and
otherwise only remnants inside free space. `MCApaForensic` has the layouts and the kinds
of damage.

**`ForensicRepair`** is the session around it: a scan kept across screens
(`run_scan`), the plan screen, the HDDMETA snapshot, and the commit: interior
headers first, the master last, each compared with the scan, written, flushed and
read back. `committed` is the set of plan positions already written and read back, and the
next one is chosen among `Remaining` by `Position`: lowest first, the master when
nothing else is left. A snapshot file is `Absent`, `Torn` or a whole `Image`.
`set_osd_pointer` is the other menu that changes the master between scan
and commit. Links and checksum share one sector: a header write is atomic against
power loss, the order of several is not. `base` is the disk without repairs and
`goal` the ring of the last commit begun, with `goal.master` set once its master has
been written; `MasterLast` says that from then on the interior links are durable.

**`HdlPlan`** follows one image from probe to loader: size checks and title
(`hdl_iso_probe`), the plan (`plan_begin`, `plan_slice`, `plan_end`),
`create_partitions`, the copy in requests that may cross a border
(`copy_payload`, `stream_transfer`), and `hdl_metadata_build`. Sizes are in 512-byte
sectors, scaled down; the 32-bit limits are `PayloadLimit` and `LbaLimit`. Where a
partition lands is ps2hdd's choice. `LoaderLba` is the loader's side (external):
what the metadata format tells it.

**`ApaCatalog`** is the loop of `scan_apa_catalog_for_target`. A header is chosen when it
is first read and kept, so that every disk, loops and false links included, is
covered without enumerating disks. Its specification is `ScanSpec`, with names of its
own, so that one proof module can extend it together with `HdlPlan`.

**`VideoMode`** is the switch and native recovery of `gs_ui_ps2.c`, the countdown, the
startup preference and `HDDMAN.CFG`. A handler that meets time-outs is the set of its
outcomes, each with the time-outs it cost; `faults` counts those of the session. `confirmed`, `rejected` and
`endorsed` are history.

**`DiskStatus`** is the stack of status scopes with its overflow, the write warning,
the two coalescing counters, and the ANALOG lamp with a pad that may refuse a command.
Callers nest scopes and brackets correctly, as all of them do.

**`HdlInstallProofs`, `HdlStreamProofs`, `BootstrapProofs`, `MasterRepairProofs`,
`ForensicRepairProofs`, `HdlPlanningProofs`, `VideoModeProofs`** and **`DiskStatusProofs`**
hold the theorems. Definitions named `Bug_…` are mutated forms of the definition that follows
them; no specification uses them.

## 4. Runs

| Run | Bounds | What it shows |
|---|---|---|
| `hdl_install` | 3 images (two share fingerprint and name), 2 targets, 2 blocks, 2 partitions, journal every 2 blocks | all safety properties of the installer, the refinement of `HdlCatalog`, and that every run ends |
| `hdl_stream` | image of 4 blocks, any resume point, any surviving prefix | races, balance, correctness of the copy, closing |
| `bootstrap` | 2 programs of 1 and 2 units in an area of 2, any pointer on the disk, a legacy backup that may be enabled, out of bounds or foreign, a capsule that may be torn or foreign, stat reliable | ordering of payload, pointer and backup; a failed program leaves the pointer disabled; backups are kept |
| `apa_planner` | drive of 16 sectors sampled every 4, four layouts, up to 2 headers damaged in 6 ways, 4 node slots | a plan restores, converges, leaves healthy disks alone and never comes from a truncated scan |
| `forensic_repair` | the plain layout, up to 2 headers damaged, 2 snapshot files | snapshot, master last, resumption, nothing foreign lost |
| `master_repair` | up to 2 damaged words of 10, values 0, 1, 2, 5 mod 64, 2 storages with 2 files | recovery writes the undamaged master or nothing |
| `hdl_plan` | images around every boundary, 7 drive limits, sizes 8, 16, 32, up to 3 parts, requests of 6 sectors | plan, stream, status line and metadata agree |
| `apa_catalog` | 4 LBAs, lengths 1 and 2, any header anywhere | the walk meets each header once and reports the chain exactly |
| `video_mode` | 2 alternate modes, countdown 2, 3 time-outs a session | no unconfirmed mode is kept, saved or left; one time-out never leaves the output off |
| `disk_status` | stack of 2, 4 scopes or brackets open, divisors 3, 2, 4 | lamp, warning and progress are right |
| `valid_game_refused` | 1 block, 1 partition | the removal deletes a complete game |
| `bootstrap_damaged_capsule` | a garbled capsule | the weaker restore goes ahead |

`TypeOK` of the modules that define one holds under the same bounds; for installer, stream,
bootstrap and both repairs it is a theorem, and no run lists it. The other configurations reproduce the further
statements of the findings below (`tlc -config <file> <module>`).

The bounds are enough because: two images with one fingerprint are what a
mixture needs; a second target is what a wrong removal needs; two blocks with an
interval of two give a copied block that is not journalled, and one that is; two
partitions give an allocation that is half done. In the stream, four blocks let
both buffers be used twice, so that each hand-over follows the other and the
end of the source is met with a request outstanding.

In the bootstrap, two programs of different length are what a mixture, and a
capsule longer than its program, need; the two slots of each kind are the code's
own number, and every behaviour that uses them up is within reach because there
is no bound on the number of operations or power losses.

In `apa_planner`, two damaged headers are what it takes for two errors to support each
other, five headers are one more than there are node slots, and each kind of
evidence (checksum, magic, links, geometry) can be lost. `WordSize` stays above the
sum of two links, so that a sum that wraps is not mistaken for one that does not. In
`master_repair`, two words are what compensation needs. In `hdl_plan` the limits lie
just below, at and above the sums of sizes, so that the last slice is full, nearly full
and one sector over, and six sectors per request cross every border. In `video_mode`
three time-outs a session are one for the switch, one for the recovery, and one for what is
drawn or switched after that. In
`disk_status` two scopes beyond the stack are what the overflow counter needs.
Deadlock is not checked
for `apa_planner`, `hdl_plan`, `apa_catalog` and `disk_status`, where a walk, a plan or a
session simply is over.

Fairness. The installer is one thread that is not preempted by anything of its
own, so weak fairness of the run's and the journal's steps is what the code
gives; neither the user nor the power is fair. A read, write or flush returns,
with an error if need be. In the stream each thread is weakly fair: the IOP
scheduler runs a ready thread, and the worker's priority is never starved
because the serving thread blocks on devices. In `VideoMode` the
countdown and what follows it are weakly fair: the loop polls with bounded waits and
needs nobody at the pad. Deadlock is not checked in
`hdl_stream` because the run ends when the stream is closed; `StreamCloses` is
stronger.

### Findings

The second and the sixth are runs of the project; each of the others has a
configuration of its own, named here.

* A game is exposed before the journal says so, and stays so when the save after
  the commit fails; the stop screen says it cannot be
  (`HdlNoMetadataBeforeCommitted.cfg`).
* "Remove incomplete allocation" takes that game for a leftover and deletes it,
  although the confirmation says a valid game will be refused
  (`ValidGameRefused`).
* Between the creation of the main partition and the clearing of its metadata
  block, and after a failing clean-up, an empty allocation shows an old game
  (`HdlIncompleteNeverLooksComplete.cfg`). `ExposedIsWhole` therefore excepts targets
  in `raw`.
* A save that fails while `HDLINSTALL.NEW` is the only copy destroys the journal
  (`HdlJournalPreserved.cfg`).
* A `fileXioGetStat` that fails for any reason counts as "no such file": the save
  truncates an existing backup, which the README calls non-overwriting
  (`BootstrapNonOverwriting.cfg`).
* `rescue_image_validate` adds -190 to the code of `rescue_capsule_decode`; -10 and
  -12 become `RESCUE_STORAGE_NOT_FOUND` and `RESCUE_STORAGE_HEADER_ONLY`, so a
  capsule damaged in its flags lets the pointer-only restore go ahead
  (`WeakerRestoreBlocked`, run `bootstrap_damaged_capsule`). Without `Garbled` and with a reliable
  stat the guard of the restore is that statement, so no other run lists it.
* A link error under a valid checksum can be planned as automatic-safe, because
  `patch_checksum_corroborated` (`apa_forensic.c:754`) does not ask whether the stored
  checksum was stale; `docs/HDD_FIXTURES.md:160` says it is not promoted
  (`ApaChecksumValid.cfg`). `AutomaticRestores` is therefore about stale checksums.
* `build_reverse_map` (`apa_forensic.c:481`) does not mark the master as seen; a damaged
  link back to it puts it into the map twice, which is no chain as
  `docs/FORENSIC_RECOVERY.md:124` describes (`ApaMapListsHeaderOnce.cfg`).
* HDDMETA files, like the backups, are lost to a stat that fails for an existing file
  (`forensic_snapshot.c:166`; `docs/FORENSIC_RECOVERY.md:302` says they are "not silently
  overwritten"; `ForensicSnapshotsKept.cfg`).
* The boot chain record starts with failed results (`main.c:81`), so the health screen of
  a healthy enabled disk recommends to clear its pointer until a diagnosis has run;
  `docs/HDD_FIXTURES.md:19` says "no repair" (`MasterHealthyNotRecommended.cfg`).
* A master beyond deterministic repair ends in the fatal screen (`main.c:178-205`): the
  forensic menu is not "independent of normal `ps2hdd` admission" as
  `docs/ROADMAP.md:81` says (`MasterForensicReachable.cfg`).
* A volume title with a control character is accepted by the metadata builder and
  rejected by the parser (`hdl_partition.c:56`, `133`): the installed game cannot be
  managed, although it meets the conditions of `docs/HDL_INSTALLER_DESIGN.md:85-87`
  (`HdlInstalledManageable.cfg`).
* After a failed save of `native` the rejected mode is the preference again
  (`manager_menu_ps2.c:352`) and the next save of a theme or font writes it;
  `docs/GS_UI_0.4.md:56-57` says it cannot persist (`VideoRejected.cfg`).
* A native bootstrap that times out (`gs_ui_ps2.c:1123`) leaves the output disabled with
  `video_mode` already native, so nothing enables it again; `README.md:172` says a setup
  failure restores the native output (`PresentedIsVisible`, `VideoVisible.cfg`). `OutputOn`, a part of
  `MenusReadable`, is what is left of that promise: one time-out never leaves the
  output off, and an alternate mode is never without output.
* The write warning requested before the first scope is dropped
  (`disk_status_ps2.c:195`), which the comment at `hdl_installer_ps2.c:604-606` takes for
  granted (`DiskArming.cfg`).

## 5. Proofs

`HdlStreamProofs` proves, for every image length, `TypeOK`, `NoStageRace`,
`OneRequestInFlight`, `WorkerEndsBeforeFree`, `CopiedMeansWritten`,
`ReplyCarriesNextBlock` and `NeverRewritten`. None is inductive by itself. The
invariant `IInv` adds to `TypeOK`
* `InStep`: how the positions of the EE and of the stream and the number of hashed
  and copied blocks are related at each program point;
* `Handshake`: where the one outstanding request is (request semaphore, worker,
  done semaphore), and what `stop` implies;
* `Ownership`: which buffer index a request holds when the serving thread works;
* `Contents`: what a buffer holds when it is handed over, and that the shared file
  pointer is at the prefetched offset while the worker is between its seek and
  its read. This last part is why the EE's seek is harmless.

`HdlInstallProofs` proves all safety properties of the installer, for any sets of images
and targets, any numbers of blocks and partitions and any journal interval. `IInv` adds to
`TypeOK` the stage a record has at each program point (`StageAt`), that every record in RAM
or in a journal file is valid (`Valid`), and where an allocation is while it grows
(`Allocating`); `OnlyOwnedRemoved` follows from it. The properties of the data need `DInv`:
* `Ordered`: the two journal files and the record in RAM belong to one transaction and
  follow each other, so whichever file survives, `journal_load` returns no later record
  than the run has reached;
* `Kept`: every record a restart could load, the one being saved included, is backed by
  its target: without metadata below PAYLOAD_VERIFIED, whole and durable from there on;
* `Whole`: metadata that can be seen, now or after a power loss, stands for a payload
  that is whole and durable;
* `Pending`: unflushed metadata belongs to the transaction in the journal, so that a
  flush publishes one game at most;
* `Created`, `Copied`: the steps of `create_partitions` and of the copy in between.

`ExposedIsWhole` is `Whole`, `JournalNeverAhead` and `CleanupNotTrapped` are parts of
`Kept`, and `JournalMonotone` compares what is loaded before and after a step using
`Ordered`. `Implements` maps the durable metadata to `HdlCatalog`: the only steps that
change what a power loss leaves are a flush, which publishes at most one whole game, and a
removal; all others stutter. `NameAssumption` (images with one fingerprint and one
startup name have one target) is needed where a resume accepts another file behind the
path: name and title lie in the part of the image that the fingerprint covers.

`BootstrapProofs` proves all properties of the run `bootstrap`, for any programs, any
reserved area and any number of operations and power losses. `IInv` adds `AtStep` (the
steps an operation takes, and that what it activates fits the area), `Synced` (how
RAM header, disk and platter may differ at each step: their contents only while
the pointer is clear, their pointers only around the pointer transaction),
`Prepared` (at the pointer, the program is in place; after a failed payload, the
disk is disabled) and `BackedUp`. `PlatterSteps` reduces the action properties to
the three steps that change what a power loss leaves. `BackupsNeverOverwritten`
assumes `StatMayFail = FALSE`; `BootstrapNonOverwriting.cfg` is the counterexample
without. The other theorems hold with `StatMayFail = TRUE` and every kind of damaged
capsule as well, which the run does not cover.

`MasterRepairProofs` proves the properties of start-up recovery for any word size, any
damaged values and any numbers of storages and files. `MInv` says that the master read is
the one found or a canonical one whose damaged form is in a file (`Repaired`, `Kept`),
that the header offered is one the analysis calls safe (`Offered`), and where a canonical
master is durable (`Written`). `RepairRestores` needs an argument about the additive
checksum: `header_patch_safe` holds only if exactly one identity or anchor word is wrong
and clearing it gives the stored sum. With at most two damaged words the header built this
way differs from the undamaged one in at most one word, and `OneWord` shows that two
headers with equal sums that differ in at most one word are equal. It assumes
at most two damaged words (`MaxDamage \in 0..2`), since three can compensate each other.

`ForensicRepairProofs` has two parts. The first proves `NoPartOfTheChainCutOff`,
`PlanConverges` and `HealthyUntouched` of the planner, for any drive, sampling step and node
table and any damage to any healthy layout. The planner's invariant `PInv` is small: scan and
plan are what the code computes from the disk. The work is in what it computes. `LoopExists`
turns a fold into a chain of states, one per turn of the loop, and the lemmas of the planner
are about that chain:
* `Found` is the invariant of the two discovery loops: nodes are what the disk holds, each
  LBA once (`Table`); each was sampled or is named by a node (`Origin`); the table is
  marked truncated only when it is full and a further candidate exists (`Spilled`).
  `Discovery` concludes that a scan that is not truncated holds each acceptable
  sample and whatever a node with enough evidence names. That is `ChainComplete`: a header
  with sound contents is accepted, and patches come only from a complete scan.
* `Confined`: if a set of LBAs holds what the grid accepts and what its members name,
  the scan stays in it, and if it fits the node table the scan holds all of it.
* `Converges`: a plan changes links and checksums only, so the ring's headers keep their
  magic, place and length and are found again; the old node set is closed for the
  repaired disk, so the second scan does not overflow if the first did not.
  `ForwardFollows` walks the links just written and finds the planned ring; it has nothing
  left to correct. The exception is a reverse map that lists the master alone twice
  (`MapListsHeaderOnce`), where `ReverseAlone` shows that the second scan builds the same map.
* `HealthyLeftAlone`: the headers of a healthy disk are closed, since a blank sector is
  never accepted. `ForwardFollows` and `ReverseFollows` find the ring, remnants are
  dormant because they lie in a free partition of it, and so geometry finds the ring as well; all
  three give one sequence, which `add_map_if_unique` keeps once, with nothing to take from
  its confidence of 100 (`FullConfidence`). An empty identifier costs a header ten points of
  its own confidence, which every acceptance threshold leaves room for (`Sure`).

The second part proves `MasterLast`, `NoForeignChangeLost` and `SnapshotCoversWrites`
for any layouts, any damage and any number of files. `FInv` ties the commit to the drive:
the image is in a slot before the first write (`Imaged`), a committed patch is durable
(`Durable`), and behind the master nothing but the master is left (`Aimed`, `Ring`), which
rests on the lemma that `Position` takes the master only when no interior patch remains.
`KinInv` says that the disk differs from the one without repairs in links and checksum
only, `CoverInv` that wherever it differs a whole file holds the links from before.
`Covers` and `FilesStay` assume `StatMayFail = FALSE`; `ForensicSnapshotsKept.cfg` is the
counterexample without. Of the planner this part uses one fact: a patch changes its
header (`PlanChanges`).

`HdlPlanningProofs` proves `VisitedOnce` and `CatalogExact` for any drive, any node limit
and any headers: the walk ends although it keeps no set of visited headers. `WalkInv` adds
`BackLinked`: the header passed before a visited one is what that header names as its
predecessor. A header met again would hold one back link and two predecessors, so
they are equal, and so on back to the master, which is not in the walk. `Exact` says the
numbers of `CatalogExact` at every turn. It also proves all properties of `HdlPlan`, for any
image, sizes, limits, request size and placement. `Tiled` says that the parts lie one
behind the other, in whole blocks, that all but the last are full, and that the stored
offsets are both the sum of the payloads (what `hdl_metadata_build` checks) and the sum of
the capacities (what the stream computes): these agree only because no part but the last
has room left. `Copying` says that each sector transferred is at the address the tiling
gives it and that nothing else was written; two sectors never share an address because
the extents are disjoint. A request that crosses a border is cut where the part ends, so
`stream_transfer` keeps it, and the loader's division by the block size finds the same
part because the offsets are whole blocks.

These sums, and the choice of a least or greatest size, need induction over finite sets.
The library's induction theorems cannot be used here; the lemmas argue by a least
counterexample instead (`Least`, from `NatLessThanWellFounded` and `WFMin`): if a claim
fails for some subset, it fails for one of least cardinality, and removing an element
gives a contradiction. `FoldExists` and `SumIsFold` show that the fold of the community
modules is defined, `AnyFirst` that its order does not matter. `LoopExists` and `SortedMember`
do the same for the loops of the planner and for `sort_by_lba`.

`VideoModeProofs` proves `MenusReadable` and `SavedWasConfirmed` for any alternate modes, any
countdown and any number of time-outs. `VInv` adds `Shown` (the display has the mode the
handler under way is about), `OnUnless` (the output is on, or the display is native and the
session has met two time-outs) and `Endorsed` (a mode in a file or in memory was
confirmed or configured), which is why an incidental save is harmless. That two time-outs do
leave the output off is the counterexample of `VideoVisible.cfg`.

`DiskStatusProofs` proves `PadModeRight` and `ScreenTruthful` for any depth of the stack, any
number of open scopes and any divisors. `SInv` has `Laid`: the r-th scope that callers have
open is the one in slot r, those beyond the stack count in the overflow alone;
`Overflow`, `Counted` and `Lamp` relate the counters to that list, `Quiet` the silence on
the screen to the two coalescing counters.

The inductive invariants were checked by TLC on the bounds of the runs before they were
proved.

The assumptions are `TotalSectorsAssumption`, `InstallAssumption`, `NameAssumption`,
`StreamAssumption`, `BootstrapAssumption`, `CapsuleAssumption`, `MasterConstants`,
`ForensicConstants`, `UnreadableAssumption`, `LayoutAssumption`, `RepairConstants`, `CatalogConstants`,
`PlanConstants`, `VideoConstants` and `StatusConstants`: non-zero sizes, functions with the
right domains, headers with the fields of a header, distinct marker values, and in
`PlanConstants` what the constants of `hdl_partition.c` satisfy: sizes and reserved heads are
whole blocks, a head is smaller than a partition, and a partition's payload and last
sector fit the 32-bit fields. `UnreadableAssumption` says that an unreadable sector holds no
header, `LayoutAssumption` that a layout is `Healthy` and that damage gives a header or an
unreadable sector. Only `HealthyLeftAlone` needs all of `Healthy`; `ChainComplete` needs that an
intact header is sound. The ring of two partitions or more excludes a disk that holds
nothing but its master, which no formatting leaves: for it the reverse map
lists the master twice and is a second hypothesis.

Only model-checked:
* `RunTerminates`, `StreamCloses`, `NativeReturns`: liveness under fairness.
* `AutomaticRestores`: it is true of the damage of the run but not of every damage. The
  checksum is a sum, so a header whose two links have changed places, or
  whose errors compensate each other, corroborates either version.
* `InterruptedCanResume` of `ForensicRepair`: it is true of the layouts of the run but not of
  every `Healthy` layout. Take a free partition at 4 that holds two remnants, 8 (length 8,
  predecessor 0) and 12 (length 4, predecessor 8), and damage the master's next link and the
  previous link of 4 (0 and 6 instead of 4 and 0). Geometry gives a plan for the ring.
  Once 4 is written and the power fails, two headers name the master as predecessor,
  the forward map stops at the master, no remnant is dormant any more, and the same ring has a confidence
  below 90. The remnant 8 would have to be older than the partition before it, which
  allocation from the front does not leave, and no document promises that a commit can be
  resumed on every disk; the snapshot, which `SnapshotCoversWrites` is about, is the
  way back.
* `SnapshotsKept`, `InstalledIsManageable` and the other statements of the findings, which the
  code violates.

## 6. Not modelled

See `PROJECT.json` for the list with reasons. Within the modelled parts: the byte
layout and CRC of the journal record, statistics, latency profiles and screens;
the fragment map of the direct USB reads (one atomic read that can fail); the
fallback of the EE to stock `fileXio`, taken only for a misaligned or oversized
buffer, which the installer never passes; the source pass of a resumed
verification (`ReverifyPayload` is one step). In the bootstrap: the byte layout
and hashes of capsules and headers (a file is one of the classes the code tells
apart), start sectors other than `MBR_PAYLOAD_START`, reports and logs, and a change
of the backup storage between two operations. In the repair modules: screens, reports and
the texts of evidence; two headers torn inside one sector. In planning: the ISO
directory and `SYSTEM.CNF`, the target name, lazily loaded list pages. In the user
interface: geometry, drawing, fonts, button edges, module loading. Boot chain
diagnosis, KELF parsing, signing and SHA-256 only read or compute and keep no state
another step relies on.
