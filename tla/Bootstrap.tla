------------------------------ MODULE Bootstrap ------------------------------
(***************************************************************************)
(* Backing up, disabling, restoring and installing the HDD boot program    *)
(* (src/bootstrap_controller_ps2.c, bootstrap_transaction.c, hdd_write.c,  *)
(* header_backup.c, rescue_storage.c, rescue_image.c).                     *)
(*                                                                         *)
(* The console boots what the pointer osdStart/osdSize of the APA master   *)
(* header names in the reserved area of __mbr.  A pointer is its length in *)
(* transfer units (the program always starts at MBR_PAYLOAD_START); 0 is   *)
(* "disabled" and OutOfBounds a pointer that leaves the reserved area.     *)
(* Pointer and checksum are in one sector, so a header is old or new.      *)
(*                                                                         *)
(* `disk' is what a read returns, `platter' what a power loss leaves; the  *)
(* drive's cache ends with every power-off, and the fatal screen has no    *)
(* other way out (HDIOC_DEV9OFF or the poweroff RPC).                      *)
(*                                                                         *)
(* Backup files are numbered.  Header backups: 1 and 2 are HDDMBR.BIN and  *)
(* HDDMBR2.BIN, 3 and 4 the FHDBMBR files of older versions, only read.    *)
(* Rescue capsules: 1 and 2.  A file is None, Torn (does not validate),    *)
(* Foreign (valid, of another disk), its content or, of the capsules,      *)
(* Garbled: damaged so that the flags contradict the payload fields.       *)
(***************************************************************************)
EXTENDS Naturals

CONSTANTS Payloads,   \* signed boot programs
          Sectors,    \* their length, in transfer units
          Area,       \* the reserved area, in transfer units
          Junk,       \* content of a unit that belongs to no program
          None, Torn, Garbled, Foreign,
          Damage,     \* what may be wrong with a capsule found at the start
          StatMayFail \* may fileXioGetStat fail for a file that is there

ASSUME BootstrapAssumption ==
  /\ Area \in Nat \ {0}
  /\ Sectors \in [Payloads -> 1..Area]
  /\ Junk \notin Payloads
  /\ StatMayFail \in BOOLEAN
  /\ None \notin Nat /\ Torn \notin Nat /\ Foreign \notin Nat
  /\ None # Torn /\ None # Foreign /\ Torn # Foreign
  /\ Garbled \notin {None, Torn, Foreign}
  /\ Damage \subseteq {Torn, Garbled, Foreign}

Units       == 1..Area
OutOfBounds == Area + 1
Pointers    == 0..OutOfBounds
Contents    == [Units -> Payloads \cup {Junk}]

Blank == [i \in Units |-> Junk]

(* A pointer and the units it names; those beyond it are Junk.  Also the    *)
(* content of a rescue capsule, where pointer 0 is a header-only one.       *)
Image == [ptr: Pointers, data: Contents]

ASSUME CapsuleAssumption == {None, Torn, Garbled, Foreign} \cap Image = {}

HeaderSlots == 1..2
BackupFiles == 1..4
RescueSlots == 1..2

VARIABLES
  header,   \* pointer in the RAM copy of the master header
  disk, platter,
  hb,       \* header backup files
  rescue,   \* rescue capsule files
  op, pc,   \* the operation chosen, and where it is
  slot,     \* loop variable of header_backup_save, rescue_storage_save_current
  image,    \* what is to be activated, or the capsule being saved
  done,     \* units of the payload already written
  stage     \* transaction.stage, as reported by a failed transaction

store == <<disk, platter>>
files == <<hb, rescue>>
run   == <<op, pc, slot, image, done, stage>>
vars  == <<header, store, files, run>>

Ops   == {"none", "backup", "disable", "restore", "legacy", "install"}
Steps == {"menu", "header_slot", "header_write", "acquire", "rescue_slot",
          "rescue_write", "confirm", "write", "flush", "verify", "set",
          "set_flush", "check", "fatal"}

NoImage == [ptr |-> 0, data |-> Blank]

TypeOK ==
  /\ header \in Pointers
  /\ disk \in Image /\ platter \in Image
  /\ hb \in [BackupFiles -> Pointers \cup {None, Torn, Foreign}]
  /\ rescue \in [RescueSlots -> Image \cup {None, Torn, Garbled, Foreign}]
  /\ op \in Ops /\ pc \in Steps
  /\ slot \in 1..3
  /\ image \in Image /\ done \in 0..Area
  /\ stage \in {"NONE", "PAYLOAD", "POINTER_SET", "POINTER_VERIFY"}

-----------------------------------------------------------------------------
(* Helpers *)

Cut(n, data) == [i \in Units |-> IF i <= n THEN data[i] ELSE Junk]

Program(p) == [ptr |-> Sectors[p], data |-> [i \in Units |-> IF i <= Sectors[p] THEN p ELSE Junk]]

hdd_validate_payload_bounds(n) == n \in 1..Area

(* kelf_size_from_disk_image sees the header, in the first unit, and the    *)
(* length it states: not whether the rest belongs to it.                    *)
kelf_valid(img) == img.data[1] # Junk /\ Sectors[img.data[1]] <= img.ptr

(* rescue_image_validate and headers_match_same_disk *)
of_this_disk(s) == rescue[s] \notin {None, Torn, Garbled, Foreign}

(* The capsules rescue_storage_find may return: the first it can read *)
restorable ==
  {s \in RescueSlots : of_this_disk(s) /\ rescue[s].ptr # 0 /\ kelf_valid(rescue[s])}

(* It reports NOT_FOUND or HEADER_ONLY when no capsule is there, as far as  *)
(* path_exists can tell, or all of them hold a header only.  The errors of  *)
(* rescue_capsule_decode for contradicting flags, -10 and -12, become -200  *)
(* and -202 in rescue_image_validate: the values of these two results.      *)
capsules_weak ==
  \A s \in RescueSlots :
    \/ rescue[s] \in {None, Garbled} \/ StatMayFail
    \/ of_this_disk(s) /\ rescue[s].ptr = 0

(* The files header_backup_find_enabled may return: the first it can read *)
enabled_backups ==
  {s \in BackupFiles : hb[s] \notin {None, Torn, Foreign} /\ hb[s] # 0}

(* Nothing further to do, or an error the screen reports: back to the menu. *)
ToMenu ==
  /\ op' = "none" /\ pc' = "menu" /\ slot' = 1
  /\ image' = NoImage /\ done' = 0 /\ stage' = "NONE"

Goto(step) ==
  /\ pc' = step
  /\ UNCHANGED <<op, slot, image, done, stage>>

(* app_ui_fatal_screen after a transaction that failed at stage s *)
Fatal(s) ==
  /\ pc' = "fatal" /\ stage' = s
  /\ UNCHANGED <<op, slot, image, done>>

Init ==
  /\ disk \in {img \in Image : img.data = Blank \/ \E p \in Payloads : img.data = Program(p).data}
  /\ platter = disk /\ header = disk.ptr
  /\ hb \in [BackupFiles -> {None, Foreign, 1, OutOfBounds}]
  /\ \A s \in BackupFiles : s # 3 => hb[s] = None
  /\ rescue \in [RescueSlots -> {None} \cup Damage]
  /\ rescue[2] = None
  /\ op = "none" /\ pc = "menu" /\ slot = 1
  /\ image = NoImage /\ done = 0 /\ stage = "NONE"

-----------------------------------------------------------------------------
(* The bootstrap menu: what the RAM header says decides what is offered. *)

Begin(operation, img, step) ==
  /\ op' = operation /\ image' = img /\ pc' = step
  /\ UNCHANGED <<header, store, files, slot, done, stage>>

BackupCurrent == pc = "menu" /\ Begin("backup", NoImage, "header_slot")

Disable == pc = "menu" /\ header # 0 /\ Begin("disable", NoImage, "header_slot")

(* offered although the bootstrap is enabled *)
Bug_Restore ==
  /\ pc = "menu"
  /\ \E s \in restorable : Begin("restore", rescue[s], "header_slot")

(* A full restore of a capsule *)
Restore ==
  /\ pc = "menu" /\ header = 0
  /\ \E s \in restorable :
       /\ hdd_validate_payload_bounds(rescue[s].ptr)
       /\ Begin("restore", rescue[s], "header_slot")

(* restore_legacy_pointer: only the pointer *)
RestoreLegacy ==
  /\ pc = "menu" /\ header = 0 /\ capsules_weak
  /\ \E s \in enabled_backups :
       /\ hdd_validate_payload_bounds(hb[s])
       /\ Begin("legacy", [ptr |-> hb[s], data |-> Blank], "header_slot")

(* bootstrap_controller_install up to a prepared source *)
Install ==
  /\ pc = "menu" /\ header = 0
  /\ \E p \in Payloads : Begin("install", Program(p), "header_slot")

-----------------------------------------------------------------------------
(* header_backup_save, before every operation *)

AfterHeader ==
  IF op \in {"backup", "disable"} THEN "acquire" ELSE "confirm"

HeaderDone ==
  /\ pc' = AfterHeader /\ slot' = 1
  /\ UNCHANGED <<op, image, done, stage>>

NextSlot(step) ==
  /\ slot' = slot + 1 /\ pc' = step
  /\ UNCHANGED <<op, image, done, stage>>

(* An existing file is the backup if it has the current bytes, and is       *)
(* passed over if not, or if it cannot be read.  A stat that fails is taken *)
(* for a file that is not there: it is created, or truncated.               *)
HeaderSlot ==
  /\ pc = "header_slot" /\ slot \in HeaderSlots
  /\ \/ hb[slot] = header /\ HeaderDone /\ UNCHANGED hb
     \/ NextSlot("header_slot") /\ UNCHANGED hb
     \/ /\ hb[slot] = None \/ StatMayFail
        /\ hb' = [hb EXCEPT ![slot] = Torn] /\ Goto("header_write")
  /\ UNCHANGED <<header, store, rescue>>

(* Written and read back.  A file that fails keeps its slot. *)
HeaderWrite ==
  /\ pc = "header_write"
  /\ \/ hb' = [hb EXCEPT ![slot] = header] /\ HeaderDone
     \/ /\ \E left \in {Torn, header} : hb' = [hb EXCEPT ![slot] = left]
        /\ NextSlot("header_slot")
  /\ UNCHANGED <<header, store, rescue>>

(* the backup is optional *)
Bug_HeaderFailed ==
  /\ pc = "header_slot" /\ slot = 3
  /\ HeaderDone
  /\ UNCHANGED <<header, store, files>>

(* No slot: the standalone backup goes on to the capsule, every other       *)
(* operation ends with nothing written.                                     *)
HeaderFailed ==
  /\ pc = "header_slot" /\ slot = 3
  /\ IF op = "backup" THEN HeaderDone ELSE ToMenu
  /\ UNCHANGED <<header, store, files>>

-----------------------------------------------------------------------------
(* rescue_storage_save_current: its failure is never an obstacle. *)

AfterRescue ==
  IF op = "disable"
  THEN pc' = "confirm" /\ slot' = 1 /\ image' = NoImage /\ UNCHANGED <<op, done, stage>>
  ELSE ToMenu

(* Read the active program; refused out of bounds. *)
Acquire ==
  /\ pc = "acquire"
  /\ \/ /\ header # OutOfBounds
        /\ image' = [ptr |-> header, data |-> Cut(header, disk.data)]
        /\ pc' = "rescue_slot" /\ slot' = 1
        /\ UNCHANGED <<op, done, stage>>
     \/ AfterRescue
  /\ UNCHANGED <<header, store, files>>

(* a file that does not match is replaced *)
Bug_RescueSlot ==
  /\ pc = "rescue_slot" /\ slot \in RescueSlots
  /\ \/ rescue[slot] = image /\ AfterRescue /\ UNCHANGED rescue
     \/ rescue[slot] # image /\ rescue' = [rescue EXCEPT ![slot] = Torn] /\ Goto("rescue_write")
  /\ UNCHANGED <<header, store, hb>>

(* As HeaderSlot, for the capsules *)
RescueSlot ==
  /\ pc = "rescue_slot" /\ slot \in RescueSlots
  /\ \/ rescue[slot] = image /\ AfterRescue /\ UNCHANGED rescue
     \/ NextSlot("rescue_slot") /\ UNCHANGED rescue
     \/ /\ rescue[slot] = None \/ StatMayFail
        /\ rescue' = [rescue EXCEPT ![slot] = Torn] /\ Goto("rescue_write")
  /\ UNCHANGED <<header, store, hb>>

RescueFailed ==
  /\ pc = "rescue_slot" /\ slot = 3
  /\ AfterRescue
  /\ UNCHANGED <<header, store, files>>

RescueWrite ==
  /\ pc = "rescue_write"
  /\ \/ rescue' = [rescue EXCEPT ![slot] = image] /\ AfterRescue
     \/ /\ \E left \in {Torn, image} : rescue' = [rescue EXCEPT ![slot] = left]
        /\ NextSlot("rescue_slot")
  /\ UNCHANGED <<header, store, hb>>

-----------------------------------------------------------------------------
(* The chord, after which nothing asks again.  In an install the program is *)
(* signed first: no card, or one that refuses, ends the operation, a result *)
(* that is no KELF ends the session.                                        *)
Confirm ==
  /\ pc = "confirm"
  /\ \/ Goto(IF op \in {"install", "restore"} THEN "write" ELSE "set")
     \/ ToMenu
     \/ op = "install" /\ Fatal("NONE")
  /\ UNCHANGED <<header, store, files>>

(* hdd_write_payload_verified: unit by unit.  A unit may be stored wrongly  *)
(* without the drive noticing; the comparison is there for that.            *)
WriteUnit ==
  /\ pc = "write" /\ done < image.ptr
  /\ \E c \in {image.data[done + 1], disk.data[done + 1], Junk} :
       disk' = [disk EXCEPT !.data[done + 1] = c]
  /\ \/ done' = done + 1 /\ UNCHANGED <<op, pc, slot, image, stage>>
     \/ Fatal("PAYLOAD")
  /\ UNCHANGED <<header, platter, files>>

WriteDone ==
  /\ pc = "write" /\ done = image.ptr
  /\ Goto("flush")
  /\ UNCHANGED <<header, store, files>>

(* the cache is not flushed *)
Bug_FlushPayload ==
  /\ pc = "flush" /\ Goto("verify")
  /\ UNCHANGED <<header, store, files>>

FlushPayload ==
  /\ pc = "flush"
  /\ \/ platter' = disk /\ Goto("verify")
     \/ platter' \in {platter, disk} /\ Fatal("PAYLOAD")
  /\ UNCHANGED <<header, disk, files>>

VerifyPayload ==
  /\ pc = "verify"
  /\ \/ Cut(image.ptr, disk.data) = image.data /\ Goto("set")
     \/ Fatal("PAYLOAD")
  /\ UNCHANGED <<header, store, files>>

(* bootstrap_transaction_set_pointer: HDIOC_SETOSDMBR, *)
SetPointer ==
  /\ pc = "set"
  /\ disk' \in {disk, [disk EXCEPT !.ptr = image.ptr]}
  /\ Goto("set_flush") \/ Fatal("POINTER_SET")
  /\ UNCHANGED <<header, platter, files>>

(* the result of the flush is not looked at *)
Bug_SetFlush ==
  /\ pc = "set_flush" /\ platter' \in {platter, disk} /\ Goto("check")
  /\ UNCHANGED <<header, disk, files>>

(* its flush, *)
SetFlush ==
  /\ pc = "set_flush"
  /\ \/ platter' = disk /\ Goto("check")
     \/ platter' \in {platter, disk} /\ Fatal("POINTER_SET")
  /\ UNCHANGED <<header, disk, files>>

(* and the read-back, which becomes the RAM header. *)
VerifyPointer ==
  /\ pc = "check"
  /\ \/ /\ disk.ptr = image.ptr
        /\ header' = disk.ptr
        /\ IF op = "install" THEN Goto("acquire") ELSE ToMenu
     \/ Fatal("POINTER_VERIFY") /\ UNCHANGED header
  /\ UNCHANGED <<store, files>>

(* Power-off at any moment: every cached block is kept or lost, and the     *)
(* program starts again with the header it reads.                           *)
PowerOff ==
  /\ \E n \in {disk.ptr, platter.ptr}, kept \in SUBSET Units :
       disk' = [ptr |-> n, data |-> [i \in Units |-> IF i \in kept THEN disk.data[i]
                                                     ELSE platter.data[i]]]
  /\ platter' = disk' /\ header' = disk'.ptr
  /\ ToMenu
  /\ UNCHANGED files

Next ==
  \/ BackupCurrent \/ Disable \/ Restore \/ RestoreLegacy \/ Install
  \/ HeaderSlot \/ HeaderWrite \/ HeaderFailed
  \/ Acquire \/ RescueSlot \/ RescueWrite \/ RescueFailed \/ Confirm
  \/ WriteUnit \/ WriteDone \/ FlushPayload \/ VerifyPayload
  \/ SetPointer \/ SetFlush \/ VerifyPointer \/ PowerOff

Spec == Init /\ [][Next]_vars

-----------------------------------------------------------------------------
(* Properties *)

(* The RAM copy of the header, by which the menu offers or refuses an       *)
(* operation, is what is durably on the disk whenever the menu is shown.    *)
HeaderCurrent == pc = "menu" => header = disk.ptr /\ disk.ptr = platter.ptr

(* Payload first, pointer last: as soon as an install or a full restore     *)
(* has made a pointer visible, to a read or after a power loss, the program *)
(* it names is durably and exactly the one that was to be written.          *)
PayloadBeforePointer ==
  /\ op \in {"install", "restore"} /\ pc \notin {"acquire", "rescue_slot", "rescue_write"}
  /\ disk.ptr # 0 \/ platter.ptr # 0
  => Cut(image.ptr, platter.data) = image.data /\ Cut(image.ptr, disk.data) = image.data

(* What the ROM would boot after a power loss *)
Bootable == IF platter.ptr = 0 THEN NoImage
            ELSE [ptr |-> platter.ptr, data |-> Cut(platter.ptr, platter.data)]

(* The program behind a live pointer is never replaced or overwritten in    *)
(* place, by any sequence of operations and power losses: the console goes  *)
(* from one program to another only through "disabled".                     *)
SwitchedThroughOff ==
  [][Bootable' # Bootable => Bootable = NoImage \/ Bootable' = NoImage]_vars

(* No operation changes the durable pointer unless a verified HDDMBR file   *)
(* holds the header it replaces.                                            *)
ReplacedIsBackedUp ==
  [][platter.ptr' # platter.ptr => \E s \in HeaderSlots : hb[s] = platter.ptr]_vars

(* A pointer outside the reserved area may be found on a disk, backed up    *)
(* and cleared, but is never put back.                                      *)
NeverOutOfBounds ==
  [][platter.ptr' # platter.ptr => platter.ptr' \in 0..Area]_vars

(* "Payload write/read-back failed; pointer remains disabled": no earlier    *)
(* failure or power loss leaves an enabled pointer behind when that screen   *)
(* is shown, in the drive's cache or under it.                               *)
PayloadFailureLeavesDisabled ==
  pc = "fatal" /\ stage = "PAYLOAD" => disk.ptr = 0 /\ platter.ptr = 0

(* "Non-overwriting verified header backups and full rescue capsules"       *)
(* (README.md): a backup that validates is never changed.                   *)
BackupsKept ==
  [][/\ \A s \in BackupFiles : hb[s] \notin {None, Torn} => hb'[s] = hb[s]
     /\ \A s \in RescueSlots : rescue[s] \notin {None, Torn, Garbled} => rescue'[s] = rescue[s]
    ]_vars

(* A damaged or foreign capsule, or one whose program is not a KELF, blocks *)
(* the fallback to a pointer-only restore (docs/ARCHITECTURE.md).  A capsule *)
(* with contradicting flags does not: its code is taken for "not found".    *)
WeakerRestoreBlocked ==
  op = "legacy" => \A s \in RescueSlots :
                     rescue[s] = None \/ (of_this_disk(s) /\ rescue[s].ptr = 0)
=============================================================================
