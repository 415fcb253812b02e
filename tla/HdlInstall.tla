----------------------------- MODULE HdlInstall -----------------------------
(***************************************************************************)
(* Installing, resuming, cleaning up and deleting HDL games                *)
(* (src/hdl_tools/transaction.inc, source_ui.inc, install_ui.inc,          *)
(* game_ui.inc, src/hdl_installer_ps2.c, and commit_metadata of            *)
(* iop/hdl_stream/hdl_stream.c).                                           *)
(*                                                                         *)
(* Three stores are involved and each can be cut off between two steps:    *)
(*   - the journal on USB: HDLINSTALL.TXN and HDLINSTALL.NEW;              *)
(*   - the internal HDD: per target the number of allocated APA            *)
(*     partitions, the 1024-byte HDL metadata block and the payload blocks; *)
(*     `disk' is what a read returns, `platter' what a power loss leaves    *)
(*     of it, and only a flush makes them equal;                           *)
(*   - the RAM copy `tx' of the transaction record, lost in a power loss.  *)
(* The operator acts between runs: chooses menu entries, swaps the ISO,    *)
(* deletes the journal files by hand, switches the console off.            *)
(*                                                                         *)
(* A payload block is named by the image it was read from, so "the digests *)
(* agree" is "every block comes from the image now behind the path"; the   *)
(* source is stable while a run holds it open.                             *)
(***************************************************************************)
EXTENDS HdlTransaction

CONSTANTS Targets,      \* APA partition names
          TargetOf,     \* hdl_partition_id: the name an image is given
          Fingerprint,  \* source_fingerprint: size, first and last 64 KiB only
          Startup,      \* SYSTEM.CNF identity, as hdl_iso_probe reports it
          Identity,     \* start-up name, title, disc type and partition count
          StaleMeta,    \* images whose old metadata freed space may still hold
          PartCount,    \* plan->count: main partition plus subs
          JournalInterval, \* HDL_INSTALL_JOURNAL_INTERVAL_SECTORS, in blocks
          None,         \* no metadata, no source, no record, no file
          Torn          \* a file that is there but does not decode

ASSUME InstallAssumption ==
  /\ TargetOf \in [Images -> Targets]
  /\ DOMAIN Fingerprint = Images
  /\ DOMAIN Startup = Images
  /\ DOMAIN Identity = Images
  /\ StaleMeta \subseteq Images
  /\ PartCount \in Nat \ {0}
  /\ JournalInterval \in Nat \ {0}
  /\ None \notin Images
  /\ None \notin Transaction /\ Torn \notin Transaction
  /\ None # Torn

(* The name is made of the disc id, which hdl_iso_probe cuts out of the     *)
(* startup name, and of the volume title, which is in sector 16 and so in   *)
(* the first 64 KiB that the fingerprint covers.                            *)
ASSUME NameAssumption ==
  \A v, w \in Images :
    Fingerprint[v] = Fingerprint[w] /\ Startup[v] = Startup[w] => TargetOf[v] = TargetOf[w]

Blocks == 1..TotalSectors
Files  == Transaction \cup {Torn, None}

Metadata == Images \cup {None}
Content  == Images \cup {None}  \* None: never written since allocation
Extent   == [meta: Metadata, data: [Blocks -> Content]]
Blank    == [meta |-> None, data |-> [b \in Blocks |-> None]]

VARIABLES
  txn, new,       \* HDLINSTALL.TXN and HDLINSTALL.NEW
  parts,          \* per target, how many partitions its APA entry has
  disk, platter,  \* extent of each target: cached view, and durable view
  raw,            \* targets created whose metadata block was not yet cleared
  source,         \* the image now behind the source path
  tx,             \* the record in RAM
  pc,             \* where the run is; "idle" is the HDL Tools menu
  cont,           \* where journal_save returns to
  next_journal,   \* copy_payload's local
  verified        \* verified_this_run

journalVars == <<txn, new>>
diskVars    == <<parts, disk, platter, raw>>
runVars     == <<tx, pc, cont, next_journal, verified>>
vars        == <<txn, new, parts, disk, platter, raw, source,
                 tx, pc, cont, next_journal, verified>>

Steps == {"idle", "save_open", "save_write", "save_remove", "save_rename",
          "preflight", "create", "invalidate", "invalidate_flush", "addsub",
          "alloc_flush", "open", "copy", "poll", "flush", "verify", "commit",
          "commit_write", "commit_flush", "finish", "unlink_txn", "unlink_new"}

Conts == {"idle", "preflight", "open", "copy", "poll", "commit", "finish"}

TypeOK ==
  /\ txn \in Files /\ new \in Files
  /\ parts \in [Targets -> 0..PartCount]
  /\ disk \in [Targets -> Extent] /\ platter \in [Targets -> Extent]
  /\ raw \subseteq Targets
  /\ source \in Images \cup {None}
  /\ tx \in Transaction \cup {None}
  /\ pc \in Steps /\ cont \in Conts
  /\ next_journal \in 0..(TotalSectors + JournalInterval)
  /\ verified \in BOOLEAN
  /\ pc # "idle" => tx # None

Init ==
  /\ txn = None /\ new = None
  /\ parts = [t \in Targets |-> 0]
  /\ disk = [t \in Targets |-> Blank] /\ platter = disk
  /\ raw = {}
  /\ source \in Images \cup {None}
  /\ tx = None /\ pc = "idle" /\ cont = "idle"
  /\ next_journal = 0 /\ verified = FALSE

-----------------------------------------------------------------------------
(* Helpers *)

target == TargetOf[tx.img]

(* read_exact_file followed by hdl_transaction_decode *)
decodes(file) == file \in Transaction /\ transaction_valid(file)

(* journal_load: the renamed record, else the staged one. *)
Bug_journal_load == IF decodes(new) THEN new ELSE IF decodes(txn) THEN txn ELSE None

journal_load ==
  IF decodes(txn) THEN txn ELSE IF decodes(new) THEN new ELSE None

(* One of the two files exists (path_exists of open_new_install). *)
journal_present == <<txn, new>> # <<None, None>>

(* The raw APA walk, at planning and again after the confirmation, finds no *)
(* partition of that name.                                                  *)
target_absent(t) == parts[t] = 0

(* open_target succeeds when the layout is exactly the planned one. *)
open_target == parts[target] = PartCount

(* The read-back of the committed block *)
target_metadata_matches == disk[target].meta = tx.img

(* Leave the run: every error path returns to the menu with the record in   *)
(* RAM forgotten and whatever was stored left as it is.                     *)
Stop ==
  /\ tx' = None /\ pc' = "idle" /\ cont' = "idle"
  /\ next_journal' = 0 /\ verified' = FALSE

Goto(step) ==
  /\ pc' = step
  /\ UNCHANGED <<tx, cont, next_journal, verified>>

(* Call journal_save(record) and go on at `step' if it returns 0. *)
SaveThen(record, step) ==
  /\ tx' = record /\ pc' = "save_open" /\ cont' = step

Flush == platter' = disk

RemovePartition(t) ==
  /\ parts' = [parts EXCEPT ![t] = 0]
  /\ disk' = [disk EXCEPT ![t] = Blank]
  /\ platter' = [platter EXCEPT ![t] = Blank]
  /\ raw' = raw \ {t}

(* hdl_metadata_parse finds in the metadata what the record names: start-up *)
(* name, title, disc type and number of partitions.                         *)
identity_matches(m, img) == Identity[m] = Identity[img]

(* What preflight can tell of the source: size and both ends by the          *)
(* fingerprint, and the startup name by source_identity_matches.            *)
source_accepted ==
  /\ source # None
  /\ Fingerprint[source] = Fingerprint[tx.img]
  /\ Startup[source] = Startup[tx.img]

(* verify_target_digest against the digest of the source as read *)
digest_matches == disk[target].data = [b \in Blocks |-> source]

-----------------------------------------------------------------------------
(* journal_save, as called from the step before and continued at `cont' *)

SaveOpen ==
  /\ pc = "save_open"
  /\ \/ new' = Torn /\ Goto("save_write")
     \/ UNCHANGED new /\ Stop
  /\ UNCHANGED <<txn, diskVars, source>>

(* write_whole_file, read_exact_file, compare and decode *)
SaveWrite ==
  /\ pc = "save_write"
  /\ \/ new' = tx /\ Goto("save_remove")
     \/ new' \in {Torn, tx} /\ Stop
  /\ UNCHANGED <<txn, diskVars, source>>

(* The result of removing the old record is ignored. *)
SaveRemove ==
  /\ pc = "save_remove"
  /\ txn' \in {None, txn}
  /\ Goto("save_rename")
  /\ UNCHANGED <<new, diskVars, source>>

(* Renaming over a record that could not be removed fails. *)
SaveRename ==
  /\ pc = "save_rename"
  /\ \/ /\ txn = None
        /\ txn' = new /\ new' = None
        /\ IF cont = "idle" THEN Stop ELSE Goto(cont)
     \/ /\ UNCHANGED journalVars
        /\ Stop
  /\ UNCHANGED <<diskVars, source>>

(* journal_remove: both results are ignored *)
UnlinkTxn ==
  /\ pc = "unlink_txn"
  /\ txn' \in {None, txn}
  /\ Goto("unlink_new")
  /\ UNCHANGED <<new, diskVars, source>>

UnlinkNew ==
  /\ pc = "unlink_new"
  /\ new' \in {None, new}
  /\ Stop
  /\ UNCHANGED <<txn, diskVars, source>>

-----------------------------------------------------------------------------
(* Menu choices *)

(* open_new_install and begin_new_install, up to the journalled plan: only  *)
(* without any journal file, and only for a name the raw APA walk does not  *)
(* find.                                                                    *)
BeginNewInstall ==
  /\ pc = "idle"
  /\ ~journal_present
  /\ source # None /\ target_absent(TargetOf[source])
  /\ SaveThen([stage |-> PLANNED, completed |-> 0, img |-> source], "preflight")
  /\ UNCHANGED <<journalVars, diskVars, source, next_journal, verified>>

(* incomplete_menu, "Resume incomplete install" *)
Resume ==
  /\ pc = "idle"
  /\ journal_load # None /\ journal_load.stage # COMPLETE
  /\ tx' = journal_load /\ pc' = "preflight"
  /\ UNCHANGED <<journalVars, diskVars, source, cont, next_journal, verified>>

(* incomplete_menu, "Remove incomplete allocation": refused before          *)
(* PARTITIONS_CREATED, from METADATA_COMMITTED on, when the metadata cannot *)
(* be read, and when it names another game; metadata that names the         *)
(* journalled game is taken for a leftover.                                 *)
Bug_RemoveIncomplete ==
  LET record == journal_load
      t      == TargetOf[record.img]
  IN /\ pc = "idle" /\ record # None
     /\ record.stage \in PLANNED..PAYLOAD_VERIFIED
     /\ parts[t] > 0
     /\ RemovePartition(t)
     /\ tx' = record /\ pc' = "unlink_txn"
     /\ UNCHANGED <<journalVars, source, cont, next_journal, verified>>

RemoveIncomplete ==
  LET record == journal_load
      t      == TargetOf[record.img]
  IN /\ pc = "idle" /\ record # None
     /\ record.stage \in PARTITIONS_CREATED..PAYLOAD_VERIFIED
     /\ parts[t] > 0
     /\ disk[t].meta # None => identity_matches(disk[t].meta, record.img)
     /\ RemovePartition(t)
     /\ tx' = record /\ pc' = "unlink_txn"
     /\ UNCHANGED <<journalVars, source, cont, next_journal, verified>>

(* journal_blocks_game_delete *)
journal_blocks_game_delete(t) ==
  \/ journal_load = None /\ journal_present
  \/ journal_load # None /\ journal_load.stage # COMPLETE /\ TargetOf[journal_load.img] = t

(* delete_installed_game, both rounds of checks: nothing else runs between  *)
(* them, so they see the same state.                                        *)
DeleteGame(t) ==
  /\ pc = "idle"
  /\ parts[t] = PartCount /\ disk[t].meta # None
  /\ ~journal_blocks_game_delete(t)
  /\ RemovePartition(t)
  /\ UNCHANGED <<journalVars, source, runVars>>

-----------------------------------------------------------------------------
(* execute_transaction.  The second disjunct of a step is its error return. *)

(* transaction_preflight: the post-confirm raw guard for a planned target,  *)
(* and the source checks unless the metadata was already committed.         *)
Preflight ==
  /\ pc = "preflight"
  /\ \/ /\ tx.stage = PLANNED => target_absent(target)
        /\ tx.stage < METADATA_COMMITTED => source_accepted
        /\ Goto(IF tx.stage = PLANNED THEN "create" ELSE "open")
     \/ Stop
  /\ UNCHANGED <<journalVars, diskVars, source>>

(* create_partitions: the allocator hands out space that may still hold the *)
(* metadata block of a deleted game.                                        *)
CreateMain ==
  /\ pc = "create"
  /\ \/ \E m \in StaleMeta \cup {None} :
          /\ parts' = [parts EXCEPT ![target] = 1]
          /\ disk' = [disk EXCEPT ![target] = [Blank EXCEPT !.meta = m]]
          /\ platter' = [platter EXCEPT ![target] = [Blank EXCEPT !.meta = m]]
          /\ raw' = raw \cup {target}
          /\ Goto("invalidate")
     \/ UNCHANGED diskVars /\ Stop
  /\ UNCHANGED <<journalVars, source>>

(* The error path of hdl_status_fileXioOpen and of create_partitions: take  *)
(* the new partition away again, if that works.                             *)
DropCreated ==
  /\ RemovePartition(target) \/ UNCHANGED diskVars
  /\ Stop

(* hdl_invalidate_created_metadata: write zeroes, *)
Bug_InvalidateMetadata ==
  /\ pc = "invalidate"
  /\ Goto("invalidate_flush")
  /\ UNCHANGED <<diskVars, journalVars, source>>

InvalidateMetadata ==
  /\ pc = "invalidate"
  /\ \/ /\ disk' = [disk EXCEPT ![target].meta = None]
        /\ UNCHANGED <<parts, platter, raw>>
        /\ Goto("invalidate_flush")
     \/ DropCreated
  /\ UNCHANGED <<journalVars, source>>

(* flush and read them back. *)
InvalidateFlush ==
  /\ pc = "invalidate_flush"
  /\ \/ /\ Flush
        /\ raw' = raw \ {target}
        /\ UNCHANGED <<parts, disk>>
        /\ Goto(IF PartCount > 1 THEN "addsub" ELSE "alloc_flush")
     \/ DropCreated
  /\ UNCHANGED <<journalVars, source>>

(* One HIOCADDSUB per further slice of the plan *)
AddSub ==
  /\ pc = "addsub"
  /\ \/ /\ parts' = [parts EXCEPT ![target] = @ + 1]
        /\ UNCHANGED <<disk, platter, raw>>
        /\ Goto(IF parts[target] + 1 = PartCount THEN "alloc_flush" ELSE "addsub")
     \/ DropCreated
  /\ UNCHANGED <<journalVars, source>>

AllocFlush ==
  /\ pc = "alloc_flush"
  /\ \/ /\ Flush
        /\ UNCHANGED <<parts, disk, raw, next_journal, verified>>
        /\ SaveThen(hdl_transaction_set_stage(tx, PARTITIONS_CREATED, 0), "open")
     \/ DropCreated
  /\ UNCHANGED <<journalVars, source>>

(* open_target, and the step into COPYING.  Entering copy_payload sets the  *)
(* next journal point from the progress the record claims.                  *)
OpenTarget ==
  /\ pc = "open"
  /\ \/ /\ open_target
        /\ \/ /\ tx.stage = PARTITIONS_CREATED
              /\ SaveThen(hdl_transaction_set_stage(tx, COPYING, 0), "copy")
           \/ /\ tx.stage # PARTITIONS_CREATED
              /\ pc' = CASE tx.stage = COPYING            -> "copy"
                         [] tx.stage = PAYLOAD_VERIFIED   -> "commit"
                         [] tx.stage = METADATA_COMMITTED -> "finish"
              /\ UNCHANGED <<tx, cont>>
        /\ next_journal' = tx.completed + JournalInterval
        /\ UNCHANGED verified
     \/ Stop
  /\ UNCHANGED <<journalVars, diskVars, source>>

(* One turn of the copy loop: read a block, hash it, write it to the drive  *)
(* (which may keep it in its cache), count it, and journal at the interval  *)
(* and at the end.                                                          *)
Bug_CopyBlock ==
  /\ pc = "copy" /\ tx.completed < TotalSectors
  /\ disk' = [disk EXCEPT ![target].data[tx.completed + 1] = source]
  /\ pc' = "poll"
  /\ UNCHANGED <<tx, cont, next_journal, parts, platter, raw, verified, journalVars, source>>

CopyBlock ==
  /\ pc = "copy" /\ tx.completed < TotalSectors
  /\ \/ LET done == tx.completed + 1
        IN /\ disk' = [disk EXCEPT ![target].data[done] = source]
           /\ IF done >= next_journal \/ done = TotalSectors
              THEN /\ SaveThen([tx EXCEPT !.completed = done], "poll")
                   /\ next_journal' = done + JournalInterval
              ELSE /\ tx' = [tx EXCEPT !.completed = done] /\ pc' = "poll"
                   /\ UNCHANGED <<cont, next_journal>>
           /\ UNCHANGED <<parts, platter, raw, verified>>
     \/ /\ \E left \in {disk[target].data[tx.completed + 1], source, None} :
             disk' = [disk EXCEPT ![target].data[tx.completed + 1] = left]
        /\ UNCHANGED <<parts, platter, raw>>
        /\ Stop
  /\ UNCHANGED <<journalVars, source>>

(* TRIANGLE pauses the copy with its progress journalled. *)
PollPad ==
  /\ pc = "poll"
  /\ \/ Goto("copy")
     \/ SaveThen(tx, "idle") /\ UNCHANGED <<next_journal, verified>>
  /\ UNCHANGED <<journalVars, diskVars, source>>

CopyDone ==
  /\ pc = "copy" /\ tx.completed = TotalSectors
  /\ Goto("flush")
  /\ UNCHANGED <<journalVars, diskVars, source>>

Bug_FlushPayload ==
  /\ pc = "flush"
  /\ Goto("verify")
  /\ UNCHANGED <<diskVars, journalVars, source>>

FlushPayload ==
  /\ pc = "flush"
  /\ \/ Flush /\ Goto("verify")
     \/ UNCHANGED platter /\ Stop
  /\ UNCHANGED <<journalVars, parts, disk, raw, source>>

VerifyPayload ==
  /\ pc = "verify"
  /\ \/ /\ digest_matches
        /\ SaveThen(hdl_transaction_set_stage(tx, PAYLOAD_VERIFIED, TotalSectors),
                    "commit")
        /\ verified' = TRUE /\ UNCHANGED next_journal
     \/ Stop
  /\ UNCHANGED <<journalVars, diskVars, source>>

(* A resumed PAYLOAD_VERIFIED record is hashed and verified again. *)
ReverifyPayload ==
  /\ pc = "commit"
  /\ \/ /\ verified \/ digest_matches
        /\ Goto("commit_write")
     \/ Stop
  /\ UNCHANGED <<journalVars, diskVars, source>>

(* commit_metadata of the IOP driver: write, *)
CommitWrite ==
  /\ pc = "commit_write"
  /\ \/ disk' = [disk EXCEPT ![target].meta = tx.img] /\ Goto("commit_flush")
     \/ UNCHANGED disk /\ Stop
  /\ UNCHANGED <<journalVars, parts, platter, raw, source>>

(* flush and read back; a failure here leaves the block written. *)
CommitFlush ==
  /\ pc = "commit_flush"
  /\ \/ /\ Flush
        /\ SaveThen(hdl_transaction_set_stage(tx, METADATA_COMMITTED, TotalSectors),
                    "finish")
        /\ UNCHANGED <<next_journal, verified>>
     \/ platter' \in {platter, disk} /\ Stop
  /\ UNCHANGED <<journalVars, parts, disk, raw, source>>

(* transaction_finish_metadata_stage *)
FinishMetadata ==
  /\ pc = "finish"
  /\ \/ /\ target_metadata_matches
        /\ tx' = hdl_transaction_set_stage(tx, COMPLETE, TotalSectors)
        /\ pc' = "unlink_txn"
        /\ UNCHANGED <<cont, next_journal, verified>>
     \/ Stop
  /\ UNCHANGED <<journalVars, diskVars, source>>

-----------------------------------------------------------------------------
(* The environment *)

(* Power loss: every block the drive had only cached is kept or lost. *)
Dirty == {<<t, 0>> : t \in {u \in Targets : disk[u].meta # platter[u].meta}}
         \cup {at \in Targets \X Blocks :
                 disk[at[1]].data[at[2]] # platter[at[1]].data[at[2]]}

After(kept) ==
  [t \in Targets |->
     [meta |-> IF <<t, 0>> \in kept THEN disk[t].meta ELSE platter[t].meta,
      data |-> [b \in Blocks |-> IF <<t, b>> \in kept THEN disk[t].data[b]
                                 ELSE platter[t].data[b]]]]

PowerLoss ==
  /\ \E kept \in SUBSET Dirty : disk' = After(kept) /\ platter' = After(kept)
  /\ Stop
  /\ UNCHANGED <<journalVars, parts, raw, source>>

(* Another ISO, or none, is put behind the source path. *)
SwapSource ==
  /\ pc = "idle"
  /\ source' \in Images \cup {None}
  /\ UNCHANGED <<journalVars, diskVars, runVars>>

(* show_corrupt_journal asks for the files to be removed by hand. *)
RemoveCorruptJournal ==
  /\ pc = "idle" /\ journal_load = None /\ journal_present
  /\ txn' = None /\ new' = None
  /\ UNCHANGED <<diskVars, source, runVars>>

JournalStep == SaveOpen \/ SaveWrite \/ SaveRemove \/ SaveRename
               \/ UnlinkTxn \/ UnlinkNew

RunStep ==
  \/ Preflight \/ CreateMain \/ InvalidateMetadata \/ InvalidateFlush
  \/ AddSub \/ AllocFlush \/ OpenTarget \/ CopyBlock \/ PollPad \/ CopyDone
  \/ FlushPayload \/ VerifyPayload \/ ReverifyPayload \/ CommitWrite
  \/ CommitFlush \/ FinishMetadata

MenuStep == BeginNewInstall \/ Resume \/ RemoveIncomplete
            \/ \E t \in Targets : DeleteGame(t)

Next == JournalStep \/ RunStep \/ MenuStep
        \/ PowerLoss \/ SwapSource \/ RemoveCorruptJournal

Spec == Init /\ [][Next]_vars

(* A run is driven by the program alone; the operator and the power are not *)
(* fair.                                                                    *)
FairSpec == Spec /\ WF_vars(JournalStep \/ RunStep)

-----------------------------------------------------------------------------
(* Properties *)

(* The extent holds, in every block, one image the journal of a game img     *)
(* would accept as its source.                                              *)
HoldsImage(extent, img) ==
  \E v \in Images : /\ Fingerprint[v] = Fingerprint[img] /\ Startup[v] = Startup[img]
                    /\ extent.data = [b \in Blocks |-> v]

(* A game OPL can see (allocated, metadata present) is a complete image,    *)
(* never a mixture of two versions of the ISO, never short of a block the   *)
(* drive lost: this is what "metadata last" is for.  It holds of what reads *)
(* return and of what a power loss would leave.  A partition whose space    *)
(* was allocated but not yet cleared is excepted.                           *)
ExposedIsWhole ==
  \A t \in Targets \ raw : \A store \in {disk[t], platter[t]} :
    parts[t] > 0 /\ store.meta # None =>
      parts[t] = PartCount /\ HoldsImage(store, store.meta)

(* The journal never claims more than the disk would hold after a power     *)
(* loss, so that resuming from the claimed stage is sound: a claimed target *)
(* is fully allocated and cleared, a claimed payload is whole, claimed      *)
(* metadata is there.  The one exception is a target that a clean-up has    *)
(* removed before it could remove the journal: then nothing of it is left.  *)
(* Blocks that a COPYING record merely counts may still be only cached: the *)
(* digest over the target and ExposedIsWhole answer for them.               *)
Claimed(record) ==
  LET t == TargetOf[record.img]
  IN parts[t] > 0 =>
       /\ parts[t] = PartCount /\ t \notin raw
       /\ record.stage >= PAYLOAD_VERIFIED => HoldsImage(platter[t], record.img)
       /\ record.stage >= METADATA_COMMITTED => platter[t].meta = record.img

JournalNeverAhead ==
  LET record == journal_load
  IN record # None /\ record.stage >= PARTITIONS_CREATED => Claimed(record)

(* "Stage and progress are monotonic" (docs/HDL_INSTALLER_DESIGN.md): what  *)
(* journal_load returns for one transaction never goes back, whatever is    *)
(* left in the two files by failed saves and power losses.                  *)
JournalMonotone ==
  [][LET old == journal_load
         now == journal_load'
     IN old # None /\ now # None =>
          old.img = now.img /\ old.stage <= now.stage /\ old.completed <= now.completed
    ]_vars

(* A partition disappears only by a confirmed deletion of a visible game, a *)
(* clean-up the loaded journal authorises (PARTITIONS_CREATED or later), or *)
(* in the run that created it.  In particular a planned journal authorises  *)
(* no deletion (docs/HDL_INSTALLER_DESIGN.md).                              *)
OnlyOwnedRemoved ==
  [][\A t \in Targets : parts[t] > 0 /\ parts'[t] = 0 =>
       \/ /\ pc = "idle" /\ disk[t].meta # None
          /\ journal_load = None => txn = None /\ new = None
          /\ journal_load # None => TargetOf[journal_load.img] # t
       \/ /\ pc = "idle" /\ journal_load # None /\ TargetOf[journal_load.img] = t
          /\ journal_load.stage \in PARTITIONS_CREATED..PAYLOAD_VERIFIED
       \/ pc \in {"invalidate", "invalidate_flush", "addsub", "alloc_flush"} /\ t = target
    ]_vars

(* The clean-up guard is never trapped by a leftover: an allocation that    *)
(* the journal owns and that may still be removed carries no metadata of    *)
(* another game (the reason hdl_invalidate_created_metadata exists).        *)
CleanupNotTrapped ==
  LET record == journal_load
      t      == TargetOf[record.img]
  IN record # None /\ record.stage \in PARTITIONS_CREATED..PAYLOAD_VERIFIED
     /\ parts[t] > 0 /\ disk[t].meta # None => identity_matches(disk[t].meta, record.img)

(* What a loader would find after a power loss, for the refinement of       *)
(* HdlCatalog: an exposed target that is not a whole image maps to a value  *)
(* the catalogue does not know.                                             *)
VisibleGame(t) ==
  IF parts[t] = 0 \/ t \in raw \/ platter[t].meta = None THEN None
  ELSE IF \E v \in Images : platter[t].data = [b \in Blocks |-> v]
       THEN CHOOSE v \in Images : platter[t].data = [b \in Blocks |-> v]
       ELSE Torn

Visible == [t \in Targets |-> VisibleGame(t)]

Catalog == INSTANCE HdlCatalog WITH visible <- Visible

(* Games appear and disappear whole and never change in place, through      *)
(* every failure, power loss, source swap and resume.                       *)
PublishesAtomically == Catalog!Spec

(* Every run comes back to the menu: the copy loop makes progress and no    *)
(* journal_save continuation goes round in a circle.                        *)
RunTerminates == (pc # "idle") ~> (pc = "idle")

-----------------------------------------------------------------------------
(* What the screens and comments of the code say, and the code does not do  *)

(* install_ui.inc:61 "No game metadata is exposed unless the journal        *)
(* reaches METADATA_COMMITTED": at the menu, a visible game whose journal   *)
(* is still there has at least that stage.                                  *)
NoMetadataBeforeCommitted ==
  LET record == journal_load
  IN pc = "idle" /\ record # None =>
       LET t == TargetOf[record.img]
       IN t \notin raw /\ parts[t] > 0 /\ disk[t].meta # None =>
            record.stage >= METADATA_COMMITTED

(* install_ui.inc:256 "A valid installed game will be refused" by "Remove   *)
(* incomplete allocation".                                                  *)
ValidGameRefused ==
  [][\A t \in Targets :
       /\ pc = "idle" /\ pc' = "unlink_txn"
       /\ parts[t] > 0 /\ platter[t].meta # None /\ HoldsImage(platter[t], platter[t].meta)
       => parts'[t] = parts[t]
    ]_vars

(* hdl_installer_ps2.c:102 "incomplete HDL allocations never look like      *)
(* completed games to OPL or the cleanup guard": at the menu, every         *)
(* visible game is whole.                                                   *)
IncompleteNeverLooksComplete ==
  pc = "idle" => \A t \in Targets :
    parts[t] > 0 /\ disk[t].meta # None => HoldsImage(disk[t], disk[t].meta)

(* install_ui.inc:62 "The journal is preserved for review or a guarded      *)
(* resume" when an operation stops: at the menu, the journal of a fully     *)
(* allocated but unpublished target has not become unreadable.              *)
JournalPreserved ==
  pc = "idle" /\ journal_load = None /\ journal_present =>
    \A t \in Targets : parts[t] = PartCount => disk[t].meta # None
=============================================================================
