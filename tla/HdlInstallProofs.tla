--------------------------- MODULE HdlInstallProofs ---------------------------
(***************************************************************************)
(* Proofs about HdlInstall, for every set of images, number of blocks,     *)
(* partitions and journal interval.                                        *)
(*                                                                         *)
(* TypeOK is not inductive by itself: that a record in RAM or on USB never *)
(* reaches open_target in a stage without a continuation, and that the     *)
(* allocator is never asked for more subs than the plan has, depends on    *)
(* where the run is.  StageAt and Allocating say that.                     *)
(*                                                                         *)
(* The properties of the data need DInv, which relates each journal record *)
(* to what a power loss would leave of its target.                         *)
(***************************************************************************)
EXTENDS HdlInstall, TLAPS

Saving == {"save_open", "save_write", "save_remove", "save_rename"}

(* The place a run is at, or returns to from journal_save. *)
At == IF pc \in Saving THEN cont ELSE pc

(* A record that may be stored: neither COMPLETE nor ABORTED is ever saved. *)
Resumable == PLANNED..METADATA_COMMITTED

StageAt ==
  /\ txn \in Transaction => txn.stage \in Resumable
  /\ new \in Transaction => new.stage \in Resumable
  /\ pc \in Saving => tx.stage \in Resumable
  /\ At = "preflight" => tx.stage \in Resumable
  /\ At \in {"create", "invalidate", "invalidate_flush", "addsub", "alloc_flush"}
       => tx.stage = PLANNED
  /\ At = "open" => tx.stage \in PARTITIONS_CREATED..METADATA_COMMITTED
  /\ At \in {"copy", "poll", "flush", "verify"} => tx.stage = COPYING
  /\ At \in {"commit", "commit_write", "commit_flush"} => tx.stage = PAYLOAD_VERIFIED
  /\ At = "finish" => tx.stage = METADATA_COMMITTED

(* The record in RAM is one that encode accepts, with the whole payload      *)
(* counted once the copy loop has ended.                                    *)
Valid ==
  /\ pc # "idle" => transaction_valid(tx)
  /\ At \in {"flush", "verify"} => tx.completed = TotalSectors

Allocating ==
  /\ pc \in {"invalidate", "invalidate_flush"} => parts[target] = 1
  /\ pc = "addsub" => parts[target] \in 1..(PartCount - 1)

IInv == TypeOK /\ StageAt /\ Valid /\ Allocating

-----------------------------------------------------------------------------
(* journal_load returns a stored record that decodes, or nothing. *)
LEMMA JournalLoad ==
  journal_load = None \/ (/\ journal_load \in Transaction /\ transaction_valid(journal_load)
                          /\ journal_load = txn \/ journal_load = new)
  BY DEF journal_load, decodes

(* The call hdl_transaction_set_stage(r, to, n) is accepted. *)
Advanced(r, to, n) ==
  LET s == hdl_transaction_set_stage(r, to, n)
  IN /\ s \in Transaction /\ transaction_valid(s)
     /\ s.stage = to /\ s.completed = n /\ s.img = r.img

(* hdl_transaction_set_stage accepts every advance the program asks for of  *)
(* a valid record.                                                          *)
LEMMA Advance ==
  ASSUME NEW r \in Transaction, transaction_valid(r)
  PROVE  /\ r.stage = PLANNED            => Advanced(r, PARTITIONS_CREATED, 0)
         /\ r.stage = PARTITIONS_CREATED => Advanced(r, COPYING, 0)
         /\ r.stage = COPYING            => Advanced(r, PAYLOAD_VERIFIED, TotalSectors)
         /\ r.stage = PAYLOAD_VERIFIED   => Advanced(r, METADATA_COMMITTED, TotalSectors)
         /\ r.stage = METADATA_COMMITTED => Advanced(r, COMPLETE, TotalSectors)
<1> USE TotalSectorsAssumption
<1>1. ASSUME NEW to \in Stages, NEW n \in 0..TotalSectors, set_stage_accepts(r, to, n)
      PROVE  Advanced(r, to, n)
  <2>1. hdl_transaction_set_stage(r, to, n) = [r EXCEPT !.stage = to, !.completed = n]
    BY <1>1 DEF hdl_transaction_set_stage
  <2>2. transaction_valid(hdl_transaction_set_stage(r, to, n))
    BY <1>1, <2>1 DEF set_stage_accepts
  <2> QED
    BY <2>1, <2>2 DEF Advanced, Transaction
<1>2. 0 \in 0..TotalSectors /\ TotalSectors \in 0..TotalSectors
  OBVIOUS
<1>3. r.stage = PLANNED => Advanced(r, PARTITIONS_CREATED, 0)
  <2>1. PARTITIONS_CREATED \in Stages
    BY DEF Stages, PARTITIONS_CREATED, PLANNED, ABORTED
  <2>2. r.stage = PLANNED => transaction_valid([r EXCEPT !.stage = PARTITIONS_CREATED, !.completed = 0])
    BY DEF Transaction, transaction_valid, Stages, PLANNED, PARTITIONS_CREATED, COPYING,
       PAYLOAD_VERIFIED, METADATA_COMMITTED, COMPLETE, ABORTED
  <2>3. r.stage = PLANNED => set_stage_accepts(r, PARTITIONS_CREATED, 0)
    BY <2>2 DEF set_stage_accepts, hdl_transaction_transition_allowed, transaction_valid,
       Transaction, PLANNED, PARTITIONS_CREATED, COPYING, PAYLOAD_VERIFIED, METADATA_COMMITTED, COMPLETE
  <2> QED
    BY <1>1, <1>2, <2>1, <2>3
<1>4. r.stage = PARTITIONS_CREATED => Advanced(r, COPYING, 0)
  <2>1. COPYING \in Stages
    BY DEF Stages, COPYING, PLANNED, ABORTED
  <2>2. r.stage = PARTITIONS_CREATED => transaction_valid([r EXCEPT !.stage = COPYING, !.completed = 0])
    BY DEF Transaction, transaction_valid, Stages, PLANNED, PARTITIONS_CREATED, COPYING,
       PAYLOAD_VERIFIED, METADATA_COMMITTED, COMPLETE, ABORTED
  <2>3. r.stage = PARTITIONS_CREATED => set_stage_accepts(r, COPYING, 0)
    BY <2>2 DEF set_stage_accepts, hdl_transaction_transition_allowed, transaction_valid,
       Transaction, PLANNED, PARTITIONS_CREATED, COPYING, PAYLOAD_VERIFIED, METADATA_COMMITTED, COMPLETE
  <2> QED
    BY <1>1, <1>2, <2>1, <2>3
<1>5. r.stage = COPYING => Advanced(r, PAYLOAD_VERIFIED, TotalSectors)
  <2>1. PAYLOAD_VERIFIED \in Stages
    BY DEF Stages, PAYLOAD_VERIFIED, PLANNED, ABORTED
  <2>2. r.stage = COPYING => transaction_valid([r EXCEPT !.stage = PAYLOAD_VERIFIED, !.completed = TotalSectors])
    BY DEF Transaction, transaction_valid, Stages, PLANNED, PARTITIONS_CREATED, COPYING,
       PAYLOAD_VERIFIED, METADATA_COMMITTED, COMPLETE, ABORTED
  <2>3. r.stage = COPYING => set_stage_accepts(r, PAYLOAD_VERIFIED, TotalSectors)
    BY <2>2 DEF set_stage_accepts, hdl_transaction_transition_allowed, transaction_valid,
       Transaction, PLANNED, PARTITIONS_CREATED, COPYING, PAYLOAD_VERIFIED, METADATA_COMMITTED, COMPLETE
  <2> QED
    BY <1>1, <1>2, <2>1, <2>3
<1>6. r.stage = PAYLOAD_VERIFIED => Advanced(r, METADATA_COMMITTED, TotalSectors)
  <2>1. METADATA_COMMITTED \in Stages
    BY DEF Stages, METADATA_COMMITTED, PLANNED, ABORTED
  <2>2. r.stage = PAYLOAD_VERIFIED => transaction_valid([r EXCEPT !.stage = METADATA_COMMITTED, !.completed = TotalSectors])
    BY DEF Transaction, transaction_valid, Stages, PLANNED, PARTITIONS_CREATED, COPYING,
       PAYLOAD_VERIFIED, METADATA_COMMITTED, COMPLETE, ABORTED
  <2>3. r.stage = PAYLOAD_VERIFIED => set_stage_accepts(r, METADATA_COMMITTED, TotalSectors)
    BY <2>2 DEF set_stage_accepts, hdl_transaction_transition_allowed, transaction_valid,
       Transaction, PLANNED, PARTITIONS_CREATED, COPYING, PAYLOAD_VERIFIED, METADATA_COMMITTED, COMPLETE
  <2> QED
    BY <1>1, <1>2, <2>1, <2>3
<1>7. r.stage = METADATA_COMMITTED => Advanced(r, COMPLETE, TotalSectors)
  <2>1. COMPLETE \in Stages
    BY DEF Stages, COMPLETE, PLANNED, ABORTED
  <2>2. r.stage = METADATA_COMMITTED => transaction_valid([r EXCEPT !.stage = COMPLETE, !.completed = TotalSectors])
    BY DEF Transaction, transaction_valid, Stages, PLANNED, PARTITIONS_CREATED, COPYING,
       PAYLOAD_VERIFIED, METADATA_COMMITTED, COMPLETE, ABORTED
  <2>3. r.stage = METADATA_COMMITTED => set_stage_accepts(r, COMPLETE, TotalSectors)
    BY <2>2 DEF set_stage_accepts, hdl_transaction_transition_allowed, transaction_valid,
       Transaction, PLANNED, PARTITIONS_CREATED, COPYING, PAYLOAD_VERIFIED, METADATA_COMMITTED, COMPLETE
  <2> QED
    BY <1>1, <1>2, <2>1, <2>3
<1> QED
  BY <1>3, <1>4, <1>5, <1>6, <1>7

(* The writes of a run keep the extents of the targets well formed. *)
LEMMA ExtentUpdates ==
  ASSUME NEW d \in [Targets -> Extent], NEW t \in Targets
  PROVE  /\ [d EXCEPT ![t] = Blank] \in [Targets -> Extent]
         /\ \A m \in Metadata : /\ [d EXCEPT ![t].meta = m] \in [Targets -> Extent]
                               /\ [d EXCEPT ![t] = [Blank EXCEPT !.meta = m]] \in [Targets -> Extent]
         /\ \A b \in Blocks, c \in Content :
              [d EXCEPT ![t].data[b] = c] \in [Targets -> Extent]
  BY DEF Extent, Content, Metadata, Blank

(* During a run there is a record, and its target is a partition name. *)
LEMMA Running == ASSUME TypeOK, pc # "idle" PROVE tx \in Transaction /\ target \in Targets
  BY InstallAssumption DEF TypeOK, target, Transaction

(* Removing a partition keeps the disk well formed. *)
LEMMA Removing ==
  ASSUME TypeOK, NEW t \in Targets, RemovePartition(t)
  PROVE  /\ parts' \in [Targets -> 0..PartCount] /\ raw' \subseteq Targets
         /\ disk' \in [Targets -> Extent] /\ platter' \in [Targets -> Extent]
  BY ExtentUpdates, InstallAssumption DEF RemovePartition, TypeOK

(* Init satisfies the invariant: an empty journal and an idle menu. *)
LEMMA InitInv == Init => IInv
<1> SUFFICES ASSUME Init PROVE IInv
    OBVIOUS
<1> USE InstallAssumption, TotalSectorsAssumption DEF Init
<1>1. TypeOK
  <2>1. verified \in BOOLEAN
    BY Zenon
  <2>2. Blank \in Extent
    BY DEF Blank, Extent, Metadata, Content
  <2> QED
    BY <2>1, <2>2 DEF TypeOK, Files, Steps, Conts
<1>2. StageAt
  BY DEF StageAt, At, Saving
<1>3. Valid /\ Allocating
  BY DEF Valid, Allocating, At, Saving
<1> QED
  BY <1>1, <1>2, <1>3 DEF IInv

(* Saving and removing the journal preserves the invariant. *)
LEMMA JournalStepInv == IInv /\ JournalStep => IInv'
<1> SUFFICES ASSUME IInv, JournalStep PROVE IInv'
    OBVIOUS
<1> USE InstallAssumption, TotalSectorsAssumption DEF journalVars, diskVars, runVars
<1>a. TypeOK /\ StageAt /\ Valid /\ Allocating
  BY DEF IInv
<1>1. CASE SaveOpen
  <2>0. tx \in Transaction /\ target \in Targets
    BY <1>a, <1>1, Running DEF SaveOpen
  <2>1. verified' \in BOOLEAN
    BY <1>a, <1>1, Zenon DEF SaveOpen, Goto, Stop, TypeOK
  <2>4. TypeOK'
    BY <1>a, <1>1, <2>1, <2>0 DEF SaveOpen, Goto, Stop, TypeOK, StageAt, Valid, At, Saving,
       Files, Steps, Conts, Transaction, Stages, Resumable, transaction_valid,
       PLANNED, PARTITIONS_CREATED, COPYING, PAYLOAD_VERIFIED, METADATA_COMMITTED, COMPLETE, ABORTED
  <2>5. StageAt'
    BY <1>a, <1>1, <2>0 DEF SaveOpen, Goto, Stop, TypeOK, StageAt, Valid, At, Saving, Resumable, Files, Transaction,
       Stages, transaction_valid, PLANNED, PARTITIONS_CREATED, COPYING, PAYLOAD_VERIFIED, METADATA_COMMITTED, COMPLETE, ABORTED
  <2>6. Valid'
    BY <1>a, <1>1, <2>0 DEF SaveOpen, Goto, Stop, TypeOK, StageAt, Valid, At, Saving, Transaction,
       Stages, transaction_valid, PLANNED, PARTITIONS_CREATED, COPYING, PAYLOAD_VERIFIED, METADATA_COMMITTED, COMPLETE, ABORTED
  <2>7. Allocating'
    BY <1>a, <1>1, <2>0 DEF SaveOpen, Goto, Stop, TypeOK, StageAt, Allocating, At, Saving, target, Transaction
  <2> QED
    BY <2>4, <2>5, <2>6, <2>7 DEF IInv
<1>2. CASE SaveWrite
  <2>0. tx \in Transaction /\ target \in Targets
    BY <1>a, <1>2, Running DEF SaveWrite
  <2>1. verified' \in BOOLEAN
    BY <1>a, <1>2, Zenon DEF SaveWrite, Goto, Stop, TypeOK
  <2>4. TypeOK'
    BY <1>a, <1>2, <2>1, <2>0 DEF SaveWrite, Goto, Stop, TypeOK, StageAt, Valid, At, Saving,
       Files, Steps, Conts, Transaction, Stages, Resumable, transaction_valid,
       PLANNED, PARTITIONS_CREATED, COPYING, PAYLOAD_VERIFIED, METADATA_COMMITTED, COMPLETE, ABORTED
  <2>5. StageAt'
    BY <1>a, <1>2, <2>0 DEF SaveWrite, Goto, Stop, TypeOK, StageAt, Valid, At, Saving, Resumable, Files, Transaction,
       Stages, transaction_valid, PLANNED, PARTITIONS_CREATED, COPYING, PAYLOAD_VERIFIED, METADATA_COMMITTED, COMPLETE, ABORTED
  <2>6. Valid'
    BY <1>a, <1>2, <2>0 DEF SaveWrite, Goto, Stop, TypeOK, StageAt, Valid, At, Saving, Transaction,
       Stages, transaction_valid, PLANNED, PARTITIONS_CREATED, COPYING, PAYLOAD_VERIFIED, METADATA_COMMITTED, COMPLETE, ABORTED
  <2>7. Allocating'
    BY <1>a, <1>2, <2>0 DEF SaveWrite, Goto, Stop, TypeOK, StageAt, Allocating, At, Saving, target, Transaction
  <2> QED
    BY <2>4, <2>5, <2>6, <2>7 DEF IInv
<1>3. CASE SaveRemove
  <2>0. tx \in Transaction /\ target \in Targets
    BY <1>a, <1>3, Running DEF SaveRemove
  <2>1. verified' \in BOOLEAN
    BY <1>a, <1>3, Zenon DEF SaveRemove, Goto, TypeOK
  <2>4. TypeOK'
    BY <1>a, <1>3, <2>1, <2>0 DEF SaveRemove, Goto, TypeOK, StageAt, Valid, At, Saving,
       Files, Steps, Conts, Transaction, Stages, Resumable, transaction_valid,
       PLANNED, PARTITIONS_CREATED, COPYING, PAYLOAD_VERIFIED, METADATA_COMMITTED, COMPLETE, ABORTED
  <2>5. StageAt'
    BY <1>a, <1>3, <2>0 DEF SaveRemove, Goto, TypeOK, StageAt, Valid, At, Saving, Resumable, Files, Transaction,
       Stages, transaction_valid, PLANNED, PARTITIONS_CREATED, COPYING, PAYLOAD_VERIFIED, METADATA_COMMITTED, COMPLETE, ABORTED
  <2>6. Valid'
    BY <1>a, <1>3, <2>0 DEF SaveRemove, Goto, TypeOK, StageAt, Valid, At, Saving, Transaction,
       Stages, transaction_valid, PLANNED, PARTITIONS_CREATED, COPYING, PAYLOAD_VERIFIED, METADATA_COMMITTED, COMPLETE, ABORTED
  <2>7. Allocating'
    BY <1>a, <1>3, <2>0 DEF SaveRemove, Goto, TypeOK, StageAt, Allocating, At, Saving, target, Transaction
  <2> QED
    BY <2>4, <2>5, <2>6, <2>7 DEF IInv
<1>4. CASE SaveRename
  <2>0. tx \in Transaction /\ target \in Targets
    BY <1>a, <1>4, Running DEF SaveRename
  <2>1. verified' \in BOOLEAN
    BY <1>a, <1>4, Zenon DEF SaveRename, Goto, Stop, TypeOK
  <2>4. TypeOK'
    BY <1>a, <1>4, <2>1, <2>0 DEF SaveRename, Goto, Stop, TypeOK, StageAt, Valid, At, Saving,
       Files, Steps, Conts, Transaction, Stages, Resumable, transaction_valid,
       PLANNED, PARTITIONS_CREATED, COPYING, PAYLOAD_VERIFIED, METADATA_COMMITTED, COMPLETE, ABORTED
  <2>5. StageAt'
    BY <1>a, <1>4, <2>0 DEF SaveRename, Goto, Stop, TypeOK, StageAt, Valid, At, Saving, Resumable, Files, Transaction,
       Stages, transaction_valid, PLANNED, PARTITIONS_CREATED, COPYING, PAYLOAD_VERIFIED, METADATA_COMMITTED, COMPLETE, ABORTED
  <2>6. Valid'
    BY <1>a, <1>4, <2>0 DEF SaveRename, Goto, Stop, TypeOK, StageAt, Valid, At, Saving, Transaction,
       Stages, transaction_valid, PLANNED, PARTITIONS_CREATED, COPYING, PAYLOAD_VERIFIED, METADATA_COMMITTED, COMPLETE, ABORTED
  <2>7. Allocating'
    BY <1>a, <1>4, <2>0 DEF SaveRename, Goto, Stop, TypeOK, StageAt, Allocating, At, Saving, target, Transaction, Conts
  <2> QED
    BY <2>4, <2>5, <2>6, <2>7 DEF IInv
<1>5. CASE UnlinkTxn
  <2>0. tx \in Transaction /\ target \in Targets
    BY <1>a, <1>5, Running DEF UnlinkTxn
  <2>1. verified' \in BOOLEAN
    BY <1>a, <1>5, Zenon DEF UnlinkTxn, Goto, TypeOK
  <2>4. TypeOK'
    BY <1>a, <1>5, <2>1, <2>0 DEF UnlinkTxn, Goto, TypeOK, StageAt, Valid, At, Saving,
       Files, Steps, Conts, Transaction, Stages, Resumable, transaction_valid,
       PLANNED, PARTITIONS_CREATED, COPYING, PAYLOAD_VERIFIED, METADATA_COMMITTED, COMPLETE, ABORTED
  <2>5. StageAt'
    BY <1>a, <1>5, <2>0 DEF UnlinkTxn, Goto, TypeOK, StageAt, Valid, At, Saving, Resumable, Files, Transaction,
       Stages, transaction_valid, PLANNED, PARTITIONS_CREATED, COPYING, PAYLOAD_VERIFIED, METADATA_COMMITTED, COMPLETE, ABORTED
  <2>6. Valid'
    BY <1>a, <1>5, <2>0 DEF UnlinkTxn, Goto, TypeOK, StageAt, Valid, At, Saving, Transaction,
       Stages, transaction_valid, PLANNED, PARTITIONS_CREATED, COPYING, PAYLOAD_VERIFIED, METADATA_COMMITTED, COMPLETE, ABORTED
  <2>7. Allocating'
    BY <1>a, <1>5, <2>0 DEF UnlinkTxn, Goto, TypeOK, StageAt, Allocating, At, Saving, target, Transaction
  <2> QED
    BY <2>4, <2>5, <2>6, <2>7 DEF IInv
<1>6. CASE UnlinkNew
  <2>0. tx \in Transaction /\ target \in Targets
    BY <1>a, <1>6, Running DEF UnlinkNew
  <2>1. verified' \in BOOLEAN
    BY <1>a, <1>6, Zenon DEF UnlinkNew, Stop, TypeOK
  <2>4. TypeOK'
    BY <1>a, <1>6, <2>1, <2>0 DEF UnlinkNew, Stop, TypeOK, StageAt, Valid, At, Saving,
       Files, Steps, Conts, Transaction, Stages, Resumable, transaction_valid,
       PLANNED, PARTITIONS_CREATED, COPYING, PAYLOAD_VERIFIED, METADATA_COMMITTED, COMPLETE, ABORTED
  <2>5. StageAt'
    BY <1>a, <1>6, <2>0 DEF UnlinkNew, Stop, TypeOK, StageAt, Valid, At, Saving, Resumable, Files, Transaction,
       Stages, transaction_valid, PLANNED, PARTITIONS_CREATED, COPYING, PAYLOAD_VERIFIED, METADATA_COMMITTED, COMPLETE, ABORTED
  <2>6. Valid'
    BY <1>a, <1>6, <2>0 DEF UnlinkNew, Stop, TypeOK, StageAt, Valid, At, Saving, Transaction,
       Stages, transaction_valid, PLANNED, PARTITIONS_CREATED, COPYING, PAYLOAD_VERIFIED, METADATA_COMMITTED, COMPLETE, ABORTED
  <2>7. Allocating'
    BY <1>a, <1>6, <2>0 DEF UnlinkNew, Stop, TypeOK, StageAt, Allocating, At, Saving, target, Transaction
  <2> QED
    BY <2>4, <2>5, <2>6, <2>7 DEF IInv
<1> QED
  BY <1>1, <1>2, <1>3, <1>4, <1>5, <1>6 DEF JournalStep

(* The stages of execute_transaction preserve the invariant. *)
LEMMA RunStepInv == IInv /\ RunStep => IInv'
<1> SUFFICES ASSUME IInv, RunStep PROVE IInv'
    OBVIOUS
<1> USE InstallAssumption, TotalSectorsAssumption DEF journalVars, diskVars, runVars
<1>a. TypeOK /\ StageAt /\ Valid /\ Allocating
  BY DEF IInv
<1>1. CASE Preflight
  <2>0. tx \in Transaction /\ target \in Targets
    BY <1>a, <1>1, Running DEF Preflight
  <2>1. verified' \in BOOLEAN
    BY <1>a, <1>1, Zenon DEF Preflight, Goto, Stop, TypeOK
  <2>4. TypeOK'
    BY <1>a, <1>1, <2>1, <2>0 DEF Preflight, Goto, Stop, TypeOK, StageAt, Valid, At, Saving,
       Files, Steps, Conts, Transaction, Stages, Resumable, transaction_valid,
       PLANNED, PARTITIONS_CREATED, COPYING, PAYLOAD_VERIFIED, METADATA_COMMITTED, COMPLETE, ABORTED
  <2>5. StageAt'
    BY <1>a, <1>1, <2>0 DEF Preflight, Goto, Stop, TypeOK, StageAt, Valid, At, Saving, Resumable, Files, Transaction,
       Stages, transaction_valid, PLANNED, PARTITIONS_CREATED, COPYING, PAYLOAD_VERIFIED, METADATA_COMMITTED, COMPLETE, ABORTED
  <2>6. Valid'
    BY <1>a, <1>1, <2>0 DEF Preflight, Goto, Stop, TypeOK, StageAt, Valid, At, Saving, Transaction,
       Stages, transaction_valid, PLANNED, PARTITIONS_CREATED, COPYING, PAYLOAD_VERIFIED, METADATA_COMMITTED, COMPLETE, ABORTED
  <2>7. Allocating'
    BY <1>a, <1>1, <2>0 DEF Preflight, Goto, Stop, TypeOK, StageAt, Allocating, At, Saving, target, Transaction
  <2> QED
    BY <2>4, <2>5, <2>6, <2>7 DEF IInv
<1>2. CASE CreateMain
  <2>0. tx \in Transaction /\ target \in Targets
    BY <1>a, <1>2, Running DEF CreateMain
  <2>1. verified' \in BOOLEAN
    BY <1>a, <1>2, Zenon DEF CreateMain, Goto, Stop, TypeOK
  <2>2. \A d \in [Targets -> Extent], m \in StaleMeta \cup {None} :
          [d EXCEPT ![target] = [Blank EXCEPT !.meta = m]] \in [Targets -> Extent]
    BY <1>a, <1>2, <2>0, ExtentUpdates DEF CreateMain, TypeOK, Extent, Content, Metadata, Blocks, Transaction
  <2>3. /\ parts' \in [Targets -> 0..PartCount] /\ raw' \subseteq Targets
        /\ disk' \in [Targets -> Extent] /\ platter' \in [Targets -> Extent]
    <3>1. CASE UNCHANGED diskVars
      BY <1>a, <3>1 DEF TypeOK
    <3>2. ASSUME NEW m \in StaleMeta \cup {None},
                 parts' = [parts EXCEPT ![target] = 1],
                 disk' = [disk EXCEPT ![target] = [Blank EXCEPT !.meta = m]],
                 platter' = [platter EXCEPT ![target] = [Blank EXCEPT !.meta = m]],
                 raw' = raw \cup {target}
          PROVE  /\ parts' \in [Targets -> 0..PartCount] /\ raw' \subseteq Targets
                 /\ disk' \in [Targets -> Extent] /\ platter' \in [Targets -> Extent]
      <4>1. disk' \in [Targets -> Extent] /\ platter' \in [Targets -> Extent]
        BY <1>a, <2>2, <3>2 DEF TypeOK
      <4>2. parts' \in [Targets -> 0..PartCount] /\ raw' \subseteq Targets
        BY <1>a, <2>0, <3>2 DEF TypeOK
      <4> QED
        BY <4>1, <4>2
    <3> QED
      BY <1>2, <3>1, <3>2 DEF CreateMain
  <2>4. TypeOK'
    BY <1>a, <1>2, <2>1, <2>0, <2>2, <2>3 DEF CreateMain, Goto, Stop, TypeOK, StageAt, Valid, At, Saving,
       Files, Steps, Conts, Transaction, Stages, Resumable, transaction_valid,
       PLANNED, PARTITIONS_CREATED, COPYING, PAYLOAD_VERIFIED, METADATA_COMMITTED, COMPLETE, ABORTED
  <2>5. StageAt'
    BY <1>a, <1>2, <2>0, <2>2 DEF CreateMain, Goto, Stop, TypeOK, StageAt, Valid, At, Saving, Resumable, Files, Transaction,
       Stages, transaction_valid, PLANNED, PARTITIONS_CREATED, COPYING, PAYLOAD_VERIFIED, METADATA_COMMITTED, COMPLETE, ABORTED
  <2>6. Valid'
    BY <1>a, <1>2, <2>0, <2>2 DEF CreateMain, Goto, Stop, TypeOK, StageAt, Valid, At, Saving, Transaction,
       Stages, transaction_valid, PLANNED, PARTITIONS_CREATED, COPYING, PAYLOAD_VERIFIED, METADATA_COMMITTED, COMPLETE, ABORTED
  <2>7. Allocating'
    BY <1>a, <1>2, <2>0, <2>2 DEF CreateMain, Goto, Stop, TypeOK, StageAt, Allocating, At, Saving, target, Transaction
  <2> QED
    BY <2>4, <2>5, <2>6, <2>7 DEF IInv
<1>3. CASE InvalidateMetadata
  <2>0. tx \in Transaction /\ target \in Targets
    BY <1>a, <1>3, Running DEF InvalidateMetadata
  <2>1. verified' \in BOOLEAN
    BY <1>a, <1>3, Zenon DEF InvalidateMetadata, DropCreated, RemovePartition, Goto, Stop, TypeOK
  <2>2. [disk EXCEPT ![target].meta = None] \in [Targets -> Extent]
    BY <1>a, <1>3, <2>0, ExtentUpdates DEF InvalidateMetadata, TypeOK, Extent, Content, Metadata, Blocks, Transaction
  <2>3. /\ parts' \in [Targets -> 0..PartCount] /\ raw' \subseteq Targets
        /\ disk' \in [Targets -> Extent] /\ platter' \in [Targets -> Extent]
    BY <1>a, <1>3, <2>0, <2>2, ExtentUpdates, Removing DEF InvalidateMetadata, DropCreated, TypeOK, Allocating,
       Metadata, Content, Blocks, Transaction
  <2>4. TypeOK'
    BY <1>a, <1>3, <2>1, <2>0, <2>2, <2>3 DEF InvalidateMetadata, DropCreated, Goto, Stop, TypeOK, StageAt, Valid, At, Saving,
       Files, Steps, Conts, Transaction, Stages, Resumable, transaction_valid,
       PLANNED, PARTITIONS_CREATED, COPYING, PAYLOAD_VERIFIED, METADATA_COMMITTED, COMPLETE, ABORTED
  <2>5. StageAt'
    BY <1>a, <1>3, <2>0, <2>2 DEF InvalidateMetadata, DropCreated, RemovePartition, Goto, Stop, TypeOK, StageAt, Valid, At, Saving, Resumable, Files, Transaction,
       Stages, transaction_valid, PLANNED, PARTITIONS_CREATED, COPYING, PAYLOAD_VERIFIED, METADATA_COMMITTED, COMPLETE, ABORTED
  <2>6. Valid'
    BY <1>a, <1>3, <2>0, <2>2 DEF InvalidateMetadata, DropCreated, RemovePartition, Goto, Stop, TypeOK, StageAt, Valid, At, Saving, Transaction,
       Stages, transaction_valid, PLANNED, PARTITIONS_CREATED, COPYING, PAYLOAD_VERIFIED, METADATA_COMMITTED, COMPLETE, ABORTED
  <2>7. Allocating'
    BY <1>a, <1>3, <2>0, <2>2 DEF InvalidateMetadata, DropCreated, RemovePartition, Goto, Stop, TypeOK, StageAt, Allocating, At, Saving, target, Transaction
  <2> QED
    BY <2>4, <2>5, <2>6, <2>7 DEF IInv
<1>4. CASE InvalidateFlush
  <2>0. tx \in Transaction /\ target \in Targets
    BY <1>a, <1>4, Running DEF InvalidateFlush
  <2>1. verified' \in BOOLEAN
    BY <1>a, <1>4, Zenon DEF InvalidateFlush, DropCreated, RemovePartition, Flush, Goto, Stop, TypeOK
  <2>3. /\ parts' \in [Targets -> 0..PartCount] /\ raw' \subseteq Targets
        /\ disk' \in [Targets -> Extent] /\ platter' \in [Targets -> Extent]
    BY <1>a, <1>4, <2>0, ExtentUpdates, Removing DEF InvalidateFlush, DropCreated, Flush, TypeOK, Allocating,
       Metadata, Content, Blocks, Transaction
  <2>4. TypeOK'
    BY <1>a, <1>4, <2>1, <2>0, <2>3 DEF InvalidateFlush, DropCreated, Flush, Goto, Stop, TypeOK, StageAt, Valid, At, Saving,
       Files, Steps, Conts, Transaction, Stages, Resumable, transaction_valid,
       PLANNED, PARTITIONS_CREATED, COPYING, PAYLOAD_VERIFIED, METADATA_COMMITTED, COMPLETE, ABORTED
  <2>5. StageAt'
    BY <1>a, <1>4, <2>0 DEF InvalidateFlush, DropCreated, RemovePartition, Flush, Goto, Stop, TypeOK, StageAt, Valid, At, Saving, Resumable, Files, Transaction,
       Stages, transaction_valid, PLANNED, PARTITIONS_CREATED, COPYING, PAYLOAD_VERIFIED, METADATA_COMMITTED, COMPLETE, ABORTED
  <2>6. Valid'
    BY <1>a, <1>4, <2>0 DEF InvalidateFlush, DropCreated, RemovePartition, Flush, Goto, Stop, TypeOK, StageAt, Valid, At, Saving, Transaction,
       Stages, transaction_valid, PLANNED, PARTITIONS_CREATED, COPYING, PAYLOAD_VERIFIED, METADATA_COMMITTED, COMPLETE, ABORTED
  <2>7. Allocating'
    BY <1>a, <1>4, <2>0 DEF InvalidateFlush, DropCreated, RemovePartition, Flush, Goto, Stop, TypeOK, StageAt, Allocating, At, Saving, target, Transaction
  <2> QED
    BY <2>4, <2>5, <2>6, <2>7 DEF IInv
<1>5. CASE AddSub
  <2>0. tx \in Transaction /\ target \in Targets
    BY <1>a, <1>5, Running DEF AddSub
  <2>1. verified' \in BOOLEAN
    BY <1>a, <1>5, Zenon DEF AddSub, DropCreated, RemovePartition, Goto, Stop, TypeOK
  <2>3. /\ parts' \in [Targets -> 0..PartCount] /\ raw' \subseteq Targets
        /\ disk' \in [Targets -> Extent] /\ platter' \in [Targets -> Extent]
    BY <1>a, <1>5, <2>0, ExtentUpdates, Removing DEF AddSub, DropCreated, TypeOK, Allocating,
       Metadata, Content, Blocks, Transaction
  <2>4. TypeOK'
    BY <1>a, <1>5, <2>1, <2>0, <2>3 DEF AddSub, DropCreated, Goto, Stop, TypeOK, StageAt, Valid, At, Saving,
       Files, Steps, Conts, Transaction, Stages, Resumable, transaction_valid,
       PLANNED, PARTITIONS_CREATED, COPYING, PAYLOAD_VERIFIED, METADATA_COMMITTED, COMPLETE, ABORTED
  <2>5. StageAt'
    BY <1>a, <1>5, <2>0 DEF AddSub, DropCreated, RemovePartition, Goto, Stop, TypeOK, StageAt, Valid, At, Saving, Resumable, Files, Transaction,
       Stages, transaction_valid, PLANNED, PARTITIONS_CREATED, COPYING, PAYLOAD_VERIFIED, METADATA_COMMITTED, COMPLETE, ABORTED
  <2>6. Valid'
    BY <1>a, <1>5, <2>0 DEF AddSub, DropCreated, RemovePartition, Goto, Stop, TypeOK, StageAt, Valid, At, Saving, Transaction,
       Stages, transaction_valid, PLANNED, PARTITIONS_CREATED, COPYING, PAYLOAD_VERIFIED, METADATA_COMMITTED, COMPLETE, ABORTED
  <2>7. Allocating'
    BY <1>a, <1>5, <2>0 DEF AddSub, DropCreated, RemovePartition, Goto, Stop, TypeOK, StageAt, Allocating, At, Saving, target, Transaction
  <2> QED
    BY <2>4, <2>5, <2>6, <2>7 DEF IInv
<1>6. CASE AllocFlush
  <2>0. tx \in Transaction /\ target \in Targets
    BY <1>a, <1>6, Running DEF AllocFlush
  <2>1. verified' \in BOOLEAN
    BY <1>a, <1>6, Zenon DEF AllocFlush, DropCreated, RemovePartition, Flush, SaveThen, Stop, TypeOK
  <2>2. Advanced(tx, PARTITIONS_CREATED, 0)
    BY <1>a, <1>6, <2>0, Advance DEF AllocFlush, StageAt, Valid, At, Saving
  <2>3. /\ parts' \in [Targets -> 0..PartCount] /\ raw' \subseteq Targets
        /\ disk' \in [Targets -> Extent] /\ platter' \in [Targets -> Extent]
    BY <1>a, <1>6, <2>0, <2>2, ExtentUpdates, Removing DEF AllocFlush, DropCreated, Flush, TypeOK, Allocating,
       Metadata, Content, Blocks, Transaction
  <2>4. TypeOK'
    BY <1>a, <1>6, <2>1, <2>0, <2>2, <2>3 DEF AllocFlush, DropCreated, Flush, SaveThen, Stop, Advanced, TypeOK, StageAt, Valid, At, Saving,
       Files, Steps, Conts, Transaction, Stages, Resumable, transaction_valid,
       PLANNED, PARTITIONS_CREATED, COPYING, PAYLOAD_VERIFIED, METADATA_COMMITTED, COMPLETE, ABORTED
  <2>5. StageAt'
    BY <1>a, <1>6, <2>0, <2>2 DEF AllocFlush, DropCreated, RemovePartition, Flush, SaveThen, Stop, Advanced, TypeOK, StageAt, Valid, At, Saving, Resumable, Files, Transaction,
       Stages, transaction_valid, PLANNED, PARTITIONS_CREATED, COPYING, PAYLOAD_VERIFIED, METADATA_COMMITTED, COMPLETE, ABORTED
  <2>6. Valid'
    BY <1>a, <1>6, <2>0, <2>2 DEF AllocFlush, DropCreated, RemovePartition, Flush, SaveThen, Stop, Advanced, TypeOK, StageAt, Valid, At, Saving, Transaction,
       Stages, transaction_valid, PLANNED, PARTITIONS_CREATED, COPYING, PAYLOAD_VERIFIED, METADATA_COMMITTED, COMPLETE, ABORTED
  <2>7. Allocating'
    BY <1>a, <1>6, <2>0, <2>2 DEF AllocFlush, DropCreated, RemovePartition, Flush, SaveThen, Stop, Advanced, TypeOK, StageAt, Allocating, At, Saving, target, Transaction
  <2> QED
    BY <2>4, <2>5, <2>6, <2>7 DEF IInv
<1>7. CASE OpenTarget
  <2>0. tx \in Transaction /\ target \in Targets
    BY <1>a, <1>7, Running DEF OpenTarget
  <2>1. verified' \in BOOLEAN
    BY <1>a, <1>7, Zenon DEF OpenTarget, SaveThen, Stop, TypeOK
  <2>2. tx.stage = PARTITIONS_CREATED => Advanced(tx, COPYING, 0)
    BY <1>a, <1>7, <2>0, Advance DEF OpenTarget, StageAt, Valid, At, Saving
  <2>4. TypeOK'
    BY <1>a, <1>7, <2>1, <2>0, <2>2 DEF OpenTarget, SaveThen, Stop, Advanced, TypeOK, StageAt, Valid, At, Saving,
       Files, Steps, Conts, Transaction, Stages, Resumable, transaction_valid,
       PLANNED, PARTITIONS_CREATED, COPYING, PAYLOAD_VERIFIED, METADATA_COMMITTED, COMPLETE, ABORTED
  <2>5. StageAt'
    BY <1>a, <1>7, <2>0, <2>2 DEF OpenTarget, SaveThen, Stop, Advanced, TypeOK, StageAt, Valid, At, Saving, Resumable, Files, Transaction,
       Stages, transaction_valid, PLANNED, PARTITIONS_CREATED, COPYING, PAYLOAD_VERIFIED, METADATA_COMMITTED, COMPLETE, ABORTED
  <2>6. Valid'
    BY <1>a, <1>7, <2>0, <2>2 DEF OpenTarget, SaveThen, Stop, Advanced, TypeOK, StageAt, Valid, At, Saving, Transaction,
       Stages, transaction_valid, PLANNED, PARTITIONS_CREATED, COPYING, PAYLOAD_VERIFIED, METADATA_COMMITTED, COMPLETE, ABORTED
  <2>7. Allocating'
    BY <1>a, <1>7, <2>0, <2>2 DEF OpenTarget, SaveThen, Stop, Advanced, TypeOK, StageAt, Allocating, At, Saving, target, Transaction, PLANNED, PARTITIONS_CREATED, COPYING, PAYLOAD_VERIFIED, METADATA_COMMITTED, COMPLETE, ABORTED
  <2> QED
    BY <2>4, <2>5, <2>6, <2>7 DEF IInv
<1>8. CASE CopyBlock
  <2>0. tx \in Transaction /\ target \in Targets
    BY <1>a, <1>8, Running DEF CopyBlock
  <2>1. verified' \in BOOLEAN
    BY <1>a, <1>8, Zenon DEF CopyBlock, SaveThen, Stop, TypeOK
  <2>2. \A c \in {disk[target].data[tx.completed + 1], source, None} :
          [disk EXCEPT ![target].data[tx.completed + 1] = c] \in [Targets -> Extent]
    <3>1. tx.completed + 1 \in Blocks
      BY <1>8, <2>0 DEF CopyBlock, Transaction, Blocks
    <3>2. {disk[target].data[tx.completed + 1], source, None} \subseteq Content
      BY <1>a, <2>0, <3>1 DEF TypeOK, Extent, Content
    <3> QED
      BY <1>a, <2>0, <3>1, <3>2, ExtentUpdates DEF TypeOK
  <2>3. /\ parts' \in [Targets -> 0..PartCount] /\ raw' \subseteq Targets
        /\ disk' \in [Targets -> Extent] /\ platter' \in [Targets -> Extent]
    <3>1. PICK c \in {disk[target].data[tx.completed + 1], source, None} :
            disk' = [disk EXCEPT ![target].data[tx.completed + 1] = c]
      BY <1>8 DEF CopyBlock
    <3>2. disk' \in [Targets -> Extent]
      BY <2>2, <3>1
    <3> QED
      BY <1>a, <1>8, <3>2 DEF CopyBlock, TypeOK
  <2>4. TypeOK'
    BY <1>a, <1>8, <2>1, <2>0, <2>2, <2>3 DEF CopyBlock, SaveThen, Stop, TypeOK, StageAt, Valid, At, Saving,
       Files, Steps, Conts, Transaction, Stages, Resumable, transaction_valid,
       PLANNED, PARTITIONS_CREATED, COPYING, PAYLOAD_VERIFIED, METADATA_COMMITTED, COMPLETE, ABORTED
  <2>5. StageAt'
    BY <1>a, <1>8, <2>0, <2>2 DEF CopyBlock, SaveThen, Stop, TypeOK, StageAt, Valid, At, Saving, Resumable, Files, Transaction,
       Stages, transaction_valid, PLANNED, PARTITIONS_CREATED, COPYING, PAYLOAD_VERIFIED, METADATA_COMMITTED, COMPLETE, ABORTED
  <2>6. Valid'
    BY <1>a, <1>8, <2>0, <2>2 DEF CopyBlock, SaveThen, Stop, TypeOK, StageAt, Valid, At, Saving, Transaction,
       Stages, transaction_valid, PLANNED, PARTITIONS_CREATED, COPYING, PAYLOAD_VERIFIED, METADATA_COMMITTED, COMPLETE, ABORTED
  <2>7. Allocating'
    BY <1>a, <1>8, <2>0, <2>2 DEF CopyBlock, SaveThen, Stop, TypeOK, StageAt, Allocating, At, Saving, target, Transaction
  <2> QED
    BY <2>4, <2>5, <2>6, <2>7 DEF IInv
<1>9. CASE PollPad
  <2>0. tx \in Transaction /\ target \in Targets
    BY <1>a, <1>9, Running DEF PollPad
  <2>1. verified' \in BOOLEAN
    BY <1>a, <1>9, Zenon DEF PollPad, SaveThen, Goto, TypeOK
  <2>4. TypeOK'
    BY <1>a, <1>9, <2>1, <2>0 DEF PollPad, SaveThen, Goto, TypeOK, StageAt, Valid, At, Saving,
       Files, Steps, Conts, Transaction, Stages, Resumable, transaction_valid,
       PLANNED, PARTITIONS_CREATED, COPYING, PAYLOAD_VERIFIED, METADATA_COMMITTED, COMPLETE, ABORTED
  <2>5. StageAt'
    BY <1>a, <1>9, <2>0 DEF PollPad, SaveThen, Goto, TypeOK, StageAt, Valid, At, Saving, Resumable, Files, Transaction,
       Stages, transaction_valid, PLANNED, PARTITIONS_CREATED, COPYING, PAYLOAD_VERIFIED, METADATA_COMMITTED, COMPLETE, ABORTED
  <2>6. Valid'
    BY <1>a, <1>9, <2>0 DEF PollPad, SaveThen, Goto, TypeOK, StageAt, Valid, At, Saving, Transaction,
       Stages, transaction_valid, PLANNED, PARTITIONS_CREATED, COPYING, PAYLOAD_VERIFIED, METADATA_COMMITTED, COMPLETE, ABORTED
  <2>7. Allocating'
    BY <1>a, <1>9, <2>0 DEF PollPad, SaveThen, Goto, TypeOK, StageAt, Allocating, At, Saving, target, Transaction
  <2> QED
    BY <2>4, <2>5, <2>6, <2>7 DEF IInv
<1>10. CASE CopyDone
  <2>0. tx \in Transaction /\ target \in Targets
    BY <1>a, <1>10, Running DEF CopyDone
  <2>1. verified' \in BOOLEAN
    BY <1>a, <1>10, Zenon DEF CopyDone, Goto, TypeOK
  <2>4. TypeOK'
    BY <1>a, <1>10, <2>1, <2>0 DEF CopyDone, Goto, TypeOK, StageAt, Valid, At, Saving,
       Files, Steps, Conts, Transaction, Stages, Resumable, transaction_valid,
       PLANNED, PARTITIONS_CREATED, COPYING, PAYLOAD_VERIFIED, METADATA_COMMITTED, COMPLETE, ABORTED
  <2>5. StageAt'
    BY <1>a, <1>10, <2>0 DEF CopyDone, Goto, TypeOK, StageAt, Valid, At, Saving, Resumable, Files, Transaction,
       Stages, transaction_valid, PLANNED, PARTITIONS_CREATED, COPYING, PAYLOAD_VERIFIED, METADATA_COMMITTED, COMPLETE, ABORTED
  <2>6. Valid'
    BY <1>a, <1>10, <2>0 DEF CopyDone, Goto, TypeOK, StageAt, Valid, At, Saving, Transaction,
       Stages, transaction_valid, PLANNED, PARTITIONS_CREATED, COPYING, PAYLOAD_VERIFIED, METADATA_COMMITTED, COMPLETE, ABORTED
  <2>7. Allocating'
    BY <1>a, <1>10, <2>0 DEF CopyDone, Goto, TypeOK, StageAt, Allocating, At, Saving, target, Transaction
  <2> QED
    BY <2>4, <2>5, <2>6, <2>7 DEF IInv
<1>11. CASE FlushPayload
  <2>0. tx \in Transaction /\ target \in Targets
    BY <1>a, <1>11, Running DEF FlushPayload
  <2>1. verified' \in BOOLEAN
    BY <1>a, <1>11, Zenon DEF FlushPayload, Flush, Goto, Stop, TypeOK
  <2>4. TypeOK'
    BY <1>a, <1>11, <2>1, <2>0 DEF FlushPayload, Flush, Goto, Stop, TypeOK, StageAt, Valid, At, Saving,
       Files, Steps, Conts, Transaction, Stages, Resumable, transaction_valid,
       PLANNED, PARTITIONS_CREATED, COPYING, PAYLOAD_VERIFIED, METADATA_COMMITTED, COMPLETE, ABORTED
  <2>5. StageAt'
    BY <1>a, <1>11, <2>0 DEF FlushPayload, Flush, Goto, Stop, TypeOK, StageAt, Valid, At, Saving, Resumable, Files, Transaction,
       Stages, transaction_valid, PLANNED, PARTITIONS_CREATED, COPYING, PAYLOAD_VERIFIED, METADATA_COMMITTED, COMPLETE, ABORTED
  <2>6. Valid'
    BY <1>a, <1>11, <2>0 DEF FlushPayload, Flush, Goto, Stop, TypeOK, StageAt, Valid, At, Saving, Transaction,
       Stages, transaction_valid, PLANNED, PARTITIONS_CREATED, COPYING, PAYLOAD_VERIFIED, METADATA_COMMITTED, COMPLETE, ABORTED
  <2>7. Allocating'
    BY <1>a, <1>11, <2>0 DEF FlushPayload, Flush, Goto, Stop, TypeOK, StageAt, Allocating, At, Saving, target, Transaction
  <2> QED
    BY <2>4, <2>5, <2>6, <2>7 DEF IInv
<1>12. CASE VerifyPayload
  <2>0. tx \in Transaction /\ target \in Targets
    BY <1>a, <1>12, Running DEF VerifyPayload
  <2>1. verified' \in BOOLEAN
    BY <1>a, <1>12, Zenon DEF VerifyPayload, SaveThen, Stop, TypeOK
  <2>2. Advanced(tx, PAYLOAD_VERIFIED, TotalSectors)
    BY <1>a, <1>12, <2>0, Advance DEF VerifyPayload, StageAt, Valid, At, Saving
  <2>4. TypeOK'
    BY <1>a, <1>12, <2>1, <2>0, <2>2 DEF VerifyPayload, SaveThen, Stop, Advanced, TypeOK, StageAt, Valid, At, Saving,
       Files, Steps, Conts, Transaction, Stages, Resumable, transaction_valid,
       PLANNED, PARTITIONS_CREATED, COPYING, PAYLOAD_VERIFIED, METADATA_COMMITTED, COMPLETE, ABORTED
  <2>5. StageAt'
    BY <1>a, <1>12, <2>0, <2>2 DEF VerifyPayload, SaveThen, Stop, Advanced, TypeOK, StageAt, Valid, At, Saving, Resumable, Files, Transaction,
       Stages, transaction_valid, PLANNED, PARTITIONS_CREATED, COPYING, PAYLOAD_VERIFIED, METADATA_COMMITTED, COMPLETE, ABORTED
  <2>6. Valid'
    BY <1>a, <1>12, <2>0, <2>2 DEF VerifyPayload, SaveThen, Stop, Advanced, TypeOK, StageAt, Valid, At, Saving, Transaction,
       Stages, transaction_valid, PLANNED, PARTITIONS_CREATED, COPYING, PAYLOAD_VERIFIED, METADATA_COMMITTED, COMPLETE, ABORTED
  <2>7. Allocating'
    BY <1>a, <1>12, <2>0, <2>2 DEF VerifyPayload, SaveThen, Stop, Advanced, TypeOK, StageAt, Allocating, At, Saving, target, Transaction
  <2> QED
    BY <2>4, <2>5, <2>6, <2>7 DEF IInv
<1>13. CASE ReverifyPayload
  <2>0. tx \in Transaction /\ target \in Targets
    BY <1>a, <1>13, Running DEF ReverifyPayload
  <2>1. verified' \in BOOLEAN
    BY <1>a, <1>13, Zenon DEF ReverifyPayload, Goto, Stop, TypeOK
  <2>4. TypeOK'
    BY <1>a, <1>13, <2>1, <2>0 DEF ReverifyPayload, Goto, Stop, TypeOK, StageAt, Valid, At, Saving,
       Files, Steps, Conts, Transaction, Stages, Resumable, transaction_valid,
       PLANNED, PARTITIONS_CREATED, COPYING, PAYLOAD_VERIFIED, METADATA_COMMITTED, COMPLETE, ABORTED
  <2>5. StageAt'
    BY <1>a, <1>13, <2>0 DEF ReverifyPayload, Goto, Stop, TypeOK, StageAt, Valid, At, Saving, Resumable, Files, Transaction,
       Stages, transaction_valid, PLANNED, PARTITIONS_CREATED, COPYING, PAYLOAD_VERIFIED, METADATA_COMMITTED, COMPLETE, ABORTED
  <2>6. Valid'
    BY <1>a, <1>13, <2>0 DEF ReverifyPayload, Goto, Stop, TypeOK, StageAt, Valid, At, Saving, Transaction,
       Stages, transaction_valid, PLANNED, PARTITIONS_CREATED, COPYING, PAYLOAD_VERIFIED, METADATA_COMMITTED, COMPLETE, ABORTED
  <2>7. Allocating'
    BY <1>a, <1>13, <2>0 DEF ReverifyPayload, Goto, Stop, TypeOK, StageAt, Allocating, At, Saving, target, Transaction
  <2> QED
    BY <2>4, <2>5, <2>6, <2>7 DEF IInv
<1>14. CASE CommitWrite
  <2>0. tx \in Transaction /\ target \in Targets
    BY <1>a, <1>14, Running DEF CommitWrite
  <2>1. verified' \in BOOLEAN
    BY <1>a, <1>14, Zenon DEF CommitWrite, Goto, Stop, TypeOK
  <2>2. [disk EXCEPT ![target].meta = tx.img] \in [Targets -> Extent]
    BY <1>a, <1>14, <2>0, ExtentUpdates DEF CommitWrite, TypeOK, Extent, Content, Metadata, Blocks, Transaction
  <2>3. /\ parts' \in [Targets -> 0..PartCount] /\ raw' \subseteq Targets
        /\ disk' \in [Targets -> Extent] /\ platter' \in [Targets -> Extent]
    BY <1>a, <1>14, <2>0, <2>2, ExtentUpdates DEF CommitWrite, TypeOK, Allocating,
       Metadata, Content, Blocks, Transaction
  <2>4. TypeOK'
    BY <1>a, <1>14, <2>1, <2>0, <2>2, <2>3 DEF CommitWrite, Goto, Stop, TypeOK, StageAt, Valid, At, Saving,
       Files, Steps, Conts, Transaction, Stages, Resumable, transaction_valid,
       PLANNED, PARTITIONS_CREATED, COPYING, PAYLOAD_VERIFIED, METADATA_COMMITTED, COMPLETE, ABORTED
  <2>5. StageAt'
    BY <1>a, <1>14, <2>0, <2>2 DEF CommitWrite, Goto, Stop, TypeOK, StageAt, Valid, At, Saving, Resumable, Files, Transaction,
       Stages, transaction_valid, PLANNED, PARTITIONS_CREATED, COPYING, PAYLOAD_VERIFIED, METADATA_COMMITTED, COMPLETE, ABORTED
  <2>6. Valid'
    BY <1>a, <1>14, <2>0, <2>2 DEF CommitWrite, Goto, Stop, TypeOK, StageAt, Valid, At, Saving, Transaction,
       Stages, transaction_valid, PLANNED, PARTITIONS_CREATED, COPYING, PAYLOAD_VERIFIED, METADATA_COMMITTED, COMPLETE, ABORTED
  <2>7. Allocating'
    BY <1>a, <1>14, <2>0, <2>2 DEF CommitWrite, Goto, Stop, TypeOK, StageAt, Allocating, At, Saving, target, Transaction
  <2> QED
    BY <2>4, <2>5, <2>6, <2>7 DEF IInv
<1>15. CASE CommitFlush
  <2>0. tx \in Transaction /\ target \in Targets
    BY <1>a, <1>15, Running DEF CommitFlush
  <2>1. verified' \in BOOLEAN
    BY <1>a, <1>15, Zenon DEF CommitFlush, Flush, SaveThen, Stop, TypeOK
  <2>2. Advanced(tx, METADATA_COMMITTED, TotalSectors)
    BY <1>a, <1>15, <2>0, Advance DEF CommitFlush, StageAt, Valid, At, Saving
  <2>4. TypeOK'
    BY <1>a, <1>15, <2>1, <2>0, <2>2 DEF CommitFlush, Flush, SaveThen, Stop, Advanced, TypeOK, StageAt, Valid, At, Saving,
       Files, Steps, Conts, Transaction, Stages, Resumable, transaction_valid,
       PLANNED, PARTITIONS_CREATED, COPYING, PAYLOAD_VERIFIED, METADATA_COMMITTED, COMPLETE, ABORTED
  <2>5. StageAt'
    BY <1>a, <1>15, <2>0, <2>2 DEF CommitFlush, Flush, SaveThen, Stop, Advanced, TypeOK, StageAt, Valid, At, Saving, Resumable, Files, Transaction,
       Stages, transaction_valid, PLANNED, PARTITIONS_CREATED, COPYING, PAYLOAD_VERIFIED, METADATA_COMMITTED, COMPLETE, ABORTED
  <2>6. Valid'
    BY <1>a, <1>15, <2>0, <2>2 DEF CommitFlush, Flush, SaveThen, Stop, Advanced, TypeOK, StageAt, Valid, At, Saving, Transaction,
       Stages, transaction_valid, PLANNED, PARTITIONS_CREATED, COPYING, PAYLOAD_VERIFIED, METADATA_COMMITTED, COMPLETE, ABORTED
  <2>7. Allocating'
    BY <1>a, <1>15, <2>0, <2>2 DEF CommitFlush, Flush, SaveThen, Stop, Advanced, TypeOK, StageAt, Allocating, At, Saving, target, Transaction
  <2> QED
    BY <2>4, <2>5, <2>6, <2>7 DEF IInv
<1>16. CASE FinishMetadata
  <2>0. tx \in Transaction /\ target \in Targets
    BY <1>a, <1>16, Running DEF FinishMetadata
  <2>1. verified' \in BOOLEAN
    BY <1>a, <1>16, Zenon DEF FinishMetadata, Stop, TypeOK
  <2>2. Advanced(tx, COMPLETE, TotalSectors)
    BY <1>a, <1>16, <2>0, Advance DEF FinishMetadata, StageAt, Valid, At, Saving
  <2>4. TypeOK'
    BY <1>a, <1>16, <2>1, <2>0, <2>2 DEF FinishMetadata, Stop, Advanced, TypeOK, StageAt, Valid, At, Saving,
       Files, Steps, Conts, Transaction, Stages, Resumable, transaction_valid,
       PLANNED, PARTITIONS_CREATED, COPYING, PAYLOAD_VERIFIED, METADATA_COMMITTED, COMPLETE, ABORTED
  <2>5. StageAt'
    BY <1>a, <1>16, <2>0, <2>2 DEF FinishMetadata, Stop, Advanced, TypeOK, StageAt, Valid, At, Saving, Resumable, Files, Transaction,
       Stages, transaction_valid, PLANNED, PARTITIONS_CREATED, COPYING, PAYLOAD_VERIFIED, METADATA_COMMITTED, COMPLETE, ABORTED
  <2>6. Valid'
    BY <1>a, <1>16, <2>0, <2>2 DEF FinishMetadata, Stop, Advanced, TypeOK, StageAt, Valid, At, Saving, Transaction,
       Stages, transaction_valid, PLANNED, PARTITIONS_CREATED, COPYING, PAYLOAD_VERIFIED, METADATA_COMMITTED, COMPLETE, ABORTED
  <2>7. Allocating'
    BY <1>a, <1>16, <2>0, <2>2 DEF FinishMetadata, Stop, Advanced, TypeOK, StageAt, Allocating, At, Saving, target, Transaction
  <2> QED
    BY <2>4, <2>5, <2>6, <2>7 DEF IInv
<1> QED
  BY <1>1, <1>2, <1>3, <1>4, <1>5, <1>6, <1>7, <1>8, <1>9, <1>10, <1>11, <1>12, <1>13, <1>14, <1>15, <1>16 DEF RunStep

(* The menu choices preserve the invariant. *)
LEMMA MenuStepInv == IInv /\ MenuStep => IInv'
<1> SUFFICES ASSUME IInv, MenuStep PROVE IInv'
    OBVIOUS
<1> USE InstallAssumption, TotalSectorsAssumption DEF journalVars, diskVars, runVars
<1>a. TypeOK /\ StageAt /\ Valid /\ Allocating
  BY DEF IInv
<1>1. CASE BeginNewInstall
  <2>1. verified' \in BOOLEAN
    BY <1>a, <1>1, Zenon DEF BeginNewInstall, SaveThen, TypeOK
  <2>4. TypeOK'
    BY <1>a, <1>1, <2>1 DEF BeginNewInstall, SaveThen, TypeOK, StageAt, Valid, At, Saving,
       Files, Steps, Conts, Transaction, Stages, Resumable, transaction_valid,
       PLANNED, PARTITIONS_CREATED, COPYING, PAYLOAD_VERIFIED, METADATA_COMMITTED, COMPLETE, ABORTED
  <2>5. StageAt'
    BY <1>a, <1>1 DEF BeginNewInstall, SaveThen, TypeOK, StageAt, Valid, At, Saving, Resumable, Files, Transaction,
       Stages, transaction_valid, PLANNED, PARTITIONS_CREATED, COPYING, PAYLOAD_VERIFIED, METADATA_COMMITTED, COMPLETE, ABORTED
  <2>6. Valid'
    BY <1>a, <1>1 DEF BeginNewInstall, SaveThen, TypeOK, StageAt, Valid, At, Saving, Transaction,
       Stages, transaction_valid, PLANNED, PARTITIONS_CREATED, COPYING, PAYLOAD_VERIFIED, METADATA_COMMITTED, COMPLETE, ABORTED
  <2>7. Allocating'
    BY <1>a, <1>1 DEF BeginNewInstall, SaveThen, TypeOK, StageAt, Allocating, At, Saving, target, Transaction
  <2> QED
    BY <2>4, <2>5, <2>6, <2>7 DEF IInv
<1>2. CASE Resume
  <2>1. verified' \in BOOLEAN
    BY <1>a, <1>2, Zenon DEF Resume, TypeOK
  <2>4. TypeOK'
    BY <1>a, <1>2, <2>1, JournalLoad DEF Resume, TypeOK, StageAt, Valid, At, Saving,
       Files, Steps, Conts, Transaction, Stages, Resumable, transaction_valid,
       PLANNED, PARTITIONS_CREATED, COPYING, PAYLOAD_VERIFIED, METADATA_COMMITTED, COMPLETE, ABORTED
  <2>5. StageAt'
    BY <1>a, <1>2, JournalLoad DEF Resume, TypeOK, StageAt, Valid, At, Saving, Resumable, Files, Transaction,
       Stages, transaction_valid, PLANNED, PARTITIONS_CREATED, COPYING, PAYLOAD_VERIFIED, METADATA_COMMITTED, COMPLETE, ABORTED
  <2>6. Valid'
    BY <1>a, <1>2, JournalLoad DEF Resume, TypeOK, StageAt, Valid, At, Saving, Transaction,
       Stages, transaction_valid, PLANNED, PARTITIONS_CREATED, COPYING, PAYLOAD_VERIFIED, METADATA_COMMITTED, COMPLETE, ABORTED
  <2>7. Allocating'
    BY <1>a, <1>2, JournalLoad DEF Resume, TypeOK, StageAt, Allocating, At, Saving, target, Transaction
  <2> QED
    BY <2>4, <2>5, <2>6, <2>7 DEF IInv
<1>3. CASE RemoveIncomplete
  <2>1. verified' \in BOOLEAN
    BY <1>a, <1>3, Zenon DEF RemoveIncomplete, RemovePartition, TypeOK
  <2>3. /\ parts' \in [Targets -> 0..PartCount] /\ raw' \subseteq Targets
        /\ disk' \in [Targets -> Extent] /\ platter' \in [Targets -> Extent]
    BY <1>a, <1>3, JournalLoad, ExtentUpdates, Removing DEF RemoveIncomplete, TypeOK, Allocating,
       Metadata, Content, Blocks, Transaction
  <2>4. TypeOK'
    BY <1>a, <1>3, <2>1, JournalLoad, <2>3 DEF RemoveIncomplete, TypeOK, StageAt, Valid, At, Saving,
       Files, Steps, Conts, Transaction, Stages, Resumable, transaction_valid,
       PLANNED, PARTITIONS_CREATED, COPYING, PAYLOAD_VERIFIED, METADATA_COMMITTED, COMPLETE, ABORTED
  <2>5. StageAt'
    BY <1>a, <1>3, JournalLoad DEF RemoveIncomplete, RemovePartition, TypeOK, StageAt, Valid, At, Saving, Resumable, Files, Transaction,
       Stages, transaction_valid, PLANNED, PARTITIONS_CREATED, COPYING, PAYLOAD_VERIFIED, METADATA_COMMITTED, COMPLETE, ABORTED
  <2>6. Valid'
    BY <1>a, <1>3, JournalLoad DEF RemoveIncomplete, RemovePartition, TypeOK, StageAt, Valid, At, Saving, Transaction,
       Stages, transaction_valid, PLANNED, PARTITIONS_CREATED, COPYING, PAYLOAD_VERIFIED, METADATA_COMMITTED, COMPLETE, ABORTED
  <2>7. Allocating'
    BY <1>a, <1>3, JournalLoad DEF RemoveIncomplete, RemovePartition, TypeOK, StageAt, Allocating, At, Saving, target, Transaction
  <2> QED
    BY <2>4, <2>5, <2>6, <2>7 DEF IInv
<1>4. CASE \E t \in Targets : DeleteGame(t)
  <2>1. verified' \in BOOLEAN
    BY <1>a, <1>4, Zenon DEF DeleteGame, RemovePartition, TypeOK
  <2>3. /\ parts' \in [Targets -> 0..PartCount] /\ raw' \subseteq Targets
        /\ disk' \in [Targets -> Extent] /\ platter' \in [Targets -> Extent]
    BY <1>a, <1>4, JournalLoad, ExtentUpdates, Removing DEF DeleteGame, TypeOK, Allocating,
       Metadata, Content, Blocks, Transaction
  <2>4. TypeOK'
    BY <1>a, <1>4, <2>1, JournalLoad, <2>3 DEF DeleteGame, TypeOK, StageAt, Valid, At, Saving,
       Files, Steps, Conts, Transaction, Stages, Resumable, transaction_valid,
       PLANNED, PARTITIONS_CREATED, COPYING, PAYLOAD_VERIFIED, METADATA_COMMITTED, COMPLETE, ABORTED
  <2>5. StageAt'
    BY <1>a, <1>4, JournalLoad DEF DeleteGame, RemovePartition, TypeOK, StageAt, Valid, At, Saving, Resumable, Files, Transaction,
       Stages, transaction_valid, PLANNED, PARTITIONS_CREATED, COPYING, PAYLOAD_VERIFIED, METADATA_COMMITTED, COMPLETE, ABORTED
  <2>6. Valid'
    BY <1>a, <1>4, JournalLoad DEF DeleteGame, RemovePartition, TypeOK, StageAt, Valid, At, Saving, Transaction,
       Stages, transaction_valid, PLANNED, PARTITIONS_CREATED, COPYING, PAYLOAD_VERIFIED, METADATA_COMMITTED, COMPLETE, ABORTED
  <2>7. Allocating'
    BY <1>a, <1>4, JournalLoad DEF DeleteGame, RemovePartition, TypeOK, StageAt, Allocating, At, Saving, target, Transaction
  <2> QED
    BY <2>4, <2>5, <2>6, <2>7 DEF IInv
<1> QED
  BY <1>1, <1>2, <1>3, <1>4 DEF MenuStep

(* A power loss leaves, of each cached block, the new or the old content,   *)
(* and forgets the run.                                                     *)
LEMMA PowerLossInv == IInv /\ PowerLoss => IInv'
<1> SUFFICES ASSUME IInv, PowerLoss PROVE IInv'
    OBVIOUS
<1> USE InstallAssumption, TotalSectorsAssumption DEF journalVars, IInv
<1>1. verified' \in BOOLEAN
  BY Zenon DEF PowerLoss, Stop
<1>2. \A kept \in SUBSET Dirty : After(kept) \in [Targets -> Extent]
  BY DEF After, TypeOK, Extent
<1>3. TypeOK'
  BY <1>1, <1>2 DEF PowerLoss, Stop, TypeOK, Steps, Conts
<1>4. StageAt' /\ Valid' /\ Allocating'
  BY DEF PowerLoss, Stop, StageAt, Valid, Allocating, At, Saving
<1> QED
  BY <1>3, <1>4

(* Changing the ISO at the menu, or removing an unreadable journal by hand, *)
(* preserves the invariant.                                                 *)
LEMMA OperatorInv == IInv /\ (SwapSource \/ RemoveCorruptJournal) => IInv'
<1> SUFFICES ASSUME IInv, SwapSource \/ RemoveCorruptJournal PROVE IInv'
    OBVIOUS
<1> USE InstallAssumption DEF journalVars, diskVars, runVars, IInv, SwapSource, RemoveCorruptJournal
<1>1. TypeOK'
  BY DEF TypeOK, Files
<1>2. StageAt' /\ Valid' /\ Allocating'
  BY DEF StageAt, Valid, Allocating, At, Saving, target
<1> QED
  BY <1>1, <1>2

(* No step of the program, the operator or the power breaks the invariant. *)
LEMMA NextInv == IInv /\ [Next]_vars => IInv'
<1> SUFFICES ASSUME IInv, [Next]_vars PROVE IInv'
    OBVIOUS
<1>1. CASE UNCHANGED vars
  BY <1>1 DEF vars, IInv, TypeOK, StageAt, Valid, Allocating, At, target
<1> QED
  BY <1>1, JournalStepInv, RunStepInv, MenuStepInv, PowerLossInv, OperatorInv DEF Next

(* The invariant holds throughout: every record in RAM or on USB is one the *)
(* stage machine accepts, in the stage that the place in the run calls for. *)
THEOREM Invariance == Spec => []IInv
<1> QED
  BY InitInv, NextInv, PTL DEF Spec

(* Type correctness of the installer, for every image set, partition count  *)
(* and journal interval.                                                    *)
THEOREM TypeCorrect == Spec => []TypeOK
<1>1. IInv => TypeOK
  BY DEF IInv
<1> QED
  BY <1>1, Invariance, PTL

(* No partition is ever removed but by a confirmed deletion of a game that  *)
(* no journal claims, by a clean-up that the journal authorises, or by the  *)
(* run that created it.                                                     *)
THEOREM OwnedRemoval == Spec => OnlyOwnedRemoved
<1> DEFINE Owned(t) ==
      \/ /\ pc = "idle" /\ disk[t].meta # None
         /\ journal_load = None => txn = None /\ new = None
         /\ journal_load # None => TargetOf[journal_load.img] # t
      \/ /\ pc = "idle" /\ journal_load # None /\ TargetOf[journal_load.img] = t
         /\ journal_load.stage \in PARTITIONS_CREATED..PAYLOAD_VERIFIED
      \/ pc \in {"invalidate", "invalidate_flush", "addsub", "alloc_flush"} /\ t = target
<1>1. ASSUME IInv, Next, NEW t \in Targets, parts[t] > 0, parts'[t] = 0
      PROVE  Owned(t)
  <2> USE <1>1, InstallAssumption DEF IInv, diskVars, runVars, journalVars
  <2>1. \/ CreateMain \/ InvalidateMetadata \/ InvalidateFlush \/ AddSub \/ AllocFlush
        \/ RemoveIncomplete \/ \E u \in Targets : DeleteGame(u)
    BY DEF Next, JournalStep, RunStep, MenuStep, SaveOpen, SaveWrite, SaveRemove, SaveRename,
       UnlinkTxn, UnlinkNew, Preflight, OpenTarget, CopyBlock, PollPad, CopyDone, FlushPayload,
       VerifyPayload, ReverifyPayload, CommitWrite, CommitFlush, FinishMetadata,
       BeginNewInstall, Resume, PowerLoss, SwapSource, RemoveCorruptJournal, TypeOK
  <2>2. CASE CreateMain
    BY <2>2 DEF CreateMain, TypeOK
  <2>3. CASE InvalidateMetadata \/ InvalidateFlush \/ AllocFlush
    BY <2>3 DEF InvalidateMetadata, InvalidateFlush, AllocFlush, DropCreated, RemovePartition,
       TypeOK
  <2>4. CASE AddSub
    BY <2>4 DEF AddSub, DropCreated, RemovePartition, TypeOK
  <2>5. CASE RemoveIncomplete
    BY <2>5 DEF RemoveIncomplete, RemovePartition, TypeOK
  <2>6. CASE \E u \in Targets : DeleteGame(u)
    <3>1. pc = "idle" /\ disk[t].meta # None /\ ~journal_blocks_game_delete(t)
      BY <2>6 DEF DeleteGame, RemovePartition, TypeOK
    <3>2. journal_load # None => journal_load.stage # COMPLETE
      BY JournalLoad DEF StageAt, Resumable, PLANNED, METADATA_COMMITTED, COMPLETE
    <3> QED
      BY <3>1, <3>2 DEF journal_blocks_game_delete, journal_present
  <2> QED
    BY <2>1, <2>2, <2>3, <2>4, <2>5, <2>6
<1>2. IInv /\ [Next]_vars => [\A t \in Targets : parts[t] > 0 /\ parts'[t] = 0 => Owned(t)]_vars
  BY <1>1
<1> QED
  BY <1>2, Invariance, PTL DEF Spec, OnlyOwnedRemoved

-----------------------------------------------------------------------------
(* The journal and the disk together.  IInv says nothing of the disk; DInv  *)
(* says what each stored record, and each visible game, stands for there,   *)
(* and is inductive relative to IInv.                                       *)

(* The places of a run between journal_load and journal_remove. *)
Unlinking == {"unlink_txn", "unlink_new"}
InRun     == pc \notin {"idle"} \cup Unlinking

(* Record a comes no later than b in the life of the same transaction. *)
Precedes(a, b) ==
  a.img = b.img /\ a.stage <= b.stage /\ a.completed <= b.completed

(* The two files and the record in RAM are of one transaction and in order; *)
(* outside journal_save the stored record has the stage the run is in.      *)
Ordered ==
  /\ txn # Torn
  /\ txn \in Transaction => transaction_valid(txn)
  /\ new \in Transaction => transaction_valid(new)
  /\ txn \in Transaction /\ new \in Transaction => Precedes(txn, new)
  /\ InRun /\ journal_load # None => Precedes(journal_load, tx)
  /\ InRun /\ pc \notin Saving => journal_load # None /\ journal_load.stage = tx.stage
  /\ pc \in {"save_remove", "save_rename"} => new = tx

(* What the record r claims of its target, which has n partitions and the   *)
(* extents d (cached) and p (durable).                                      *)
Backs(r, n, d, p) ==
  /\ n = PartCount
  /\ r.stage < PAYLOAD_VERIFIED => d.meta = None /\ p.meta = None
  /\ r.stage >= PAYLOAD_VERIFIED =>
       /\ d.data = p.data /\ HoldsImage(p, r.img)
       /\ d.meta \in {None, r.img} /\ p.meta \in {None, r.img}
  /\ r.stage >= METADATA_COMMITTED => d.meta = r.img /\ p.meta = r.img

SoundOn(r, ps, rw, d, p) ==
  LET t == TargetOf[r.img]
  IN r.stage >= PARTITIONS_CREATED /\ ps[t] > 0 =>
       t \notin rw /\ Backs(r, ps[t], d[t], p[t])

Sound(r) == SoundOn(r, parts, raw, disk, platter)

(* Every record that a restart could load from here is sound. *)
Kept ==
  /\ journal_load # None => Sound(journal_load)
  /\ pc \in Saving => Sound(tx)
  /\ pc \in Unlinking /\ new \in Transaction => Sound(new)

(* Visible metadata stands for a payload that is whole, and durable. *)
WholeExtent(t, n, d, p) ==
  d.meta # None \/ p.meta # None =>
    /\ n = PartCount /\ d.data = p.data
    /\ \A m \in {d.meta, p.meta} \ {None} : m \in Images /\ TargetOf[m] = t /\ HoldsImage(p, m)

Whole ==
  \A t \in Targets \ raw : parts[t] > 0 => WholeExtent(t, parts[t], disk[t], platter[t])

(* Metadata that is written and not yet flushed is that of the transaction  *)
(* the journal names, so a flush publishes one game at most.                *)
Pending ==
  \A t \in Targets \ raw :
    parts[t] > 0 /\ disk[t].meta # platter[t].meta =>
      /\ journal_load # None /\ journal_load.stage = PAYLOAD_VERIFIED
      /\ TargetOf[journal_load.img] = t /\ pc \notin Saving \cup Unlinking

(* create_partitions, step by step *)
Created ==
  /\ pc = "create" => parts[target] = 0
  /\ pc \in {"invalidate", "invalidate_flush"} => target \in raw
  /\ pc = "invalidate_flush" => disk[target].meta = None
  /\ pc \in {"addsub", "alloc_flush"} =>
       target \notin raw /\ disk[target].meta = None /\ platter[target].meta = None
  /\ pc = "alloc_flush" => parts[target] = PartCount

(* The source stays the accepted one while its payload is copied, the       *)
(* target stays allocated, and what is verified is durable.                 *)
Copied ==
  /\ At \in {"create", "invalidate", "invalidate_flush", "addsub", "alloc_flush",
             "open", "copy", "poll", "flush", "verify"}
       /\ tx.stage < METADATA_COMMITTED => source_accepted
  /\ At \in {"copy", "poll", "flush", "verify", "commit", "commit_write", "commit_flush",
             "finish"} => parts[target] = PartCount
  /\ pc = "verify" => disk[target].data = platter[target].data
  /\ pc = "commit_flush" => disk[target].meta = tx.img

DInv == Ordered /\ Kept /\ Whole /\ Pending /\ Created /\ Copied

(* Saving and removing the journal keeps the records in order. *)
LEMMA JournalStepOrdered == IInv /\ Ordered /\ JournalStep => Ordered'
<1> SUFFICES ASSUME IInv, Ordered, JournalStep PROVE Ordered'
    OBVIOUS
<1> USE InstallAssumption, TotalSectorsAssumption DEF journalVars, diskVars, runVars
<1>a. TypeOK /\ StageAt /\ Valid
  BY DEF IInv
<1>1. CASE SaveOpen
  <2>1. tx \in Transaction
    BY <1>a, <1>1, Running DEF SaveOpen
  <2> QED
    BY <1>a, <1>1, <2>1 DEF SaveOpen, Goto, Stop, Ordered, Precedes, InRun, Unlinking, Saving, At, TypeOK, StageAt, Valid,
       journal_load, decodes, Files, Transaction, Stages, PLANNED, PARTITIONS_CREATED, COPYING, PAYLOAD_VERIFIED, METADATA_COMMITTED, COMPLETE, ABORTED
<1>2. CASE SaveWrite
  <2>1. tx \in Transaction
    BY <1>a, <1>2, Running DEF SaveWrite
  <2> QED
    BY <1>a, <1>2, <2>1 DEF SaveWrite, Goto, Stop, Ordered, Precedes, InRun, Unlinking, Saving, At, TypeOK, StageAt, Valid,
       journal_load, decodes, Files, Transaction, Stages, PLANNED, PARTITIONS_CREATED, COPYING, PAYLOAD_VERIFIED, METADATA_COMMITTED, COMPLETE, ABORTED
<1>3. CASE SaveRemove
  <2>1. tx \in Transaction
    BY <1>a, <1>3, Running DEF SaveRemove
  <2> QED
    BY <1>a, <1>3, <2>1 DEF SaveRemove, Goto, Ordered, Precedes, InRun, Unlinking, Saving, At, TypeOK, StageAt, Valid,
       journal_load, decodes, Files, Transaction, Stages, PLANNED, PARTITIONS_CREATED, COPYING, PAYLOAD_VERIFIED, METADATA_COMMITTED, COMPLETE, ABORTED
<1>4. CASE SaveRename
  <2>1. tx \in Transaction
    BY <1>a, <1>4, Running DEF SaveRename
  <2> QED
    BY <1>a, <1>4, <2>1 DEF SaveRename, Goto, Stop, Conts, Ordered, Precedes, InRun, Unlinking, Saving, At, TypeOK, StageAt, Valid,
       journal_load, decodes, Files, Transaction, Stages, PLANNED, PARTITIONS_CREATED, COPYING, PAYLOAD_VERIFIED, METADATA_COMMITTED, COMPLETE, ABORTED
<1>5. CASE UnlinkTxn
  <2>1. tx \in Transaction
    BY <1>a, <1>5, Running DEF UnlinkTxn
  <2> QED
    BY <1>a, <1>5, <2>1 DEF UnlinkTxn, Goto, Ordered, Precedes, InRun, Unlinking, Saving, At, TypeOK, StageAt, Valid,
       journal_load, decodes, Files, Transaction, Stages, PLANNED, PARTITIONS_CREATED, COPYING, PAYLOAD_VERIFIED, METADATA_COMMITTED, COMPLETE, ABORTED
<1>6. CASE UnlinkNew
  <2>1. tx \in Transaction
    BY <1>a, <1>6, Running DEF UnlinkNew
  <2> QED
    BY <1>a, <1>6, <2>1 DEF UnlinkNew, Stop, Ordered, Precedes, InRun, Unlinking, Saving, At, TypeOK, StageAt, Valid,
       journal_load, decodes, Files, Transaction, Stages, PLANNED, PARTITIONS_CREATED, COPYING, PAYLOAD_VERIFIED, METADATA_COMMITTED, COMPLETE, ABORTED
<1> QED
  BY <1>1, <1>2, <1>3, <1>4, <1>5, <1>6 DEF JournalStep

(* A run keeps the records in order. *)
LEMMA RunStepOrdered == IInv /\ Ordered /\ RunStep => Ordered'
<1> SUFFICES ASSUME IInv, Ordered, RunStep PROVE Ordered'
    OBVIOUS
<1> USE InstallAssumption, TotalSectorsAssumption DEF journalVars, diskVars, runVars
<1>a. TypeOK /\ StageAt /\ Valid
  BY DEF IInv
<1>1. CASE Preflight
  <2>1. tx \in Transaction
    BY <1>a, <1>1, Running DEF Preflight
  <2> QED
    BY <1>a, <1>1, <2>1 DEF Preflight, Goto, Stop, Ordered, Precedes, InRun, Unlinking, Saving, At, TypeOK, StageAt, Valid,
       journal_load, decodes, Files, Transaction, Stages, PLANNED, PARTITIONS_CREATED, COPYING, PAYLOAD_VERIFIED, METADATA_COMMITTED, COMPLETE, ABORTED
<1>2. CASE CreateMain
  <2>1. tx \in Transaction
    BY <1>a, <1>2, Running DEF CreateMain
  <2> QED
    BY <1>a, <1>2, <2>1 DEF CreateMain, Goto, Stop, Ordered, Precedes, InRun, Unlinking, Saving, At, TypeOK, StageAt, Valid,
       journal_load, decodes, Files, Transaction, Stages, PLANNED, PARTITIONS_CREATED, COPYING, PAYLOAD_VERIFIED, METADATA_COMMITTED, COMPLETE, ABORTED
<1>3. CASE InvalidateMetadata
  <2>1. tx \in Transaction
    BY <1>a, <1>3, Running DEF InvalidateMetadata
  <2> QED
    BY <1>a, <1>3, <2>1 DEF InvalidateMetadata, Goto, DropCreated, Stop, Ordered, Precedes, InRun, Unlinking, Saving, At, TypeOK, StageAt, Valid,
       journal_load, decodes, Files, Transaction, Stages, PLANNED, PARTITIONS_CREATED, COPYING, PAYLOAD_VERIFIED, METADATA_COMMITTED, COMPLETE, ABORTED
<1>4. CASE InvalidateFlush
  <2>1. tx \in Transaction
    BY <1>a, <1>4, Running DEF InvalidateFlush
  <2> QED
    BY <1>a, <1>4, <2>1 DEF InvalidateFlush, Goto, DropCreated, Stop, Ordered, Precedes, InRun, Unlinking, Saving, At, TypeOK, StageAt, Valid,
       journal_load, decodes, Files, Transaction, Stages, PLANNED, PARTITIONS_CREATED, COPYING, PAYLOAD_VERIFIED, METADATA_COMMITTED, COMPLETE, ABORTED
<1>5. CASE AddSub
  <2>1. tx \in Transaction
    BY <1>a, <1>5, Running DEF AddSub
  <2> QED
    BY <1>a, <1>5, <2>1 DEF AddSub, Goto, DropCreated, Stop, Ordered, Precedes, InRun, Unlinking, Saving, At, TypeOK, StageAt, Valid,
       journal_load, decodes, Files, Transaction, Stages, PLANNED, PARTITIONS_CREATED, COPYING, PAYLOAD_VERIFIED, METADATA_COMMITTED, COMPLETE, ABORTED
<1>6. CASE AllocFlush
  <2>1. tx \in Transaction
    BY <1>a, <1>6, Running DEF AllocFlush
  <2>2. Advanced(tx, PARTITIONS_CREATED, 0)
    BY <1>a, <1>6, <2>1, Advance DEF AllocFlush, StageAt, Valid, At, Saving
  <2> QED
    BY <1>a, <1>6, <2>1, <2>2 DEF AllocFlush, SaveThen, DropCreated, Stop, Advanced, Ordered, Precedes, InRun, Unlinking, Saving, At, TypeOK, StageAt, Valid,
       journal_load, decodes, transaction_valid, Files, Transaction, Stages, PLANNED, PARTITIONS_CREATED, COPYING, PAYLOAD_VERIFIED, METADATA_COMMITTED, COMPLETE, ABORTED
<1>7. CASE OpenTarget
  <2>1. tx \in Transaction
    BY <1>a, <1>7, Running DEF OpenTarget
  <2>2. tx.stage = PARTITIONS_CREATED => Advanced(tx, COPYING, 0)
    BY <1>a, <1>7, <2>1, Advance DEF OpenTarget, StageAt, Valid, At, Saving
  <2> QED
    BY <1>a, <1>7, <2>1, <2>2 DEF OpenTarget, SaveThen, Stop, Advanced, Ordered, Precedes, InRun, Unlinking, Saving, At, TypeOK, StageAt, Valid,
       journal_load, decodes, transaction_valid, Files, Transaction, Stages, PLANNED, PARTITIONS_CREATED, COPYING, PAYLOAD_VERIFIED, METADATA_COMMITTED, COMPLETE, ABORTED
<1>8. CASE CopyBlock
  <2>1. tx \in Transaction
    BY <1>a, <1>8, Running DEF CopyBlock
  <2> QED
    BY <1>a, <1>8, <2>1 DEF CopyBlock, SaveThen, Stop, Ordered, Precedes, InRun, Unlinking, Saving, At, TypeOK, StageAt, Valid,
       journal_load, decodes, Files, Transaction, Stages, PLANNED, PARTITIONS_CREATED, COPYING, PAYLOAD_VERIFIED, METADATA_COMMITTED, COMPLETE, ABORTED
<1>9. CASE PollPad
  <2>1. tx \in Transaction
    BY <1>a, <1>9, Running DEF PollPad
  <2> QED
    BY <1>a, <1>9, <2>1 DEF PollPad, Goto, SaveThen, Ordered, Precedes, InRun, Unlinking, Saving, At, TypeOK, StageAt, Valid,
       journal_load, decodes, Files, Transaction, Stages, PLANNED, PARTITIONS_CREATED, COPYING, PAYLOAD_VERIFIED, METADATA_COMMITTED, COMPLETE, ABORTED
<1>10. CASE CopyDone
  <2>1. tx \in Transaction
    BY <1>a, <1>10, Running DEF CopyDone
  <2> QED
    BY <1>a, <1>10, <2>1 DEF CopyDone, Goto, Ordered, Precedes, InRun, Unlinking, Saving, At, TypeOK, StageAt, Valid,
       journal_load, decodes, Files, Transaction, Stages, PLANNED, PARTITIONS_CREATED, COPYING, PAYLOAD_VERIFIED, METADATA_COMMITTED, COMPLETE, ABORTED
<1>11. CASE FlushPayload
  <2>1. tx \in Transaction
    BY <1>a, <1>11, Running DEF FlushPayload
  <2> QED
    BY <1>a, <1>11, <2>1 DEF FlushPayload, Goto, Stop, Ordered, Precedes, InRun, Unlinking, Saving, At, TypeOK, StageAt, Valid,
       journal_load, decodes, Files, Transaction, Stages, PLANNED, PARTITIONS_CREATED, COPYING, PAYLOAD_VERIFIED, METADATA_COMMITTED, COMPLETE, ABORTED
<1>12. CASE VerifyPayload
  <2>1. tx \in Transaction
    BY <1>a, <1>12, Running DEF VerifyPayload
  <2>2. Advanced(tx, PAYLOAD_VERIFIED, TotalSectors)
    BY <1>a, <1>12, <2>1, Advance DEF VerifyPayload, StageAt, Valid, At, Saving
  <2> QED
    BY <1>a, <1>12, <2>1, <2>2 DEF VerifyPayload, SaveThen, Stop, Advanced, Ordered, Precedes, InRun, Unlinking, Saving, At, TypeOK, StageAt, Valid,
       journal_load, decodes, Files, Transaction, Stages, PLANNED, PARTITIONS_CREATED, COPYING, PAYLOAD_VERIFIED, METADATA_COMMITTED, COMPLETE, ABORTED
<1>13. CASE ReverifyPayload
  <2>1. tx \in Transaction
    BY <1>a, <1>13, Running DEF ReverifyPayload
  <2> QED
    BY <1>a, <1>13, <2>1 DEF ReverifyPayload, Goto, Stop, Ordered, Precedes, InRun, Unlinking, Saving, At, TypeOK, StageAt, Valid,
       journal_load, decodes, Files, Transaction, Stages, PLANNED, PARTITIONS_CREATED, COPYING, PAYLOAD_VERIFIED, METADATA_COMMITTED, COMPLETE, ABORTED
<1>14. CASE CommitWrite
  <2>1. tx \in Transaction
    BY <1>a, <1>14, Running DEF CommitWrite
  <2> QED
    BY <1>a, <1>14, <2>1 DEF CommitWrite, Goto, Stop, Ordered, Precedes, InRun, Unlinking, Saving, At, TypeOK, StageAt, Valid,
       journal_load, decodes, Files, Transaction, Stages, PLANNED, PARTITIONS_CREATED, COPYING, PAYLOAD_VERIFIED, METADATA_COMMITTED, COMPLETE, ABORTED
<1>15. CASE CommitFlush
  <2>1. tx \in Transaction
    BY <1>a, <1>15, Running DEF CommitFlush
  <2>2. Advanced(tx, METADATA_COMMITTED, TotalSectors)
    BY <1>a, <1>15, <2>1, Advance DEF CommitFlush, StageAt, Valid, At, Saving
  <2> QED
    BY <1>a, <1>15, <2>1, <2>2 DEF CommitFlush, SaveThen, Stop, Advanced, Ordered, Precedes, InRun, Unlinking, Saving, At, TypeOK, StageAt, Valid,
       journal_load, decodes, Files, Transaction, Stages, PLANNED, PARTITIONS_CREATED, COPYING, PAYLOAD_VERIFIED, METADATA_COMMITTED, COMPLETE, ABORTED
<1>16. CASE FinishMetadata
  <2>1. tx \in Transaction
    BY <1>a, <1>16, Running DEF FinishMetadata
  <2> QED
    BY <1>a, <1>16, <2>1 DEF FinishMetadata, Stop, Ordered, Precedes, InRun, Unlinking, Saving, At, TypeOK, StageAt, Valid,
       journal_load, decodes, Files, Transaction, Stages, PLANNED, PARTITIONS_CREATED, COPYING, PAYLOAD_VERIFIED, METADATA_COMMITTED, COMPLETE, ABORTED
<1> QED
  BY <1>1, <1>2, <1>3, <1>4, <1>5, <1>6, <1>7, <1>8, <1>9, <1>10, <1>11, <1>12, <1>13, <1>14, <1>15, <1>16 DEF RunStep

(* The menu, the operator and the power keep the records in order. *)
LEMMA OtherStepOrdered ==
  IInv /\ Ordered /\ (MenuStep \/ PowerLoss \/ SwapSource \/ RemoveCorruptJournal) => Ordered'
<1> SUFFICES ASSUME IInv, Ordered, MenuStep \/ PowerLoss \/ SwapSource \/ RemoveCorruptJournal
             PROVE  Ordered'
    OBVIOUS
<1> USE InstallAssumption, TotalSectorsAssumption DEF journalVars, diskVars, runVars
<1>a. TypeOK /\ StageAt /\ Valid
  BY DEF IInv
<1>1. CASE BeginNewInstall
  BY <1>a, <1>1 DEF BeginNewInstall, SaveThen, journal_present, Ordered, InRun, Unlinking, Saving,
     journal_load, decodes
<1>2. CASE Resume
  BY <1>a, <1>2, JournalLoad DEF Resume, Ordered, Precedes, InRun, Unlinking, Saving, journal_load, decodes,
     Transaction, Stages
<1>3. CASE RemoveIncomplete
  BY <1>a, <1>3 DEF RemoveIncomplete, Ordered, InRun, Unlinking, Saving
<1>4. CASE \E t \in Targets : DeleteGame(t)
  BY <1>a, <1>4 DEF DeleteGame, Ordered, InRun, Unlinking, Saving, journal_load
<1>5. CASE PowerLoss
  BY <1>a, <1>5 DEF PowerLoss, Stop, Ordered, InRun, Unlinking, Saving, journal_load
<1>6. CASE SwapSource \/ RemoveCorruptJournal
  BY <1>a, <1>6 DEF SwapSource, RemoveCorruptJournal, Ordered, InRun, Unlinking, Saving,
     journal_load, decodes
<1> QED
  BY <1>1, <1>2, <1>3, <1>4, <1>5, <1>6 DEF MenuStep

(* What a flush, a failed flush, a power loss or no write at all makes of   *)
(* an extent d on top of p.                                                 *)
Outcome(e, d, p) ==
  e.meta \in {d.meta, p.meta} /\ (d.data = p.data => e.data = p.data)

Settled ==
  /\ parts' = parts /\ raw' = raw
  /\ \A t \in Targets : /\ Outcome(disk'[t], disk[t], platter[t])
                        /\ Outcome(platter'[t], disk[t], platter[t])

(* Such a step keeps what records and metadata claim: what they claim is    *)
(* the same on the platter and in the cache.                                *)
LEMMA SettledBacks ==
  ASSUME NEW r, NEW n, NEW d, NEW p, NEW e, NEW f, Outcome(e, d, p), Outcome(f, d, p),
         Backs(r, n, d, p)
  PROVE  Backs(r, n, e, f)
  BY DEF Backs, Outcome, HoldsImage

(* A flush or a power loss leaves a whole game whole. *)
LEMMA SettledWhole ==
  ASSUME NEW t, NEW n, NEW d, NEW p, NEW e, NEW f, Outcome(e, d, p), Outcome(f, d, p),
         WholeExtent(t, n, d, p)
  PROVE  WholeExtent(t, n, e, f)
  BY DEF WholeExtent, Outcome, HoldsImage

(* What a record says of its target survives a flush and a power loss. *)
LEMMA SettledSound ==
  ASSUME Settled
  PROVE  /\ \A r \in Transaction : Sound(r) => SoundOn(r, parts', raw', disk', platter')
         /\ Whole => Whole'
<1>1. ASSUME NEW r \in Transaction, Sound(r) PROVE SoundOn(r, parts', raw', disk', platter')
  <2>1. TargetOf[r.img] \in Targets
    BY InstallAssumption DEF Transaction
  <2> QED
    BY <1>1, <2>1, SettledBacks DEF Sound, SoundOn, Settled
<1>2. ASSUME Whole PROVE Whole'
  BY <1>2, SettledWhole DEF Whole, Settled
<1> QED
  BY <1>1, <1>2

(* In a run, outside journal_save, the record in RAM is as sound as the     *)
(* stored one of the same stage.                                            *)
LEMMA RunRecord ==
  ASSUME IInv, DInv, InRun, pc \notin Saving
  PROVE  /\ tx \in Transaction /\ target \in Targets
         /\ journal_load \in Transaction /\ journal_load # None
         /\ journal_load.img = tx.img /\ journal_load.stage = tx.stage
         /\ Sound(tx)
<1>1. tx \in Transaction /\ target \in Targets
  BY Running DEF IInv, InRun
<1>2. /\ journal_load \in Transaction /\ journal_load # None
      /\ journal_load.img = tx.img /\ journal_load.stage = tx.stage
  BY JournalLoad DEF DInv, Ordered, Precedes
<1>3. Sound(tx)
  BY <1>1, <1>2 DEF DInv, Kept, Sound, SoundOn, Backs
<1> QED
  BY <1>1, <1>2, <1>3

(* The disk is touched at target t only. *)
Elsewhere(t) ==
  \A u \in Targets \ {t} : /\ parts'[u] = parts[u] /\ (u \in raw' <=> u \in raw)
                           /\ disk'[u] = disk[u] /\ platter'[u] = platter[u]

(* A step on one target has to answer for that one only. *)
LEMMA LocalWhole ==
  ASSUME Whole, NEW t \in Targets, Elsewhere(t),
         t \in raw' \/ parts'[t] = 0 \/ WholeExtent(t, parts'[t], disk'[t], platter'[t])
  PROVE  Whole'
<1> SUFFICES ASSUME NEW u \in Targets \ raw', parts'[u] > 0
             PROVE  WholeExtent(u, parts'[u], disk'[u], platter'[u])
    BY DEF Whole
<1>1. CASE u = t
  BY <1>1
<1>2. CASE u # t
  BY <1>2 DEF Whole, Elsewhere
<1> QED
  BY <1>1, <1>2

(* Removing the partition t *)
LEMMA RemovedTarget ==
  ASSUME TypeOK, NEW t \in Targets, RemovePartition(t)
  PROVE  /\ Elsewhere(t) /\ parts'[t] = 0 /\ t \notin raw'
         /\ disk'[t] = Blank /\ platter'[t] = Blank
  BY DEF RemovePartition, TypeOK, Elsewhere

(* What the records and the metadata say of the disk. *)
DiskInv == Kept /\ Whole /\ Pending /\ Created /\ Copied

(* Saving and removing the journal: the disk is left alone, and every       *)
(* record that becomes the stored one is sound.                             *)
LEMMA JournalStepDisk == IInv /\ DInv /\ JournalStep => DiskInv'
<1> SUFFICES ASSUME IInv, DInv, JournalStep PROVE DiskInv'
    OBVIOUS
<1> USE InstallAssumption, TotalSectorsAssumption DEF journalVars, diskVars, runVars
<1>a. TypeOK /\ StageAt /\ Valid /\ Ordered /\ Kept /\ Whole /\ Pending /\ Created /\ Copied
  BY DEF IInv, DInv
<1>b. parts' = parts /\ raw' = raw /\ disk' = disk /\ platter' = platter /\ source' = source
  BY DEF JournalStep, SaveOpen, SaveWrite, SaveRemove, SaveRename, UnlinkTxn, UnlinkNew
<1>c. Whole'
  BY <1>a, <1>b DEF Whole
<1>1. CASE SaveOpen
  <2>0. tx \in Transaction
    BY <1>a, <1>1, Running DEF SaveOpen
  <2>1. Kept'
    BY <1>a, <1>b, <1>1, <2>0 DEF SaveOpen, Goto, Stop, Kept, Sound, Ordered, Saving, Unlinking, journal_load, decodes, TypeOK, Files
  <2>2. Pending'
    BY <1>a, <1>b, <1>1 DEF SaveOpen, Goto, Stop, Pending, Ordered, Saving, Unlinking, journal_load, decodes
  <2>3. Created' /\ Copied'
    BY <1>a, <1>b, <1>1 DEF SaveOpen, Goto, Stop, Created, Copied, At, Saving, target, source_accepted, TypeOK
  <2> QED
    BY <1>c, <2>1, <2>2, <2>3 DEF DiskInv
<1>2. CASE SaveWrite
  <2>0. tx \in Transaction
    BY <1>a, <1>2, Running DEF SaveWrite
  <2>1. Kept'
    BY <1>a, <1>b, <1>2, <2>0 DEF SaveWrite, Goto, Stop, Kept, Sound, Ordered, Saving, Unlinking, journal_load, decodes, TypeOK, Files
  <2>2. Pending'
    BY <1>a, <1>b, <1>2 DEF SaveWrite, Goto, Stop, Pending, Ordered, Saving, Unlinking, journal_load, decodes
  <2>3. Created' /\ Copied'
    BY <1>a, <1>b, <1>2 DEF SaveWrite, Goto, Stop, Created, Copied, At, Saving, target, source_accepted, TypeOK
  <2> QED
    BY <1>c, <2>1, <2>2, <2>3 DEF DiskInv
<1>3. CASE SaveRemove
  <2>0. tx \in Transaction
    BY <1>a, <1>3, Running DEF SaveRemove
  <2>1. Kept'
    BY <1>a, <1>b, <1>3, <2>0 DEF SaveRemove, Goto, Kept, Sound, Ordered, Saving, Unlinking, journal_load, decodes, TypeOK, Files
  <2>2. Pending'
    BY <1>a, <1>b, <1>3 DEF SaveRemove, Goto, Pending, Ordered, Saving, Unlinking, journal_load, decodes
  <2>3. Created' /\ Copied'
    BY <1>a, <1>b, <1>3 DEF SaveRemove, Goto, Created, Copied, At, Saving, target, source_accepted, TypeOK
  <2> QED
    BY <1>c, <2>1, <2>2, <2>3 DEF DiskInv
<1>4. CASE SaveRename
  <2>0. tx \in Transaction
    BY <1>a, <1>4, Running DEF SaveRename
  <2>1. Kept'
    BY <1>a, <1>b, <1>4, <2>0 DEF SaveRename, Goto, Stop, Conts, Kept, Sound, Ordered, Saving, Unlinking, journal_load, decodes, TypeOK, Files
  <2>2. Pending'
    BY <1>a, <1>b, <1>4 DEF SaveRename, Goto, Stop, Conts, Pending, Ordered, Saving, Unlinking, journal_load, decodes
  <2>3. Created' /\ Copied'
    BY <1>a, <1>b, <1>4 DEF SaveRename, Goto, Stop, Conts, Created, Copied, At, Saving, target, source_accepted, TypeOK
  <2> QED
    BY <1>c, <2>1, <2>2, <2>3 DEF DiskInv
<1>5. CASE UnlinkTxn
  <2>0. tx \in Transaction
    BY <1>a, <1>5, Running DEF UnlinkTxn
  <2>1. Kept'
    BY <1>a, <1>b, <1>5, <2>0 DEF UnlinkTxn, Goto, Kept, Sound, Ordered, Saving, Unlinking, journal_load, decodes, TypeOK, Files
  <2>2. Pending'
    BY <1>a, <1>b, <1>5 DEF UnlinkTxn, Goto, Pending, Ordered, Saving, Unlinking, journal_load, decodes
  <2>3. Created' /\ Copied'
    BY <1>a, <1>b, <1>5 DEF UnlinkTxn, Goto, Created, Copied, At, Saving, target, source_accepted, TypeOK
  <2> QED
    BY <1>c, <2>1, <2>2, <2>3 DEF DiskInv
<1>6. CASE UnlinkNew
  <2>0. tx \in Transaction
    BY <1>a, <1>6, Running DEF UnlinkNew
  <2>1. Kept'
    BY <1>a, <1>b, <1>6, <2>0 DEF UnlinkNew, Stop, Kept, Sound, Ordered, Saving, Unlinking, journal_load, decodes, TypeOK, Files
  <2>2. Pending'
    BY <1>a, <1>b, <1>6 DEF UnlinkNew, Stop, Pending, Ordered, Saving, Unlinking, journal_load, decodes
  <2>3. Created' /\ Copied'
    BY <1>a, <1>b, <1>6 DEF UnlinkNew, Stop, Created, Copied, At, Saving, target, source_accepted, TypeOK
  <2> QED
    BY <1>c, <2>1, <2>2, <2>3 DEF DiskInv
<1> QED
  BY <1>1, <1>2, <1>3, <1>4, <1>5, <1>6 DEF JournalStep

(* One step of execute_transaction. *)
LEMMA RunStepDisk == IInv /\ DInv /\ RunStep => DiskInv'
<1> SUFFICES ASSUME IInv, DInv, RunStep PROVE DiskInv'
    OBVIOUS
<1> USE InstallAssumption, TotalSectorsAssumption DEF journalVars, diskVars, runVars
<1>a. TypeOK /\ StageAt /\ Valid /\ Allocating /\ Ordered /\ Kept /\ Whole /\ Pending /\ Created /\ Copied
  BY DEF IInv, DInv
<1>b. InRun /\ pc \notin Saving /\ journal_load' = journal_load /\ source' = source
  BY DEF RunStep, Preflight, CreateMain, InvalidateMetadata, InvalidateFlush, AddSub, AllocFlush,
     OpenTarget, CopyBlock, PollPad, CopyDone, FlushPayload, VerifyPayload, ReverifyPayload,
     CommitWrite, CommitFlush, FinishMetadata, InRun, Saving, Unlinking, journal_load
<1>c. /\ tx \in Transaction /\ target \in Targets
      /\ journal_load \in Transaction /\ journal_load # None
      /\ journal_load.img = tx.img /\ journal_load.stage = tx.stage
      /\ Sound(tx)
  BY <1>b, RunRecord
<1>d. Sound(journal_load)
  BY <1>a, <1>c DEF Kept
<1>e. \A u \in Targets \ raw : u # target /\ parts[u] > 0 => disk[u].meta = platter[u].meta
  BY <1>a, <1>c DEF Pending, target
<1>f. ASSUME RemovePartition(target), Stop, tx.stage = PLANNED PROVE DiskInv'
  <2>1. /\ Elsewhere(target) /\ parts'[target] = 0 /\ target \notin raw'
        /\ disk'[target] = Blank /\ platter'[target] = Blank
    BY <1>a, <1>c, <1>f, RemovedTarget
  <2>2. Whole'
    BY <1>a, <1>c, <2>1, LocalWhole
  <2>3. Pending'
    BY <1>c, <1>e, <2>1 DEF Pending, Elsewhere
  <2>4. Kept'
    BY <1>b, <1>c, <1>f DEF Kept, Sound, SoundOn, Stop, Saving, Unlinking, PLANNED, PARTITIONS_CREATED
  <2>5. Created' /\ Copied'
    BY <1>f DEF Stop, Created, Copied, At, Saving
  <2> QED
    BY <2>2, <2>3, <2>4, <2>5 DEF DiskInv
<1>g. ASSUME UNCHANGED diskVars, Stop PROVE DiskInv'
  <2>1. Whole'
    BY <1>a, <1>g DEF Whole
  <2>2. Pending'
    BY <1>a, <1>b, <1>g DEF Pending, Stop, Saving, Unlinking
  <2>3. Kept'
    BY <1>b, <1>d, <1>g DEF Kept, Sound, Stop, Saving, Unlinking
  <2>4. Created' /\ Copied'
    BY <1>g DEF Stop, Created, Copied, At, Saving
  <2> QED
    BY <2>1, <2>2, <2>3, <2>4 DEF DiskInv
<1>1. CASE Preflight
  <2>1. parts' = parts /\ raw' = raw /\ disk' = disk /\ platter' = platter
    BY <1>1 DEF Preflight
  <2>3. Whole' /\ Pending'
    BY <1>a, <1>b, <1>c, <1>1, <2>1 DEF Preflight, Goto, Stop, Whole, Pending, Saving, Unlinking, StageAt, At, PLANNED, PARTITIONS_CREATED, COPYING, PAYLOAD_VERIFIED, METADATA_COMMITTED
  <2>4. Kept'
    BY <1>a, <1>b, <1>c, <1>d, <1>1, <2>1 DEF Preflight, Goto, Stop, Kept, Sound, SoundOn, Backs, Saving, Unlinking, StageAt, At, TypeOK,
       Transaction, Stages, PLANNED, PARTITIONS_CREATED, COPYING, PAYLOAD_VERIFIED, METADATA_COMMITTED
  <2>5. Created' /\ Copied'
    BY <1>a, <1>b, <1>c, <1>1, <2>1 DEF Preflight, Goto, Stop, target_absent, Created, Copied, At, Saving, StageAt, target, source_accepted, TypeOK,
       Transaction, Stages, PLANNED, PARTITIONS_CREATED, COPYING, PAYLOAD_VERIFIED, METADATA_COMMITTED
  <2> QED
    BY <2>3, <2>4, <2>5 DEF DiskInv
<1>2. CASE PollPad
  <2>1. parts' = parts /\ raw' = raw /\ disk' = disk /\ platter' = platter
    BY <1>2 DEF PollPad
  <2>3. Whole' /\ Pending'
    BY <1>a, <1>b, <1>c, <1>2, <2>1 DEF PollPad, Goto, SaveThen, Whole, Pending, Saving, Unlinking, StageAt, At, PLANNED, PARTITIONS_CREATED, COPYING, PAYLOAD_VERIFIED, METADATA_COMMITTED
  <2>4. Kept'
    BY <1>a, <1>b, <1>c, <1>d, <1>2, <2>1 DEF PollPad, Goto, SaveThen, Kept, Sound, SoundOn, Backs, Saving, Unlinking, StageAt, At, TypeOK,
       Transaction, Stages, PLANNED, PARTITIONS_CREATED, COPYING, PAYLOAD_VERIFIED, METADATA_COMMITTED
  <2>5. Created' /\ Copied'
    BY <1>a, <1>b, <1>c, <1>2, <2>1 DEF PollPad, Goto, SaveThen, Created, Copied, At, Saving, StageAt, target, source_accepted, TypeOK,
       Transaction, Stages, PLANNED, PARTITIONS_CREATED, COPYING, PAYLOAD_VERIFIED, METADATA_COMMITTED
  <2> QED
    BY <2>3, <2>4, <2>5 DEF DiskInv
<1>3. CASE CopyDone
  <2>1. parts' = parts /\ raw' = raw /\ disk' = disk /\ platter' = platter
    BY <1>3 DEF CopyDone
  <2>3. Whole' /\ Pending'
    BY <1>a, <1>b, <1>c, <1>3, <2>1 DEF CopyDone, Goto, Whole, Pending, Saving, Unlinking, StageAt, At, PLANNED, PARTITIONS_CREATED, COPYING, PAYLOAD_VERIFIED, METADATA_COMMITTED
  <2>4. Kept'
    BY <1>a, <1>b, <1>c, <1>d, <1>3, <2>1 DEF CopyDone, Goto, Kept, Sound, SoundOn, Backs, Saving, Unlinking, StageAt, At, TypeOK,
       Transaction, Stages, PLANNED, PARTITIONS_CREATED, COPYING, PAYLOAD_VERIFIED, METADATA_COMMITTED
  <2>5. Created' /\ Copied'
    BY <1>a, <1>b, <1>c, <1>3, <2>1 DEF CopyDone, Goto, Created, Copied, At, Saving, StageAt, target, source_accepted, TypeOK,
       Transaction, Stages, PLANNED, PARTITIONS_CREATED, COPYING, PAYLOAD_VERIFIED, METADATA_COMMITTED
  <2> QED
    BY <2>3, <2>4, <2>5 DEF DiskInv
<1>4. CASE ReverifyPayload
  <2>1. parts' = parts /\ raw' = raw /\ disk' = disk /\ platter' = platter
    BY <1>4 DEF ReverifyPayload
  <2>3. Whole' /\ Pending'
    BY <1>a, <1>b, <1>c, <1>4, <2>1 DEF ReverifyPayload, Goto, Stop, Whole, Pending, Saving, Unlinking, StageAt, At, PLANNED, PARTITIONS_CREATED, COPYING, PAYLOAD_VERIFIED, METADATA_COMMITTED
  <2>4. Kept'
    BY <1>a, <1>b, <1>c, <1>d, <1>4, <2>1 DEF ReverifyPayload, Goto, Stop, Kept, Sound, SoundOn, Backs, Saving, Unlinking, StageAt, At, TypeOK,
       Transaction, Stages, PLANNED, PARTITIONS_CREATED, COPYING, PAYLOAD_VERIFIED, METADATA_COMMITTED
  <2>5. Created' /\ Copied'
    BY <1>a, <1>b, <1>c, <1>4, <2>1 DEF ReverifyPayload, Goto, Stop, Created, Copied, At, Saving, StageAt, target, source_accepted, TypeOK,
       Transaction, Stages, PLANNED, PARTITIONS_CREATED, COPYING, PAYLOAD_VERIFIED, METADATA_COMMITTED
  <2> QED
    BY <2>3, <2>4, <2>5 DEF DiskInv
<1>5. CASE OpenTarget
  <2>1. parts' = parts /\ raw' = raw /\ disk' = disk /\ platter' = platter
    BY <1>5 DEF OpenTarget
  <2>2. tx.stage = PARTITIONS_CREATED => Advanced(tx, COPYING, 0)
    BY <1>a, <1>5, <1>c, Advance DEF OpenTarget, StageAt, Valid, At, Saving
  <2>3. Whole' /\ Pending'
    BY <1>a, <1>b, <1>c, <1>5, <2>1, <2>2 DEF OpenTarget, SaveThen, Stop, Advanced, Whole, Pending, Saving, Unlinking, StageAt, At, PLANNED, PARTITIONS_CREATED, COPYING, PAYLOAD_VERIFIED, METADATA_COMMITTED
  <2>4. Kept'
    BY <1>a, <1>b, <1>c, <1>d, <1>5, <2>1, <2>2 DEF OpenTarget, SaveThen, Stop, Advanced, Kept, Sound, SoundOn, Backs, Saving, Unlinking, StageAt, At, TypeOK,
       Transaction, Stages, PLANNED, PARTITIONS_CREATED, COPYING, PAYLOAD_VERIFIED, METADATA_COMMITTED
  <2>5. Created' /\ Copied'
    BY <1>a, <1>b, <1>c, <1>5, <2>1, <2>2 DEF OpenTarget, SaveThen, Stop, Advanced, open_target, Created, Copied, At, Saving, StageAt, target, source_accepted, TypeOK,
       Transaction, Stages, PLANNED, PARTITIONS_CREATED, COPYING, PAYLOAD_VERIFIED, METADATA_COMMITTED
  <2> QED
    BY <2>3, <2>4, <2>5 DEF DiskInv
<1>6. CASE VerifyPayload
  <2>1. parts' = parts /\ raw' = raw /\ disk' = disk /\ platter' = platter
    BY <1>6 DEF VerifyPayload
  <2>2. Advanced(tx, PAYLOAD_VERIFIED, TotalSectors)
    BY <1>a, <1>6, <1>c, Advance DEF VerifyPayload, StageAt, Valid, At, Saving
  <2>3. Whole' /\ Pending'
    BY <1>a, <1>b, <1>c, <1>6, <2>1, <2>2 DEF VerifyPayload, SaveThen, Stop, Advanced, Whole, Pending, Saving, Unlinking, StageAt, At, PLANNED, PARTITIONS_CREATED, COPYING, PAYLOAD_VERIFIED, METADATA_COMMITTED
  <2>4. Kept'
    <3>1. ASSUME digest_matches, tx' = hdl_transaction_set_stage(tx, PAYLOAD_VERIFIED, TotalSectors)
          PROVE  Backs(tx', parts[target], disk[target], platter[target])
      <4>1. source_accepted /\ parts[target] = PartCount /\ disk[target].data = platter[target].data
        BY <1>a, <1>6 DEF VerifyPayload, Copied, StageAt, At, Saving, COPYING, METADATA_COMMITTED
      <4>2. disk[target].meta = None /\ platter[target].meta = None
        BY <1>a, <1>c, <1>6, <4>1 DEF VerifyPayload, StageAt, At, Saving, Sound, SoundOn, Backs, target, PLANNED, PARTITIONS_CREATED, COPYING, PAYLOAD_VERIFIED, METADATA_COMMITTED
      <4>3. HoldsImage(platter[target], tx.img)
        BY <1>a, <3>1, <4>1 DEF digest_matches, source_accepted, HoldsImage, TypeOK
      <4> QED
        BY <2>2, <3>1, <4>1, <4>2, <4>3 DEF Backs, Advanced, PLANNED, PARTITIONS_CREATED, COPYING, PAYLOAD_VERIFIED, METADATA_COMMITTED
    <3> QED
      BY <1>a, <1>b, <1>c, <1>d, <1>6, <2>1, <2>2, <3>1 DEF VerifyPayload, SaveThen, Stop, Advanced, Kept, Sound, SoundOn,
         Backs, Saving, Unlinking, StageAt, At, target, PLANNED, PARTITIONS_CREATED, COPYING, PAYLOAD_VERIFIED, METADATA_COMMITTED
  <2>5. Created' /\ Copied'
    BY <1>a, <1>b, <1>c, <1>6, <2>1, <2>2 DEF VerifyPayload, SaveThen, Stop, Advanced, digest_matches, Created, Copied, At, Saving, StageAt, target, source_accepted, TypeOK,
       Transaction, Stages, PLANNED, PARTITIONS_CREATED, COPYING, PAYLOAD_VERIFIED, METADATA_COMMITTED
  <2> QED
    BY <2>3, <2>4, <2>5 DEF DiskInv
<1>7. CASE FinishMetadata
  <2>1. parts' = parts /\ raw' = raw /\ disk' = disk /\ platter' = platter
    BY <1>7 DEF FinishMetadata
  <2>3. Whole' /\ Pending'
    BY <1>a, <1>b, <1>c, <1>7, <2>1 DEF FinishMetadata, Stop, Advanced, Whole, Pending, Saving, Unlinking, StageAt, At, PLANNED, PARTITIONS_CREATED, COPYING, PAYLOAD_VERIFIED, METADATA_COMMITTED
  <2>4. Kept'
    <3>1. new \in Transaction => new.img = tx.img /\ new.stage = tx.stage
      BY <1>a, <1>c, <1>7 DEF Ordered, Precedes, journal_load, decodes, StageAt, At, Saving, FinishMetadata,
         Resumable, Transaction, Stages, PLANNED, PARTITIONS_CREATED, COPYING, PAYLOAD_VERIFIED, METADATA_COMMITTED
    <3>2. new \in Transaction => Sound(new)
      BY <1>a, <1>c, <1>7, <3>1 DEF Sound, SoundOn, Backs
    <3> QED
      BY <1>a, <1>b, <1>c, <1>d, <1>7, <2>1, <3>2 DEF FinishMetadata, Stop, Kept, Sound, Saving, Unlinking
  <2>5. Created' /\ Copied'
    BY <1>a, <1>b, <1>c, <1>7, <2>1 DEF FinishMetadata, Stop, Advanced, Created, Copied, At, Saving, StageAt, target, source_accepted, TypeOK,
       Transaction, Stages, PLANNED, PARTITIONS_CREATED, COPYING, PAYLOAD_VERIFIED, METADATA_COMMITTED
  <2> QED
    BY <2>3, <2>4, <2>5 DEF DiskInv
<1>8. CASE CreateMain
  <2>1. tx.stage = PLANNED /\ source_accepted
    BY <1>a, <1>8 DEF CreateMain, StageAt, Copied, At, Saving, PLANNED, METADATA_COMMITTED
  <2>2. ASSUME NEW m \in StaleMeta \cup {None},
               parts' = [parts EXCEPT ![target] = 1],
               disk' = [disk EXCEPT ![target] = [Blank EXCEPT !.meta = m]],
               platter' = [platter EXCEPT ![target] = [Blank EXCEPT !.meta = m]],
               raw' = raw \cup {target}, Goto("invalidate")
        PROVE  DiskInv'
    <3>1. Elsewhere(target) /\ target \in raw'
      BY <1>a, <1>c, <2>2 DEF Elsewhere, TypeOK
    <3>2. Whole'
      BY <1>a, <1>c, <3>1, LocalWhole
    <3>3. Pending'
      BY <1>e, <3>1 DEF Pending, Elsewhere
    <3>4. Kept'
      BY <1>b, <1>c, <2>1, <2>2 DEF Kept, Sound, SoundOn, Goto, Saving, Unlinking, PLANNED, PARTITIONS_CREATED
    <3>5. Created' /\ Copied'
      BY <1>b, <2>1, <2>2, <3>1 DEF Goto, Created, Copied, At, Saving, target, source_accepted
    <3> QED
      BY <3>2, <3>3, <3>4, <3>5 DEF DiskInv
  <2> QED
    BY <1>8, <1>g, <2>2 DEF CreateMain
<1>9. CASE InvalidateMetadata
  <2>1. tx.stage = PLANNED /\ source_accepted /\ target \in raw
    BY <1>a, <1>9 DEF InvalidateMetadata, StageAt, Copied, Created, At, Saving, PLANNED, METADATA_COMMITTED
  <2>2. ASSUME disk' = [disk EXCEPT ![target].meta = None], UNCHANGED <<parts, platter, raw>>,
               Goto("invalidate_flush")
        PROVE  DiskInv'
    <3>1. Elsewhere(target) /\ target \in raw' /\ disk'[target].meta = None
      BY <1>a, <1>c, <2>1, <2>2 DEF Elsewhere, TypeOK, Extent
    <3>2. Whole'
      BY <1>a, <1>c, <3>1, LocalWhole
    <3>3. Pending'
      BY <1>e, <3>1 DEF Pending, Elsewhere
    <3>4. Kept'
      BY <1>b, <1>c, <2>1, <2>2 DEF Kept, Sound, SoundOn, Goto, Saving, Unlinking, PLANNED, PARTITIONS_CREATED
    <3>5. Created' /\ Copied'
      BY <1>b, <2>1, <2>2, <3>1 DEF Goto, Created, Copied, At, Saving, target, source_accepted
    <3> QED
      BY <3>2, <3>3, <3>4, <3>5 DEF DiskInv
  <2> QED
    BY <1>9, <1>f, <1>g, <2>1, <2>2 DEF InvalidateMetadata, DropCreated
<1>10. CASE InvalidateFlush
  <2>1. tx.stage = PLANNED /\ source_accepted /\ target \in raw /\ disk[target].meta = None /\ parts[target] = 1
    BY <1>a, <1>10 DEF InvalidateFlush, StageAt, Copied, Created, Allocating, At, Saving, PLANNED, METADATA_COMMITTED
  <2>2. ASSUME platter' = disk, raw' = raw \ {target}, UNCHANGED <<parts, disk>>,
               Goto(IF PartCount > 1 THEN "addsub" ELSE "alloc_flush")
        PROVE  DiskInv'
    <3>1. Whole'
      <4> SUFFICES ASSUME NEW u \in Targets \ raw', parts'[u] > 0
                   PROVE  WholeExtent(u, parts'[u], disk'[u], platter'[u])
        BY DEF Whole
      <4>1. CASE u = target
        BY <2>1, <2>2, <4>1 DEF WholeExtent
      <4>2. CASE u # target
        BY <1>a, <2>2, <4>2, SettledWhole DEF Whole, Outcome
      <4> QED
        BY <4>1, <4>2
    <3>2. Pending'
      BY <2>2 DEF Pending
    <3>3. Kept'
      BY <1>b, <1>c, <2>1, <2>2 DEF Kept, Sound, SoundOn, Goto, Saving, Unlinking, PLANNED, PARTITIONS_CREATED
    <3>4. Created' /\ Copied'
      BY <1>b, <2>1, <2>2 DEF Goto, Created, Copied, At, Saving, target, source_accepted
    <3> QED
      BY <3>1, <3>2, <3>3, <3>4 DEF DiskInv
  <2> QED
    BY <1>10, <1>f, <1>g, <2>1, <2>2 DEF InvalidateFlush, DropCreated, Flush
<1>11. CASE AddSub
  <2>1. /\ tx.stage = PLANNED /\ source_accepted
        /\ target \notin raw /\ disk[target].meta = None /\ platter[target].meta = None
    BY <1>a, <1>11 DEF AddSub, StageAt, Copied, Created, At, Saving, PLANNED, METADATA_COMMITTED
  <2>2. ASSUME parts' = [parts EXCEPT ![target] = @ + 1], UNCHANGED <<disk, platter, raw>>,
               Goto(IF parts[target] + 1 = PartCount THEN "alloc_flush" ELSE "addsub")
        PROVE  DiskInv'
    <3>1. Elsewhere(target) /\ parts'[target] = parts[target] + 1
      BY <1>a, <1>c, <2>2 DEF Elsewhere, TypeOK
    <3>2. Whole'
      <4>1. WholeExtent(target, parts'[target], disk'[target], platter'[target])
        BY <2>1, <2>2 DEF WholeExtent
      <4> QED
        BY <1>a, <1>c, <3>1, <4>1, LocalWhole
    <3>3. Pending'
      BY <1>e, <2>1, <2>2, <3>1 DEF Pending, Elsewhere
    <3>4. Kept'
      BY <1>b, <1>c, <2>1, <2>2 DEF Kept, Sound, SoundOn, Goto, Saving, Unlinking, PLANNED, PARTITIONS_CREATED
    <3>5. Created' /\ Copied'
      BY <1>b, <2>1, <2>2, <3>1 DEF Goto, Created, Copied, At, Saving, target, source_accepted
    <3> QED
      BY <3>2, <3>3, <3>4, <3>5 DEF DiskInv
  <2> QED
    BY <1>11, <1>f, <1>g, <2>1, <2>2 DEF AddSub, DropCreated
<1>12. CASE AllocFlush
  <2>1. /\ tx.stage = PLANNED /\ source_accepted /\ parts[target] = PartCount
        /\ target \notin raw /\ disk[target].meta = None
    BY <1>a, <1>12 DEF AllocFlush, StageAt, Copied, Created, At, Saving, PLANNED, METADATA_COMMITTED
  <2>2. Advanced(tx, PARTITIONS_CREATED, 0)
    BY <1>a, <1>c, <2>1, <1>12, Advance DEF AllocFlush, Valid
  <2>3. ASSUME platter' = disk, UNCHANGED <<parts, disk, raw>>,
               SaveThen(hdl_transaction_set_stage(tx, PARTITIONS_CREATED, 0), "open")
        PROVE  DiskInv'
    <3>1. Settled
      BY <2>3 DEF Settled, Outcome
    <3>2. Whole' /\ Pending'
      BY <1>a, <2>3, <3>1, SettledSound DEF Pending
    <3>3. Kept'
      <4>1. SoundOn(tx', parts', raw', disk', platter')
        BY <2>1, <2>2, <2>3 DEF SaveThen, Advanced, SoundOn, Backs, target, PARTITIONS_CREATED, PAYLOAD_VERIFIED, METADATA_COMMITTED
      <4> QED
        BY <1>b, <1>c, <1>d, <2>3, <3>1, <4>1, SettledSound DEF Kept, Sound, SaveThen, Saving, Unlinking
    <3>4. Created' /\ Copied'
      BY <1>b, <2>1, <2>2, <2>3 DEF SaveThen, Advanced, Created, Copied, At, Saving, target, source_accepted
    <3> QED
      BY <3>2, <3>3, <3>4 DEF DiskInv
  <2> QED
    BY <1>12, <1>f, <1>g, <2>1, <2>3 DEF AllocFlush, DropCreated, Flush
<1>13. CASE CopyBlock
  <2>1. tx.stage = COPYING /\ source_accepted /\ parts[target] = PartCount
    BY <1>a, <1>13 DEF CopyBlock, StageAt, Copied, At, Saving, COPYING, METADATA_COMMITTED
  <2>2. target \notin raw /\ disk[target].meta = None /\ platter[target].meta = None
    BY <1>c, <2>1 DEF Sound, SoundOn, Backs, target, PARTITIONS_CREATED, COPYING, PAYLOAD_VERIFIED
  <2>3. /\ Elsewhere(target) /\ parts' = parts /\ raw' = raw /\ platter' = platter
        /\ disk'[target].meta = None
    BY <1>a, <1>c, <1>13, <2>2 DEF CopyBlock, Elsewhere, TypeOK, Extent
  <2>4. Whole'
    <3>1. WholeExtent(target, parts'[target], disk'[target], platter'[target])
      BY <2>2, <2>3 DEF WholeExtent
    <3> QED
      BY <1>a, <1>c, <2>3, <3>1, LocalWhole
  <2>5. Pending'
    BY <1>e, <2>2, <2>3 DEF Pending, Elsewhere
  <2>6. \A r \in Transaction : r.img = tx.img /\ r.stage = COPYING => SoundOn(r, parts', raw', disk', platter')
    BY <2>1, <2>2, <2>3 DEF SoundOn, Backs, target, COPYING, PAYLOAD_VERIFIED, METADATA_COMMITTED
  <2>7. \/ pc' = "idle"
        \/ /\ tx' = [tx EXCEPT !.completed = tx.completed + 1]
           /\ pc' \in {"poll", "save_open"} /\ (pc' = "save_open" => cont' = "poll")
    BY <1>13 DEF CopyBlock, SaveThen, Stop
  <2>8. pc' # "idle" => tx' \in Transaction /\ tx'.img = tx.img /\ tx'.stage = COPYING
    BY <1>c, <1>13, <2>1, <2>7 DEF CopyBlock, Transaction
  <2>9. Kept'
    BY <1>b, <1>c, <2>1, <2>6, <2>7, <2>8 DEF Kept, Sound, Saving, Unlinking
  <2>10. Created' /\ Copied'
    BY <1>b, <2>1, <2>3, <2>7, <2>8 DEF Created, Copied, At, Saving, target, source_accepted
  <2> QED
    BY <2>4, <2>5, <2>9, <2>10 DEF DiskInv
<1>14. CASE FlushPayload
  <2>1. tx.stage = COPYING /\ source_accepted /\ parts[target] = PartCount
    BY <1>a, <1>14 DEF FlushPayload, StageAt, Copied, At, Saving, COPYING, METADATA_COMMITTED
  <2>2. ASSUME platter' = disk, UNCHANGED <<parts, disk, raw>>, Goto("verify")
        PROVE  DiskInv'
    <3>1. Settled
      BY <2>2 DEF Settled, Outcome
    <3>2. Whole' /\ Pending'
      BY <1>a, <2>2, <3>1, SettledSound DEF Pending
    <3>3. Kept'
      BY <1>b, <1>c, <1>d, <2>2, <3>1, SettledSound DEF Kept, Sound, Goto, Saving, Unlinking
    <3>4. Created' /\ Copied'
      BY <1>b, <2>1, <2>2 DEF Goto, Created, Copied, At, Saving, target, source_accepted
    <3> QED
      BY <3>2, <3>3, <3>4 DEF DiskInv
  <2> QED
    BY <1>14, <1>g, <2>2 DEF FlushPayload, Flush
<1>15. CASE CommitWrite
  <2>1. tx.stage = PAYLOAD_VERIFIED /\ parts[target] = PartCount
    BY <1>a, <1>15 DEF CommitWrite, StageAt, Copied, At, Saving
  <2>2. target \notin raw /\ Backs(tx, PartCount, disk[target], platter[target])
    BY <1>c, <2>1 DEF Sound, SoundOn, target, PARTITIONS_CREATED, PAYLOAD_VERIFIED
  <2>3. ASSUME disk' = [disk EXCEPT ![target].meta = tx.img], UNCHANGED <<parts, platter, raw>>,
               Goto("commit_flush")
        PROVE  DiskInv'
    <3>1. /\ Elsewhere(target) /\ disk'[target].meta = tx.img /\ disk'[target].data = disk[target].data
      BY <1>a, <1>c, <2>3 DEF Elsewhere, TypeOK, Extent
    <3>2. Whole'
      <4>1. WholeExtent(target, parts'[target], disk'[target], platter'[target])
        BY <1>c, <2>1, <2>2, <2>3, <3>1 DEF WholeExtent, Backs, target, Transaction, PAYLOAD_VERIFIED
      <4> QED
        BY <1>a, <1>c, <3>1, <4>1, LocalWhole
    <3>3. Pending'
      BY <1>b, <1>c, <1>e, <2>1, <2>3, <3>1 DEF Pending, Elsewhere, Goto, Saving, Unlinking, target
    <3>4. Kept'
      <4>1. SoundOn(tx, parts', raw', disk', platter')
        BY <2>1, <2>2, <2>3, <3>1 DEF SoundOn, Backs, target, PAYLOAD_VERIFIED, METADATA_COMMITTED
      <4>2. SoundOn(journal_load, parts', raw', disk', platter')
        BY <1>c, <4>1 DEF SoundOn, Backs
      <4> QED
        BY <1>b, <2>3, <4>2 DEF Kept, Sound, Goto, Saving, Unlinking
    <3>5. Created' /\ Copied'
      BY <1>b, <2>1, <2>3, <3>1 DEF Goto, Created, Copied, At, Saving, target, source_accepted
    <3> QED
      BY <3>2, <3>3, <3>4, <3>5 DEF DiskInv
  <2> QED
    BY <1>15, <1>g, <2>3 DEF CommitWrite
<1>16. CASE CommitFlush
  <2>1. tx.stage = PAYLOAD_VERIFIED /\ parts[target] = PartCount /\ disk[target].meta = tx.img
    BY <1>a, <1>16 DEF CommitFlush, StageAt, Copied, At, Saving
  <2>2. target \notin raw /\ Backs(tx, PartCount, disk[target], platter[target])
    BY <1>c, <2>1 DEF Sound, SoundOn, target, PARTITIONS_CREATED, PAYLOAD_VERIFIED
  <2>3. Advanced(tx, METADATA_COMMITTED, TotalSectors)
    BY <1>a, <1>c, <2>1, <1>16, Advance DEF CommitFlush, Valid
  <2>4. Settled
    BY <1>16 DEF CommitFlush, Flush, Settled, Outcome
  <2>5. SoundOn(journal_load, parts', raw', disk', platter')
    BY <1>c, <1>d, <2>4, SettledSound
  <2>6. ASSUME platter' = disk, UNCHANGED <<parts, disk, raw>>,
               SaveThen(hdl_transaction_set_stage(tx, METADATA_COMMITTED, TotalSectors), "finish")
        PROVE  DiskInv'
    <3>1. Whole' /\ Pending'
      BY <1>a, <2>4, <2>6, SettledSound DEF Pending
    <3>2. Kept'
      <4>1. SoundOn(tx', parts', raw', disk', platter')
        BY <2>1, <2>2, <2>3, <2>6 DEF SaveThen, Advanced, SoundOn, Backs, HoldsImage, target, PAYLOAD_VERIFIED, METADATA_COMMITTED
      <4> QED
        BY <1>b, <2>5, <2>6, <4>1 DEF Kept, Sound, SaveThen, Saving, Unlinking
    <3>3. Created' /\ Copied'
      BY <1>b, <2>1, <2>3, <2>6 DEF SaveThen, Advanced, Created, Copied, At, Saving, target
    <3> QED
      BY <3>1, <3>2, <3>3 DEF DiskInv
  <2>7. ASSUME platter' \in {platter, disk}, UNCHANGED <<parts, disk, raw>>, Stop
        PROVE  DiskInv'
    <3>1. Whole'
      BY <1>a, <2>4, SettledSound
    <3>2. Pending'
      BY <1>a, <1>b, <2>7 DEF Pending, Stop, Saving, Unlinking
    <3>3. Kept'
      BY <1>b, <2>5, <2>7 DEF Kept, Sound, Stop, Saving, Unlinking
    <3>4. Created' /\ Copied'
      BY <2>7 DEF Stop, Created, Copied, At, Saving
    <3> QED
      BY <3>1, <3>2, <3>3, <3>4 DEF DiskInv
  <2> QED
    BY <1>16, <2>6, <2>7 DEF CommitFlush, Flush
<1> QED
  BY <1>1, <1>2, <1>3, <1>4, <1>5, <1>6, <1>7, <1>8, <1>9, <1>10, <1>11, <1>12, <1>13, <1>14,
     <1>15, <1>16 DEF RunStep

(* The menu choices. *)
LEMMA MenuStepDisk == IInv /\ DInv /\ MenuStep => DiskInv'
<1> SUFFICES ASSUME IInv, DInv, MenuStep PROVE DiskInv'
    OBVIOUS
<1> USE InstallAssumption, TotalSectorsAssumption DEF journalVars, diskVars, runVars
<1>a. TypeOK /\ StageAt /\ Ordered /\ Kept /\ Whole /\ Pending
  BY DEF IInv, DInv
<1>1. CASE BeginNewInstall
  <2>1. journal_load = None /\ journal_load' = None
    BY <1>1 DEF BeginNewInstall, journal_present, journal_load, decodes
  <2>2. Whole' /\ Pending'
    BY <1>a, <1>1, <2>1 DEF BeginNewInstall, Whole, Pending
  <2>3. Kept'
    BY <1>1, <2>1 DEF BeginNewInstall, SaveThen, Kept, Sound, SoundOn, Saving, Unlinking,
       PLANNED, PARTITIONS_CREATED
  <2>4. Created' /\ Copied'
    BY <1>1 DEF BeginNewInstall, SaveThen, Created, Copied, At, Saving
  <2> QED
    BY <2>2, <2>3, <2>4 DEF DiskInv
<1>2. CASE Resume
  <2>1. Whole' /\ Pending'
    BY <1>a, <1>2 DEF Resume, Whole, Pending, journal_load, Saving, Unlinking
  <2>2. Kept'
    BY <1>a, <1>2 DEF Resume, Kept, Sound, journal_load, Saving, Unlinking
  <2>3. Created' /\ Copied'
    BY <1>2 DEF Resume, Created, Copied, At, Saving
  <2> QED
    BY <2>1, <2>2, <2>3 DEF DiskInv
<1>3. CASE RemoveIncomplete
  <2> DEFINE record == journal_load
             t      == TargetOf[record.img]
  <2>1. /\ record \in Transaction /\ t \in Targets /\ RemovePartition(t)
        /\ journal_load' = journal_load /\ new' = new /\ pc' = "unlink_txn"
    BY <1>3, JournalLoad DEF RemoveIncomplete, Transaction, journal_load
  <2>2. /\ Elsewhere(t) /\ parts'[t] = 0 /\ t \notin raw'
        /\ disk'[t] = Blank /\ platter'[t] = Blank
    BY <1>a, <2>1, RemovedTarget
  <2>3. Whole'
    BY <1>a, <2>1, <2>2, LocalWhole
  <2>4. Pending'
    <3>1. \A u \in Targets \ raw : u # t /\ parts[u] > 0 => disk[u].meta = platter[u].meta
      BY <1>a DEF Pending
    <3> QED
      BY <2>2, <3>1 DEF Pending, Elsewhere
  <2>5. new \in Transaction => TargetOf[new.img] = t
    BY <1>a, <2>1 DEF Ordered, Precedes, journal_load, decodes
  <2>6. Kept'
    <3>1. SoundOn(record, parts', raw', disk', platter')
      BY <2>2 DEF SoundOn
    <3>2. new \in Transaction => SoundOn(new, parts', raw', disk', platter')
      BY <2>2, <2>5 DEF SoundOn
    <3> QED
      BY <2>1, <3>1, <3>2 DEF Kept, Sound, Saving
  <2>7. Created' /\ Copied'
    BY <2>1 DEF Created, Copied, At, Saving
  <2> QED
    BY <2>3, <2>4, <2>6, <2>7 DEF DiskInv
<1>4. ASSUME NEW t \in Targets, DeleteGame(t) PROVE DiskInv'
  <2>1. /\ RemovePartition(t) /\ ~journal_blocks_game_delete(t)
        /\ journal_load' = journal_load /\ pc = "idle" /\ pc' = "idle"
    BY <1>4 DEF DeleteGame, journal_load
  <2>2. /\ Elsewhere(t) /\ parts'[t] = 0 /\ t \notin raw'
        /\ disk'[t] = Blank /\ platter'[t] = Blank
    BY <1>a, <2>1, RemovedTarget
  <2>3. Whole'
    BY <1>a, <2>2, LocalWhole
  <2>4. Pending'
    BY <1>a, <2>1, <2>2 DEF Pending, Elsewhere, Saving, Unlinking
  <2>5. journal_load # None => journal_load \in Transaction /\ TargetOf[journal_load.img] # t
    BY <1>a, <2>1, JournalLoad DEF journal_blocks_game_delete, StageAt, Resumable, COMPLETE,
       METADATA_COMMITTED, PLANNED
  <2>6. Kept'
    BY <1>a, <2>1, <2>2, <2>5 DEF Kept, Sound, SoundOn, Elsewhere, Saving, Unlinking, Transaction
  <2>7. Created' /\ Copied'
    BY <2>1 DEF Created, Copied, At, Saving
  <2> QED
    BY <2>3, <2>4, <2>6, <2>7 DEF DiskInv
<1> QED
  BY <1>1, <1>2, <1>3, <1>4 DEF MenuStep

(* A power loss leaves of each cached block the new or the old content. *)
LEMMA AfterSettles ==
  ASSUME TypeOK, NEW kept \in SUBSET Dirty, disk' = After(kept), platter' = After(kept),
         parts' = parts, raw' = raw
  PROVE  Settled
<1>1. \A t \in Targets : /\ After(kept)[t].meta \in {disk[t].meta, platter[t].meta}
                         /\ After(kept)[t].data = [b \in Blocks |-> IF <<t, b>> \in kept THEN disk[t].data[b]
                                                                    ELSE platter[t].data[b]]
  BY DEF After
<1>2. \A t \in Targets : platter[t].data = [b \in Blocks |-> platter[t].data[b]]
  BY DEF TypeOK, Extent
<1>3. \A t \in Targets : Outcome(After(kept)[t], disk[t], platter[t])
  BY <1>1, <1>2 DEF Outcome
<1> QED
  BY <1>3 DEF Settled

(* Where metadata is visible or a payload is claimed, both are the same.    *)
LEMMA PowerLossDisk == IInv /\ DInv /\ PowerLoss => DiskInv'
<1> SUFFICES ASSUME IInv, DInv, PowerLoss PROVE DiskInv'
    OBVIOUS
<1> USE DEF journalVars, DInv
<1>1. PICK kept \in SUBSET Dirty : disk' = After(kept) /\ platter' = After(kept)
  BY DEF PowerLoss
<1>5. Settled
  BY <1>1, AfterSettles DEF PowerLoss, IInv
<1>6. journal_load' = journal_load /\ pc' = "idle"
  BY DEF PowerLoss, Stop, journal_load
<1>7. Whole' /\ Pending'
  BY <1>1, <1>5, SettledSound DEF Pending
<1>8. Kept'
  BY <1>5, <1>6, SettledSound, JournalLoad DEF Kept, Sound, Saving, Unlinking
<1>9. Created' /\ Copied'
  BY <1>6 DEF Created, Copied, At, Saving
<1> QED
  BY <1>7, <1>8, <1>9 DEF DiskInv

(* The operator at the menu. *)
LEMMA OperatorDisk == IInv /\ DInv /\ (SwapSource \/ RemoveCorruptJournal) => DiskInv'
<1> SUFFICES ASSUME IInv, DInv, SwapSource \/ RemoveCorruptJournal PROVE DiskInv'
    OBVIOUS
<1> USE InstallAssumption DEF journalVars, diskVars, runVars, DInv
<1>1. /\ UNCHANGED diskVars /\ pc = "idle" /\ pc' = "idle" /\ journal_load' = journal_load
  BY DEF SwapSource, RemoveCorruptJournal, journal_load, decodes
<1>2. Whole' /\ Pending'
  BY <1>1 DEF Whole, Pending, Saving, Unlinking
<1>3. Kept'
  BY <1>1 DEF Kept, Sound, Saving, Unlinking
<1>4. Created' /\ Copied'
  BY <1>1 DEF Created, Copied, At, Saving
<1> QED
  BY <1>2, <1>3, <1>4 DEF DiskInv

(* The invariant of the disk and the journal together is inductive. *)
LEMMA InitData == Init => DInv
  BY InstallAssumption DEF Init, DInv, Ordered, Kept, Whole, Pending, Created, Copied, InRun,
     Unlinking, Saving, At, journal_load, decodes

(* Every step of the installer keeps journal and disk in agreement. *)
LEMMA NextData == IInv /\ DInv /\ [Next]_vars => DInv'
<1> SUFFICES ASSUME IInv, DInv, [Next]_vars PROVE DInv'
    OBVIOUS
<1>1. CASE UNCHANGED vars
  BY <1>1 DEF vars, DInv, Ordered, Kept, Sound, Whole, Pending, Created, Copied, InRun, At, target,
     source_accepted, journal_load
<1>2. CASE Next
  <2>1. Ordered'
    BY <1>2, JournalStepOrdered, RunStepOrdered, OtherStepOrdered DEF DInv, Next
  <2>2. DiskInv'
    BY <1>2, JournalStepDisk, RunStepDisk, MenuStepDisk, PowerLossDisk, OperatorDisk DEF Next
  <2> QED
    BY <2>1, <2>2 DEF DInv, DiskInv
<1> QED
  BY <1>1, <1>2

(* The stored records are in order and sound, and metadata stands for whole *)
(* games, throughout.                                                       *)
THEOREM DataInvariance == Spec => [](IInv /\ DInv)
<1> QED
  BY InitInv, NextInv, InitData, NextData, PTL DEF Spec

(* A game that OPL can see is a complete image, in the cache and on the     *)
(* platter.                                                                 *)
THEOREM ExposedWhole == Spec => []ExposedIsWhole
<1>1. DInv => ExposedIsWhole
  BY DEF DInv, Whole, WholeExtent, ExposedIsWhole, HoldsImage
<1> QED
  BY <1>1, DataInvariance, PTL

(* The loaded journal claims nothing that a power loss could take away.     *)
THEOREM JournalSound == Spec => []JournalNeverAhead
<1>1. DInv => JournalNeverAhead
  BY DEF DInv, Kept, Sound, SoundOn, Backs, JournalNeverAhead, Claimed
<1> QED
  BY <1>1, DataInvariance, PTL

(* An allocation that the journal owns can always be cleaned up as far as   *)
(* its metadata is concerned.                                               *)
THEOREM CleanupFree == Spec => []CleanupNotTrapped
<1>1. IInv /\ DInv => CleanupNotTrapped
  BY JournalLoad DEF IInv, TypeOK, DInv, Kept, Sound, SoundOn, Backs, CleanupNotTrapped, identity_matches,
     Transaction, Stages, PARTITIONS_CREATED, PAYLOAD_VERIFIED
<1> QED
  BY <1>1, DataInvariance, PTL

(* What journal_load returns never goes back while there is a journal.      *)
THEOREM Monotone == Spec => JournalMonotone
<1> DEFINE Forward ==
      LET old == journal_load
          now == journal_load'
      IN old # None /\ now # None =>
           old.img = now.img /\ old.stage <= now.stage /\ old.completed <= now.completed
<1>1. ASSUME IInv, DInv, Next PROVE Forward
  <2> USE <1>1, InstallAssumption DEF journalVars
  <2>a. \A r \in Transaction : r.stage <= r.stage /\ r.completed <= r.completed
    BY TotalSectorsAssumption DEF Transaction, Stages, PLANNED, ABORTED
  <2>b. Ordered /\ TypeOK
    BY DEF DInv, IInv
  <2>1. CASE journal_load' = journal_load
    BY <2>1, <2>a, JournalLoad
  <2>2. CASE SaveOpen
    BY <2>2, <2>a, <2>b DEF SaveOpen, Ordered, journal_load, decodes
  <2>3. CASE SaveWrite \/ SaveRename
    BY <2>3, <2>a, <2>b DEF SaveWrite, SaveRename, Ordered, Precedes, InRun, Saving, Unlinking,
       Goto, Stop, TypeOK, Files, journal_load, decodes
  <2>4. CASE SaveRemove \/ UnlinkTxn
    BY <2>4, <2>a, <2>b DEF SaveRemove, UnlinkTxn, Ordered, Precedes, TypeOK, Files, journal_load, decodes
  <2>5. CASE UnlinkNew \/ RemoveCorruptJournal
    BY <2>5, <2>a, <2>b DEF UnlinkNew, RemoveCorruptJournal, Ordered, journal_load, decodes
  <2>6. CASE RunStep \/ MenuStep \/ PowerLoss \/ SwapSource
    <3>1. UNCHANGED <<txn, new>>
      BY <2>6 DEF RunStep, MenuStep, Preflight, CreateMain, InvalidateMetadata, InvalidateFlush,
         AddSub, AllocFlush, OpenTarget, CopyBlock, PollPad, CopyDone, FlushPayload, VerifyPayload,
         ReverifyPayload, CommitWrite, CommitFlush, FinishMetadata, BeginNewInstall, Resume,
         RemoveIncomplete, DeleteGame, PowerLoss, SwapSource
    <3> QED
      BY <2>1, <3>1 DEF journal_load
  <2> QED
    BY <2>2, <2>3, <2>4, <2>5, <2>6 DEF Next, JournalStep
<1>2. IInv /\ DInv /\ [Next]_vars => [Forward]_vars
  BY <1>1
<1> QED
  BY <1>2, DataInvariance, PTL DEF Spec, JournalMonotone

-----------------------------------------------------------------------------
(* The refinement of HdlCatalog *)

(* VisibleGame of a target with n partitions and the durable extent p *)
SeenIn(t, n, rw, p) ==
  IF n = 0 \/ t \in rw \/ p.meta = None THEN None
  ELSE IF \E v \in Images : p.data = [b \in Blocks |-> v]
       THEN CHOOSE v \in Images : p.data = [b \in Blocks |-> v]
       ELSE Torn

(* What a loader finds in a whole extent is an image, under its own name.   *)
LEMMA SeenValue ==
  ASSUME NEW t, NEW n, NEW rw, NEW d, NEW p, n # 0, t \notin rw, p.meta # None, WholeExtent(t, n, d, p)
  PROVE  SeenIn(t, n, rw, p) \in Images /\ TargetOf[SeenIn(t, n, rw, p)] = t
<1>1. p.meta \in Images /\ TargetOf[p.meta] = t /\ HoldsImage(p, p.meta)
  BY DEF WholeExtent
<1>2. PICK v \in Images : /\ Fingerprint[v] = Fingerprint[p.meta] /\ Startup[v] = Startup[p.meta]
                          /\ p.data = [b \in Blocks |-> v]
  BY <1>1 DEF HoldsImage
<1>3. SeenIn(t, n, rw, p) = CHOOSE w \in Images : p.data = [b \in Blocks |-> w]
  BY <1>2 DEF SeenIn
<1>4. SeenIn(t, n, rw, p) \in Images /\ p.data = [b \in Blocks |-> SeenIn(t, n, rw, p)]
  BY <1>2, <1>3
<1>5. SeenIn(t, n, rw, p) = v
  <2>1. 1 \in Blocks
    BY TotalSectorsAssumption DEF Blocks
  <2>2. [b \in Blocks |-> SeenIn(t, n, rw, p)][1] = [b \in Blocks |-> v][1]
    BY <1>2, <1>4
  <2> QED
    BY <2>1, <2>2
<1>6. TargetOf[v] = t
  BY <1>1, <1>2, NameAssumption
<1> QED
  BY <1>4, <1>5, <1>6

(* A flush or a power loss makes a game appear or disappear, and never      *)
(* changes one; without pending metadata it does neither.                   *)
LEMMA SeenSettles ==
  ASSUME NEW t, NEW n, NEW rw, NEW d, NEW p, NEW f, n # 0, t \notin rw,
         Outcome(f, d, p), WholeExtent(t, n, d, p)
  PROVE  /\ \/ SeenIn(t, n, rw, p) = None \/ SeenIn(t, n, rw, f) = None
            \/ SeenIn(t, n, rw, f) = SeenIn(t, n, rw, p)
         /\ d.meta = p.meta => SeenIn(t, n, rw, f) = SeenIn(t, n, rw, p)
<1>1. CASE d.meta = None /\ p.meta = None
  BY <1>1 DEF SeenIn, Outcome
<1>2. CASE d.meta # None \/ p.meta # None
  <2>1. f.data = p.data
    BY <1>2 DEF Outcome, WholeExtent
  <2>2. f.meta # None /\ p.meta # None => SeenIn(t, n, rw, f) = SeenIn(t, n, rw, p)
    BY <2>1 DEF SeenIn
  <2>3. (f.meta = None => SeenIn(t, n, rw, f) = None) /\ (p.meta = None => SeenIn(t, n, rw, p) = None)
    BY DEF SeenIn
  <2> QED
    BY <2>2, <2>3 DEF Outcome
<1> QED
  BY <1>1, <1>2

(* Of the targets just allocated only membership counts for a loader's view. *)
LEMMA SeenRaw ==
  ASSUME NEW t, NEW n, NEW rw, NEW rw2, NEW p, t \in rw <=> t \in rw2
  PROVE  SeenIn(t, n, rw2, p) = SeenIn(t, n, rw, p)
  BY DEF SeenIn

Seen    == [t \in Targets |-> SeenIn(t, parts[t], raw, platter[t])]
SeenNow == [t \in Targets |-> SeenIn(t, parts'[t], raw', platter'[t])]

(* A step that changes what a loader finds under one name only, from or to  *)
(* nothing, is a step of the catalogue.                                     *)
LEMMA OneChange ==
  ASSUME Whole', TypeOK', NEW t \in Targets,
         \A u \in Targets \ {t} : SeenNow[u] = Seen[u],
         Seen[t] = None \/ SeenNow[t] = None \/ SeenNow[t] = Seen[t]
  PROVE  [Catalog!Next]_Visible
<1>1. Visible = Seen
  BY DEF Visible, Seen, SeenIn, VisibleGame
<1>2. Visible' = SeenNow
  BY DEF Visible, SeenNow, SeenIn, VisibleGame
<1>3. SeenNow[t] # None => SeenNow[t] \in Images /\ TargetOf[SeenNow[t]] = t
  <2>1. parts'[t] # 0 /\ t \notin raw' => WholeExtent(t, parts'[t], disk'[t], platter'[t])
    BY InstallAssumption DEF Whole, TypeOK
  <2>2. SeenNow[t] = SeenIn(t, parts'[t], raw', platter'[t])
    BY DEF SeenNow
  <2>3. CASE parts'[t] # 0 /\ t \notin raw' /\ platter'[t].meta # None
    <3>1. WholeExtent(t, parts'[t], disk'[t], platter'[t])
      BY <2>1, <2>3
    <3>2. SeenIn(t, parts'[t], raw', platter'[t]) \in Images /\ TargetOf[SeenIn(t, parts'[t], raw', platter'[t])] = t
      BY <2>3, <3>1, SeenValue
    <3> QED
      BY <2>2, <3>2
  <2>4. CASE parts'[t] = 0 \/ t \in raw' \/ platter'[t].meta = None
    BY <2>2, <2>4 DEF SeenIn
  <2> QED
    BY <2>3, <2>4
<1>4. SeenNow = [Seen EXCEPT ![t] = SeenNow[t]]
  BY DEF Seen, SeenNow
<1>5. CASE SeenNow[t] = Seen[t]
  <2>1. SeenNow = Seen
    BY <1>4, <1>5 DEF Seen
  <2> QED
    BY <1>1, <1>2, <2>1
<1>6. CASE SeenNow[t] # Seen[t] /\ SeenNow[t] = None
  BY <1>1, <1>2, <1>4, <1>6 DEF Catalog!Next, Catalog!Withdraw
<1>7. CASE SeenNow[t] # Seen[t] /\ SeenNow[t] # None
  <2>1. Catalog!Publish(t, SeenNow[t])
    BY <1>1, <1>2, <1>3, <1>4, <1>7 DEF Catalog!Publish
  <2> QED
    BY <1>3, <1>7, <2>1 DEF Catalog!Next
<1> QED
  BY <1>5, <1>6, <1>7

(* A step that writes no metadata to the platter and allocates nothing      *)
(* changes nothing that a loader finds.                                     *)
LEMMA NoChange ==
  ASSUME parts' = parts, raw' = raw, platter' = platter
  PROVE  [Catalog!Next]_Visible
<1>1. Visible' = Visible
  BY DEF Visible, VisibleGame
<1> QED
  BY <1>1

(* Where metadata was pending, if anywhere, a flush or a power loss may     *)
(* publish; it changes nothing elsewhere.                                   *)
LEMMA SettledCatalog ==
  ASSUME IInv, DInv, Whole', TypeOK', Settled, NEW t \in Targets,
         journal_load # None => TargetOf[journal_load.img] = t
  PROVE  [Catalog!Next]_Visible
<1>1. ASSUME NEW u \in Targets
      PROVE  /\ parts'[u] = parts[u] /\ raw' = raw
             /\ Seen[u] = SeenIn(u, parts[u], raw, platter[u])
             /\ SeenNow[u] = SeenIn(u, parts[u], raw, platter'[u])
             /\ Outcome(platter'[u], disk[u], platter[u])
             /\ parts[u] # 0 /\ u \notin raw => WholeExtent(u, parts[u], disk[u], platter[u])
  BY InstallAssumption DEF Settled, IInv, TypeOK, DInv, Whole, Seen, SeenNow
<1>2. ASSUME NEW u \in Targets \ {t} PROVE SeenNow[u] = Seen[u]
  <2>1. CASE parts[u] # 0 /\ u \notin raw
    <3>1. disk[u].meta = platter[u].meta
      BY <2>1, InstallAssumption DEF DInv, Pending, IInv, TypeOK
    <3> QED
      BY <1>1, <2>1, <3>1, SeenSettles
  <2>2. CASE parts[u] = 0 \/ u \in raw
    BY <1>1, <2>2 DEF SeenIn
  <2> QED
    BY <2>1, <2>2
<1>3. Seen[t] = None \/ SeenNow[t] = None \/ SeenNow[t] = Seen[t]
  <2>1. CASE parts[t] # 0 /\ t \notin raw
    BY <1>1, <2>1, SeenSettles
  <2>2. CASE parts[t] = 0 \/ t \in raw
    BY <1>1, <2>2 DEF SeenIn
  <2> QED
    BY <2>1, <2>2
<1> QED
  BY <1>2, <1>3, OneChange

(* A change at one target whose partition is then gone, not cleared yet or  *)
(* without metadata, withdraws a game or nothing.                           *)
LEMMA LocalCatalog ==
  ASSUME Whole', TypeOK', NEW t \in Targets, Elsewhere(t),
         parts'[t] = 0 \/ t \in raw' \/ platter'[t].meta = None
  PROVE  [Catalog!Next]_Visible
<1>1. ASSUME NEW u \in Targets \ {t} PROVE SeenNow[u] = Seen[u]
  <2>1. SeenIn(u, parts[u], raw', platter[u]) = SeenIn(u, parts[u], raw, platter[u])
    BY SeenRaw DEF Elsewhere
  <2> QED
    BY <2>1 DEF Seen, SeenNow, Elsewhere
<1>2. SeenNow[t] = None
  BY DEF SeenNow, SeenIn
<1> QED
  BY <1>1, <1>2, OneChange

(* Every step of the installer is a step of the catalogue, or none. *)
LEMMA CatalogStep ==
  ASSUME IInv, DInv, Whole', TypeOK', Next
  PROVE  [Catalog!Next]_Visible
<1> USE InstallAssumption, TotalSectorsAssumption DEF journalVars, diskVars, runVars
<1>a. TypeOK /\ StageAt /\ Allocating /\ Created /\ Copied
  BY DEF IInv, DInv
<1>b. ASSUME RunStep
      PROVE  /\ tx \in Transaction /\ target \in Targets
             /\ journal_load # None /\ TargetOf[journal_load.img] = target /\ journal_load.stage = tx.stage
             /\ Sound(tx)
  <2>1. InRun /\ pc \notin Saving
    BY <1>b DEF RunStep, Preflight, CreateMain, InvalidateMetadata, InvalidateFlush, AddSub, AllocFlush,
       OpenTarget, CopyBlock, PollPad, CopyDone, FlushPayload, VerifyPayload, ReverifyPayload,
       CommitWrite, CommitFlush, FinishMetadata, InRun, Saving, Unlinking
  <2> QED
    BY <2>1, RunRecord DEF target
<1>1. CASE JournalStep \/ SwapSource \/ RemoveCorruptJournal \/ BeginNewInstall \/ Resume
  BY <1>1, NoChange DEF JournalStep, SaveOpen, SaveWrite, SaveRemove, SaveRename, UnlinkTxn, UnlinkNew,
     SwapSource, RemoveCorruptJournal, BeginNewInstall, Resume
<1>2. CASE Preflight \/ OpenTarget \/ CopyBlock \/ PollPad \/ CopyDone \/ VerifyPayload
           \/ ReverifyPayload \/ CommitWrite \/ FinishMetadata
  BY <1>2, NoChange DEF Preflight, OpenTarget, CopyBlock, PollPad, CopyDone, VerifyPayload,
     ReverifyPayload, CommitWrite, FinishMetadata
<1>3. CASE CreateMain
  <2>1. target \in Targets
    BY <1>3, <1>b DEF RunStep
  <2>2. CASE UNCHANGED diskVars
    BY <2>2, NoChange
  <2>3. CASE \E m \in StaleMeta \cup {None} :
               /\ parts' = [parts EXCEPT ![target] = 1]
               /\ disk' = [disk EXCEPT ![target] = [Blank EXCEPT !.meta = m]]
               /\ platter' = [platter EXCEPT ![target] = [Blank EXCEPT !.meta = m]]
               /\ raw' = raw \cup {target}
    <3>1. Elsewhere(target) /\ target \in raw'
      BY <1>a, <2>1, <2>3 DEF Elsewhere, TypeOK
    <3> QED
      BY <2>1, <3>1, LocalCatalog
  <2> QED
    BY <1>3, <2>2, <2>3 DEF CreateMain
<1>4. ASSUME DropCreated, target \in Targets
      PROVE  [Catalog!Next]_Visible
  <2>1. CASE RemovePartition(target)
    BY <1>a, <1>4, <2>1, RemovedTarget, LocalCatalog
  <2>2. CASE UNCHANGED diskVars
    BY <2>2, NoChange
  <2> QED
    BY <1>4, <2>1, <2>2 DEF DropCreated
<1>5. CASE InvalidateMetadata
  <2>1. target \in Targets
    BY <1>5, <1>b DEF RunStep
  <2> QED
    BY <1>5, <1>4, <2>1, NoChange DEF InvalidateMetadata
<1>6. CASE InvalidateFlush
  <2>1. target \in Targets /\ journal_load.stage = tx.stage
    BY <1>6, <1>b DEF RunStep
  <2>2. tx.stage = PLANNED /\ disk[target].meta = None
    BY <1>a, <1>6 DEF InvalidateFlush, StageAt, Created, At, Saving
  <2>3. ASSUME platter' = disk, raw' = raw \ {target}, UNCHANGED <<parts, disk>>
        PROVE  [Catalog!Next]_Visible
    <3>1. ASSUME NEW u \in Targets \ {target} PROVE SeenNow[u] = Seen[u]
      <4>1. CASE parts[u] # 0 /\ u \notin raw
        <5>1. disk[u].meta = platter[u].meta /\ WholeExtent(u, parts[u], disk[u], platter[u])
          BY <2>1, <2>2, <4>1 DEF DInv, Pending, Whole, IInv, TypeOK, PLANNED, PAYLOAD_VERIFIED
        <5>2. SeenIn(u, parts[u], raw, disk[u]) = SeenIn(u, parts[u], raw, platter[u])
          BY <4>1, <5>1, SeenSettles DEF Outcome
        <5>3. SeenIn(u, parts[u], raw', disk[u]) = SeenIn(u, parts[u], raw, disk[u])
          BY <2>3, SeenRaw
        <5> QED
          BY <2>3, <5>2, <5>3 DEF Seen, SeenNow
      <4>2. CASE parts[u] = 0 \/ u \in raw
        BY <2>3, <4>2 DEF Seen, SeenNow, SeenIn
      <4> QED
        BY <4>1, <4>2
    <3>2. SeenNow[target] = None
      BY <2>1, <2>2, <2>3 DEF SeenNow, SeenIn
    <3> QED
      BY <2>1, <3>1, <3>2, OneChange
  <2> QED
    BY <1>6, <1>4, <2>1, <2>3 DEF InvalidateFlush, Flush
<1>7. CASE AddSub
  <2>1. target \in Targets
    BY <1>7, <1>b DEF RunStep
  <2>2. target \notin raw /\ platter[target].meta = None
    BY <1>a, <1>7 DEF AddSub, Created
  <2>3. ASSUME parts' = [parts EXCEPT ![target] = @ + 1], UNCHANGED <<disk, platter, raw>>
        PROVE  Elsewhere(target) /\ platter'[target].meta = None
    BY <1>a, <2>2, <2>3 DEF Elsewhere, TypeOK
  <2> QED
    BY <1>7, <1>4, <2>1, <2>3, LocalCatalog DEF AddSub
<1>8. CASE AllocFlush \/ FlushPayload \/ CommitFlush
  <2>1. target \in Targets /\ journal_load # None /\ TargetOf[journal_load.img] = target
    BY <1>8, <1>b DEF RunStep
  <2>2. Settled \/ DropCreated
    BY <1>8 DEF AllocFlush, FlushPayload, CommitFlush, Flush, Settled, Outcome
  <2> QED
    BY <1>4, <2>1, <2>2, SettledCatalog DEF IInv
<1>9. CASE RemoveIncomplete
  <2>1. TargetOf[journal_load.img] \in Targets /\ RemovePartition(TargetOf[journal_load.img])
    BY <1>9, JournalLoad DEF RemoveIncomplete, Transaction
  <2> QED
    BY <1>a, <2>1, RemovedTarget, LocalCatalog
<1>10. CASE \E t \in Targets : DeleteGame(t)
  BY <1>a, <1>10, RemovedTarget, LocalCatalog DEF DeleteGame
<1>11. CASE PowerLoss
  <2>1. PICK kept \in SUBSET Dirty : disk' = After(kept) /\ platter' = After(kept)
    BY <1>11 DEF PowerLoss
  <2>2. Settled
    BY <1>a, <1>11, <2>1, AfterSettles DEF PowerLoss
  <2>3. CASE Targets = {}
    BY <2>3 DEF Visible
  <2>4. ASSUME NEW u \in Targets PROVE [Catalog!Next]_Visible
    <3>1. CASE journal_load = None
      BY <2>2, <2>4, <3>1, SettledCatalog
    <3>2. CASE journal_load # None
      <4>1. TargetOf[journal_load.img] \in Targets
        BY <3>2, JournalLoad DEF Transaction
      <4> QED
        BY <2>2, <4>1, SettledCatalog
    <3> QED
      BY <3>1, <3>2
  <2> QED
    BY <2>3, <2>4
<1> QED
  BY <1>1, <1>2, <1>3, <1>5, <1>6, <1>7, <1>8, <1>9, <1>10, <1>11 DEF Next, RunStep, MenuStep

(* The installer implements the catalogue: through every failure, power     *)
(* loss, source swap and resume, games appear and disappear whole.          *)
THEOREM Implements == Spec => PublishesAtomically
<1>1. Init => Catalog!Init
  BY DEF Init, Catalog!Init, Visible, VisibleGame
<1>2. IInv /\ DInv /\ IInv' /\ DInv' /\ [Next]_vars =>
        [Catalog!Next]_Visible
  <2>1. ASSUME IInv, DInv, IInv', DInv', Next
        PROVE  [Catalog!Next]_Visible
    BY <2>1, CatalogStep DEF IInv, DInv
  <2>2. ASSUME UNCHANGED vars PROVE [Catalog!Next]_Visible
    BY <2>2, NoChange DEF vars
  <2> QED
    BY <2>1, <2>2
<1> QED
  BY <1>1, <1>2, DataInvariance, PTL DEF Spec, PublishesAtomically, Catalog!Spec
=============================================================================
