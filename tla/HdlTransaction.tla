--------------------------- MODULE HdlTransaction ---------------------------
(***************************************************************************)
(* The portable stage machine of an HDL install (src/hdl_transaction.c).   *)
(*                                                                         *)
(* A transaction record is [stage, completed, img].  `completed' counts    *)
(* payload blocks already copied (the code counts 2048-byte ISO sectors;   *)
(* here one block stands for one HDL_INSTALL_IO_BYTES transfer), and `img' *)
(* stands for everything the record says of the source: its size,          *)
(* fingerprint, path, startup name, title, media type and generated target *)
(* name.  Those fields are written once, by begin_new_install, and are     *)
(* well formed from then on, so the field checks of transaction_valid      *)
(* reduce to the checks of stage and progress.                             *)
(***************************************************************************)
EXTENDS Naturals

CONSTANTS Images,        \* the ISO contents that can be behind a source path
          TotalSectors   \* payload length of an image, in blocks

ASSUME TotalSectorsAssumption == TotalSectors \in Nat \ {0}

EMPTY              == 0
PLANNED            == 1
PARTITIONS_CREATED == 2
COPYING            == 3
PAYLOAD_VERIFIED   == 4
METADATA_COMMITTED == 5
COMPLETE           == 6
ABORTED            == 7

Stages == PLANNED..ABORTED

Transaction == [stage: Stages, completed: 0..TotalSectors, img: Images]

-----------------------------------------------------------------------------
(* What encode accepts and decode returns. *)
transaction_valid(tx) ==
  /\ tx.stage \in Stages
  /\ tx.completed \in 0..TotalSectors
  /\ tx.stage \in {PLANNED, PARTITIONS_CREATED} => tx.completed = 0
  /\ tx.stage \in PAYLOAD_VERIFIED..COMPLETE => tx.completed = TotalSectors

(* Stages advance one at a time; COPYING repeats, and anything that has not *)
(* yet exposed metadata may be abandoned.                                   *)
hdl_transaction_transition_allowed(from, to) ==
  \/ from = COPYING /\ to = COPYING
  \/ to = ABORTED /\ from \in PLANNED..PAYLOAD_VERIFIED
  \/ from \in PLANNED..METADATA_COMMITTED /\ to = from + 1

(* hdl_transaction_set_stage as a relation between the record before and    *)
(* after a call that returns 0.  A refused call leaves the record alone.    *)
set_stage_accepts(tx, stage, completed) ==
  /\ hdl_transaction_transition_allowed(tx.stage, stage)
  /\ completed >= tx.completed
  /\ transaction_valid([tx EXCEPT !.stage = stage, !.completed = completed])

hdl_transaction_set_stage(tx, stage, completed) ==
  IF set_stage_accepts(tx, stage, completed)
  THEN [tx EXCEPT !.stage = stage, !.completed = completed]
  ELSE tx

=============================================================================
