------------------------------ MODULE HdlStream ------------------------------
(***************************************************************************)
(* The bulk transport of an HDL copy: the IOP driver hdl0: with its USB    *)
(* prefetch worker and two staging buffers (iop/hdl_stream/hdl_stream.c),  *)
(* and the EE glue that turns the transaction's read/hash/write loop into  *)
(* one "pump" request per block (src/hdl_tools/fast_io.inc).               *)
(*                                                                         *)
(* Three threads run: the EE, which issues one request at a time and waits *)
(* for its reply; the IOP thread that serves it; and the prefetch worker.  *)
(* Source block b has content b; a staging buffer holds a block, or        *)
(* Garbage while it is being filled.  The EE program is copy_payload from  *)
(* a resume point, then verify_target_digest, then close; it gives up and  *)
(* closes on any error and when TRIANGLE is pressed.                       *)
(***************************************************************************)
EXTENDS Naturals

CONSTANTS Total,     \* blocks of the source image
          Garbage    \* content of a buffer or block that was never filled

ASSUME StreamAssumption ==
  /\ Total \in Nat \ {0}
  /\ Garbage \notin Nat

Blocks  == 0..(Total - 1)
Content == Blocks \cup {Garbage}

VARIABLES
  \* EE
  ee,        \* program point of the EE
  start,     \* completed_sectors of the resumed record, in blocks
  source_position, seek_pending, pump_mode, pump_ack,   \* hdl_fast_* statics
  hashed,    \* blocks hashed so far in this pass
  copied,    \* blocks copy_payload counts as written
  buffer,    \* the EE transfer buffer
  \* hdl0:
  rpc,       \* program point of the thread that serves the EE
  cmd,       \* request being served
  use,       \* staging buffer the serving thread works on
  stage,     \* stage[0], stage[1]
  position,  \* stream->position, in blocks
  hdd,       \* payload area of the target
  fp,        \* file pointer of source_fd, shared by both IOP threads
  \* prefetch
  worker,    \* program point of the worker
  active, stop, request_sema, done_sema, stopped_sema,
  prefetch   \* offset, stage index and result of the last request

eeVars  == <<ee, start, source_position, seek_pending, pump_mode, pump_ack,
             hashed, copied, buffer>>
rpcVars == <<rpc, cmd, use, stage, position, hdd, fp>>
semas   == <<request_sema, done_sema, stopped_sema>>
pfVars  == <<worker, active, stop, semas, prefetch>>
vars    == <<eeVars, rpcVars, pfVars>>

FlagsOK ==
  /\ seek_pending \in BOOLEAN /\ pump_mode \in BOOLEAN /\ pump_ack \in BOOLEAN
  /\ active \in BOOLEAN /\ stop \in BOOLEAN

TypeOK ==
  /\ FlagsOK
  /\ ee \in {"open", "rehash", "seek", "read", "write", "flush", "verify", "close", "closed"}
  /\ start \in 0..Total /\ source_position \in 0..Total
  /\ hashed \in 0..Total /\ copied \in 0..Total
  /\ buffer \in Content
  /\ rpc \in {"idle", "take", "source", "schedule", "transfer", "target", "dma",
              "ok", "error", "join", "free"}
  /\ cmd \in {"SOURCE_TO_EE", "PUMP_TO_EE", "TARGET_TO_EE"}
  /\ use \in {0, 1}
  /\ stage \in [{0, 1} -> Content]
  /\ position \in 0..Total /\ fp \in 0..Total /\ hdd \in [Blocks -> Content]
  /\ worker \in {"none", "waiting", "reading", "fallback", "read", "stopping", "exited"}
  /\ request_sema \in {0, 1} /\ done_sema \in {0, 1} /\ stopped_sema \in {0, 1}
  /\ prefetch \in [offset: Blocks, index: {0, 1}, result: {"EIO", "bytes"}]

(* What the journal claims as copied was written by an earlier run, but may *)
(* not have survived in the drive.                                          *)
Init ==
  /\ ee = "open" /\ start \in 0..Total
  /\ hdd \in {h \in [Blocks -> Content] :
                \A b \in Blocks : h[b] \in IF b < start THEN {b, Garbage} ELSE {Garbage}}
  /\ source_position = 0 /\ seek_pending = FALSE
  /\ pump_mode = FALSE /\ pump_ack = FALSE
  /\ hashed = 0 /\ copied = start /\ buffer = Garbage
  /\ rpc = "idle" /\ cmd = "SOURCE_TO_EE" /\ use = 0
  /\ stage = [i \in {0, 1} |-> Garbage] /\ position = 0 /\ fp = 0
  /\ worker = "none" /\ active = FALSE /\ stop = FALSE
  /\ request_sema = 0 /\ done_sema = 0 /\ stopped_sema = 0
  /\ prefetch = [offset |-> 0, index |-> 0, result |-> "EIO"]

-----------------------------------------------------------------------------
(* EE: hdl_fast_fileXio* as copy_payload and verify_target_digest call them *)

(* stream_open: without memory for the second buffer, or without semaphores *)
(* or a thread, there is no worker.  A failed open ends the run; so does a  *)
(* failed seek to the start of the prefix, after a close.                   *)
Open ==
  /\ ee = "open"
  /\ \/ /\ worker' \in {"none", "waiting"}
        /\ ee' = IF start > 0 THEN "rehash" ELSE "seek"
        /\ seek_pending' = (start > 0)
     \/ /\ worker' \in {"none", "waiting"}
        /\ start > 0 /\ ee' = "close" /\ UNCHANGED seek_pending
     \/ ee' = "closed" /\ UNCHANGED <<worker, seek_pending>>
  /\ UNCHANGED <<start, source_position, pump_mode, pump_ack, hashed, copied, buffer,
                 rpcVars, active, stop, semas, prefetch>>

(* fast_source_to_ee starts from stage[0]; so does fast_target_to_ee. *)
Issue(command) ==
  /\ rpc = "idle" /\ cmd' = command /\ use' = 0
  /\ rpc' = IF command = "TARGET_TO_EE" THEN "target" ELSE "take"
  /\ UNCHANGED <<stage, position, hdd, fp, pfVars>>

(* Re-reading the already-copied prefix to rebuild the digest. *)
RehashRead ==
  /\ ee = "rehash" /\ hashed < start
  /\ Issue("SOURCE_TO_EE")
  /\ UNCHANGED eeVars

(* copy_payload seeks the source, then the target, to the resume point.     *)
(* The source seek moves the descriptor the worker may be reading; the      *)
(* target seek arms the pump because the source seek is pending at the same *)
(* offset.                                                                  *)
Bug_Seek ==
  /\ rpc = "idle"
  /\ ee = "seek" \/ (ee = "rehash" /\ hashed = start)
  /\ source_position' = start /\ position' = start /\ fp' = 0
  /\ pump_mode' = TRUE /\ seek_pending' = FALSE /\ pump_ack' = FALSE
  /\ ee' = IF start = Total THEN "flush" ELSE "read"
  /\ UNCHANGED <<start, hashed, copied, buffer, rpc, cmd, use, stage, hdd, pfVars>>

Seek ==
  /\ rpc = "idle"
  /\ ee = "seek" \/ (ee = "rehash" /\ hashed = start)
  /\ source_position' = start /\ position' = start /\ fp' = start
  /\ pump_mode' = TRUE /\ seek_pending' = FALSE /\ pump_ack' = FALSE
  /\ ee' = IF start = Total THEN "flush" ELSE "read"
  /\ UNCHANGED <<start, hashed, copied, buffer, rpc, cmd, use, stage, hdd, pfVars>>

(* One of the two fails: neither is made, or only that of the source.       *)
SeekFailed ==
  /\ rpc = "idle" /\ ee' = "close"
  /\ ee = "seek" \/ (ee = "rehash" /\ hashed = start)
  /\ \/ UNCHANGED <<source_position, seek_pending, pump_mode, pump_ack, fp>>
     \/ /\ source_position' = start /\ seek_pending' = TRUE /\ fp' = start
        /\ pump_mode' = FALSE /\ pump_ack' = FALSE
  /\ UNCHANGED <<start, hashed, copied, buffer, rpc, cmd, use, stage, position, hdd, pfVars>>

CopyRead ==
  /\ ee = "read"
  /\ Issue(IF pump_mode THEN "PUMP_TO_EE" ELSE "SOURCE_TO_EE")
  /\ UNCHANGED eeVars

(* The write that follows a pump is an acknowledgement; otherwise it is a   *)
(* plain write at the stream position.  A failed journal save and TRIANGLE  *)
(* end the copy after the block.                                            *)
Bug_CopyWrite ==
  /\ ee = "write" /\ rpc = "idle"
  /\ position < Total
  /\ hdd' = [hdd EXCEPT ![position] = buffer] /\ position' = position + 1
  /\ pump_ack' = FALSE /\ copied' = copied + 1
  /\ ee' = IF copied + 1 = Total THEN "flush" ELSE "read"
  /\ UNCHANGED <<start, source_position, seek_pending, pump_mode, hashed, buffer,
                 rpc, cmd, use, stage, fp, pfVars>>

CopyWrite ==
  /\ ee = "write" /\ rpc = "idle"
  /\ IF pump_ack THEN UNCHANGED <<hdd, position>>
     ELSE hdd' = [hdd EXCEPT ![position] = buffer] /\ position' = position + 1
  /\ pump_ack' = FALSE /\ copied' = copied + 1
  /\ ee' \in {"close", IF copied + 1 = Total THEN "flush" ELSE "read"}
  /\ UNCHANGED <<start, source_position, seek_pending, pump_mode, hashed, buffer,
                 rpc, cmd, use, stage, fp, pfVars>>

(* The flush after the copy, then verify_target_digest's seek of the target *)
(* to 0, which disarms the pump: no source seek is pending any more.        *)
FlushAndSeek ==
  /\ ee = "flush" /\ rpc = "idle"
  /\ ee' \in {"verify", "close"}
  /\ position' = 0 /\ hashed' = 0
  /\ pump_mode' = (seek_pending /\ source_position = 0)
  /\ seek_pending' = FALSE /\ pump_ack' = FALSE
  /\ UNCHANGED <<start, source_position, copied, buffer, rpc, cmd, use, stage, hdd, fp, pfVars>>

VerifyRead ==
  /\ ee = "verify" /\ hashed < Total
  /\ Issue("TARGET_TO_EE")
  /\ pump_mode' = FALSE /\ pump_ack' = FALSE
  /\ UNCHANGED <<ee, start, source_position, seek_pending, hashed, copied, buffer>>

VerifyDone ==
  /\ ee = "verify" /\ hashed = Total /\ rpc = "idle"
  /\ ee' = "close"
  /\ UNCHANGED <<start, source_position, seek_pending, pump_mode, pump_ack, hashed,
                 copied, buffer, rpcVars, pfVars>>

(* The reply of the ioctl *)
ReplyOk ==
  /\ rpc = "ok" /\ rpc' = "idle"
  /\ hashed' = hashed + 1
  /\ IF cmd = "TARGET_TO_EE" THEN UNCHANGED <<source_position, seek_pending, pump_ack>>
     ELSE /\ source_position' = source_position + 1
          /\ seek_pending' = FALSE
          /\ pump_ack' = (cmd = "PUMP_TO_EE")
  /\ ee' = IF ee = "read" THEN "write" ELSE ee
  /\ UNCHANGED <<start, pump_mode, copied, buffer, cmd, use, stage, position, hdd, fp, pfVars>>

ReplyError ==
  /\ rpc = "error" /\ rpc' = "idle"
  /\ pump_ack' = FALSE /\ ee' = "close"
  /\ UNCHANGED <<start, source_position, seek_pending, pump_mode, hashed, copied,
                 buffer, cmd, use, stage, position, hdd, fp, pfVars>>

EE == Open \/ RehashRead \/ Seek \/ SeekFailed \/ CopyRead \/ CopyWrite \/ FlushAndSeek
      \/ VerifyRead \/ VerifyDone \/ ReplyOk \/ ReplyError

-----------------------------------------------------------------------------
(* hdl0:, serving one request: fast_source_to_ee and fast_target_to_ee      *)

(* prefetch_wait leaves prefetch_active set *)
Bug_Take ==
  /\ rpc = "take"
  /\ IF ~active
     THEN rpc' = "source" /\ UNCHANGED <<use, done_sema>>
     ELSE /\ done_sema = 1 /\ done_sema' = 0
          /\ rpc' = "schedule" /\ use' = prefetch.index
  /\ UNCHANGED <<eeVars, cmd, stage, position, hdd, fp, worker, active, stop, request_sema,
                 stopped_sema, prefetch>>

(* prefetch_take with prefetch_wait: a request that is under way is waited  *)
(* for even when it does not match.                                         *)
Take ==
  /\ rpc = "take"
  /\ IF ~active
     THEN rpc' = "source" /\ UNCHANGED <<use, active, done_sema>>
     ELSE /\ done_sema = 1 /\ done_sema' = 0 /\ active' = FALSE
          /\ IF prefetch.offset # source_position
             THEN rpc' = "source" /\ UNCHANGED use
             ELSE IF prefetch.result = "bytes"
                  THEN rpc' = "schedule" /\ use' = prefetch.index
                  ELSE rpc' = "error" /\ UNCHANGED use
  /\ UNCHANGED <<eeVars, cmd, stage, position, hdd, fp, worker, stop, request_sema,
                 stopped_sema, prefetch>>

(* source_read_at by the serving thread: direct, or with an explicit seek. *)
SourceRead ==
  /\ rpc = "source"
  /\ fp' \in {fp, source_position, source_position + 1}
  /\ \/ rpc' = "schedule" /\ stage' = [stage EXCEPT ![use] = source_position]
     \/ rpc' = "error" /\ stage' = [stage EXCEPT ![use] = Garbage]
  /\ UNCHANGED <<eeVars, cmd, use, position, hdd, pfVars>>

(* prefetch_schedule: nothing without a worker, while a request is under way *)
(* or at the end of the source.                                             *)
ScheduleInto(index) ==
  /\ rpc = "schedule"
  /\ IF worker # "none" /\ ~active /\ source_position + 1 < Total
     THEN /\ prefetch' = [offset |-> source_position + 1, index |-> index, result |-> "EIO"]
          /\ active' = TRUE /\ request_sema' = 1
     ELSE UNCHANGED <<prefetch, active, request_sema>>
  /\ rpc' = IF cmd = "PUMP_TO_EE" THEN "transfer" ELSE "dma"
  /\ UNCHANGED <<eeVars, cmd, use, stage, position, hdd, fp, worker, stop, done_sema,
                 stopped_sema>>

(* fast_source_to_ee reads ahead into the other staging buffer, stage_index ^ 1 *)
Bug_Schedule == ScheduleInto(use)

Schedule == ScheduleInto(1 - use)

(* stream->position not advanced *)
Bug_Transfer ==
  /\ rpc = "transfer" /\ rpc' = "dma"
  /\ hdd' = [hdd EXCEPT ![position] = stage[use]]
  /\ UNCHANGED <<eeVars, cmd, use, stage, position, fp, pfVars>>

(* stream_transfer: a failing write may have reached the drive. *)
Transfer ==
  /\ rpc = "transfer"
  /\ \/ /\ hdd' = [hdd EXCEPT ![position] = stage[use]]
        /\ position' = position + 1 /\ rpc' = "dma"
     \/ /\ \E c \in {hdd[position], stage[use], Garbage} : hdd' = [hdd EXCEPT ![position] = c]
        /\ UNCHANGED position /\ rpc' = "error"
  /\ UNCHANGED <<eeVars, cmd, use, stage, fp, pfVars>>

TargetRead ==
  /\ rpc = "target"
  /\ \/ /\ stage' = [stage EXCEPT ![use] = hdd[position]]
        /\ position' = position + 1 /\ rpc' = "dma"
     \/ /\ stage' = [stage EXCEPT ![use] = Garbage]
        /\ UNCHANGED position /\ rpc' = "error"
  /\ UNCHANGED <<eeVars, cmd, use, hdd, fp, pfVars>>

(* dma_to_ee: the copy into the EE's buffer, waited for. *)
Dma ==
  /\ rpc = "dma"
  /\ \/ rpc' = "ok" /\ buffer' = stage[use]
     \/ rpc' = "error" /\ UNCHANGED buffer
  /\ UNCHANGED <<ee, start, source_position, seek_pending, pump_mode, pump_ack, hashed,
                 copied, cmd, use, stage, position, hdd, fp, pfVars>>

-----------------------------------------------------------------------------
(* stream_close: prefetch_shutdown, then free the buffers and the stream    *)

CloseWait ==
  /\ ee = "close" /\ rpc = "idle" /\ active
  /\ done_sema = 1 /\ done_sema' = 0 /\ active' = FALSE
  /\ UNCHANGED <<eeVars, rpcVars, worker, stop, request_sema, stopped_sema, prefetch>>

Bug_CloseStop ==
  /\ ee = "close" /\ rpc = "idle"
  /\ IF worker = "none" \/ active
     THEN rpc' = "free" /\ UNCHANGED <<stop, request_sema>>
     ELSE rpc' = "join" /\ stop' = TRUE /\ request_sema' = 1
  /\ UNCHANGED <<eeVars, cmd, use, stage, position, hdd, fp, worker, active, done_sema,
                 stopped_sema, prefetch>>

CloseStop ==
  /\ ee = "close" /\ rpc = "idle" /\ ~active
  /\ IF worker = "none"
     THEN rpc' = "free" /\ UNCHANGED <<stop, request_sema>>
     ELSE rpc' = "join" /\ stop' = TRUE /\ request_sema' = 1
  /\ UNCHANGED <<eeVars, cmd, use, stage, position, hdd, fp, worker, active, done_sema,
                 stopped_sema, prefetch>>

CloseJoin ==
  /\ rpc = "join" /\ stopped_sema = 1
  /\ stopped_sema' = 0 /\ rpc' = "free"
  /\ UNCHANGED <<eeVars, cmd, use, stage, position, hdd, fp, worker, active, stop,
                 request_sema, done_sema, prefetch>>

hdl_fast_io_reset ==
  /\ source_position' = 0 /\ seek_pending' = FALSE
  /\ pump_mode' = FALSE /\ pump_ack' = FALSE

(* source_map_reset, closing the partition, FreeSysMemory; hdl_fast_io_reset *)
(* has cleared the EE's statics.                                            *)
CloseFree ==
  /\ rpc = "free" /\ rpc' = "idle" /\ ee' = "closed"
  /\ hdl_fast_io_reset
  /\ UNCHANGED <<start, hashed, copied, buffer, cmd, use, stage, position, hdd, fp, pfVars>>

Serve == Take \/ SourceRead \/ Schedule \/ Transfer \/ TargetRead \/ Dma
         \/ CloseWait \/ CloseStop \/ CloseJoin \/ CloseFree

-----------------------------------------------------------------------------
(* prefetch_worker *)

Wake ==
  /\ worker = "waiting" /\ request_sema = 1 /\ request_sema' = 0
  /\ IF stop THEN worker' = "stopping" /\ UNCHANGED stage
     ELSE worker' = "reading" /\ stage' = [stage EXCEPT ![prefetch.index] = Garbage]
  /\ UNCHANGED <<eeVars, rpc, cmd, use, position, hdd, fp, active, stop, done_sema,
                 stopped_sema, prefetch>>

(* source_map_read with physical addresses *)
ReadDirect ==
  /\ worker = "reading" /\ worker' = "read"
  /\ stage' = [stage EXCEPT ![prefetch.index] = prefetch.offset]
  /\ prefetch' = [prefetch EXCEPT !.result = "bytes"]
  /\ UNCHANGED <<eeVars, rpc, cmd, use, position, hdd, fp, active, stop, semas>>

(* Without a map, or when it failed: source_read_fallback seeks the shared  *)
(* descriptor, then reads at wherever it points.                            *)
FallbackSeek ==
  /\ worker = "reading" /\ worker' = "fallback"
  /\ fp' = prefetch.offset
  /\ UNCHANGED <<eeVars, rpc, cmd, use, stage, position, hdd, active, stop, semas, prefetch>>

FallbackRead ==
  /\ worker = "fallback" /\ worker' = "read"
  /\ \/ /\ fp < Total /\ fp' = fp + 1
        /\ stage' = [stage EXCEPT ![prefetch.index] = fp]
        /\ prefetch' = [prefetch EXCEPT !.result = "bytes"]
     \/ UNCHANGED <<fp, stage, prefetch>>
  /\ UNCHANGED <<eeVars, rpc, cmd, use, position, hdd, active, stop, semas>>

SignalDone ==
  /\ worker = "read" /\ worker' = "waiting"
  /\ done_sema' = 1
  /\ UNCHANGED <<eeVars, rpcVars, active, stop, request_sema, stopped_sema, prefetch>>

(* the thread leaves without its last signal *)
Bug_SignalStopped ==
  /\ worker = "stopping" /\ worker' = "exited"
  /\ UNCHANGED <<eeVars, rpcVars, active, stop, semas, prefetch>>

SignalStopped ==
  /\ worker = "stopping" /\ worker' = "exited"
  /\ stopped_sema' = 1
  /\ UNCHANGED <<eeVars, rpcVars, active, stop, request_sema, done_sema, prefetch>>

Worker == Wake \/ ReadDirect \/ FallbackSeek \/ FallbackRead \/ SignalDone \/ SignalStopped

Next == EE \/ Serve \/ Worker

Spec == Init /\ [][Next]_vars

(* Each thread keeps running while it is not waiting, and every device      *)
(* operation returns.                                                       *)
FairSpec == Spec /\ WF_vars(EE) /\ WF_vars(Serve) /\ WF_vars(Worker)

-----------------------------------------------------------------------------
(* Properties *)

(* The worker never fills the staging buffer that the serving thread is     *)
(* writing to the HDD or sending to the EE (stage_index ^ 1 of              *)
(* fast_source_to_ee, and stage[0] of fast_target_to_ee).                   *)
NoStageRace ==
  /\ rpc \in {"source", "transfer", "target", "dma"}
  /\ worker \in {"reading", "fallback"}
  => prefetch.index # use

(* One request at most is in flight, and exactly one while prefetch_active: *)
(* it is in the request semaphore, with the worker, or in the done          *)
(* semaphore.  So no signal is lost on a semaphore that is already up       *)
(* (max = 1), and no wait is for a signal that never comes.                 *)
InFlight == request_sema + done_sema
            + (IF worker \in {"reading", "fallback", "read"} THEN 1 ELSE 0)

OneRequestInFlight ==
  ~stop => InFlight = IF active THEN 1 ELSE 0

(* Every block copy_payload counts as copied in this run is the right block *)
(* at the right place on the target, although the write itself was made by  *)
(* an earlier pump and the data was read ahead by another thread.           *)
CopiedMeansWritten == \A b \in Blocks : start <= b /\ b < copied => hdd[b] = b

(* A reply carries the block the EE hashes next: the next source block in a *)
(* source pass, the next block of the target in the verification pass.      *)
ReplyCarriesNextBlock ==
  rpc = "ok" => buffer = IF cmd = "TARGET_TO_EE" THEN hdd[hashed] ELSE hashed

(* No use after free: when stream_close has freed the buffers, the worker   *)
(* has ended and no request is left for it.                                 *)
WorkerEndsBeforeFree ==
  rpc = "free" \/ ee = "closed" => worker \in {"none", "exited"} /\ request_sema = 0

(* Each block of the target is written at most once in a run: the write     *)
(* that acknowledges a pump never repeats it (hdl_fast_fileXioWrite).       *)
NeverRewritten ==
  [][\A b \in Blocks : hdd'[b] # hdd[b] => position <= b /\ copied <= b]_vars

(* Whatever fails, the run ends with the stream closed: neither side waits  *)
(* for ever on a semaphore.                                                 *)
StreamCloses == <>(ee = "closed")
=============================================================================
