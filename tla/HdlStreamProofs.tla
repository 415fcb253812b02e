--------------------------- MODULE HdlStreamProofs ---------------------------
(***************************************************************************)
(* Proofs about HdlStream, for every number of blocks Total.               *)
(*                                                                         *)
(* The safety properties of the copy are consequences of one inductive     *)
(* invariant, IInv: TypeOK, the order of the EE's calls (InStep), the      *)
(* hand-shake of the two IOP threads (Handshake), which buffer each thread *)
(* owns (Ownership), and what the buffers and the drive hold (Contents).   *)
(***************************************************************************)
EXTENDS HdlStream, TLAPS

Busy == worker \in {"reading", "fallback", "read"}

(* How far the source, the target and the hash are in each part of the run. *)
Pumped == IF rpc \in {"dma", "ok"} THEN 1 ELSE 0

InStep ==
  /\ rpc \in {"take", "source", "schedule", "transfer", "target", "dma", "ok", "error"}
       => ee \in {"rehash", "read", "verify"}
  /\ rpc \in {"join", "free"} => ee = "close"
  /\ ee = "open" => source_position = 0 /\ hashed = 0 /\ copied = start
  /\ ee = "rehash" => /\ source_position = hashed /\ hashed <= start /\ copied = start
                      /\ rpc # "idle" => cmd = "SOURCE_TO_EE" /\ hashed < start
                      /\ rpc \notin {"transfer", "target"}
  /\ ee = "seek" => start = 0 /\ source_position = 0 /\ hashed = 0 /\ copied = 0 /\ ~active
  /\ ee = "read" => /\ copied < Total /\ source_position = copied /\ hashed = copied
                    /\ pump_mode /\ (rpc # "idle" => cmd = "PUMP_TO_EE")
                    /\ rpc # "target" /\ start <= copied
                    /\ rpc # "error" => position = copied + Pumped
  /\ ee = "write" => /\ copied < Total /\ source_position = copied + 1
                     /\ hashed = copied + 1 /\ position = copied + 1
                     /\ pump_mode /\ pump_ack /\ start <= copied
  /\ ee = "flush" => source_position = Total /\ copied = Total
  /\ ee = "verify" => /\ source_position = Total /\ copied = Total /\ ~active
                      /\ rpc # "error" => position = hashed + Pumped
                      /\ rpc # "idle" => cmd = "TARGET_TO_EE" /\ hashed < Total
                      /\ rpc \in {"idle", "target", "dma", "ok", "error"}

(* Where the one request of prefetch_active is, and what stop means. *)
Handshake ==
  /\ request_sema + done_sema + (IF Busy THEN 1 ELSE 0)
       = IF active \/ (rpc = "join" /\ worker = "waiting") THEN 1 ELSE 0
  /\ worker = "none" => ~active
  /\ stop <=> worker # "none" /\ (rpc \in {"join", "free"} \/ (ee = "closed"))
  /\ stop => ~active /\ done_sema = 0 /\ worker \in {"waiting", "stopping", "exited"}
  /\ ~stop => worker \notin {"stopping", "exited"} /\ stopped_sema = 0
  /\ rpc = "join" => worker = "exited" <=> stopped_sema = 1
  /\ rpc = "free" \/ ee = "closed" => worker \in {"none", "exited"}
  /\ ee \in {"open", "closed"} => rpc = "idle" /\ ~active
  /\ ee = "open" => worker = "none"

(* What is read ahead is the block after the one in use, in the other buffer. *)
Ownership ==
  /\ active /\ rpc # "error" /\ ee # "close"
       => prefetch.offset = source_position
                            + IF rpc \in {"transfer", "dma", "ok"} THEN 1 ELSE 0
  /\ active /\ rpc \in {"transfer", "dma"} => prefetch.index # use
  /\ rpc \in {"source", "schedule", "target"} => ~active
  /\ rpc \in {"take", "source", "target"} => use = 0

Contents ==
  /\ active /\ prefetch.result = "bytes" => stage[prefetch.index] = prefetch.offset
  /\ worker = "fallback" => fp = prefetch.offset
  /\ worker \in {"reading", "fallback"} \/ (active /\ request_sema = 1) => prefetch.result = "EIO"
  /\ rpc \in {"schedule", "transfer", "dma"} /\ cmd # "TARGET_TO_EE"
       => stage[use] = source_position
  /\ rpc = "dma" /\ cmd = "TARGET_TO_EE" => stage[use] = hdd[hashed]
  /\ rpc \in {"dma", "ok"} /\ cmd = "PUMP_TO_EE" => hdd[source_position] = source_position
  /\ ee = "write" => hdd[copied] = copied
  /\ ReplyCarriesNextBlock
  /\ CopiedMeansWritten

IInv == TypeOK /\ InStep /\ Handshake /\ Ownership /\ Contents

-----------------------------------------------------------------------------
(* Init establishes the invariant: stream_open has not been called. *)
LEMMA InitInv == Init => IInv
<1> SUFFICES ASSUME Init PROVE IInv
    OBVIOUS
<1> USE StreamAssumption DEF Init
<1>1. TypeOK
  <2>1. FlagsOK
    BY Zenon DEF FlagsOK
  <2> QED
    BY <2>1 DEF TypeOK, Blocks, Content
<1>2. InStep
  BY DEF InStep, Pumped
<1>3. Handshake
  BY DEF Handshake, Busy
<1>4. Ownership
  BY DEF Ownership
<1>5. Contents
  BY DEF Contents, ReplyCarriesNextBlock, CopiedMeansWritten, Blocks
<1> QED
  BY <1>1, <1>2, <1>3, <1>4, <1>5 DEF IInv

(* The calls of the EE glue (fast_io.inc) preserve the invariant. *)
LEMMA EEInv == IInv /\ EE => IInv'
<1> SUFFICES ASSUME IInv, EE PROVE IInv'
    OBVIOUS
<1> USE StreamAssumption DEF vars, eeVars, rpcVars, semas, pfVars
<1>a. TypeOK /\ InStep /\ Handshake /\ Ownership /\ Contents
  BY DEF IInv
<1>1. CASE Open
  <2>0. FlagsOK'
    <3>1. (start > 0) \in BOOLEAN
      OBVIOUS
    <3> QED
      BY <3>1, <1>a, <1>1, Zenon DEF Open, TypeOK, FlagsOK
  <2>1. TypeOK'
    BY <1>a, <2>0, <1>1 DEF Open, TypeOK, Blocks, Content, InStep, Pumped, Ownership
  <2>2. InStep'
    BY <1>a, <1>1 DEF Open, TypeOK, Blocks, Content, InStep, Pumped, Handshake, Ownership
  <2>3. Handshake'
    BY <1>a, <1>1 DEF Open, TypeOK, Blocks, Content, InStep, Handshake, Ownership, Busy
  <2>4. Ownership'
    BY <1>a, <1>1 DEF Open, TypeOK, Blocks, Content, InStep, Handshake, Ownership, Busy
  <2>5. Contents'
    BY <1>a, <1>1 DEF Open, TypeOK, Blocks, Content, InStep, Pumped, Handshake, Ownership, Busy, Contents,
       ReplyCarriesNextBlock, CopiedMeansWritten
  <2> QED
    BY <2>1, <2>2, <2>3, <2>4, <2>5 DEF IInv
<1>2. CASE RehashRead
  <2>0. FlagsOK'
    BY <1>a, <1>2, Zenon DEF RehashRead, Issue, TypeOK, FlagsOK
  <2>1. TypeOK'
    BY <1>a, <2>0, <1>2 DEF RehashRead, Issue, TypeOK, Blocks, Content, InStep, Pumped, Ownership
  <2>2. InStep'
    BY <1>a, <1>2 DEF RehashRead, Issue, TypeOK, Blocks, Content, InStep, Pumped, Handshake, Ownership
  <2>3. Handshake'
    BY <1>a, <1>2 DEF RehashRead, Issue, TypeOK, Blocks, Content, InStep, Handshake, Ownership, Busy
  <2>4. Ownership'
    BY <1>a, <1>2 DEF RehashRead, Issue, TypeOK, Blocks, Content, InStep, Handshake, Ownership, Busy
  <2>5. Contents'
    BY <1>a, <1>2 DEF RehashRead, Issue, TypeOK, Blocks, Content, InStep, Pumped, Handshake, Ownership, Busy, Contents,
       ReplyCarriesNextBlock, CopiedMeansWritten
  <2> QED
    BY <2>1, <2>2, <2>3, <2>4, <2>5 DEF IInv
<1>3. CASE Seek
  <2>0. FlagsOK'
    BY <1>a, <1>3, Zenon DEF Seek, TypeOK, FlagsOK
  <2>1. TypeOK'
    BY <1>a, <2>0, <1>3 DEF Seek, TypeOK, Blocks, Content, InStep, Pumped, Ownership
  <2>2. InStep'
    BY <1>a, <1>3 DEF Seek, TypeOK, Blocks, Content, InStep, Pumped, Handshake, Ownership
  <2>3. Handshake'
    BY <1>a, <1>3 DEF Seek, TypeOK, Blocks, Content, InStep, Handshake, Ownership, Busy
  <2>4. Ownership'
    BY <1>a, <1>3 DEF Seek, TypeOK, Blocks, Content, InStep, Handshake, Ownership, Busy
  <2>5. Contents'
    BY <1>a, <1>3 DEF Seek, TypeOK, Blocks, Content, InStep, Pumped, Handshake, Ownership, Busy, Contents,
       ReplyCarriesNextBlock, CopiedMeansWritten
  <2> QED
    BY <2>1, <2>2, <2>3, <2>4, <2>5 DEF IInv
<1>4. CASE CopyRead
  <2>0. FlagsOK'
    BY <1>a, <1>4, Zenon DEF CopyRead, Issue, TypeOK, FlagsOK
  <2>1. TypeOK'
    BY <1>a, <2>0, <1>4 DEF CopyRead, Issue, TypeOK, Blocks, Content, InStep, Pumped, Ownership
  <2>2. InStep'
    BY <1>a, <1>4 DEF CopyRead, Issue, TypeOK, Blocks, Content, InStep, Pumped, Handshake, Ownership
  <2>3. Handshake'
    BY <1>a, <1>4 DEF CopyRead, Issue, TypeOK, Blocks, Content, InStep, Handshake, Ownership, Busy
  <2>4. Ownership'
    BY <1>a, <1>4 DEF CopyRead, Issue, TypeOK, Blocks, Content, InStep, Handshake, Ownership, Busy
  <2>5. Contents'
    BY <1>a, <1>4 DEF CopyRead, Issue, TypeOK, Blocks, Content, InStep, Pumped, Handshake, Ownership, Busy, Contents,
       ReplyCarriesNextBlock, CopiedMeansWritten
  <2> QED
    BY <2>1, <2>2, <2>3, <2>4, <2>5 DEF IInv
<1>5. CASE CopyWrite
  <2>0. FlagsOK'
    BY <1>a, <1>5, Zenon DEF CopyWrite, TypeOK, FlagsOK
  <2>1. TypeOK'
    BY <1>a, <2>0, <1>5 DEF CopyWrite, TypeOK, Blocks, Content, InStep, Pumped, Ownership
  <2>2. InStep'
    BY <1>a, <1>5 DEF CopyWrite, TypeOK, Blocks, Content, InStep, Pumped, Handshake, Ownership
  <2>3. Handshake'
    BY <1>a, <1>5 DEF CopyWrite, TypeOK, Blocks, Content, InStep, Handshake, Ownership, Busy
  <2>4. Ownership'
    BY <1>a, <1>5 DEF CopyWrite, TypeOK, Blocks, Content, InStep, Handshake, Ownership, Busy
  <2>5. Contents'
    BY <1>a, <1>5 DEF CopyWrite, TypeOK, Blocks, Content, InStep, Pumped, Handshake, Ownership, Busy, Contents,
       ReplyCarriesNextBlock, CopiedMeansWritten
  <2> QED
    BY <2>1, <2>2, <2>3, <2>4, <2>5 DEF IInv
<1>6. CASE FlushAndSeek
  <2>0. FlagsOK'
    BY <1>a, <1>6, Zenon DEF FlushAndSeek, TypeOK, FlagsOK
  <2>1. TypeOK'
    BY <1>a, <2>0, <1>6 DEF FlushAndSeek, TypeOK, Blocks, Content, InStep, Pumped, Ownership
  <2>2. InStep'
    BY <1>a, <1>6 DEF FlushAndSeek, TypeOK, Blocks, Content, InStep, Pumped, Handshake, Ownership
  <2>3. Handshake'
    BY <1>a, <1>6 DEF FlushAndSeek, TypeOK, Blocks, Content, InStep, Handshake, Ownership, Busy
  <2>4. Ownership'
    BY <1>a, <1>6 DEF FlushAndSeek, TypeOK, Blocks, Content, InStep, Handshake, Ownership, Busy
  <2>5. Contents'
    BY <1>a, <1>6 DEF FlushAndSeek, TypeOK, Blocks, Content, InStep, Pumped, Handshake, Ownership, Busy, Contents,
       ReplyCarriesNextBlock, CopiedMeansWritten
  <2> QED
    BY <2>1, <2>2, <2>3, <2>4, <2>5 DEF IInv
<1>7. CASE VerifyRead
  <2>0. FlagsOK'
    BY <1>a, <1>7, Zenon DEF VerifyRead, Issue, TypeOK, FlagsOK
  <2>1. TypeOK'
    BY <1>a, <2>0, <1>7 DEF VerifyRead, Issue, TypeOK, Blocks, Content, InStep, Pumped, Ownership
  <2>2. InStep'
    BY <1>a, <1>7 DEF VerifyRead, Issue, TypeOK, Blocks, Content, InStep, Pumped, Handshake, Ownership
  <2>3. Handshake'
    BY <1>a, <1>7 DEF VerifyRead, Issue, TypeOK, Blocks, Content, InStep, Handshake, Ownership, Busy
  <2>4. Ownership'
    BY <1>a, <1>7 DEF VerifyRead, Issue, TypeOK, Blocks, Content, InStep, Handshake, Ownership, Busy
  <2>5. Contents'
    BY <1>a, <1>7 DEF VerifyRead, Issue, TypeOK, Blocks, Content, InStep, Pumped, Handshake, Ownership, Busy, Contents,
       ReplyCarriesNextBlock, CopiedMeansWritten
  <2> QED
    BY <2>1, <2>2, <2>3, <2>4, <2>5 DEF IInv
<1>8. CASE VerifyDone
  <2>0. FlagsOK'
    BY <1>a, <1>8, Zenon DEF VerifyDone, TypeOK, FlagsOK
  <2>1. TypeOK'
    BY <1>a, <2>0, <1>8 DEF VerifyDone, TypeOK, Blocks, Content, InStep, Pumped, Ownership
  <2>2. InStep'
    BY <1>a, <1>8 DEF VerifyDone, TypeOK, Blocks, Content, InStep, Pumped, Handshake, Ownership
  <2>3. Handshake'
    BY <1>a, <1>8 DEF VerifyDone, TypeOK, Blocks, Content, InStep, Handshake, Ownership, Busy
  <2>4. Ownership'
    BY <1>a, <1>8 DEF VerifyDone, TypeOK, Blocks, Content, InStep, Handshake, Ownership, Busy
  <2>5. Contents'
    BY <1>a, <1>8 DEF VerifyDone, TypeOK, Blocks, Content, InStep, Pumped, Handshake, Ownership, Busy, Contents,
       ReplyCarriesNextBlock, CopiedMeansWritten
  <2> QED
    BY <2>1, <2>2, <2>3, <2>4, <2>5 DEF IInv
<1>9. CASE ReplyOk
  <2>0. FlagsOK'
    BY <1>a, <1>9, Zenon DEF ReplyOk, TypeOK, FlagsOK
  <2>1. TypeOK'
    BY <1>a, <2>0, <1>9 DEF ReplyOk, TypeOK, Blocks, Content, InStep, Pumped, Ownership
  <2>2. InStep'
    <3>1. /\ rpc = "ok" /\ rpc' = "idle" /\ ee \in {"rehash", "read", "verify"}
          /\ hashed' = hashed + 1 /\ ee' = IF ee = "read" THEN "write" ELSE ee
          /\ UNCHANGED <<start, copied, position, active, pump_mode>>
      BY <1>a, <1>9 DEF ReplyOk, InStep
    <3>2. CASE ee = "rehash"
      BY <1>a, <1>9, <3>1, <3>2 DEF ReplyOk, InStep, TypeOK
    <3>3. CASE ee = "read"
      <4>1. cmd = "PUMP_TO_EE" /\ source_position' = source_position + 1 /\ pump_ack'
        BY <1>a, <1>9, <3>1, <3>3 DEF ReplyOk, InStep
      <4> QED
        BY <1>a, <3>1, <3>3, <4>1 DEF InStep, Pumped, TypeOK
    <3>4. CASE ee = "verify"
      <4>1. UNCHANGED source_position
        BY <1>a, <1>9, <3>1, <3>4 DEF ReplyOk, InStep
      <4> QED
        BY <1>a, <3>1, <3>4, <4>1 DEF InStep, Pumped, TypeOK
    <3> QED
      BY <3>1, <3>2, <3>3, <3>4
  <2>3. Handshake'
    BY <1>a, <1>9 DEF ReplyOk, TypeOK, Blocks, Content, InStep, Handshake, Ownership, Busy
  <2>4. Ownership'
    BY <1>a, <1>9 DEF ReplyOk, TypeOK, Blocks, Content, InStep, Handshake, Ownership, Busy
  <2>5. Contents'
    BY <1>a, <1>9 DEF ReplyOk, TypeOK, Blocks, Content, InStep, Pumped, Handshake, Ownership, Busy, Contents,
       ReplyCarriesNextBlock, CopiedMeansWritten
  <2> QED
    BY <2>1, <2>2, <2>3, <2>4, <2>5 DEF IInv
<1>10. CASE ReplyError
  <2>0. FlagsOK'
    BY <1>a, <1>10, Zenon DEF ReplyError, TypeOK, FlagsOK
  <2>1. TypeOK'
    BY <1>a, <2>0, <1>10 DEF ReplyError, TypeOK, Blocks, Content, InStep, Pumped, Ownership
  <2>2. InStep'
    BY <1>a, <1>10 DEF ReplyError, TypeOK, Blocks, Content, InStep, Pumped, Handshake, Ownership
  <2>3. Handshake'
    BY <1>a, <1>10 DEF ReplyError, TypeOK, Blocks, Content, InStep, Handshake, Ownership, Busy
  <2>4. Ownership'
    BY <1>a, <1>10 DEF ReplyError, TypeOK, Blocks, Content, InStep, Handshake, Ownership, Busy
  <2>5. Contents'
    BY <1>a, <1>10 DEF ReplyError, TypeOK, Blocks, Content, InStep, Pumped, Handshake, Ownership, Busy, Contents,
       ReplyCarriesNextBlock, CopiedMeansWritten
  <2> QED
    BY <2>1, <2>2, <2>3, <2>4, <2>5 DEF IInv
<1>11. CASE SeekFailed
  <2>0. FlagsOK'
    BY <1>a, <1>11, Zenon DEF SeekFailed, TypeOK, FlagsOK
  <2>1. TypeOK'
    BY <1>a, <2>0, <1>11 DEF SeekFailed, TypeOK, Blocks, Content, InStep, Pumped, Ownership
  <2>2. InStep'
    BY <1>a, <1>11 DEF SeekFailed, TypeOK, Blocks, Content, InStep, Pumped, Handshake, Ownership
  <2>3. Handshake'
    BY <1>a, <1>11 DEF SeekFailed, TypeOK, Blocks, Content, InStep, Handshake, Ownership, Busy
  <2>4. Ownership'
    BY <1>a, <1>11 DEF SeekFailed, TypeOK, Blocks, Content, InStep, Handshake, Ownership, Busy
  <2>5. Contents'
    BY <1>a, <1>11 DEF SeekFailed, TypeOK, Blocks, Content, InStep, Pumped, Handshake, Ownership, Busy, Contents,
       ReplyCarriesNextBlock, CopiedMeansWritten
  <2> QED
    BY <2>1, <2>2, <2>3, <2>4, <2>5 DEF IInv
<1> QED
  BY <1>1, <1>2, <1>3, <1>4, <1>5, <1>6, <1>7, <1>8, <1>9, <1>10, <1>11 DEF EE

(* The serving thread of hdl0: (hdl_stream.c) preserves the invariant. *)
LEMMA ServeInv == IInv /\ Serve => IInv'
<1> SUFFICES ASSUME IInv, Serve PROVE IInv'
    OBVIOUS
<1> USE StreamAssumption DEF vars, eeVars, rpcVars, semas, pfVars
<1>a. TypeOK /\ InStep /\ Handshake /\ Ownership /\ Contents
  BY DEF IInv
<1>1. CASE Take
  <2>0. FlagsOK'
    BY <1>a, <1>1, Zenon DEF Take, TypeOK, FlagsOK
  <2>1. TypeOK'
    BY <1>a, <2>0, <1>1 DEF Take, TypeOK, Blocks, Content, InStep, Pumped, Ownership
  <2>2. InStep'
    BY <1>a, <1>1 DEF Take, TypeOK, Blocks, Content, InStep, Pumped, Handshake, Ownership
  <2>3. Handshake'
    BY <1>a, <1>1 DEF Take, TypeOK, Blocks, Content, InStep, Handshake, Ownership, Busy
  <2>4. Ownership'
    BY <1>a, <1>1 DEF Take, TypeOK, Blocks, Content, InStep, Handshake, Ownership, Busy
  <2>5. Contents'
    BY <1>a, <1>1 DEF Take, TypeOK, Blocks, Content, InStep, Pumped, Handshake, Ownership, Busy, Contents,
       ReplyCarriesNextBlock, CopiedMeansWritten
  <2> QED
    BY <2>1, <2>2, <2>3, <2>4, <2>5 DEF IInv
<1>2. CASE SourceRead
  <2>0. FlagsOK'
    BY <1>a, <1>2, Zenon DEF SourceRead, TypeOK, FlagsOK
  <2>1. TypeOK'
    BY <1>a, <2>0, <1>2 DEF SourceRead, TypeOK, Blocks, Content, InStep, Pumped, Ownership
  <2>2. InStep'
    BY <1>a, <1>2 DEF SourceRead, TypeOK, Blocks, Content, InStep, Pumped, Handshake, Ownership
  <2>3. Handshake'
    BY <1>a, <1>2 DEF SourceRead, TypeOK, Blocks, Content, InStep, Handshake, Ownership, Busy
  <2>4. Ownership'
    BY <1>a, <1>2 DEF SourceRead, TypeOK, Blocks, Content, InStep, Handshake, Ownership, Busy
  <2>5. Contents'
    BY <1>a, <1>2 DEF SourceRead, TypeOK, Blocks, Content, InStep, Pumped, Handshake, Ownership, Busy, Contents,
       ReplyCarriesNextBlock, CopiedMeansWritten
  <2> QED
    BY <2>1, <2>2, <2>3, <2>4, <2>5 DEF IInv
<1>3. CASE Schedule
  <2>0. FlagsOK'
    BY <1>a, <1>3, Zenon DEF Schedule, ScheduleInto, TypeOK, FlagsOK
  <2>1. TypeOK'
    BY <1>a, <2>0, <1>3 DEF Schedule, ScheduleInto, TypeOK, Blocks, Content, InStep, Pumped, Ownership
  <2>2. InStep'
    BY <1>a, <1>3 DEF Schedule, ScheduleInto, TypeOK, Blocks, Content, InStep, Pumped, Handshake, Ownership
  <2>3. Handshake'
    BY <1>a, <1>3 DEF Schedule, ScheduleInto, TypeOK, Blocks, Content, InStep, Handshake, Ownership, Busy
  <2>4. Ownership'
    BY <1>a, <1>3 DEF Schedule, ScheduleInto, TypeOK, Blocks, Content, InStep, Handshake, Ownership, Busy
  <2>5. Contents'
    BY <1>a, <1>3 DEF Schedule, ScheduleInto, TypeOK, Blocks, Content, InStep, Pumped, Handshake, Ownership, Busy, Contents,
       ReplyCarriesNextBlock, CopiedMeansWritten
  <2> QED
    BY <2>1, <2>2, <2>3, <2>4, <2>5 DEF IInv
<1>4. CASE Transfer
  <2>0. FlagsOK'
    BY <1>a, <1>4, Zenon DEF Transfer, TypeOK, FlagsOK
  <2>1. TypeOK'
    <3>1. position \in Blocks
      BY <1>a, <1>4 DEF Transfer, TypeOK, Blocks, InStep, Pumped
    <3>2. hdd' \in [Blocks -> Content]
      BY <1>a, <1>4, <3>1 DEF Transfer, TypeOK, Content
    <3>3. position' \in 0..Total
      BY <1>a, <1>4, <3>1 DEF Transfer, TypeOK, Blocks
    <3> QED
      BY <1>a, <2>0, <1>4, <3>2, <3>3 DEF Transfer, TypeOK
  <2>2. InStep'
    BY <1>a, <1>4 DEF Transfer, TypeOK, Blocks, Content, InStep, Pumped, Handshake, Ownership
  <2>3. Handshake'
    BY <1>a, <1>4 DEF Transfer, TypeOK, Blocks, Content, InStep, Handshake, Ownership, Busy
  <2>4. Ownership'
    BY <1>a, <1>4 DEF Transfer, TypeOK, Blocks, Content, InStep, Handshake, Ownership, Busy
  <2>5. Contents'
    BY <1>a, <1>4 DEF Transfer, TypeOK, Blocks, Content, InStep, Pumped, Handshake, Ownership, Busy, Contents,
       ReplyCarriesNextBlock, CopiedMeansWritten
  <2> QED
    BY <2>1, <2>2, <2>3, <2>4, <2>5 DEF IInv
<1>5. CASE TargetRead
  <2>0. FlagsOK'
    BY <1>a, <1>5, Zenon DEF TargetRead, TypeOK, FlagsOK
  <2>1. TypeOK'
    BY <1>a, <2>0, <1>5 DEF TargetRead, TypeOK, Blocks, Content, InStep, Pumped, Ownership
  <2>2. InStep'
    BY <1>a, <1>5 DEF TargetRead, TypeOK, Blocks, Content, InStep, Pumped, Handshake, Ownership
  <2>3. Handshake'
    BY <1>a, <1>5 DEF TargetRead, TypeOK, Blocks, Content, InStep, Handshake, Ownership, Busy
  <2>4. Ownership'
    BY <1>a, <1>5 DEF TargetRead, TypeOK, Blocks, Content, InStep, Handshake, Ownership, Busy
  <2>5. Contents'
    BY <1>a, <1>5 DEF TargetRead, TypeOK, Blocks, Content, InStep, Pumped, Handshake, Ownership, Busy, Contents,
       ReplyCarriesNextBlock, CopiedMeansWritten
  <2> QED
    BY <2>1, <2>2, <2>3, <2>4, <2>5 DEF IInv
<1>6. CASE Dma
  <2>0. FlagsOK'
    BY <1>a, <1>6, Zenon DEF Dma, TypeOK, FlagsOK
  <2>1. TypeOK'
    BY <1>a, <2>0, <1>6 DEF Dma, TypeOK, Blocks, Content, InStep, Pumped, Ownership
  <2>2. InStep'
    BY <1>a, <1>6 DEF Dma, TypeOK, Blocks, Content, InStep, Pumped, Handshake, Ownership
  <2>3. Handshake'
    BY <1>a, <1>6 DEF Dma, TypeOK, Blocks, Content, InStep, Handshake, Ownership, Busy
  <2>4. Ownership'
    BY <1>a, <1>6 DEF Dma, TypeOK, Blocks, Content, InStep, Handshake, Ownership, Busy
  <2>5. Contents'
    BY <1>a, <1>6 DEF Dma, TypeOK, Blocks, Content, InStep, Pumped, Handshake, Ownership, Busy, Contents,
       ReplyCarriesNextBlock, CopiedMeansWritten
  <2> QED
    BY <2>1, <2>2, <2>3, <2>4, <2>5 DEF IInv
<1>7. CASE CloseWait
  <2>0. FlagsOK'
    BY <1>a, <1>7, Zenon DEF CloseWait, TypeOK, FlagsOK
  <2>1. TypeOK'
    BY <1>a, <2>0, <1>7 DEF CloseWait, TypeOK, Blocks, Content, InStep, Pumped, Ownership
  <2>2. InStep'
    BY <1>a, <1>7 DEF CloseWait, TypeOK, Blocks, Content, InStep, Pumped, Handshake, Ownership
  <2>3. Handshake'
    BY <1>a, <1>7 DEF CloseWait, TypeOK, Blocks, Content, InStep, Handshake, Ownership, Busy
  <2>4. Ownership'
    BY <1>a, <1>7 DEF CloseWait, TypeOK, Blocks, Content, InStep, Handshake, Ownership, Busy
  <2>5. Contents'
    BY <1>a, <1>7 DEF CloseWait, TypeOK, Blocks, Content, InStep, Pumped, Handshake, Ownership, Busy, Contents,
       ReplyCarriesNextBlock, CopiedMeansWritten
  <2> QED
    BY <2>1, <2>2, <2>3, <2>4, <2>5 DEF IInv
<1>8. CASE CloseStop
  <2>0. FlagsOK'
    BY <1>a, <1>8, Zenon DEF CloseStop, TypeOK, FlagsOK
  <2>1. TypeOK'
    BY <1>a, <2>0, <1>8 DEF CloseStop, TypeOK, Blocks, Content, InStep, Pumped, Ownership
  <2>2. InStep'
    BY <1>a, <1>8 DEF CloseStop, TypeOK, Blocks, Content, InStep, Pumped, Handshake, Ownership
  <2>3. Handshake'
    BY <1>a, <1>8 DEF CloseStop, TypeOK, Blocks, Content, InStep, Handshake, Ownership, Busy
  <2>4. Ownership'
    BY <1>a, <1>8 DEF CloseStop, TypeOK, Blocks, Content, InStep, Handshake, Ownership, Busy
  <2>5. Contents'
    BY <1>a, <1>8 DEF CloseStop, TypeOK, Blocks, Content, InStep, Pumped, Handshake, Ownership, Busy, Contents,
       ReplyCarriesNextBlock, CopiedMeansWritten
  <2> QED
    BY <2>1, <2>2, <2>3, <2>4, <2>5 DEF IInv
<1>9. CASE CloseJoin
  <2>0. FlagsOK'
    BY <1>a, <1>9, Zenon DEF CloseJoin, TypeOK, FlagsOK
  <2>1. TypeOK'
    BY <1>a, <2>0, <1>9 DEF CloseJoin, TypeOK, Blocks, Content, InStep, Pumped, Ownership
  <2>2. InStep'
    BY <1>a, <1>9 DEF CloseJoin, TypeOK, Blocks, Content, InStep, Pumped, Handshake, Ownership
  <2>3. Handshake'
    BY <1>a, <1>9 DEF CloseJoin, TypeOK, Blocks, Content, InStep, Handshake, Ownership, Busy
  <2>4. Ownership'
    BY <1>a, <1>9 DEF CloseJoin, TypeOK, Blocks, Content, InStep, Handshake, Ownership, Busy
  <2>5. Contents'
    BY <1>a, <1>9 DEF CloseJoin, TypeOK, Blocks, Content, InStep, Pumped, Handshake, Ownership, Busy, Contents,
       ReplyCarriesNextBlock, CopiedMeansWritten
  <2> QED
    BY <2>1, <2>2, <2>3, <2>4, <2>5 DEF IInv
<1>10. CASE CloseFree
  <2>0. FlagsOK'
    BY <1>a, <1>10, Zenon DEF CloseFree, hdl_fast_io_reset, TypeOK, FlagsOK
  <2>1. TypeOK'
    BY <1>a, <2>0, <1>10 DEF CloseFree, hdl_fast_io_reset, TypeOK, Blocks, Content, InStep, Pumped, Ownership
  <2>2. InStep'
    BY <1>a, <1>10 DEF CloseFree, hdl_fast_io_reset, TypeOK, Blocks, Content, InStep, Pumped, Handshake, Ownership
  <2>3. Handshake'
    BY <1>a, <1>10 DEF CloseFree, hdl_fast_io_reset, TypeOK, Blocks, Content, InStep, Handshake, Ownership, Busy
  <2>4. Ownership'
    BY <1>a, <1>10 DEF CloseFree, hdl_fast_io_reset, TypeOK, Blocks, Content, InStep, Handshake, Ownership, Busy
  <2>5. Contents'
    BY <1>a, <1>10 DEF CloseFree, hdl_fast_io_reset, TypeOK, Blocks, Content, InStep, Pumped, Handshake, Ownership, Busy, Contents,
       ReplyCarriesNextBlock, CopiedMeansWritten
  <2> QED
    BY <2>1, <2>2, <2>3, <2>4, <2>5 DEF IInv
<1> QED
  BY <1>1, <1>2, <1>3, <1>4, <1>5, <1>6, <1>7, <1>8, <1>9, <1>10 DEF Serve

(* The prefetch worker preserves the invariant. *)
LEMMA WorkerInv == IInv /\ Worker => IInv'
<1> SUFFICES ASSUME IInv, Worker PROVE IInv'
    OBVIOUS
<1> USE StreamAssumption DEF vars, eeVars, rpcVars, semas, pfVars
<1>a. TypeOK /\ InStep /\ Handshake /\ Ownership /\ Contents
  BY DEF IInv
<1>1. CASE Wake
  <2>0. FlagsOK'
    BY <1>a, <1>1, Zenon DEF Wake, TypeOK, FlagsOK
  <2>1. TypeOK'
    BY <1>a, <2>0, <1>1 DEF Wake, TypeOK, Blocks, Content, InStep, Pumped, Ownership
  <2>2. InStep'
    BY <1>a, <1>1 DEF Wake, TypeOK, Blocks, Content, InStep, Pumped, Handshake, Ownership
  <2>3. Handshake'
    BY <1>a, <1>1 DEF Wake, TypeOK, Blocks, Content, InStep, Handshake, Ownership, Busy
  <2>4. Ownership'
    BY <1>a, <1>1 DEF Wake, TypeOK, Blocks, Content, InStep, Handshake, Ownership, Busy
  <2>5. Contents'
    BY <1>a, <1>1 DEF Wake, TypeOK, Blocks, Content, InStep, Pumped, Handshake, Ownership, Busy, Contents,
       ReplyCarriesNextBlock, CopiedMeansWritten
  <2> QED
    BY <2>1, <2>2, <2>3, <2>4, <2>5 DEF IInv
<1>2. CASE ReadDirect
  <2>0. FlagsOK'
    BY <1>a, <1>2, Zenon DEF ReadDirect, TypeOK, FlagsOK
  <2>1. TypeOK'
    <3>1. stage' \in [{0, 1} -> Content]
      BY <1>a, <1>2 DEF ReadDirect, TypeOK, Content
    <3>2. prefetch' \in [offset: Blocks, index: {0, 1}, result: {"EIO", "bytes"}]
      BY <1>a, <1>2 DEF ReadDirect, TypeOK
    <3> QED
      BY <1>a, <2>0, <1>2, <3>1, <3>2 DEF ReadDirect, TypeOK
  <2>2. InStep'
    BY <1>a, <1>2 DEF ReadDirect, TypeOK, Blocks, Content, InStep, Pumped, Handshake, Ownership
  <2>3. Handshake'
    BY <1>a, <1>2 DEF ReadDirect, TypeOK, Blocks, Content, InStep, Handshake, Ownership, Busy
  <2>4. Ownership'
    BY <1>a, <1>2 DEF ReadDirect, TypeOK, Blocks, Content, InStep, Handshake, Ownership, Busy
  <2>5. Contents'
    BY <1>a, <1>2 DEF ReadDirect, TypeOK, Blocks, Content, InStep, Pumped, Handshake, Ownership, Busy, Contents,
       ReplyCarriesNextBlock, CopiedMeansWritten
  <2> QED
    BY <2>1, <2>2, <2>3, <2>4, <2>5 DEF IInv
<1>3. CASE FallbackSeek
  <2>0. FlagsOK'
    BY <1>a, <1>3, Zenon DEF FallbackSeek, TypeOK, FlagsOK
  <2>1. TypeOK'
    BY <1>a, <2>0, <1>3 DEF FallbackSeek, TypeOK, Blocks, Content, InStep, Pumped, Ownership
  <2>2. InStep'
    BY <1>a, <1>3 DEF FallbackSeek, TypeOK, Blocks, Content, InStep, Pumped, Handshake, Ownership
  <2>3. Handshake'
    BY <1>a, <1>3 DEF FallbackSeek, TypeOK, Blocks, Content, InStep, Handshake, Ownership, Busy
  <2>4. Ownership'
    BY <1>a, <1>3 DEF FallbackSeek, TypeOK, Blocks, Content, InStep, Handshake, Ownership, Busy
  <2>5. Contents'
    BY <1>a, <1>3 DEF FallbackSeek, TypeOK, Blocks, Content, InStep, Pumped, Handshake, Ownership, Busy, Contents,
       ReplyCarriesNextBlock, CopiedMeansWritten
  <2> QED
    BY <2>1, <2>2, <2>3, <2>4, <2>5 DEF IInv
<1>4. CASE FallbackRead
  <2>0. FlagsOK'
    BY <1>a, <1>4, Zenon DEF FallbackRead, TypeOK, FlagsOK
  <2>1. TypeOK'
    BY <1>a, <2>0, <1>4 DEF FallbackRead, TypeOK, Blocks, Content, InStep, Pumped, Ownership
  <2>2. InStep'
    BY <1>a, <1>4 DEF FallbackRead, TypeOK, Blocks, Content, InStep, Pumped, Handshake, Ownership
  <2>3. Handshake'
    BY <1>a, <1>4 DEF FallbackRead, TypeOK, Blocks, Content, InStep, Handshake, Ownership, Busy
  <2>4. Ownership'
    BY <1>a, <1>4 DEF FallbackRead, TypeOK, Blocks, Content, InStep, Handshake, Ownership, Busy
  <2>5. Contents'
    BY <1>a, <1>4 DEF FallbackRead, TypeOK, Blocks, Content, InStep, Pumped, Handshake, Ownership, Busy, Contents,
       ReplyCarriesNextBlock, CopiedMeansWritten
  <2> QED
    BY <2>1, <2>2, <2>3, <2>4, <2>5 DEF IInv
<1>5. CASE SignalDone
  <2>0. FlagsOK'
    BY <1>a, <1>5, Zenon DEF SignalDone, TypeOK, FlagsOK
  <2>1. TypeOK'
    BY <1>a, <2>0, <1>5 DEF SignalDone, TypeOK, Blocks, Content, InStep, Pumped, Ownership
  <2>2. InStep'
    BY <1>a, <1>5 DEF SignalDone, TypeOK, Blocks, Content, InStep, Pumped, Handshake, Ownership
  <2>3. Handshake'
    BY <1>a, <1>5 DEF SignalDone, TypeOK, Blocks, Content, InStep, Handshake, Ownership, Busy
  <2>4. Ownership'
    BY <1>a, <1>5 DEF SignalDone, TypeOK, Blocks, Content, InStep, Handshake, Ownership, Busy
  <2>5. Contents'
    BY <1>a, <1>5 DEF SignalDone, TypeOK, Blocks, Content, InStep, Pumped, Handshake, Ownership, Busy, Contents,
       ReplyCarriesNextBlock, CopiedMeansWritten
  <2> QED
    BY <2>1, <2>2, <2>3, <2>4, <2>5 DEF IInv
<1>6. CASE SignalStopped
  <2>0. FlagsOK'
    BY <1>a, <1>6, Zenon DEF SignalStopped, TypeOK, FlagsOK
  <2>1. TypeOK'
    BY <1>a, <2>0, <1>6 DEF SignalStopped, TypeOK, Blocks, Content, InStep, Pumped, Ownership
  <2>2. InStep'
    BY <1>a, <1>6 DEF SignalStopped, TypeOK, Blocks, Content, InStep, Pumped, Handshake, Ownership
  <2>3. Handshake'
    BY <1>a, <1>6 DEF SignalStopped, TypeOK, Blocks, Content, InStep, Handshake, Ownership, Busy
  <2>4. Ownership'
    BY <1>a, <1>6 DEF SignalStopped, TypeOK, Blocks, Content, InStep, Handshake, Ownership, Busy
  <2>5. Contents'
    BY <1>a, <1>6 DEF SignalStopped, TypeOK, Blocks, Content, InStep, Pumped, Handshake, Ownership, Busy, Contents,
       ReplyCarriesNextBlock, CopiedMeansWritten
  <2> QED
    BY <2>1, <2>2, <2>3, <2>4, <2>5 DEF IInv
<1> QED
  BY <1>1, <1>2, <1>3, <1>4, <1>5, <1>6 DEF Worker

(* The properties the runs check follow from the invariant. *)
LEMMA InvImplies == IInv => NoStageRace /\ OneRequestInFlight /\ WorkerEndsBeforeFree
<1> SUFFICES ASSUME IInv PROVE NoStageRace /\ OneRequestInFlight /\ WorkerEndsBeforeFree
    OBVIOUS
<1> USE DEF IInv, TypeOK, Handshake, Busy
<1>1. NoStageRace
  BY DEF NoStageRace, Ownership
<1>2. OneRequestInFlight
  BY DEF OneRequestInFlight, InFlight
<1>3. WorkerEndsBeforeFree
  BY DEF WorkerEndsBeforeFree
<1> QED
  BY <1>1, <1>2, <1>3

(* No step of any thread breaks the invariant. *)
LEMMA NextInv == IInv /\ [Next]_vars => IInv'
<1> SUFFICES ASSUME IInv, [Next]_vars PROVE IInv'
    OBVIOUS
<1>1. CASE EE
  BY <1>1, EEInv
<1>2. CASE Serve
  BY <1>2, ServeInv
<1>3. CASE Worker
  BY <1>3, WorkerInv
<1>4. CASE UNCHANGED vars
  BY <1>4 DEF vars, eeVars, rpcVars, semas, pfVars, IInv, TypeOK, FlagsOK, InStep, Pumped,
     Handshake, Busy, Ownership, Contents, ReplyCarriesNextBlock, CopiedMeansWritten
<1> QED
  BY <1>1, <1>2, <1>3, <1>4 DEF Next

(* The inductive invariant holds throughout every copy, however many blocks *)
(* the image has and wherever the copy resumes.                             *)
THEOREM Invariance == Spec => []IInv
<1> QED
  BY InitInv, NextInv, PTL DEF Spec

(* Type correctness: no offset of the source or of the target ever leaves   *)
(* the image, in either thread.                                             *)
THEOREM TypeCorrect == Spec => []TypeOK
<1>1. IInv => TypeOK
  BY DEF IInv
<1> QED
  BY <1>1, Invariance, PTL

(* The two IOP threads never use one staging buffer at a time, although     *)
(* nothing but the order of the calls separates them.                       *)
THEOREM StagesNeverShared == Spec => []NoStageRace
<1> QED
  BY InvImplies, Invariance, PTL

(* The semaphores of prefetch_schedule, prefetch_wait and the worker carry  *)
(* exactly one request while prefetch_active, and none otherwise.           *)
THEOREM RequestsBalanced == Spec => []OneRequestInFlight
<1> QED
  BY InvImplies, Invariance, PTL

(* stream_close frees the stream only after the worker has ended.           *)
THEOREM NoUseAfterFree == Spec => []WorkerEndsBeforeFree
<1> QED
  BY InvImplies, Invariance, PTL

(* Every block counted as copied is on the target, in its place.            *)
THEOREM CopyCorrect == Spec => []CopiedMeansWritten
<1>1. IInv => CopiedMeansWritten
  BY DEF IInv, Contents
<1> QED
  BY <1>1, Invariance, PTL

(* Every block handed to the digest is the next one of its pass, also when  *)
(* it was read ahead through the descriptor the EE seeks meanwhile.         *)
THEOREM DigestInput == Spec => []ReplyCarriesNextBlock
<1>1. IInv => ReplyCarriesNextBlock
  BY DEF IInv, Contents
<1> QED
  BY <1>1, Invariance, PTL

(* A step never changes a block of the target that was already copied or    *)
(* passed: an acknowledging write does not write again.                     *)
THEOREM WrittenOnce == Spec => NeverRewritten
<1>1. IInv /\ [Next]_vars =>
        [\A b \in Blocks : hdd'[b] # hdd[b] => position <= b /\ copied <= b]_vars
  <2> SUFFICES ASSUME IInv, Next, NEW b \in Blocks, hdd'[b] # hdd[b]
               PROVE  position <= b /\ copied <= b
      OBVIOUS
  <2> USE DEF IInv, eeVars, rpcVars
  <2>1. Transfer \/ CopyWrite
    BY DEF Next, EE, Serve, Worker, Open, RehashRead, Seek, SeekFailed, CopyRead, FlushAndSeek,
       VerifyRead, VerifyDone, ReplyOk, ReplyError, Issue, Take, SourceRead, Schedule, ScheduleInto,
       TargetRead, Dma, CloseWait, CloseStop, CloseJoin, CloseFree, Wake, ReadDirect,
       FallbackSeek, FallbackRead, SignalDone, SignalStopped
  <2>2. CASE CopyWrite
    BY <2>2 DEF CopyWrite, InStep
  <2>3. CASE Transfer
    <3>1. ee = "read" /\ position = copied
      BY <2>3 DEF Transfer, InStep, Pumped, TypeOK
    <3>2. b = position
      BY <2>3, <3>1 DEF Transfer, TypeOK
    <3> QED
      BY <3>1, <3>2 DEF TypeOK
  <2> QED
    BY <2>1, <2>2, <2>3
<1> QED
  BY <1>1, Invariance, PTL DEF Spec, NeverRewritten
=============================================================================
