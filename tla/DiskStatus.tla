----------------------------- MODULE DiskStatus -----------------------------
(***************************************************************************)
(* What the operator sees while the drive is busy: the stack of status     *)
(* scopes and the coalescing of their frames (disk_status_ps2.c), and the  *)
(* ANALOG lamp that lights while any scope or bracket is open              *)
(* (platform.c).  Callers open and close scopes in nested order.           *)
(***************************************************************************)
EXTENDS Integers, Sequences

CONSTANTS
    StackDepth,     \* STATUS_STACK_DEPTH
    MaxOpen,        \* most scopes and brackets callers have open at once
    ReadDivisor, WriteDivisor, VerifyDivisor   \* STATUS_*_RENDER_DIVISOR

ASSUME StatusConstants ==
    /\ {StackDepth, MaxOpen, ReadDivisor, WriteDivisor, VerifyDivisor} \subseteq Nat \ {0}
    /\ WriteDivisor <= VerifyDivisor

VARIABLES
    open,              \* history: what callers opened; a status scope by its intent
    status_depth, status_overflow_depth,
    write_intent,      \* write_intent_stack
    clobbered,         \* history: the last slot was reused by a deeper scope
    reads, streams,    \* events since a frame, by counter
    silent,            \* history: all events since a frame
    shown,             \* the last frame: warning, and whether it showed the end
    ended,             \* history: the last event ended a bulk transfer
    activity_depth, activity_supported, mode_control_engaged,
    pad, initial_mode, \* the controller: mode, locked; mode found at startup
    refused,           \* history: the first or the last mode command failed
    requested,         \* history: the write intent last asked for in this scope
    phase              \* "start", "run", "leave"

status == <<status_depth, status_overflow_depth, write_intent, clobbered>>
frames == <<reads, streams, silent, shown, ended>>
inputs == <<initial_mode, phase>>
lamp == <<activity_depth, activity_supported, mode_control_engaged, pad, refused>>
vars == <<open, status, frames, lamp, requested, inputs>>

Init ==
    /\ open = <<>> /\ status_depth = 0 /\ status_overflow_depth = 0
    /\ write_intent = [i \in 1..StackDepth |-> FALSE] /\ clobbered = FALSE
    /\ reads = 0 /\ streams = 0 /\ silent = 0
    /\ shown = [warning |-> FALSE, final |-> FALSE] /\ ended = FALSE
    /\ activity_depth = 0 /\ activity_supported = FALSE /\ mode_control_engaged = FALSE
    /\ initial_mode \in {"digital", "analog"} /\ refused = FALSE
    /\ requested = FALSE
    /\ pad = [mode |-> initial_mode, locked |-> FALSE]
    /\ phase = "start"

-----------------------------------------------------------------------------
(* The controller.                                                         *)

\* The command is carried out, refused, or carried out while the pad stays busy
\* beyond the wait: the last two look the same.
set_pad_main_mode(mode, lock) ==
    {[pad |-> [mode |-> mode, locked |-> lock], ok |-> TRUE],
     [pad |-> pad, ok |-> FALSE],
     [pad |-> [mode |-> mode, locked |-> lock], ok |-> FALSE]}

\* The idle mode is requested once; a pad that accepts it is under control.
init_pad ==
    /\ phase = "start" /\ phase' = "run"
    /\ \E r \in set_pad_main_mode("digital", TRUE) :
          /\ pad' = r.pad /\ refused' = ~r.ok
          /\ activity_supported' = r.ok /\ mode_control_engaged' = r.ok
    /\ UNCHANGED <<open, status, frames, activity_depth, requested, initial_mode>>

pad_activity_begin ==
    /\ activity_depth' = activity_depth + 1
    /\ IF activity_supported /\ activity_depth = 0
       THEN \E r \in set_pad_main_mode("analog", TRUE) :
               pad' = r.pad /\ activity_supported' = r.ok
       ELSE UNCHANGED <<pad, activity_supported>>
    /\ UNCHANGED <<mode_control_engaged, refused>>

pad_activity_end ==
    /\ activity_depth' = IF activity_depth = 0 THEN 0 ELSE activity_depth - 1
    /\ IF activity_supported /\ activity_depth = 1
       THEN \E r \in set_pad_main_mode("digital", TRUE) :
               pad' = r.pad /\ activity_supported' = r.ok
       ELSE UNCHANGED <<pad, activity_supported>>
    /\ UNCHANGED <<mode_control_engaged, refused>>

\* A pad that once refused is left as it is.
Bug_pad_activity_restore ==
    /\ phase = "run" /\ phase' = "leave"
    /\ activity_depth' = 0
    /\ IF activity_supported
       THEN /\ pad' = [mode |-> initial_mode, locked |-> FALSE]
            /\ mode_control_engaged' = FALSE
       ELSE UNCHANGED <<pad, mode_control_engaged>>
    /\ UNCHANGED <<open, status, frames, activity_supported, refused, requested,
                   initial_mode>>

\* Before the restart or the shutdown, whatever scopes are open.
pad_activity_restore ==
    /\ phase = "run" /\ phase' = "leave"
    /\ activity_depth' = 0
    /\ IF mode_control_engaged
       THEN /\ \E r \in set_pad_main_mode(initial_mode, FALSE) :
                  pad' = r.pad /\ refused' = ~r.ok
            /\ mode_control_engaged' = FALSE
       ELSE UNCHANGED <<pad, refused, mode_control_engaged>>
    /\ UNCHANGED <<open, status, frames, activity_supported, requested, initial_mode>>

-----------------------------------------------------------------------------
(* The status screen.                                                      *)

Top == IF status_depth = 0 THEN FALSE ELSE write_intent[status_depth]

\* A frame: the warning shows for an armed scope and for what writes.
render(intent, writes, final) ==
    /\ shown' = [warning |-> intent \/ writes, final |-> final]
    /\ reads' = 0 /\ streams' = 0 /\ silent' = 0

\* A scope beyond the stack takes over the last slot.
disk_status_begin_at ==
    /\ phase = "run" /\ Len(open) < MaxOpen
    /\ open' = Append(open, "plain")
    /\ IF status_depth < StackDepth
       THEN /\ pad_activity_begin
            /\ status_depth' = status_depth + 1
            /\ UNCHANGED <<status_overflow_depth, clobbered>>
       ELSE /\ status_overflow_depth' = status_overflow_depth + 1
            /\ clobbered' = TRUE
            /\ UNCHANGED <<status_depth, lamp>>
    /\ write_intent' = [write_intent EXCEPT ![status_depth'] = FALSE]
    /\ render(FALSE, FALSE, FALSE) /\ ended' = FALSE
    /\ requested' = FALSE /\ UNCHANGED inputs

\* Where the scope lies that callers opened last.
Innermost == {i \in DOMAIN open : open[i] # "pad" /\
                 \A j \in DOMAIN open : open[j] # "pad" => j <= i}

Asked(armed) == [i \in DOMAIN open |->
                    IF i \in Innermost THEN IF armed THEN "armed" ELSE "plain" ELSE open[i]]

\* Without a scope the request is dropped.
disk_status_set_write_intent(armed) ==
    /\ phase = "run" /\ requested' = armed
    /\ IF status_depth = 0
       THEN UNCHANGED <<open, write_intent, frames>>
       ELSE /\ open' = Asked(armed)
            /\ write_intent' = [write_intent EXCEPT ![status_depth] = armed]
            /\ render(armed, FALSE, FALSE) /\ ended' = FALSE
    /\ UNCHANGED <<status_depth, status_overflow_depth, clobbered, lamp, inputs>>

\* disk_status_phase, disk_status_location and disk_status_phase_at.
disk_status_phase_at ==
    /\ phase = "run" /\ status_depth # 0
    /\ render(Top, FALSE, FALSE) /\ ended' = FALSE
    /\ UNCHANGED <<open, status, lamp, requested, inputs>>

\* A read in a coalesced run starts the count of the bulk events again.
Bug_disk_status_read ==
    /\ phase = "run" /\ ended' = FALSE
    /\ IF reads + 1 < ReadDivisor
       THEN /\ reads' = reads + 1 /\ streams' = 0 /\ silent' = silent + 1
            /\ UNCHANGED shown
       ELSE render(Top, FALSE, FALSE)
    /\ UNCHANGED <<open, status, lamp, requested, inputs>>

\* disk_status_io, DISK_STATUS_READ; outside a scope only with progress.
disk_status_read ==
    /\ phase = "run" /\ ended' = FALSE
    /\ IF reads + 1 < ReadDivisor
       THEN /\ reads' = reads + 1 /\ silent' = silent + 1
            /\ UNCHANGED <<streams, shown>>
       ELSE render(Top, FALSE, FALSE)
    /\ UNCHANGED <<open, status, lamp, requested, inputs>>

\* disk_status_io, a block of a bulk copy or verification with progress.
disk_status_stream(writes, final) ==
    /\ phase = "run" /\ ended' = final
    /\ IF ~final /\ streams + 1 < IF writes THEN WriteDivisor ELSE VerifyDivisor
       THEN streams' = streams + 1 /\ silent' = silent + 1 /\ UNCHANGED <<reads, shown>>
       ELSE render(Top, writes, final)
    /\ UNCHANGED <<open, status, lamp, requested, inputs>>

\* disk_status_io, everything else: small writes, flushes, pointer updates.
disk_status_event(writes) ==
    /\ phase = "run" /\ ended' = FALSE
    /\ render(Top, writes, FALSE)
    /\ UNCHANGED <<open, status, lamp, requested, inputs>>

\* No frame: the screen keeps what it shows until the next one.
disk_status_end ==
    /\ phase = "run" /\ open # <<>> /\ open[Len(open)] # "pad"
    /\ open' = SubSeq(open, 1, Len(open) - 1)
    /\ reads' = 0 /\ streams' = 0 /\ silent' = 0 /\ ended' = FALSE
    /\ IF status_overflow_depth # 0
       THEN /\ status_overflow_depth' = status_overflow_depth - 1
            /\ UNCHANGED <<status_depth, write_intent, clobbered, lamp>>
       ELSE /\ write_intent' = [write_intent EXCEPT ![status_depth] = FALSE]
            /\ status_depth' = status_depth - 1 /\ clobbered' = FALSE
            /\ pad_activity_end /\ UNCHANGED status_overflow_depth
    /\ requested' = FALSE /\ UNCHANGED <<shown, inputs>>

\* A caller's own bracket around an operation.
bracket_begin ==
    /\ phase = "run" /\ Len(open) < MaxOpen /\ open' = Append(open, "pad")
    /\ pad_activity_begin
    /\ UNCHANGED <<status, frames, requested, inputs>>

bracket_end ==
    /\ phase = "run" /\ open # <<>> /\ open[Len(open)] = "pad"
    /\ open' = SubSeq(open, 1, Len(open) - 1)
    /\ pad_activity_end
    /\ UNCHANGED <<status, frames, requested, inputs>>

Next ==
    \/ init_pad \/ pad_activity_restore
    \/ bracket_begin \/ bracket_end
    \/ disk_status_begin_at \/ disk_status_phase_at \/ disk_status_end
    \/ disk_status_read
    \/ \E b \in BOOLEAN : disk_status_set_write_intent(b) \/ disk_status_event(b)
    \/ \E b, f \in BOOLEAN : disk_status_stream(b, f)

Spec == Init /\ [][Next]_vars

-----------------------------------------------------------------------------
(* Properties.                                                             *)

\* Scopes and brackets nest in any order, scopes beyond the stack included, and a
\* pad that obeys shows the lamp exactly while one of them is open.
LampTracksActivity ==
    phase = "run" /\ activity_supported =>
        pad = [mode |-> IF open = <<>> THEN "digital" ELSE "analog", locked |-> TRUE]

\* "restart/power-off restores the initial controller mode": even when an earlier
\* command failed after the pad was under control, with scopes still open.
InitialModeRestored ==
    phase = "leave" /\ ~refused => pad = [mode |-> initial_mode, locked |-> FALSE]

\* The pad is in the mode its state calls for: lamp while the drive is busy, the
\* user's own mode when the program has left.
PadModeRight == LampTracksActivity /\ InitialModeRestored

\* The scope that is innermost warns exactly when it was armed, whatever was
\* opened and closed inside it, as long as no deeper scope took over its slot.
WarningMatchesScope ==
    ~clobbered => \A i \in Innermost : Top = (open[i] = "armed")

\* Coalescing drops frames, never the news: however reads, writes and verification
\* are mixed, a frame comes before the two counters together run out.
SilenceBounded == silent <= (ReadDivisor - 1) + (VerifyDivisor - 1)

\* "The final event is always rendered regardless of the divisor."
FinalEventShown == ended => shown.final

\* What is on the screen can be believed: the warning is that of the innermost
\* scope, progress is never silent for long, and the last frame is the final one.
ScreenTruthful == WarningMatchesScope /\ SilenceBounded /\ FinalEventShown

\* "Make any early raw validation READs show WRITE PREFLIGHT semantics even before
\* execute_transaction() opens its detailed activity scope": a request to arm the
\* warning takes effect, with or without a scope.
ArmingTakesEffect == requested => shown.warning
=============================================================================
