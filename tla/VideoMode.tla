----------------------------- MODULE VideoMode ------------------------------
(***************************************************************************)
(* Guarded video modes: the renderer's switch and native recovery          *)
(* (gs_ui_ps2.c), the ten-second confirmation and the startup preference   *)
(* (manager_menu_ps2.c), and HDDMAN.CFG (storage.c).                       *)
(*                                                                         *)
(* Each bounded wait on the GIF path, the GS or VBlank may time out; a     *)
(* handler that meets time-outs is the set of its possible outcomes, and   *)
(* an outcome carries the time-outs it cost.  Saving may fail or be cut    *)
(* short, and the power may go at any moment.                              *)
(***************************************************************************)
EXTENDS Integers

CONSTANTS
    Alternate,     \* the modes other than native
    Countdown,     \* seconds of confirm_video_mode
    MaxFaults      \* time-outs the display path may have in a session

ASSUME VideoConstants ==
    /\ "native" \notin Alternate /\ Alternate \cap {"unsafe", "bad", "none"} = {}
    /\ Countdown \in Nat \ {0} /\ MaxFaults \in Nat

Modes == Alternate \cup {"native"}

\* A config file by what it says: a mode, an identifier withdrawn after 0.4.1, an
\* unknown one, or none at all; and whether its font is known.
Contents == [video : Modes \cup {"unsafe", "bad", "none"}, font : {"known", "unknown"}]
NoFile == [video |-> "absent", font |-> "unknown"]

\* mode is what the program believes; signal, active and output are what the GS
\* has been given: timing, framebuffers, PMODE.
Display == [mode : Modes, transition : {"stable", "switching", "restoring"},
            signal : Modes, active : {"native", "alternate"}, output : BOOLEAN]

NativeDisplay == [mode |-> "native", transition |-> "stable", signal |-> "native",
                  active |-> "native", output |-> TRUE]

VARIABLES
    gs, presented,      \* the display; the last frame was completed and presented
    config, legacy,     \* HDDMAN.CFG and the file of older versions
    preferred,          \* preferred_video_mode
    pc, choice,         \* handler under way, mode it is about
    startup,            \* the confirmation is the one at startup
    remaining,
    confirmed, rejected,  \* history of this session
    endorsed,             \* history: modes once confirmed or configured
    faults                \* time-outs met in this session

vars == <<gs, presented, config, legacy, preferred, pc, choice, startup, remaining,
          confirmed, rejected, endorsed, faults>>

session == <<confirmed, rejected, endorsed>>

Init ==
    /\ gs = NativeDisplay /\ presented = FALSE
    /\ config \in Contents \cup {NoFile} /\ legacy \in Contents \cup {NoFile}
    /\ config = NoFile \/ legacy = NoFile     \* beside config it is never read
    /\ preferred = "native" /\ pc = "load" /\ choice = "native"
    /\ startup = FALSE /\ remaining = 0
    /\ confirmed = {} /\ rejected = {}
    /\ endorsed = {config.video, legacy.video} \cap Alternate
    /\ faults = 0

-----------------------------------------------------------------------------
(* HDDMAN.CFG.                                                             *)

\* What is left of a file whose writing stopped half-way: cut before, inside or
\* after the line of the mode.
Torn(m) ==
    {[video |-> "none", font |-> "known"], [video |-> "bad", font |-> "known"],
     [video |-> m, font |-> "known"], [video |-> m, font |-> "unknown"]}

\* write_whole_file truncates first; opening may fail, and so may any write.
app_config_save(m) ==
    {[file |-> [video |-> m, font |-> "known"], ok |-> TRUE],
     [file |-> config, ok |-> FALSE]}
        \cup {[file |-> torn, ok |-> FALSE] : torn \in Torn(m)}

\* The preference a file sets; an invalid file leaves the one in memory.
parse_app_config(file) ==
    CASE file.video \in Modes -> file.video
      [] file.video = "unsafe" -> "native"
      [] OTHER -> preferred

\* The file is written anew: a withdrawn mode or an unknown font.
Migrated(file) ==
    file \in Contents /\ file.video # "bad"
    /\ (file.video = "unsafe" \/ file.font = "unknown")

\* The older file is looked at only when the current one does not exist; either
\* may be unreadable.
app_config_load ==
    /\ pc = "load" /\ pc' = "startup"
    /\ \/ LET file == IF config = NoFile THEN legacy ELSE config
          IN  /\ preferred' = parse_app_config(file)
              /\ IF Migrated(file)
                 THEN \E w \in app_config_save(preferred') : config' = w.file
                 ELSE UNCHANGED config
       \/ UNCHANGED <<preferred, config>>
    /\ UNCHANGED <<gs, presented, legacy, choice, startup, remaining, session, faults>>

\* The preference in memory keeps its new value only when it was saved.
save_video_preference(m) ==
    \E w \in app_config_save(m) :
        config' = w.file /\ preferred' = IF w.ok THEN m ELSE preferred

-----------------------------------------------------------------------------
(* The renderer.                                                           *)

Outcome(g, ok, cost) == [gs |-> g, ok |-> ok, cost |-> cost]

Costing(n, outcomes) == {[o EXCEPT !.cost = @ + n] : o \in outcomes}

\* The native timing is set with the output off; the output is switched on after
\* the drawing environment has been accepted.
bootstrap_native_gs(g) ==
    LET dark == [g EXCEPT !.signal = "native", !.active = "native", !.output = FALSE]
    IN  {Outcome([dark EXCEPT !.output = TRUE], TRUE, 0), Outcome(dark, FALSE, 1)}

\* After a time-out the bootstrap is tried once, otherwise once more if it fails.
\* Either way the renderer is native and stable from here on.
restore_native_video(g, hard_recovery) ==
    LET settled(o) == [o EXCEPT !.gs.mode = "native", !.gs.transition = "stable"]
        first == bootstrap_native_gs([g EXCEPT !.transition = "restoring"])
        second == UNION {Costing(o.cost, bootstrap_native_gs(o.gs)) :
                            o \in {f \in first : ~f.ok}}
    IN  {settled(o) : o \in IF hard_recovery THEN first
                           ELSE {f \in first : f.ok} \cup second}

\* The error is returned and the display left as it is.
Bug_fail_video_switch(g) == {Outcome(g, FALSE, 1)}

fail_video_switch(g) ==
    {[o EXCEPT !.ok = FALSE] : o \in Costing(1, restore_native_video(g, TRUE))}

\* The switch may fail before anything was changed, while the output is off, and
\* after the new mode is on.
gs_ui_video_mode_apply(mode) ==
    LET switching == [gs EXCEPT !.transition = "switching"]
        half == [switching EXCEPT !.signal = mode, !.output = FALSE]
        shown == [switching EXCEPT !.signal = mode, !.active = "alternate",
                                   !.mode = mode, !.output = TRUE]
    IN  CASE mode = gs.mode -> {Outcome(gs, TRUE, 0)}
          [] mode # gs.mode /\ gs.transition # "stable" -> {Outcome(gs, FALSE, 0)}
          [] OTHER ->
                fail_video_switch(switching)
                \cup IF mode = "native" THEN restore_native_video(switching, FALSE)
                     ELSE fail_video_switch(half) \cup fail_video_switch(shown)
                          \cup {Outcome([shown EXCEPT !.transition = "stable"], TRUE, 0)}

\* A frame is drawn, waited for and presented, or a time-out brings native back.
end_frame ==
    {Outcome(gs, TRUE, 0)}
        \cup {[o EXCEPT !.ok = FALSE] : o \in Costing(1, restore_native_video(gs, TRUE))}

\* The handler's outcome becomes the state; faults are bounded.
Take(o) ==
    /\ faults + o.cost <= MaxFaults
    /\ gs' = o.gs /\ faults' = faults + o.cost

-----------------------------------------------------------------------------
(* The menus.                                                              *)

\* Every mode of the list counts as supported.
apply_startup_video_preference ==
    /\ pc = "startup" /\ choice' = preferred
    /\ IF preferred = "native"
       THEN pc' = "menu" /\ UNCHANGED <<gs, faults, remaining, startup>>
       ELSE /\ startup' = TRUE /\ remaining' = Countdown
            /\ \E o \in gs_ui_video_mode_apply(preferred) :
                  Take(o) /\ pc' = IF o.ok THEN "confirm" ELSE "drop"
    /\ UNCHANGED <<presented, config, legacy, preferred, session>>

\* A press of another button starts the countdown again.
Bug_confirm_video_mode ==
    /\ pc = "confirm" /\ presented' = TRUE
    /\ \/ pc' \in {"keep", "drop"} /\ UNCHANGED remaining
       \/ /\ remaining' = remaining - 1
          /\ pc' = IF remaining' = 0 THEN "drop" ELSE "confirm"
       \/ remaining' = Countdown /\ UNCHANGED pc
    /\ UNCHANGED <<gs, config, legacy, preferred, choice, startup, session, faults>>

\* One turn of the countdown: draw, see whether the mode survived, wait a second.
confirm_video_mode ==
    /\ pc = "confirm"
    /\ \E o \in end_frame :
          /\ Take(o) /\ presented' = o.ok
          /\ \/ o.gs.mode # choice /\ pc' = "drop" /\ UNCHANGED remaining
             \/ o.gs.mode = choice /\ pc' = "keep" /\ UNCHANGED remaining   \* X
             \/ o.gs.mode = choice /\ pc' = "drop" /\ UNCHANGED remaining   \* TRIANGLE
             \/ /\ o.gs.mode = choice                      \* time, or another button
                /\ remaining' = remaining - 1
                /\ pc' = IF remaining' = 0 THEN "drop" ELSE "confirm"
    /\ UNCHANGED <<config, legacy, preferred, choice, startup, session>>

\* X was pressed; at startup the preference stands as it is.
keep_mode ==
    /\ pc = "keep" /\ pc' = "menu"
    /\ IF startup THEN UNCHANGED <<config, preferred>> ELSE save_video_preference(choice)
    /\ confirmed' = confirmed \cup {choice} /\ endorsed' = endorsed \cup {choice}
    /\ rejected' = rejected \ {choice} /\ startup' = FALSE
    /\ UNCHANGED <<gs, presented, legacy, choice, remaining, faults>>

\* Anything else brings native back, and at startup the preference is replaced.
drop_mode ==
    /\ pc = "drop" /\ pc' = "menu"
    /\ \E o \in gs_ui_video_mode_apply("native") : Take(o)
    /\ IF startup THEN save_video_preference("native") ELSE UNCHANGED <<config, preferred>>
    /\ rejected' = rejected \cup {choice} /\ confirmed' = confirmed \ {choice}
    /\ startup' = FALSE
    /\ UNCHANGED <<presented, legacy, choice, remaining, endorsed>>

\* The choice is saved as soon as the display shows it.
Bug_video_mode_menu ==
    /\ pc = "menu"
    /\ \E m \in Modes :
          /\ choice' = m /\ save_video_preference(m)
          /\ \E o \in gs_ui_video_mode_apply(m) :
                /\ Take(o) /\ pc' = IF ~o.ok \/ m = "native" THEN "menu" ELSE "confirm"
                /\ remaining' = Countdown
    /\ UNCHANGED <<presented, legacy, startup, session>>

video_mode_menu ==
    /\ pc = "menu"
    /\ \E m \in Modes :
          /\ ~(m = gs.mode /\ m = preferred)
          /\ choice' = m
          /\ \E o \in gs_ui_video_mode_apply(m) :
                /\ Take(o)
                /\ \/ /\ ~o.ok /\ pc' = "menu"
                      /\ UNCHANGED <<config, preferred, remaining>>
                   \/ /\ o.ok /\ m = "native" /\ pc' = "menu"
                      /\ save_video_preference("native") /\ UNCHANGED remaining
                   \/ /\ o.ok /\ m # "native" /\ pc' = "confirm"
                      /\ remaining' = Countdown /\ UNCHANGED <<config, preferred>>
    /\ UNCHANGED <<presented, legacy, startup, session>>

\* A new theme, and likewise a new font, saves the whole file, and the preferred
\* mode with it.
ui_theme_menu ==
    /\ pc = "menu"
    /\ \E w \in app_config_save(preferred) : config' = w.file
    /\ UNCHANGED <<gs, presented, legacy, preferred, pc, choice, startup, remaining,
                   session, faults>>

\* A menu or message is drawn.
render ==
    /\ pc = "menu"
    /\ \E o \in end_frame : Take(o) /\ presented' = o.ok
    /\ UNCHANGED <<config, legacy, preferred, pc, choice, startup, remaining, session>>

\* The modes a save may be writing when the power goes.
Saving ==
    CASE pc = "keep" -> {choice} [] pc = "drop" -> {"native"}
      [] pc = "menu" -> {preferred, "native"} [] OTHER -> {}

\* Power loss or restart.
PowerLoss ==
    /\ config' \in {config} \cup UNION {Torn(m) : m \in Saving}
    /\ gs' = NativeDisplay /\ presented' = FALSE /\ preferred' = "native"
    /\ pc' = "load" /\ choice' = "native" /\ startup' = FALSE /\ remaining' = 0
    /\ confirmed' = {} /\ rejected' = {} /\ faults' = 0
    /\ endorsed' = IF pc = "keep" THEN endorsed \cup {choice} ELSE endorsed
    /\ UNCHANGED legacy

Next ==
    \/ app_config_load \/ apply_startup_video_preference \/ confirm_video_mode
    \/ keep_mode \/ drop_mode \/ video_mode_menu \/ ui_theme_menu \/ render
    \/ PowerLoss

\* The program goes on: its waits are bounded.  Nobody need ever touch the pad.
Spec == /\ Init /\ [][Next]_vars
        /\ WF_vars(confirm_video_mode) /\ WF_vars(keep_mode) /\ WF_vars(drop_mode)

-----------------------------------------------------------------------------
(* Properties.                                                             *)

\* Between two handlers the program's mode is the one the GS was given: no failed
\* switch leaves half of one mode and half of another, or a transition that is never
\* over.  Whether the output is on is OutputOn.
DisplayCoherent ==
    /\ gs \in Display /\ gs.transition = "stable" /\ gs.signal = gs.mode
    /\ (gs.active = "native") <=> (gs.mode = "native")
    /\ preferred \in Modes /\ config \in Contents \cup {NoFile}

\* "requires ten-second confirmation again at every alternate-mode startup": the
\* menus are never shown in a mode nobody confirmed since the program started.
MenusOnlyInConfirmedModes ==
    pc = "menu" => gs.mode \in confirmed \cup {"native"}

\* One time-out never leaves the screen dark: a switch that fails after it turned the
\* output off, or a frame that is not finished, brings native back with the output
\* on.  Only a second one, in the recovery itself, leaves the native display off.
OutputOn == gs.output \/ (gs.mode = "native" /\ faults >= 2)

\* Menus are shown on a display the program is right about, in a mode somebody
\* confirmed, and with the output on but for a time-out in the recovery.
MenusReadable == DisplayCoherent /\ MenusOnlyInConfirmedModes /\ OutputOn

\* No failure of a save, no cut in one and no later save of another setting puts an
\* alternate mode into the file that was never confirmed.
SavedWasConfirmed == config.video \in Alternate => config.video \in endorsed

\* An alternate mode on the display is confirmed or gone in the end, with nobody
\* at the pad, whatever times out, and whatever other buttons are pressed.
NativeReturns ==
    pc = "confirm" ~> (gs.mode = "native" \/ gs.mode \in confirmed)

\* "Startup failure/timeout also saves native, so a display mismatch cannot become
\* an eternal black-screen preference": a mode rejected at startup is not written
\* to the file again by the program in that session.
RejectedStaysRejected ==
    [][config' # config /\ pc' # "load" => config'.video \notin rejected \cap rejected']_vars

\* "TRIANGLE, no input, or an internal setup failure restores the proven native
\* output": a frame that is presented can be seen.  It is not so after a time-out in
\* the recovery: restore_native_video leaves the output off and says stable.
PresentedIsVisible == presented => gs.output
=============================================================================
