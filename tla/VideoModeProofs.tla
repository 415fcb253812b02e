---------------------------- MODULE VideoModeProofs ----------------------------
(***************************************************************************)
(* Guarded video modes, for every set of alternate modes, every countdown  *)
(* and any number of time-outs.                                            *)
(*                                                                         *)
(* VInv adds to the properties what they rest on: the mode a confirmation  *)
(* is about is the one on the display, and the preference in memory was    *)
(* confirmed or configured, so that saving it for another setting's sake   *)
(* endorses nothing new.  That the output is on is counted against the     *)
(* time-outs of the session: an outcome of the renderer that leaves it off *)
(* costs two.                                                              *)
(***************************************************************************)
EXTENDS VideoMode, TLAPS

-----------------------------------------------------------------------------
(* The invariant.                                                          *)

Files == Contents \cup {NoFile}

\* A display the program is right about.
Coherent(d) ==
    /\ d \in Display /\ d.transition = "stable" /\ d.signal = d.mode
    /\ (d.active = "native") <=> (d.mode = "native")

TypeOK ==
    /\ Coherent(gs) /\ presented \in BOOLEAN
    /\ config \in Files /\ legacy \in Files
    /\ preferred \in Modes /\ choice \in Modes /\ startup \in BOOLEAN
    /\ pc \in {"load", "startup", "confirm", "keep", "drop", "menu"}
    /\ faults \in 0..MaxFaults

\* What the display shows while a handler is under way.
Shown ==
    /\ pc \in {"load", "startup"} => gs.mode = "native"
    /\ pc \in {"confirm", "keep"} => gs.mode = choice
    /\ pc = "menu" => gs.mode \in confirmed \cup {"native"}

\* A mode in a file or in memory was confirmed or configured.
Endorsed ==
    {config.video, legacy.video, preferred} \cap Alternate \subseteq endorsed

\* A display that is off is native, and two time-outs turned it off.
OnUnless(d, n) == d.output \/ (d.mode = "native" /\ n >= 2)

VInv == TypeOK /\ Shown /\ Endorsed /\ OnUnless(gs, faults)

-----------------------------------------------------------------------------
(* Lemmas about the renderer: what every outcome of a handler is.          *)

Outcomes == [gs : Display, ok : BOOLEAN, cost : Nat]

\* The native timing is set whether or not the bootstrap is completed.
LEMMA Bootstrapped ==
  ASSUME NEW g \in Display, NEW o \in bootstrap_native_gs(g)
  PROVE  /\ o \in Outcomes /\ o.gs.signal = "native" /\ o.gs.active = "native"
         /\ \/ o.ok /\ o.gs.output
            \/ ~o.ok /\ o.cost = 1
<1> DEFINE dark == [g EXCEPT !.signal = "native", !.active = "native", !.output = FALSE]
           lit == [dark EXCEPT !.output = TRUE]
<1>1. dark \in Display /\ dark.signal = "native" /\ dark.active = "native"
  BY DEF Display, Modes
<1>2. lit \in Display /\ lit.signal = "native" /\ lit.active = "native" /\ lit.output
  BY DEF Display, Modes
<1>3. o = [gs |-> lit, ok |-> TRUE, cost |-> 0] \/ o = [gs |-> dark, ok |-> FALSE, cost |-> 1]
  BY DEF bootstrap_native_gs, Outcome
<1> HIDE DEF dark, lit
<1>4. CASE o = [gs |-> lit, ok |-> TRUE, cost |-> 0] BY <1>2, <1>4 DEF Outcomes
<1>5. CASE o = [gs |-> dark, ok |-> FALSE, cost |-> 1] BY <1>1, <1>5 DEF Outcomes
<1> QED BY <1>3, <1>4, <1>5

\* Native recovery ends in a stable native display, time-outs or not, and with the
\* output on unless every bootstrap of it timed out.
LEMMA Restored ==
  ASSUME NEW g \in Display, NEW hard \in BOOLEAN, NEW o \in restore_native_video(g, hard)
  PROVE  /\ o \in Outcomes /\ Coherent(o.gs) /\ o.gs.mode = "native"
         /\ o.gs.output \/ (o.cost >= 1 /\ (~hard => o.cost >= 2))
<1> DEFINE settled(p) == [p EXCEPT !.gs.mode = "native", !.gs.transition = "stable"]
           first == bootstrap_native_gs([g EXCEPT !.transition = "restoring"])
           second == UNION {Costing(p.cost, bootstrap_native_gs(p.gs)) :
                               p \in {f \in first : ~f.ok}}
           Half(p) == p \in Outcomes /\ p.gs.signal = "native" /\ p.gs.active = "native"
           Twice(p) == p.gs.output \/ p.cost >= 2
<1>1. [g EXCEPT !.transition = "restoring"] \in Display BY DEF Display
<1>2. \A p \in first : Half(p) /\ ((p.ok /\ p.gs.output) \/ (~p.ok /\ p.cost = 1))
  BY <1>1, Bootstrapped
<1>3. \A p \in second : Half(p) /\ Twice(p)
  <2> SUFFICES ASSUME NEW f \in first, ~f.ok,
                      NEW p \in Costing(f.cost, bootstrap_native_gs(f.gs))
               PROVE  Half(p) /\ Twice(p)
    OBVIOUS
  <2>1. PICK q \in bootstrap_native_gs(f.gs) : p = [q EXCEPT !.cost = @ + f.cost]
    BY DEF Costing
  <2>2. f.gs \in Display /\ f.cost \in Nat BY <1>2 DEF Outcomes
  <2>3. Half(q) /\ (q.gs.output \/ q.cost = 1) BY <2>2, Bootstrapped
  <2>4. f.cost = 1 BY <1>2
  <2> QED BY <2>1, <2>3, <2>4 DEF Outcomes
<1>4. PICK p \in first \cup second :
         o = settled(p) /\ (~hard => (p \in first /\ p.ok) \/ p \in second)
  BY DEF restore_native_video
<1>5. Half(p) BY <1>2, <1>3, <1>4
<1>6. p.gs.output \/ (p.cost >= 1 /\ (~hard => p.cost >= 2))
  BY <1>2, <1>3, <1>4 DEF Outcomes
<1> HIDE DEF first, second
<1>7. o.gs.output = p.gs.output /\ o.cost = p.cost
  BY <1>4, <1>5 DEF Outcomes, Display
<1>8. o \in Outcomes /\ Coherent(o.gs) /\ o.gs.mode = "native"
  BY <1>4, <1>5 DEF Outcomes, Coherent, Display, Modes
<1> QED BY <1>6, <1>7, <1>8

\* A switch or a frame that meets a time-out fails, on a native display.
LEMMA Failed ==
  ASSUME NEW g \in Display, NEW o \in fail_video_switch(g)
  PROVE  /\ o \in Outcomes /\ Coherent(o.gs) /\ o.gs.mode = "native" /\ o.ok = FALSE
         /\ OnUnless(o.gs, o.cost)
<1>1. PICK p \in restore_native_video(g, TRUE) :
         o = [[p EXCEPT !.cost = @ + 1] EXCEPT !.ok = FALSE]
  BY DEF fail_video_switch, Costing
<1>2. /\ p \in Outcomes /\ Coherent(p.gs) /\ p.gs.mode = "native"
      /\ p.gs.output \/ p.cost >= 1
  BY Restored
<1> DEFINE q == [p EXCEPT !.cost = @ + 1]
<1>3. q \in Outcomes /\ q.gs = p.gs /\ (q.gs.output \/ q.cost >= 2)
  BY <1>2 DEF Outcomes
<1> HIDE DEF q
<1>4. o = [q EXCEPT !.ok = FALSE] BY <1>1 DEF q
<1>5. o \in Outcomes /\ o.gs = q.gs /\ o.cost = q.cost /\ o.ok = FALSE
  BY <1>3, <1>4 DEF Outcomes
<1> QED BY <1>2, <1>3, <1>5 DEF OnUnless

\* A switch shows the mode, or native when it fails.
LEMMA Applied ==
  ASSUME Coherent(gs), NEW mode \in Modes, NEW o \in gs_ui_video_mode_apply(mode)
  PROVE  /\ o \in Outcomes /\ Coherent(o.gs)
         /\ o.ok => o.gs.mode = mode
         /\ ~o.ok => o.gs.mode = "native"
         /\ o.gs = gs \/ OnUnless(o.gs, o.cost)
<1> DEFINE switching == [gs EXCEPT !.transition = "switching"]
           half == [switching EXCEPT !.signal = mode, !.output = FALSE]
           shown == [switching EXCEPT !.signal = mode, !.active = "alternate",
                                      !.mode = mode, !.output = TRUE]
<1>1. /\ gs \in Display /\ gs.transition = "stable"
      /\ switching \in Display /\ half \in Display /\ shown \in Display
  BY DEF Coherent, Display
<1>2. CASE mode = gs.mode
  <2>1. o = Outcome(gs, TRUE, 0) BY <1>2 DEF gs_ui_video_mode_apply
  <2> QED BY <1>1, <1>2, <2>1 DEF Outcome, Outcomes
<1>3. CASE mode # gs.mode
  <2>1. \/ o \in fail_video_switch(switching)
        \/ mode = "native" /\ o \in restore_native_video(switching, FALSE)
        \/ /\ mode # "native"
           /\ \/ o \in fail_video_switch(half) \cup fail_video_switch(shown)
              \/ o = Outcome([shown EXCEPT !.transition = "stable"], TRUE, 0)
    BY <1>1, <1>3 DEF gs_ui_video_mode_apply
  <2>2. CASE o \in fail_video_switch(switching) \cup fail_video_switch(half)
                      \cup fail_video_switch(shown)
    BY <1>1, <2>2, Failed
  <2>3. CASE mode = "native" /\ o \in restore_native_video(switching, FALSE)
    BY <1>1, <2>3, Restored DEF OnUnless
  <2>4. CASE mode # "native" /\ o = Outcome([shown EXCEPT !.transition = "stable"], TRUE, 0)
    BY <1>1, <2>4 DEF Outcome, Outcomes, Coherent, Display, OnUnless
  <2> QED BY <2>1, <2>2, <2>3, <2>4
<1> QED BY <1>2, <1>3

\* A frame leaves the display as it is or native.
LEMMA Drawn ==
  ASSUME Coherent(gs), NEW o \in end_frame
  PROVE  /\ o \in Outcomes /\ Coherent(o.gs)
         /\ o.gs.mode \in {gs.mode, "native"}
         /\ o.gs = gs \/ OnUnless(o.gs, o.cost)
<1>1. gs \in Display BY DEF Coherent
<1>2. CASE o = Outcome(gs, TRUE, 0) BY <1>1, <1>2 DEF Outcome, Outcomes
<1>3. CASE o \in {[p EXCEPT !.ok = FALSE] : p \in Costing(1, restore_native_video(gs, TRUE))}
  BY <1>1, <1>3, Failed DEF fail_video_switch
<1> QED BY <1>2, <1>3 DEF end_frame

-----------------------------------------------------------------------------
(* Lemmas about the file.                                                  *)

\* What is left of an interrupted save names the mode or none.
LEMMA TornFile ==
  ASSUME NEW m \in Modes, NEW file \in Torn(m)
  PROVE  file \in Files /\ (file.video \in Alternate => file.video = m)
BY VideoConstants DEF Torn, Files, Contents

\* A save writes the mode, part of it, or nothing.
LEMMA Saved ==
  ASSUME config \in Files, NEW m \in Modes, NEW w \in app_config_save(m)
  PROVE  /\ w.file \in Files /\ w.ok \in BOOLEAN
         /\ w.file.video \in Alternate => w.file.video \in {m, config.video}
<1>1. CASE w = [file |-> [video |-> m, font |-> "known"], ok |-> TRUE]
  BY <1>1 DEF Files, Contents
<1>2. CASE w = [file |-> config, ok |-> FALSE]
  BY <1>2
<1>3. CASE \E torn \in Torn(m) : w = [file |-> torn, ok |-> FALSE]
  BY <1>3, TornFile
<1> QED BY <1>1, <1>2, <1>3, Zenon DEF app_config_save

\* After a save of an endorsed mode all that is saved or preferred is endorsed.
LEMMA StillEndorsed ==
  ASSUME VInv, NEW m \in Modes, save_video_preference(m), UNCHANGED legacy,
         endorsed \subseteq endorsed', m \in endorsed' \cup {"native"}
  PROVE  Endorsed' /\ config' \in Files /\ preferred' \in Modes
<1>1. PICK w \in app_config_save(m) :
         config' = w.file /\ preferred' = IF w.ok THEN m ELSE preferred
  BY DEF save_video_preference
<1>2. /\ w.file \in Files /\ w.ok \in BOOLEAN
      /\ w.file.video \in Alternate => w.file.video \in {m, config.video}
  BY Saved DEF VInv, TypeOK
<1>3. preferred' \in {m, preferred} BY <1>1, <1>2
<1> QED BY <1>1, <1>2, <1>3, VideoConstants DEF VInv, TypeOK, Endorsed, Modes

-----------------------------------------------------------------------------
(* The steps.                                                              *)

\* Any configuration found at the start counts as endorsed.
LEMMA InitVideo == Init => VInv
<1> SUFFICES ASSUME Init PROVE VInv
  OBVIOUS
<1>1. Coherent(gs) BY DEF Init, Coherent, NativeDisplay, Display, Modes
<1>2. TypeOK
  <2>1. faults \in 0..MaxFaults BY VideoConstants DEF Init
  <2>2. config \in Files /\ legacy \in Files /\ "native" \in Modes
    BY DEF Init, Files, Modes
  <2> QED BY <1>1, <2>1, <2>2, Zenon DEF Init, TypeOK
<1>3. Shown BY DEF Init, Shown, NativeDisplay
<1>4. Endorsed BY VideoConstants DEF Init, Endorsed
<1>5. OnUnless(gs, faults) BY DEF Init, OnUnless, NativeDisplay
<1> QED BY <1>2, <1>3, <1>4, <1>5 DEF VInv

\* An outcome taken is within the bound, and its time-outs count.
LEMMA Taken ==
  ASSUME TypeOK, OnUnless(gs, faults), NEW o \in Outcomes, Take(o),
         o.gs = gs \/ OnUnless(o.gs, o.cost)
  PROVE  gs' = o.gs /\ faults' \in 0..MaxFaults /\ OnUnless(gs', faults')
BY VideoConstants DEF TypeOK, Take, Outcomes, OnUnless

\* Every step keeps the invariant.
LEMMA NextVideo == VInv /\ [Next]_vars => VInv'
<1> SUFFICES ASSUME VInv, [Next]_vars PROVE VInv'
  OBVIOUS
<1> USE DEF VInv
<1>0. Coherent(gs) BY DEF TypeOK
<1>1. CASE app_config_load
  <2>1. /\ pc = "load" /\ pc' = "startup"
        /\ UNCHANGED <<gs, presented, legacy, choice, startup, remaining, session, faults>>
    BY <1>1 DEF app_config_load
  <2>2. preferred' \in Modes /\ (preferred' \in Alternate => preferred' \in endorsed)
    <3>1. CASE UNCHANGED preferred BY <3>1 DEF TypeOK, Endorsed
    <3>2. CASE \E file \in {config, legacy} : preferred' = parse_app_config(file)
      <4>1. PICK file \in {config, legacy} : preferred' = parse_app_config(file) BY <3>2
      <4>2. preferred' \in {file.video, "native", preferred}
            /\ (preferred' = file.video => file.video \in Modes \/ preferred' \in {"native", preferred})
        BY <4>1 DEF parse_app_config
      <4> QED BY <4>1, <4>2, VideoConstants DEF TypeOK, Endorsed, Modes
    <3> QED BY <1>1, <3>1, <3>2 DEF app_config_load
  <2>3. config' \in Files /\ (config'.video \in Alternate => config'.video \in endorsed)
    <3>1. CASE UNCHANGED config BY <3>1 DEF TypeOK, Endorsed
    <3>2. CASE \E w \in app_config_save(preferred') : config' = w.file
      BY <2>2, <3>2, Saved DEF TypeOK, Endorsed
    <3> QED BY <1>1, <3>1, <3>2 DEF app_config_load
  <2>4. TypeOK' BY <2>1, <2>2, <2>3 DEF TypeOK
  <2>5. Shown' BY <2>1 DEF Shown
  <2>6. Endorsed' BY <2>1, <2>2, <2>3 DEF Endorsed, session
  <2>7. OnUnless(gs', faults') BY <2>1
  <2> QED BY <2>4, <2>5, <2>6, <2>7
<1>2. CASE apply_startup_video_preference
  <2>1. /\ pc = "startup" /\ choice' = preferred
        /\ UNCHANGED <<presented, config, legacy, preferred, session>>
    BY <1>2 DEF apply_startup_video_preference
  <2>2. Endorsed' BY <2>1 DEF Endorsed, session
  <2>3. CASE preferred = "native"
    <3>1. pc' = "menu" /\ UNCHANGED <<gs, faults, remaining, startup>>
      BY <1>2, <2>3 DEF apply_startup_video_preference
    <3>2. TypeOK' BY <2>1, <3>1 DEF TypeOK
    <3>3. Shown' BY <2>1, <3>1 DEF Shown
    <3>4. OnUnless(gs', faults') BY <3>1
    <3> QED BY <2>2, <3>2, <3>3, <3>4
  <2>4. CASE preferred # "native"
    <3>1. PICK o \in gs_ui_video_mode_apply(preferred) :
             Take(o) /\ pc' = IF o.ok THEN "confirm" ELSE "drop"
      BY <1>2, <2>4 DEF apply_startup_video_preference
    <3>2. /\ o \in Outcomes /\ Coherent(o.gs) /\ (o.ok => o.gs.mode = preferred)
          /\ o.gs = gs \/ OnUnless(o.gs, o.cost)
      BY <1>0, Applied DEF TypeOK
    <3>3. gs' = o.gs /\ faults' \in 0..MaxFaults /\ OnUnless(gs', faults')
      BY <3>1, <3>2, Taken
    <3>4. startup' = TRUE BY <1>2, <2>4 DEF apply_startup_video_preference
    <3>5. TypeOK' BY <2>1, <3>1, <3>2, <3>3, <3>4 DEF TypeOK
    <3>6. Shown' BY <2>1, <3>1, <3>2, <3>3 DEF Shown
    <3> QED BY <2>2, <3>3, <3>5, <3>6
  <2> QED BY <2>3, <2>4
<1>3. CASE confirm_video_mode
  <2>1. PICK o \in end_frame :
           /\ Take(o) /\ presented' = o.ok
           /\ pc' \in {"keep", "confirm", "drop"}
           /\ o.gs.mode # choice => pc' = "drop"
    BY <1>3 DEF confirm_video_mode
  <2>2. UNCHANGED <<config, legacy, preferred, choice, startup, session>>
    BY <1>3 DEF confirm_video_mode
  <2>3. o \in Outcomes /\ Coherent(o.gs) /\ (o.gs = gs \/ OnUnless(o.gs, o.cost))
    BY <1>0, Drawn
  <2>4. gs' = o.gs /\ faults' \in 0..MaxFaults /\ OnUnless(gs', faults')
    BY <2>1, <2>3, Taken
  <2>5. presented' \in BOOLEAN BY <2>1, <2>3 DEF Outcomes
  <2>6. TypeOK' BY <2>1, <2>2, <2>3, <2>4, <2>5 DEF TypeOK
  <2>7. Shown' BY <2>1, <2>2, <2>4 DEF Shown
  <2>8. Endorsed' BY <2>2 DEF Endorsed, session
  <2> QED BY <2>4, <2>6, <2>7, <2>8
<1>4. CASE keep_mode
  <2>1. /\ pc = "keep" /\ pc' = "menu" /\ startup' = FALSE
        /\ confirmed' = confirmed \cup {choice} /\ endorsed' = endorsed \cup {choice}
        /\ UNCHANGED <<gs, presented, legacy, choice, remaining, faults>>
    BY <1>4 DEF keep_mode
  <2>2. Endorsed' /\ config' \in Files /\ preferred' \in Modes
    <3>1. CASE startup
      <4>1. UNCHANGED <<config, preferred>> BY <1>4, <3>1 DEF keep_mode
      <4> QED BY <2>1, <4>1 DEF TypeOK, Endorsed
    <3>2. CASE ~startup
      <4>1. save_video_preference(choice) BY <1>4, <3>2 DEF keep_mode
      <4> QED BY <2>1, <4>1, StillEndorsed DEF TypeOK
    <3> QED BY <3>1, <3>2
  <2>3. TypeOK' BY <2>1, <2>2 DEF TypeOK
  <2>4. Shown' BY <2>1 DEF Shown
  <2>5. OnUnless(gs', faults') BY <2>1
  <2> QED BY <2>2, <2>3, <2>4, <2>5
<1>5. CASE drop_mode
  <2>1. /\ pc = "drop" /\ pc' = "menu" /\ startup' = FALSE
        /\ UNCHANGED <<presented, legacy, choice, remaining, endorsed>>
    BY <1>5 DEF drop_mode
  <2>2. PICK o \in gs_ui_video_mode_apply("native") : Take(o) BY <1>5 DEF drop_mode
  <2>3. /\ o \in Outcomes /\ Coherent(o.gs) /\ o.gs.mode = "native"
        /\ o.gs = gs \/ OnUnless(o.gs, o.cost)
    BY <1>0, Applied DEF Modes, Outcomes
  <2>4. gs' = o.gs /\ faults' \in 0..MaxFaults /\ OnUnless(gs', faults')
    BY <2>2, <2>3, Taken
  <2>5. Endorsed' /\ config' \in Files /\ preferred' \in Modes
    <3>1. CASE startup
      <4>1. save_video_preference("native") BY <1>5, <3>1 DEF drop_mode
      <4> QED BY <2>1, <4>1, StillEndorsed DEF Modes
    <3>2. CASE ~startup
      <4>1. UNCHANGED <<config, preferred>> BY <1>5, <3>2 DEF drop_mode
      <4> QED BY <2>1, <4>1 DEF TypeOK, Endorsed
    <3> QED BY <3>1, <3>2
  <2>6. TypeOK' BY <2>1, <2>3, <2>4, <2>5 DEF TypeOK
  <2>7. Shown' BY <2>1, <2>3, <2>4 DEF Shown
  <2> QED BY <2>4, <2>5, <2>6, <2>7
<1>6. CASE video_mode_menu
  <2>0. PICK m \in Modes :
           /\ choice' = m
           /\ \E o \in gs_ui_video_mode_apply(m) :
                 /\ Take(o)
                 /\ \/ ~o.ok /\ pc' = "menu" /\ UNCHANGED <<config, preferred>>
                    \/ o.ok /\ m = "native" /\ pc' = "menu" /\ save_video_preference("native")
                    \/ o.ok /\ m # "native" /\ pc' = "confirm" /\ UNCHANGED <<config, preferred>>
    BY <1>6 DEF video_mode_menu
  <2>1. PICK o \in gs_ui_video_mode_apply(m) :
           /\ choice' = m /\ Take(o)
           /\ \/ ~o.ok /\ pc' = "menu" /\ UNCHANGED <<config, preferred>>
              \/ o.ok /\ m = "native" /\ pc' = "menu" /\ save_video_preference("native")
              \/ o.ok /\ m # "native" /\ pc' = "confirm" /\ UNCHANGED <<config, preferred>>
    BY <2>0
  <2>2. pc = "menu" /\ UNCHANGED <<presented, legacy, startup, session>>
    BY <1>6 DEF video_mode_menu
  <2>3. /\ o \in Outcomes /\ Coherent(o.gs)
        /\ (o.ok => o.gs.mode = m) /\ (~o.ok => o.gs.mode = "native")
        /\ o.gs = gs \/ OnUnless(o.gs, o.cost)
    BY <1>0, Applied
  <2>4. gs' = o.gs /\ faults' \in 0..MaxFaults /\ OnUnless(gs', faults')
    BY <2>1, <2>3, Taken
  <2>5. Endorsed' /\ config' \in Files /\ preferred' \in Modes
    <3>1. CASE UNCHANGED <<config, preferred>>
      BY <2>2, <3>1 DEF TypeOK, Endorsed, session
    <3>2. CASE save_video_preference("native")
      BY <2>2, <3>2, StillEndorsed DEF Modes, session
    <3> QED BY <2>1, <3>1, <3>2
  <2>6. TypeOK' BY <2>1, <2>2, <2>3, <2>4, <2>5 DEF TypeOK
  <2>7. Shown' BY <2>1, <2>2, <2>3, <2>4 DEF Shown
  <2> QED BY <2>4, <2>5, <2>6, <2>7
<1>7. CASE ui_theme_menu
  <2>1. PICK w \in app_config_save(preferred) : config' = w.file BY <1>7 DEF ui_theme_menu
  <2>2. UNCHANGED <<gs, presented, legacy, preferred, pc, choice, startup, remaining,
                    session, faults>>
    BY <1>7 DEF ui_theme_menu
  <2>3. /\ w.file \in Files
        /\ w.file.video \in Alternate => w.file.video \in {preferred, config.video}
    BY Saved DEF TypeOK
  <2>4. TypeOK' BY <2>1, <2>2, <2>3 DEF TypeOK
  <2>5. Shown' BY <2>2 DEF Shown, session
  <2>6. Endorsed' BY <2>1, <2>2, <2>3 DEF Endorsed, session
  <2>7. OnUnless(gs', faults') BY <2>2
  <2> QED BY <2>4, <2>5, <2>6, <2>7
<1>8. CASE render
  <2>1. PICK o \in end_frame : Take(o) /\ presented' = o.ok BY <1>8 DEF render
  <2>2. /\ pc = "menu"
        /\ UNCHANGED <<config, legacy, preferred, pc, choice, startup, remaining, session>>
    BY <1>8 DEF render
  <2>3. /\ o \in Outcomes /\ Coherent(o.gs) /\ o.gs.mode \in {gs.mode, "native"}
        /\ o.gs = gs \/ OnUnless(o.gs, o.cost)
    BY <1>0, Drawn
  <2>4. gs' = o.gs /\ faults' \in 0..MaxFaults /\ OnUnless(gs', faults')
    BY <2>1, <2>3, Taken
  <2>5. presented' \in BOOLEAN BY <2>1, <2>3 DEF Outcomes
  <2>6. TypeOK' BY <2>2, <2>3, <2>4, <2>5 DEF TypeOK
  <2>7. Shown' BY <2>2, <2>3, <2>4 DEF Shown, session
  <2>8. Endorsed' BY <2>2 DEF Endorsed, session
  <2> QED BY <2>4, <2>6, <2>7, <2>8
<1>9. CASE PowerLoss
  <2>1. /\ config' \in {config} \cup UNION {Torn(m) : m \in Saving}
        /\ gs' = NativeDisplay /\ presented' = FALSE /\ preferred' = "native"
        /\ pc' = "load" /\ choice' = "native" /\ startup' = FALSE
        /\ endorsed' = (IF pc = "keep" THEN endorsed \cup {choice} ELSE endorsed)
        /\ faults' = 0 /\ UNCHANGED legacy
    BY <1>9 DEF PowerLoss
  <2>2. Coherent(gs') BY <2>1 DEF Coherent, NativeDisplay, Display, Modes
  <2>3. /\ Saving \subseteq Modes
        /\ \A m \in Saving \cap Alternate : m \in endorsed'
    BY <2>1, VideoConstants DEF TypeOK, Saving, Modes, Endorsed
  <2>4. config' \in Files /\ (config'.video \in Alternate => config'.video \in endorsed')
    <3>1. CASE config' = config BY <2>1, <3>1 DEF TypeOK, Endorsed
    <3>2. CASE \E m \in Saving : config' \in Torn(m)
      <4>1. PICK m \in Saving : config' \in Torn(m) BY <3>2
      <4>2. m \in Modes BY <2>3
      <4>3. config' \in Files /\ (config'.video \in Alternate => config'.video = m)
        BY <4>1, <4>2, TornFile
      <4> QED BY <2>3, <4>1, <4>3
    <3> QED BY <2>1, <3>1, <3>2
  <2>5. TypeOK'
    <3>1. faults' \in 0..MaxFaults BY <2>1, VideoConstants
    <3> QED BY <2>1, <2>2, <2>4, <3>1 DEF TypeOK, Modes
  <2>6. Shown' BY <2>1 DEF Shown, NativeDisplay
  <2>7. Endorsed' BY <2>1, <2>4, VideoConstants DEF Endorsed
  <2>8. OnUnless(gs', faults') BY <2>1 DEF OnUnless, NativeDisplay
  <2> QED BY <2>5, <2>6, <2>7, <2>8
<1>10. CASE UNCHANGED vars
  BY <1>10 DEF vars, session, TypeOK, Shown, Endorsed, OnUnless
<1> QED BY <1>1, <1>2, <1>3, <1>4, <1>5, <1>6, <1>7, <1>8, <1>9, <1>10 DEF Next

-----------------------------------------------------------------------------
(* The theorems.                                                           *)

\* The invariant, over every session and power loss.
THEOREM Invariance == Spec => []VInv
BY InitVideo, NextVideo, PTL DEF Spec

\* No time-out in gs_ui_video_mode_apply, restore_native_video or end_frame leaves the
\* GS in another mode than the program believes; the output is off only after two of
\* them in one session, in native mode (restore_native_video then gives up); and no
\* menu is drawn in a mode nobody confirmed since the start.
THEOREM Readable == Spec => []MenusReadable
<1>1. VInv => MenusReadable
  BY DEF VInv, TypeOK, Shown, Files, Coherent, OnUnless, MenusReadable, DisplayCoherent,
         MenusOnlyInConfirmedModes, OutputOn
<1> QED BY Invariance, <1>1, PTL

\* No failed or interrupted app_config_save, migration or save for another
\* setting's sake leaves an alternate mode in HDDMAN.CFG that was never confirmed.
THEOREM Confirmed == Spec => []SavedWasConfirmed
<1>1. VInv => SavedWasConfirmed BY DEF VInv, Endorsed, SavedWasConfirmed
<1> QED BY Invariance, <1>1, PTL
=============================================================================
