--------------------------- MODULE DiskStatusProofs ---------------------------
(***************************************************************************)
(* The status screen and the ANALOG lamp, for every depth of the stack,    *)
(* every number of open scopes and every divisor.                          *)
(*                                                                         *)
(* The program keeps three counters where callers have one list of scopes  *)
(* and brackets.  Laid says how they agree: the r-th scope of the list is  *)
(* the one with slot r of write_intent_stack, and scopes beyond the stack  *)
(* count in status_overflow_depth alone.                                   *)
(***************************************************************************)
EXTENDS DiskStatus, TLAPS, SequenceTheorems

-----------------------------------------------------------------------------
(* The invariant.                                                          *)

Kinds == {"plain", "armed", "pad"}

TypeOK ==
    /\ open \in Seq(Kinds) /\ Len(open) <= MaxOpen
    /\ status_depth \in 0..StackDepth /\ status_overflow_depth \in Nat
    /\ write_intent \in [1..StackDepth -> BOOLEAN] /\ clobbered \in BOOLEAN
    /\ reads \in 0..(ReadDivisor - 1) /\ streams \in 0..(VerifyDivisor - 1)
    /\ shown \in [warning : BOOLEAN, final : BOOLEAN] /\ ended \in BOOLEAN
    /\ activity_depth \in Nat /\ activity_supported \in BOOLEAN
    /\ mode_control_engaged \in BOOLEAN /\ refused \in BOOLEAN
    /\ phase \in {"start", "run", "leave"}

\* at lists the k scopes among the entries s, in the order they were opened.
Lists(at, s, k) ==
    /\ at \in [1..k -> 1..Len(s)]
    /\ \A r \in 1..k : r <= at[r] /\ s[at[r]] # "pad"
    /\ \A q, r \in 1..k : q < r => at[q] < at[r]
    /\ \A i \in 1..Len(s) : s[i] # "pad" => \E r \in 1..k : at[r] = i

Scopes == status_depth + status_overflow_depth

\* The slot of a scope that nobody took over has its intent.
Slotted(at) ==
    \A r \in 1..status_depth :
        ~(clobbered /\ r = StackDepth) => write_intent[r] = (open[at[r]] = "armed")

Laid == \E at \in [1..Scopes -> 1..Len(open)] : Lists(at, open, Scopes) /\ Slotted(at)

\* The stack overflows at its last slot, which is taken over from then on.
Overflow ==
    /\ status_overflow_depth > 0 => clobbered
    /\ clobbered => status_depth = StackDepth

\* Every scope on the stack and every bracket counts for the lamp.
Counted == phase # "leave" => activity_depth = Len(open) - status_overflow_depth

\* The lamp follows the first and the last of them, and a pad that was once under
\* control is given back.
Lamp ==
    /\ phase = "start" => open = <<>> /\ ~activity_supported
    /\ phase = "run" /\ ~refused => mode_control_engaged
    /\ PadModeRight

\* A frame is drawn before either counter reaches its divisor.
Quiet == silent = reads + streams

SInv == TypeOK /\ Laid /\ Overflow /\ Counted /\ Lamp /\ Quiet /\ FinalEventShown

-----------------------------------------------------------------------------
(* Lemmas about the list of scopes.                                        *)

\* There are no more scopes than entries.
LEMMA FewScopes ==
  ASSUME NEW s \in Seq(Kinds), NEW k \in Nat, NEW at, Lists(at, s, k)
  PROVE  k <= Len(s)
<1>1. CASE k = 0 BY <1>1
<1>2. CASE k > 0
  <2>1. k \in 1..k BY <1>2
  <2>2. k <= at[k] /\ at[k] \in 1..Len(s) BY <2>1 DEF Lists
  <2> QED BY <2>2
<1> QED BY <1>1, <1>2

\* The scope behind which there are only brackets is the last of the list.
LEMMA LastScope ==
  ASSUME NEW s \in Seq(Kinds), NEW k \in Nat, NEW at, Lists(at, s, k),
         NEW i \in 1..Len(s), s[i] # "pad", \A j \in 1..Len(s) : s[j] # "pad" => j <= i
  PROVE  k > 0 /\ at[k] = i
<1>1. PICK r \in 1..k : at[r] = i BY DEF Lists
<1>2. k > 0 /\ k \in 1..k BY <1>1
<1>3. at[k] \in 1..Len(s) /\ at[k] <= i BY <1>2 DEF Lists
<1>4. CASE r < k
  <2>1. at[r] < at[k] BY <1>2, <1>4 DEF Lists
  <2> QED BY <1>1, <1>3, <2>1
<1> QED BY <1>1, <1>2, <1>4

\* An entry more.
LEMMA Grow ==
  ASSUME NEW s \in Seq(Kinds), NEW k \in Nat, NEW at, Lists(at, s, k), NEW kind \in Kinds
  PROVE  /\ Append(s, kind) \in Seq(Kinds) /\ Append(s, kind) # <<>>
         /\ Len(Append(s, kind)) = Len(s) + 1
         /\ kind = "pad" => Lists(at, Append(s, kind), k)
         /\ kind # "pad" =>
               Lists([r \in 1..(k + 1) |-> IF r = k + 1 THEN Len(s) + 1 ELSE at[r]],
                     Append(s, kind), k + 1)
<1> DEFINE t == Append(s, kind)
<1>1. /\ t \in Seq(Kinds) /\ Len(t) = Len(s) + 1 /\ t[Len(s) + 1] = kind /\ Len(s) \in Nat
      /\ \A i \in 1..Len(s) : t[i] = s[i]
  OBVIOUS
<1>2. t # <<>> BY <1>1
<1> HIDE DEF t
<1>3. ASSUME kind = "pad" PROVE Lists(at, t, k)
  <2>1. \A r \in 1..k : at[r] \in 1..Len(s) /\ at[r] \in 1..Len(t) BY <1>1 DEF Lists
  <2>2. at \in [1..k -> 1..Len(t)] BY <2>1 DEF Lists
  <2>3. \A r \in 1..k : r <= at[r] /\ t[at[r]] # "pad" BY <1>1, <2>1 DEF Lists
  <2>4. \A i \in 1..Len(t) : t[i] # "pad" => i \in 1..Len(s) /\ s[i] # "pad"
    BY <1>1, <1>3
  <2> QED BY <2>2, <2>3, <2>4 DEF Lists
<1>4. ASSUME kind # "pad"
      PROVE  Lists([r \in 1..(k + 1) |-> IF r = k + 1 THEN Len(s) + 1 ELSE at[r]], t, k + 1)
  <2> DEFINE n == [r \in 1..(k + 1) |-> IF r = k + 1 THEN Len(s) + 1 ELSE at[r]]
  <2>1. /\ \A r \in 1..k : n[r] = at[r] /\ at[r] \in 1..Len(s) /\ r <= at[r]
        /\ n[k + 1] = Len(s) + 1
    BY DEF Lists
  <2>2. n \in [1..(k + 1) -> 1..Len(t)]
    <3>1. 1..(k + 1) = 1..k \cup {k + 1} OBVIOUS
    <3>2. ASSUME NEW r \in 1..k PROVE at[r] \in 1..Len(t)
      <4>1. at[r] \in 1..Len(s) BY <2>1
      <4> QED BY ONLY <1>1, <4>1
    <3>3. Len(s) + 1 \in 1..Len(t) BY <1>1
    <3> QED BY <3>1, <3>2, <3>3
  <2> HIDE DEF n
  <2>3. k <= Len(s) BY FewScopes
  <2>4. ASSUME NEW r \in 1..(k + 1) PROVE r <= n[r] /\ t[n[r]] # "pad"
    <3>1. CASE r = k + 1 BY <1>1, <1>4, <2>1, <2>3, <3>1
    <3>2. CASE r \in 1..k BY <1>1, <2>1, <3>2 DEF Lists
    <3> QED BY <3>1, <3>2
  <2>5. ASSUME NEW q \in 1..(k + 1), NEW r \in 1..(k + 1), q < r PROVE n[q] < n[r]
    <3>1. q \in 1..k /\ n[q] = at[q] /\ at[q] \in 1..Len(s) BY <2>1, <2>5
    <3>2. CASE r = k + 1 BY <1>1, <2>1, <3>1, <3>2
    <3>3. CASE r \in 1..k BY <2>1, <2>5, <3>1, <3>3 DEF Lists
    <3> QED BY <3>2, <3>3
  <2>6. ASSUME NEW i \in 1..Len(t), t[i] # "pad" PROVE \E r \in 1..(k + 1) : n[r] = i
    <3>1. CASE i = Len(s) + 1 BY <2>1, <3>1
    <3>2. CASE i \in 1..Len(s)
      <4>1. PICK r \in 1..k : at[r] = i BY <1>1, <2>6, <3>2 DEF Lists
      <4> QED BY <2>1, <4>1
    <3> QED BY <1>1, <3>1, <3>2
  <2> QED BY <2>2, <2>4, <2>5, <2>6 DEF Lists, n
<1> QED BY <1>1, <1>2, <1>3, <1>4 DEF t

\* An entry less.
LEMMA Shrink ==
  ASSUME NEW s \in Seq(Kinds), NEW k \in Nat, NEW at, Lists(at, s, k), s # <<>>
  PROVE  LET t == SubSeq(s, 1, Len(s) - 1)
         IN  /\ t \in Seq(Kinds) /\ Len(t) = Len(s) - 1 /\ Len(s) \in Nat \ {0}
             /\ \A i \in 1..Len(t) : t[i] = s[i]
             /\ s[Len(s)] = "pad" => Lists(at, t, k)
             /\ s[Len(s)] # "pad" => /\ k > 0 /\ at[k] = Len(s)
                                     /\ Lists([r \in 1..(k - 1) |-> at[r]], t, k - 1)
<1> DEFINE t == SubSeq(s, 1, Len(s) - 1)
<1>1. Len(s) \in Nat \ {0} OBVIOUS
<1>2. t \in Seq(Kinds) /\ Len(t) = Len(s) - 1 /\ \A i \in 1..Len(t) : t[i] = s[i]
  <2> DEFINE m == Len(s) - 1
  <2>1. 1 \in Int /\ m \in Int /\ m \in Nat /\ \A i \in 1..m : s[i] \in Kinds BY <1>1
  <2> HIDE DEF m
  <2>2. /\ SubSeq(s, 1, m) \in Seq(Kinds)
        /\ Len(SubSeq(s, 1, m)) = IF 1 <= m THEN m - 1 + 1 ELSE 0
        /\ \A i \in 1..(m - 1 + 1) : SubSeq(s, 1, m)[i] = s[1 + i - 1]
    BY <2>1, SubSeqProperties
  <2>3. Len(SubSeq(s, 1, m)) = m BY <2>1, <2>2
  <2>4. \A i \in 1..m : i \in 1..(m - 1 + 1) /\ 1 + i - 1 = i BY <2>1
  <2>5. \A i \in 1..m : SubSeq(s, 1, m)[i] = s[i] BY <2>2, <2>4
  <2> QED BY <2>2, <2>3, <2>5 DEF m
<1> HIDE DEF t
<1>3. ASSUME s[Len(s)] = "pad" PROVE Lists(at, t, k)
  <2>1. \A r \in 1..k : at[r] \in 1..Len(s) /\ at[r] # Len(s) /\ at[r] \in 1..Len(t)
    BY <1>1, <1>2, <1>3 DEF Lists
  <2>2. at \in [1..k -> 1..Len(t)] BY <2>1 DEF Lists
  <2>3. \A r \in 1..k : r <= at[r] /\ t[at[r]] # "pad" BY <1>2, <2>1 DEF Lists
  <2>4. \A i \in 1..Len(t) : i \in 1..Len(s) /\ t[i] = s[i] BY <1>1, <1>2
  <2> QED BY <2>2, <2>3, <2>4 DEF Lists
<1>4. ASSUME s[Len(s)] # "pad"
      PROVE  k > 0 /\ at[k] = Len(s) /\ Lists([r \in 1..(k - 1) |-> at[r]], t, k - 1)
  <2> DEFINE n == [r \in 1..(k - 1) |-> at[r]]
  <2>1. k > 0 /\ at[k] = Len(s)
    <3>1. Len(s) \in 1..Len(s) /\ \A j \in 1..Len(s) : s[j] # "pad" => j <= Len(s) BY <1>1
    <3> QED BY <1>4, <3>1, LastScope
  <2>2. \A r \in 1..(k - 1) : /\ r \in 1..k /\ n[r] = at[r] /\ at[r] \in 1..Len(s)
                              /\ at[r] < Len(s) /\ at[r] \in 1..Len(t)
    <3> SUFFICES ASSUME NEW r \in 1..(k - 1)
                 PROVE  /\ r \in 1..k /\ n[r] = at[r] /\ at[r] \in 1..Len(s)
                        /\ at[r] < Len(s) /\ at[r] \in 1..Len(t)
      OBVIOUS
    <3>1. r \in 1..k /\ k \in 1..k /\ r < k BY <2>1
    <3>2. at[r] < at[k] /\ at[r] \in 1..Len(s) BY <3>1 DEF Lists
    <3> QED BY <1>1, <1>2, <2>1, <3>1, <3>2
  <2>3. n \in [1..(k - 1) -> 1..Len(t)] BY <2>2
  <2> HIDE DEF n
  <2>4. \A r \in 1..(k - 1) : r <= n[r] /\ t[n[r]] # "pad" BY <1>2, <2>2 DEF Lists
  <2>5. \A q, r \in 1..(k - 1) : q < r => n[q] < n[r] BY <2>2 DEF Lists
  <2>6. ASSUME NEW i \in 1..Len(t), t[i] # "pad" PROVE \E r \in 1..(k - 1) : n[r] = i
    <3>1. i \in 1..Len(s) /\ i # Len(s) /\ s[i] # "pad" BY <1>1, <1>2, <2>6
    <3>2. PICK r \in 1..k : at[r] = i BY <3>1 DEF Lists
    <3>3. r # k BY <2>1, <3>1, <3>2
    <3>4. r \in 1..(k - 1) BY <3>2, <3>3
    <3> QED BY <2>2, <3>2, <3>4
  <2> QED BY <2>1, <2>3, <2>4, <2>5, <2>6 DEF Lists, n
<1> QED BY <1>1, <1>2, <1>3, <1>4 DEF t

\* The lamp's counter is zero exactly while nothing is open.
LEMMA NothingOpen ==
  ASSUME SInv, phase # "leave"
  PROVE  activity_depth = 0 <=> open = <<>>
<1>1. PICK at : Lists(at, open, Scopes) BY DEF SInv, Laid
<1>2. Scopes \in Nat /\ open \in Seq(Kinds) BY StatusConstants DEF SInv, TypeOK, Scopes
<1>3. Scopes <= Len(open) BY <1>1, <1>2, FewScopes
<1>4. Len(open) = 0 <=> open = <<>> BY <1>2
<1> QED BY <1>2, <1>3, <1>4, StatusConstants DEF SInv, TypeOK, Overflow, Counted, Scopes

-----------------------------------------------------------------------------
(* Lemmas about the lamp.                                                  *)

\* A command that reports success was carried out.
LEMMA Obeyed ==
  ASSUME NEW mode, NEW lock, NEW r \in set_pad_main_mode(mode, lock)
  PROVE  r.ok \in BOOLEAN /\ (r.ok => r.pad = [mode |-> mode, locked |-> lock])
<1>1. CASE r = [pad |-> [mode |-> mode, locked |-> lock], ok |-> TRUE] BY <1>1
<1>2. CASE r = [pad |-> pad, ok |-> FALSE] BY <1>2
<1>3. CASE r = [pad |-> [mode |-> mode, locked |-> lock], ok |-> FALSE] BY <1>3
<1> QED BY <1>1, <1>2, <1>3, Zenon DEF set_pad_main_mode

\* Whatever is opened lights it.
LEMMA LampOn ==
  ASSUME SInv, phase = "run", phase' = "run", pad_activity_begin, open' # <<>>
  PROVE  Lamp' /\ {activity_supported', mode_control_engaged', refused'} \subseteq BOOLEAN
<1>1. \A r \in set_pad_main_mode("analog", TRUE) :
         r.ok \in BOOLEAN /\ (r.ok => r.pad = [mode |-> "analog", locked |-> TRUE])
  BY Obeyed, Zenon
<1>2. UNCHANGED <<mode_control_engaged, refused>> BY DEF pad_activity_begin
<1>3. /\ activity_supported' \in BOOLEAN
      /\ activity_supported' => pad' = [mode |-> "analog", locked |-> TRUE]
  <2>1. CASE activity_supported /\ activity_depth = 0
    BY <1>1, <2>1 DEF pad_activity_begin
  <2>2. CASE ~(activity_supported /\ activity_depth = 0)
    <3>1. UNCHANGED <<pad, activity_supported>> BY <2>2 DEF pad_activity_begin
    <3>2. activity_supported => open # <<>> BY <2>2, NothingOpen
    <3> QED BY <3>1, <3>2 DEF SInv, TypeOK, Lamp, PadModeRight, LampTracksActivity
  <2> QED BY <2>1, <2>2
<1> QED
  BY <1>2, <1>3 DEF SInv, TypeOK, Lamp, PadModeRight, LampTracksActivity, InitialModeRestored

\* Closing the last of them puts it out.
LEMMA LampOff ==
  ASSUME SInv, phase = "run", phase' = "run", pad_activity_end, open # <<>>,
         activity_depth = 1 <=> open' = <<>>
  PROVE  Lamp' /\ {activity_supported', mode_control_engaged', refused'} \subseteq BOOLEAN
<1>1. \A r \in set_pad_main_mode("digital", TRUE) :
         r.ok \in BOOLEAN /\ (r.ok => r.pad = [mode |-> "digital", locked |-> TRUE])
  BY Obeyed, Zenon
<1>2. UNCHANGED <<mode_control_engaged, refused>> BY DEF pad_activity_end
<1>3. /\ activity_supported' \in BOOLEAN
      /\ activity_supported' =>
            pad' = [mode |-> IF open' = <<>> THEN "digital" ELSE "analog", locked |-> TRUE]
  <2>1. CASE activity_supported /\ activity_depth = 1
    BY <1>1, <2>1 DEF pad_activity_end
  <2>2. CASE ~(activity_supported /\ activity_depth = 1)
    <3>1. UNCHANGED <<pad, activity_supported>> BY <2>2 DEF pad_activity_end
    <3>2. activity_supported => open' # <<>> BY <2>2
    <3> QED BY <3>1, <3>2 DEF SInv, TypeOK, Lamp, PadModeRight, LampTracksActivity
  <2> QED BY <2>1, <2>2
<1> QED
  BY <1>2, <1>3 DEF SInv, TypeOK, Lamp, PadModeRight, LampTracksActivity, InitialModeRestored

-----------------------------------------------------------------------------
(* The steps.                                                              *)

\* At the start nothing is open and the pad is the user's.
LEMMA InitStatus == Init => SInv
<1> SUFFICES ASSUME Init PROVE SInv
  OBVIOUS
<1>1. Overflow /\ Counted /\ Quiet /\ FinalEventShown
  BY DEF Init, Overflow, Counted, Quiet, FinalEventShown
<1>2. TypeOK
  <2>1. open \in Seq(Kinds) /\ Len(open) <= MaxOpen
    BY StatusConstants DEF Init, Kinds
  <2>2. /\ write_intent \in [1..StackDepth -> BOOLEAN]
        /\ shown \in [warning : BOOLEAN, final : BOOLEAN]
    BY DEF Init
  <2>3. /\ status_depth \in 0..StackDepth /\ status_overflow_depth \in Nat
        /\ reads \in 0..(ReadDivisor - 1) /\ streams \in 0..(VerifyDivisor - 1)
        /\ activity_depth \in Nat
    BY StatusConstants DEF Init
  <2> QED BY <2>1, <2>2, <2>3, Zenon DEF Init, TypeOK
<1>3. Lamp
  BY DEF Init, Lamp, PadModeRight, LampTracksActivity, InitialModeRestored
<1>4. Laid
  <2> DEFINE at == [r \in 1..Scopes |-> 0]
  <2>1. 1..Scopes = {} /\ 1..status_depth = {} /\ 1..Len(open) = {} BY DEF Init, Scopes
  <2>2. at \in [1..Scopes -> 1..Len(open)] BY <2>1
  <2>3. Lists(at, open, Scopes) /\ Slotted(at) BY <2>1, <2>2 DEF Lists, Slotted
  <2> QED BY <2>2, <2>3 DEF Laid
<1> QED BY <1>1, <1>2, <1>3, <1>4 DEF SInv

\* The scopes and the lamp stay as they are when a step draws, or counts, or neither.
LEMMA OnlyFrames ==
  ASSUME SInv, UNCHANGED <<open, status, lamp, inputs>>
  PROVE  /\ Laid' /\ Overflow' /\ Counted' /\ Lamp'
         /\ TypeOK' <=> /\ reads' \in 0..(ReadDivisor - 1)
                        /\ streams' \in 0..(VerifyDivisor - 1)
                        /\ shown' \in [warning : BOOLEAN, final : BOOLEAN]
                        /\ ended' \in BOOLEAN
<1> USE DEF SInv, status, lamp, inputs
<1>1. Laid' BY ZenonT(40) DEF Laid, Lists, Slotted, Scopes
<1>2. Overflow' /\ Counted' BY DEF Overflow, Counted
<1>3. Lamp' BY DEF Lamp, PadModeRight, LampTracksActivity, InitialModeRestored
<1>4. TypeOK' <=> /\ reads' \in 0..(ReadDivisor - 1) /\ streams' \in 0..(VerifyDivisor - 1)
                  /\ shown' \in [warning : BOOLEAN, final : BOOLEAN] /\ ended' \in BOOLEAN
  BY DEF TypeOK
<1> QED BY <1>1, <1>2, <1>3, <1>4

\* The warning of the innermost slot is on or off.
LEMMA TopType == ASSUME TypeOK PROVE Top \in BOOLEAN
<1>1. CASE status_depth = 0 BY <1>1 DEF Top
<1>2. CASE status_depth # 0
  <2>1. status_depth \in 1..StackDepth BY <1>2, StatusConstants DEF TypeOK
  <2>2. write_intent[status_depth] \in BOOLEAN BY <2>1 DEF TypeOK
  <2> QED BY <1>2, <2>2, Zenon DEF Top
<1> QED BY <1>1, <1>2

\* What a frame leaves of the counters.
LEMMA Rendered ==
  ASSUME NEW intent \in BOOLEAN, NEW writes \in BOOLEAN, NEW final \in BOOLEAN,
         render(intent, writes, final)
  PROVE  /\ reads' \in 0..(ReadDivisor - 1) /\ streams' \in 0..(VerifyDivisor - 1)
         /\ shown' \in [warning : BOOLEAN, final : BOOLEAN]
         /\ Quiet' /\ shown'.final = final
BY StatusConstants DEF render, Quiet

\* The frames of disk_status_io and disk_status_phase_at.
LEMMA FrameSteps ==
  ASSUME SInv,
         \/ disk_status_phase_at \/ disk_status_read
         \/ \E b \in BOOLEAN : disk_status_event(b)
         \/ \E b, f \in BOOLEAN : disk_status_stream(b, f)
  PROVE  SInv'
<1>1. Top \in BOOLEAN BY TopType DEF SInv
<1>2. CASE disk_status_phase_at
  <2>1. UNCHANGED <<open, status, lamp, inputs>> /\ ended' = FALSE /\ render(Top, FALSE, FALSE)
    BY <1>2 DEF disk_status_phase_at
  <2> QED BY <1>1, <2>1, OnlyFrames, Rendered DEF SInv, FinalEventShown
<1>3. CASE disk_status_read
  <2>1. UNCHANGED <<open, status, lamp, inputs>> /\ ended' = FALSE
    BY <1>3 DEF disk_status_read
  <2>2. CASE reads + 1 < ReadDivisor
    <3>1. reads' = reads + 1 /\ silent' = silent + 1 /\ UNCHANGED <<streams, shown>>
      BY <1>3, <2>2 DEF disk_status_read
    <3>2. reads' \in 0..(ReadDivisor - 1) /\ Quiet'
      BY <2>2, <3>1, StatusConstants DEF SInv, TypeOK, Quiet
    <3> QED BY <2>1, <3>1, <3>2, OnlyFrames DEF SInv, TypeOK, FinalEventShown
  <2>3. CASE ~(reads + 1 < ReadDivisor)
    <3>1. render(Top, FALSE, FALSE) BY <1>3, <2>3 DEF disk_status_read
    <3> QED BY <1>1, <2>1, <3>1, OnlyFrames, Rendered DEF SInv, FinalEventShown
  <2> QED BY <2>2, <2>3
<1>4. ASSUME NEW b \in BOOLEAN, disk_status_event(b) PROVE SInv'
  <2>1. UNCHANGED <<open, status, lamp, inputs>> /\ ended' = FALSE /\ render(Top, b, FALSE)
    BY <1>4 DEF disk_status_event
  <2> QED BY <1>1, <2>1, OnlyFrames, Rendered DEF SInv, FinalEventShown
<1>5. ASSUME NEW b \in BOOLEAN, NEW f \in BOOLEAN, disk_status_stream(b, f) PROVE SInv'
  <2> DEFINE coalesced == ~f /\ streams + 1 < IF b THEN WriteDivisor ELSE VerifyDivisor
  <2>1. UNCHANGED <<open, status, lamp, inputs>> /\ ended' = f
    BY <1>5 DEF disk_status_stream
  <2>2. CASE coalesced
    <3>1. streams' = streams + 1 /\ silent' = silent + 1 /\ UNCHANGED <<reads, shown>>
      BY <1>5, <2>2 DEF disk_status_stream
    <3>2. streams' \in 0..(VerifyDivisor - 1) /\ Quiet'
      BY <2>2, <3>1, StatusConstants DEF SInv, TypeOK, Quiet
    <3> QED BY <2>1, <2>2, <3>1, <3>2, OnlyFrames DEF SInv, TypeOK, FinalEventShown
  <2>3. CASE ~coalesced
    <3>1. render(Top, b, f) BY <1>5, <2>3 DEF disk_status_stream
    <3>2. ended' => shown'.final BY <1>1, <2>1, <3>1, Rendered
    <3> QED BY <1>1, <2>1, <3>1, <3>2, OnlyFrames, Rendered DEF SInv, FinalEventShown
  <2> QED BY <2>2, <2>3
<1> QED BY <1>2, <1>3, <1>4, <1>5

\* The list and the slots go on together when the slots that stay in use and the
\* entries they are for do.
LEMMA StaySlotted ==
  ASSUME SInv, NEW at, Lists(at, open, Scopes), Slotted(at), NEW n,
         status_depth' \in 0..StackDepth, clobbered => clobbered',
         \A r \in 1..status_depth' : ~(clobbered' /\ r = StackDepth) =>
             \/ /\ r \in 1..status_depth
                /\ write_intent'[r] = write_intent[r] /\ open'[n[r]] = open[at[r]]
             \/ write_intent'[r] = (open'[n[r]] = "armed")
  PROVE  Slotted(n)'
<1> SUFFICES ASSUME NEW r \in 1..status_depth', ~(clobbered' /\ r = StackDepth)
             PROVE  write_intent'[r] = (open'[n[r]] = "armed")
  BY DEF Slotted
<1>1. CASE /\ r \in 1..status_depth
           /\ write_intent'[r] = write_intent[r] /\ open'[n[r]] = open[at[r]]
  <2>1. ~(clobbered /\ r = StackDepth) OBVIOUS
  <2>2. write_intent[r] = (open[at[r]] = "armed") BY <1>1, <2>1, Zenon DEF Slotted
  <2> QED BY <1>1, <2>2, Zenon
<1> QED BY <1>1

\* A caller's own bracket.
LEMMA BracketSteps ==
  ASSUME SInv, bracket_begin \/ bracket_end
  PROVE  SInv'
<1> PICK at \in [1..Scopes -> 1..Len(open)] : Lists(at, open, Scopes) /\ Slotted(at)
  BY DEF SInv, Laid
<1>1. /\ Scopes \in Nat /\ open \in Seq(Kinds) /\ Len(open) \in Nat /\ Scopes <= Len(open)
      /\ {status_depth, status_overflow_depth, activity_depth} \subseteq Nat
      /\ status_depth <= StackDepth
  BY FewScopes, StatusConstants DEF SInv, TypeOK, Scopes
<1>2. UNCHANGED <<status, frames, requested, inputs>> /\ phase = "run" /\ phase' = "run"
  BY DEF bracket_begin, bracket_end, inputs
<1>3. Scopes' = Scopes BY <1>2 DEF Scopes, status
<1>4. Overflow' /\ Quiet' /\ FinalEventShown'
  BY <1>2 DEF SInv, Overflow, Quiet, FinalEventShown, status, frames
<1>5. CASE bracket_begin
  <2>1. open' = Append(open, "pad") /\ Len(open) < MaxOpen /\ pad_activity_begin
    BY <1>5 DEF bracket_begin
  <2>2. /\ open' \in Seq(Kinds) /\ open' # <<>> /\ Len(open') = Len(open) + 1
        /\ Lists(at, open', Scopes)
    BY <1>1, <2>1, Grow DEF Kinds
  <2>3. Lamp' /\ {activity_supported', mode_control_engaged', refused'} \subseteq BOOLEAN
    BY <1>2, <2>1, <2>2, LampOn
  <2>4. activity_depth' = activity_depth + 1 BY <2>1 DEF pad_activity_begin
  <2>5. Counted' BY <1>1, <1>2, <2>2, <2>4 DEF SInv, Counted, status
  <2>6. TypeOK'
    <3>1. Len(open') <= MaxOpen /\ activity_depth' \in Nat
      BY <1>1, <2>1, <2>2, <2>4, StatusConstants
    <3> QED BY <1>2, <2>2, <2>3, <3>1 DEF SInv, TypeOK, status, frames
  <2>7. \A r \in 1..Scopes : open'[at[r]] = open[at[r]]
    BY <1>1, <2>1 DEF Lists
  <2>8. Slotted(at)'
    <3>1. \A r \in 1..status_depth : r \in 1..Scopes BY <1>1 DEF Scopes
    <3>2. \A r \in 1..status_depth : open'[at[r]] = open[at[r]] BY <2>7, <3>1
    <3>3. UNCHANGED <<status_depth, write_intent, clobbered>> BY <1>2 DEF status
    <3> QED BY <3>2, <3>3, Zenon DEF Slotted
  <2>9. Laid' BY <1>3, <2>2, <2>8 DEF Laid, Lists
  <2> QED BY <1>4, <2>3, <2>5, <2>6, <2>9 DEF SInv
<1>6. CASE bracket_end
  <2>1. /\ open # <<>> /\ open[Len(open)] = "pad" /\ pad_activity_end
        /\ open' = SubSeq(open, 1, Len(open) - 1)
    BY <1>6 DEF bracket_end
  <2>2. /\ open' \in Seq(Kinds) /\ Len(open') = Len(open) - 1
        /\ \A i \in 1..Len(open') : open'[i] = open[i]
        /\ Lists(at, open', Scopes)
    BY <1>1, <2>1, Shrink
  <2>3. Scopes <= Len(open') BY <1>1, <2>2, FewScopes
  <2>4. activity_depth = Len(open) - status_overflow_depth BY <1>2 DEF SInv, Counted
  <2>5. status_overflow_depth > 0 => status_depth > 0
    BY StatusConstants DEF SInv, Overflow
  <2>6. activity_depth > 0 /\ (activity_depth = 1 <=> Len(open') = 0)
    BY <1>1, <2>2, <2>3, <2>4, <2>5 DEF Scopes
  <2>7. Len(open') = 0 <=> open' = <<>> BY <2>2
  <2>8. Lamp' /\ {activity_supported', mode_control_engaged', refused'} \subseteq BOOLEAN
    BY <1>2, <2>1, <2>6, <2>7, LampOff
  <2>9. activity_depth' = activity_depth - 1 BY <1>1, <2>1, <2>6 DEF pad_activity_end
  <2>10. Counted' BY <1>1, <1>2, <2>2, <2>4, <2>9 DEF Counted, status
  <2>11. TypeOK'
    <3>1. Len(open') <= MaxOpen /\ activity_depth' \in Nat
      BY <1>1, <2>2, <2>6, <2>9, StatusConstants DEF SInv, TypeOK
    <3> QED BY <1>2, <2>2, <2>8, <3>1 DEF SInv, TypeOK, status, frames
  <2>12. \A r \in 1..Scopes : open'[at[r]] = open[at[r]]
    BY <2>2 DEF Lists
  <2>13. Slotted(at)'
    <3>1. \A r \in 1..status_depth : r \in 1..Scopes BY <1>1 DEF Scopes
    <3>2. \A r \in 1..status_depth : open'[at[r]] = open[at[r]] BY <2>12, <3>1
    <3>3. UNCHANGED <<status_depth, write_intent, clobbered>> BY <1>2 DEF status
    <3> QED BY <3>2, <3>3, Zenon DEF Slotted
  <2>14. Laid' BY <1>3, <2>2, <2>13 DEF Laid, Lists
  <2> QED BY <1>4, <2>8, <2>10, <2>11, <2>14 DEF SInv
<1> QED BY <1>5, <1>6

\* A scope is opened, on the stack or beyond it.
LEMMA BeginStep ==
  ASSUME SInv, disk_status_begin_at
  PROVE  SInv'
<1> PICK at \in [1..Scopes -> 1..Len(open)] : Lists(at, open, Scopes) /\ Slotted(at)
  BY DEF SInv, Laid
<1>0. PICK n : n = [r \in 1..(Scopes + 1) |-> IF r = Scopes + 1 THEN Len(open) + 1 ELSE at[r]]
  OBVIOUS
<1>1. /\ Scopes \in Nat /\ open \in Seq(Kinds) /\ Len(open) \in Nat /\ Scopes <= Len(open)
      /\ {status_depth, status_overflow_depth, activity_depth} \subseteq Nat
      /\ status_depth <= StackDepth /\ StackDepth \in Nat \ {0}
      /\ Scopes = status_depth + status_overflow_depth
  BY FewScopes, StatusConstants DEF SInv, TypeOK, Scopes
<1>2. /\ phase = "run" /\ phase' = "run" /\ initial_mode' = initial_mode
      /\ open' = Append(open, "plain") /\ Len(open) < MaxOpen
      /\ ended' = FALSE /\ render(FALSE, FALSE, FALSE)
      /\ write_intent' = [write_intent EXCEPT ![status_depth'] = FALSE]
  BY DEF disk_status_begin_at, inputs
<1>3. /\ open' \in Seq(Kinds) /\ open' # <<>> /\ Len(open') = Len(open) + 1
      /\ Lists(n, open', Scopes + 1)
  BY <1>0, <1>1, <1>2, Grow, ZenonT(40) DEF Kinds
<1>4. Quiet' /\ FinalEventShown' BY <1>2, Rendered DEF FinalEventShown
<1>5. /\ \A r \in 1..Scopes : n[r] = at[r] /\ open'[at[r]] = open[at[r]]
      /\ n[Scopes + 1] = Len(open) + 1 /\ open'[Len(open) + 1] = "plain"
  BY <1>0, <1>1, <1>2 DEF Lists
<1>6. n \in [1..(Scopes + 1) -> 1..Len(open')] BY <1>3 DEF Lists
<1>7. write_intent \in [1..StackDepth -> BOOLEAN] BY DEF SInv, TypeOK
<1>8. ASSUME /\ Scopes' = Scopes + 1 /\ Slotted(n)' /\ Overflow' /\ Counted' /\ Lamp'
             /\ {activity_supported', mode_control_engaged', refused', clobbered'} \subseteq BOOLEAN
             /\ status_depth' \in 0..StackDepth
             /\ status_overflow_depth' \in Nat /\ activity_depth' \in Nat
      PROVE  SInv'
  <2>1. Laid' BY <1>3, <1>6, <1>8 DEF Laid
  <2>2. write_intent' \in [1..StackDepth -> BOOLEAN] BY <1>2, <1>7
  <2>3. Len(open') <= MaxOpen BY <1>1, <1>2, <1>3, StatusConstants
  <2>4. TypeOK' BY <1>2, <1>3, <1>8, <2>2, <2>3, Rendered DEF TypeOK
  <2> QED BY <1>4, <1>8, <2>1, <2>4 DEF SInv
<1>9. CASE status_depth < StackDepth
  <2>1. /\ pad_activity_begin /\ status_depth' = status_depth + 1
        /\ UNCHANGED <<status_overflow_depth, clobbered>>
    BY <1>9 DEF disk_status_begin_at
  <2>2. status_overflow_depth = 0 /\ ~clobbered
    BY <1>1, <1>9 DEF SInv, Overflow
  <2>3. Scopes = status_depth /\ Scopes' = Scopes + 1 BY <1>1, <2>1, <2>2 DEF Scopes
  <2>4. Overflow' BY <2>1, <2>2 DEF Overflow
  <2>5. Lamp' /\ {activity_supported', mode_control_engaged', refused'} \subseteq BOOLEAN
    BY <1>2, <1>3, <2>1, LampOn
  <2>6. activity_depth' = activity_depth + 1 BY <2>1 DEF pad_activity_begin
  <2>7. Counted' BY <1>1, <1>2, <1>3, <2>1, <2>6 DEF SInv, Counted
  <2>8. Slotted(n)'
    <3>1. status_depth' \in 0..StackDepth BY <1>1, <1>9, <2>1
    <3>2. ASSUME NEW r \in 1..status_depth'
          PROVE  \/ /\ r \in 1..status_depth
                    /\ write_intent'[r] = write_intent[r] /\ open'[n[r]] = open[at[r]]
                 \/ write_intent'[r] = (open'[n[r]] = "armed")
      <4>1. CASE r = status_depth + 1
        <5>1. r \in 1..StackDepth BY <1>1, <1>9, <4>1
        <5>2. write_intent'[r] = FALSE BY <1>2, <1>7, <2>1, <4>1, <5>1
        <5>3. open'[n[r]] = "plain" BY <1>5, <2>3, <4>1
        <5> QED BY <5>2, <5>3
      <4>2. CASE r \in 1..status_depth
        <5>1. r \in 1..StackDepth /\ r # status_depth' BY <1>1, <2>1, <4>2
        <5>2. write_intent'[r] = write_intent[r] BY <1>2, <1>7, <5>1
        <5> QED BY <1>5, <2>3, <4>2, <5>2
      <4> QED BY <1>1, <2>1, <4>1, <4>2
    <3> QED BY <2>1, <3>1, <3>2, StaySlotted
  <2>9. clobbered' \in BOOLEAN BY <2>1 DEF SInv, TypeOK
  <2>10. status_depth' \in 0..StackDepth /\ status_overflow_depth' \in Nat /\ activity_depth' \in Nat
    BY <1>1, <1>9, <2>1, <2>6
  <2> QED BY <1>8, <2>3, <2>4, <2>5, <2>7, <2>8, <2>9, <2>10
<1>10. CASE ~(status_depth < StackDepth)
  <2>1. /\ status_overflow_depth' = status_overflow_depth + 1 /\ clobbered' = TRUE
        /\ UNCHANGED <<status_depth, lamp>>
    BY <1>10 DEF disk_status_begin_at
  <2>2. status_depth = StackDepth BY <1>1, <1>10
  <2>3. Scopes' = Scopes + 1 BY <1>1, <2>1 DEF Scopes
  <2>4. Overflow' BY <2>1, <2>2 DEF Overflow
  <2>5. open # <<>> BY <1>1, <2>2
  <2>6. Lamp'
    BY <1>2, <1>3, <2>1, <2>5
        DEF SInv, Lamp, PadModeRight, LampTracksActivity, InitialModeRestored, lamp
  <2>7. Counted' BY <1>1, <1>2, <1>3, <2>1 DEF SInv, Counted, lamp
  <2>8. Slotted(n)'
    <3>1. ASSUME NEW r \in 1..status_depth', ~(clobbered' /\ r = StackDepth)
          PROVE  /\ r \in 1..status_depth
                 /\ write_intent'[r] = write_intent[r] /\ open'[n[r]] = open[at[r]]
      <4>1. r \in 1..StackDepth /\ r # status_depth' /\ r \in 1..Scopes
        BY <1>1, <2>1, <2>2, <3>1
      <4>2. write_intent'[r] = write_intent[r] BY <1>2, <1>7, <4>1
      <4> QED BY <1>5, <2>1, <4>1, <4>2
    <3>2. status_depth' \in 0..StackDepth BY <1>1, <2>1
    <3> QED BY <2>1, <3>1, <3>2, StaySlotted
  <2>9. {activity_supported', mode_control_engaged', refused', clobbered'} \subseteq BOOLEAN
    BY <2>1 DEF SInv, TypeOK, lamp
  <2>10. status_depth' \in 0..StackDepth /\ status_overflow_depth' \in Nat /\ activity_depth' \in Nat
    BY <1>1, <2>1 DEF lamp
  <2> QED BY <1>8, <2>3, <2>4, <2>6, <2>7, <2>8, <2>9, <2>10
<1> QED BY <1>9, <1>10

\* The innermost scope is closed.
LEMMA EndStep ==
  ASSUME SInv, disk_status_end
  PROVE  SInv'
<1> PICK at \in [1..Scopes -> 1..Len(open)] : Lists(at, open, Scopes) /\ Slotted(at)
  BY DEF SInv, Laid
<1>0. PICK n : n = [r \in 1..(Scopes - 1) |-> at[r]]
  OBVIOUS
<1>1. /\ Scopes \in Nat /\ open \in Seq(Kinds) /\ Len(open) \in Nat /\ Scopes <= Len(open)
      /\ {status_depth, status_overflow_depth, activity_depth} \subseteq Nat
      /\ status_depth <= StackDepth /\ StackDepth \in Nat \ {0}
      /\ Scopes = status_depth + status_overflow_depth
  BY FewScopes, StatusConstants DEF SInv, TypeOK, Scopes
<1>2. /\ phase = "run" /\ phase' = "run" /\ initial_mode' = initial_mode
      /\ open # <<>> /\ open[Len(open)] # "pad"
      /\ open' = SubSeq(open, 1, Len(open) - 1)
      /\ reads' = 0 /\ streams' = 0 /\ silent' = 0 /\ ended' = FALSE /\ shown' = shown
  BY DEF disk_status_end, inputs
<1>3. /\ open' \in Seq(Kinds) /\ Len(open') = Len(open) - 1 /\ Len(open) > 0
      /\ \A i \in 1..Len(open') : open'[i] = open[i]
      /\ Scopes > 0 /\ Lists(n, open', Scopes - 1)
  <2>1. /\ open' \in Seq(Kinds) /\ Len(open') = Len(open) - 1 /\ Len(open) \in Nat \ {0}
        /\ \A i \in 1..Len(open') : open'[i] = open[i]
        /\ Scopes > 0 /\ Lists(n, open', Scopes - 1)
    BY <1>0, <1>1, <1>2, Shrink, ZenonT(40)
  <2>2. Len(open) > 0 BY <2>1
  <2> QED BY <2>1, <2>2
<1>4. Quiet' /\ FinalEventShown' BY <1>2 DEF Quiet, FinalEventShown
<1>5. \A r \in 1..(Scopes - 1) : open'[n[r]] = open[at[r]]
  BY <1>0, <1>3 DEF Lists
<1>6. n \in [1..(Scopes - 1) -> 1..Len(open')] BY <1>3 DEF Lists
<1>7. write_intent \in [1..StackDepth -> BOOLEAN] BY DEF SInv, TypeOK
<1>8. ASSUME /\ Scopes' = Scopes - 1 /\ Slotted(n)' /\ Overflow' /\ Counted' /\ Lamp'
             /\ {activity_supported', mode_control_engaged', refused', clobbered'} \subseteq BOOLEAN
             /\ status_depth' \in 0..StackDepth
             /\ status_overflow_depth' \in Nat /\ activity_depth' \in Nat
             /\ write_intent' \in [1..StackDepth -> BOOLEAN]
      PROVE  SInv'
  <2>1. Laid' BY <1>3, <1>6, <1>8 DEF Laid
  <2>2. Len(open') <= MaxOpen BY <1>1, <1>3, StatusConstants DEF SInv, TypeOK
  <2>3. reads' \in 0..(ReadDivisor - 1) /\ streams' \in 0..(VerifyDivisor - 1)
    BY <1>2, StatusConstants
  <2>4. shown' \in [warning : BOOLEAN, final : BOOLEAN] BY <1>2 DEF SInv, TypeOK
  <2>5. TypeOK' BY <1>2, <1>3, <1>8, <2>2, <2>3, <2>4 DEF TypeOK
  <2> QED BY <1>4, <1>8, <2>1, <2>5 DEF SInv
<1>9. CASE status_overflow_depth # 0
  <2>1. /\ status_overflow_depth' = status_overflow_depth - 1
        /\ UNCHANGED <<status_depth, write_intent, clobbered, lamp>>
    BY <1>9 DEF disk_status_end
  <2>2. Scopes' = Scopes - 1 BY <1>1, <2>1 DEF Scopes
  <2>3. clobbered /\ status_depth = StackDepth BY <1>1, <1>9 DEF SInv, Overflow
  <2>4. Overflow' BY <2>1, <2>3 DEF Overflow
  <2>5. open' # <<>>
    <3>1. Len(open') > 0 BY <1>1, <1>3, <1>9, <2>3
    <3> QED BY <1>3, <3>1
  <2>6. Lamp'
    BY <1>2, <2>1, <2>5
        DEF SInv, Lamp, PadModeRight, LampTracksActivity, InitialModeRestored, lamp
  <2>7. Counted' BY <1>1, <1>2, <1>3, <2>1 DEF SInv, Counted, lamp
  <2>8. Slotted(n)'
    <3>1. ASSUME NEW r \in 1..status_depth'
          PROVE  /\ r \in 1..status_depth
                 /\ write_intent'[r] = write_intent[r] /\ open'[n[r]] = open[at[r]]
      <4>1. r \in 1..(Scopes - 1) /\ r \in 1..status_depth BY <1>1, <1>9, <2>1
      <4> QED BY <1>5, <2>1, <4>1
    <3>2. status_depth' \in 0..StackDepth BY <1>1, <2>1
    <3> QED BY <2>1, <3>1, <3>2, StaySlotted
  <2>9. {activity_supported', mode_control_engaged', refused', clobbered'} \subseteq BOOLEAN
    BY <2>1 DEF SInv, TypeOK, lamp
  <2>10. status_depth' \in 0..StackDepth /\ status_overflow_depth' \in Nat /\ activity_depth' \in Nat
    BY <1>1, <1>9, <2>1 DEF lamp
  <2> QED BY <1>7, <1>8, <2>1, <2>2, <2>4, <2>6, <2>7, <2>8, <2>9, <2>10
<1>10. CASE status_overflow_depth = 0
  <2>1. /\ write_intent' = [write_intent EXCEPT ![status_depth] = FALSE]
        /\ status_depth' = status_depth - 1 /\ clobbered' = FALSE
        /\ pad_activity_end /\ UNCHANGED status_overflow_depth
    BY <1>10 DEF disk_status_end
  <2>2. Scopes = status_depth /\ Scopes' = Scopes - 1 BY <1>1, <1>10, <2>1 DEF Scopes
  <2>3. Overflow' BY <1>10, <2>1 DEF Overflow
  <2>4. activity_depth = Len(open) BY <1>1, <1>2, <1>10 DEF SInv, Counted
  <2>5. activity_depth = 1 <=> open' = <<>>
    <3>1. Len(open') = 0 <=> open' = <<>> BY <1>3
    <3> QED BY <1>1, <1>3, <2>4, <3>1
  <2>6. Lamp' /\ {activity_supported', mode_control_engaged', refused'} \subseteq BOOLEAN
    BY <1>2, <2>1, <2>5, LampOff
  <2>7. activity_depth' = activity_depth - 1 BY <1>1, <1>3, <2>1, <2>4 DEF pad_activity_end
  <2>8. Counted' BY <1>1, <1>2, <1>3, <1>10, <2>1, <2>4, <2>7 DEF Counted
  <2>9. status_depth' \in 0..StackDepth /\ status_overflow_depth' \in Nat /\ activity_depth' \in Nat
    BY <1>1, <1>3, <2>1, <2>2, <2>4, <2>7
  <2>10. Slotted(n)'
    <3> SUFFICES ASSUME NEW r \in 1..status_depth'
                 PROVE  write_intent'[r] = (open'[n[r]] = "armed")
      BY DEF Slotted
    <3>1. /\ r \in 1..(Scopes - 1) /\ r \in 1..status_depth /\ r \in 1..StackDepth
          /\ r # status_depth /\ r # StackDepth
      BY <1>1, <1>3, <2>1, <2>2
    <3>2. write_intent'[r] = write_intent[r] BY <1>7, <2>1, <3>1
    <3>3. write_intent[r] = (open[at[r]] = "armed") BY <3>1, Zenon DEF Slotted
    <3>4. open'[n[r]] = open[at[r]] BY <1>5, <3>1
    <3> QED BY <3>2, <3>3, <3>4, Zenon
  <2>11. write_intent' \in [1..StackDepth -> BOOLEAN] BY <1>7, <2>1
  <2> QED BY <1>8, <2>1, <2>2, <2>3, <2>6, <2>8, <2>9, <2>10, <2>11
<1> QED BY <1>9, <1>10

\* The innermost scope is armed or disarmed.
LEMMA IntentStep ==
  ASSUME SInv, NEW armed \in BOOLEAN, disk_status_set_write_intent(armed)
  PROVE  SInv'
<1> PICK at \in [1..Scopes -> 1..Len(open)] : Lists(at, open, Scopes) /\ Slotted(at)
  BY DEF SInv, Laid
<1>1. /\ Scopes \in Nat /\ open \in Seq(Kinds) /\ Len(open) \in Nat
      /\ {status_depth, status_overflow_depth} \subseteq Nat
      /\ status_depth <= StackDepth /\ StackDepth \in Nat \ {0}
      /\ Scopes = status_depth + status_overflow_depth
      /\ DOMAIN open = 1..Len(open)
  BY StatusConstants DEF SInv, TypeOK, Scopes
<1>2. /\ phase = "run" /\ UNCHANGED <<status_depth, status_overflow_depth, clobbered, lamp, inputs>>
  BY DEF disk_status_set_write_intent
<1>3. CASE status_depth = 0
  <2>1. UNCHANGED <<open, write_intent, frames>>
    BY <1>3 DEF disk_status_set_write_intent
  <2>2. UNCHANGED <<open, status, lamp, inputs>> BY <1>2, <2>1 DEF status
  <2> QED BY <2>1, <2>2, OnlyFrames DEF SInv, TypeOK, Quiet, FinalEventShown, frames
<1>4. CASE status_depth # 0
  <2>1. /\ open' = Asked(armed) /\ ended' = FALSE /\ render(armed, FALSE, FALSE)
        /\ write_intent' = [write_intent EXCEPT ![status_depth] = armed]
    BY <1>4 DEF disk_status_set_write_intent
  <2>2. /\ open' \in Seq(Kinds) /\ Len(open') = Len(open)
        /\ \A i \in 1..Len(open) : open'[i] =
              IF i \in Innermost THEN IF armed THEN "armed" ELSE "plain" ELSE open[i]
    <3>1. \A i \in 1..Len(open) :
             (IF i \in Innermost THEN IF armed THEN "armed" ELSE "plain" ELSE open[i]) \in Kinds
      BY <1>1 DEF Kinds
    <3> QED BY <1>1, <2>1, <3>1 DEF Asked
  <2>3. \A i \in Innermost : i \in 1..Len(open) /\ open[i] # "pad" /\ i = at[Scopes]
    <3> SUFFICES ASSUME NEW i \in Innermost
                 PROVE  i \in 1..Len(open) /\ open[i] # "pad" /\ i = at[Scopes]
      OBVIOUS
    <3>1. /\ i \in 1..Len(open) /\ open[i] # "pad"
          /\ \A j \in 1..Len(open) : open[j] # "pad" => j <= i
      BY <1>1 DEF Innermost
    <3> QED BY <1>1, <3>1, LastScope
  <2>4. at[Scopes] \in Innermost
    <3>1. Scopes \in 1..Scopes BY <1>1, <1>4
    <3>2. at[Scopes] \in 1..Len(open) /\ open[at[Scopes]] # "pad" BY <3>1 DEF Lists
    <3>3. ASSUME NEW j \in 1..Len(open), open[j] # "pad" PROVE j <= at[Scopes]
      <4>1. PICK r \in 1..Scopes : at[r] = j BY <3>3 DEF Lists
      <4>2. r = Scopes \/ at[r] < at[Scopes] BY <1>1, <3>1, <4>1 DEF Lists
      <4> QED BY <3>2, <4>1, <4>2
    <3> QED BY <1>1, <3>2, <3>3 DEF Innermost
  <2>5. \A i \in 1..Len(open) : open'[i] # "pad" <=> open[i] # "pad"
    BY <2>2, <2>3
  <2>6. Lists(at, open', Scopes) BY <2>2, <2>5 DEF Lists
  <2>7. Scopes' = Scopes BY <1>2 DEF Scopes
  <2>8. write_intent \in [1..StackDepth -> BOOLEAN] BY DEF SInv, TypeOK
  <2>9. Slotted(at)'
    <3>1. ASSUME NEW r \in 1..status_depth', ~(clobbered' /\ r = StackDepth)
          PROVE  \/ /\ r \in 1..status_depth
                    /\ write_intent'[r] = write_intent[r] /\ open'[at[r]] = open[at[r]]
                 \/ write_intent'[r] = (open'[at[r]] = "armed")
      <4>1. r \in 1..status_depth /\ r \in 1..StackDepth /\ r \in 1..Scopes
        BY <1>1, <1>2
      <4>2. at[r] \in 1..Len(open) BY <4>1 DEF Lists
      <4>3. CASE r = status_depth
        <5>1. status_overflow_depth = 0
          BY <1>1, <1>2, <3>1, <4>3 DEF SInv, Overflow
        <5>2. r = Scopes BY <1>1, <4>3, <5>1
        <5>3. open'[at[r]] = IF armed THEN "armed" ELSE "plain" BY <2>2, <2>4, <4>2, <5>2
        <5>4. write_intent'[r] = armed BY <2>1, <2>8, <4>1, <4>3
        <5>5. (open'[at[r]] = "armed") = armed BY <5>3
        <5> QED BY <5>4, <5>5, Zenon
      <4>4. CASE r # status_depth
        <5>1. write_intent'[r] = write_intent[r] BY <2>1, <2>8, <4>1, <4>4
        <5>2. r < Scopes /\ Scopes \in 1..Scopes BY <1>1, <4>1, <4>4
        <5>3. at[r] # at[Scopes]
          <6>1. at[r] < at[Scopes] /\ at[Scopes] \in 1..Len(open) BY <4>1, <5>2 DEF Lists
          <6> QED BY <4>2, <6>1
        <5>4. at[r] \notin Innermost BY <2>3, <5>3
        <5> QED BY <2>2, <4>1, <4>2, <5>1, <5>4
      <4> QED BY <4>3, <4>4
    <3>2. status_depth' \in 0..StackDepth BY <1>1, <1>2
    <3> QED BY <1>2, <3>1, <3>2, StaySlotted
  <2>10. Laid' BY <2>6, <2>7, <2>9 DEF Laid, Lists
  <2>11. Overflow' /\ Counted' BY <1>2, <2>2 DEF SInv, Overflow, Counted, lamp, inputs
  <2>12. open' = <<>> <=> open = <<>>
    <3>1. (Len(open) = 0 <=> open = <<>>) /\ (Len(open') = 0 <=> open' = <<>>) BY <1>1, <2>2
    <3> QED BY <2>2, <3>1
  <2>13. Lamp'
    BY <1>2, <2>12
        DEF SInv, Lamp, PadModeRight, LampTracksActivity, InitialModeRestored, lamp, inputs
  <2>14. write_intent' \in [1..StackDepth -> BOOLEAN] BY <2>1, <2>8
  <2>15. TypeOK' BY <1>2, <2>1, <2>2, <2>14, Rendered DEF SInv, TypeOK, lamp, inputs
  <2>16. Quiet' /\ FinalEventShown' BY <2>1, Rendered DEF FinalEventShown
  <2> QED BY <2>10, <2>11, <2>13, <2>15, <2>16 DEF SInv
<1> QED BY <1>3, <1>4

\* The pad is taken over at the start and given back at the end.
LEMMA PadSteps ==
  ASSUME SInv, init_pad \/ pad_activity_restore
  PROVE  SInv'
<1>1. UNCHANGED <<open, status, frames, initial_mode>>
  BY DEF init_pad, pad_activity_restore
<1>2. Laid' /\ Overflow' /\ Quiet' /\ FinalEventShown'
  BY <1>1 DEF SInv, Laid, Slotted, Scopes, Overflow, Quiet, FinalEventShown, status, frames
<1>3. /\ Counted' /\ Lamp' /\ phase' \in {"start", "run", "leave"} /\ activity_depth' \in Nat
      /\ {activity_supported', mode_control_engaged', refused'} \subseteq BOOLEAN
  <2>1. CASE init_pad
    <3>1. PICK r \in set_pad_main_mode("digital", TRUE) :
             /\ pad' = r.pad /\ refused' = ~r.ok
             /\ activity_supported' = r.ok /\ mode_control_engaged' = r.ok
      BY <2>1 DEF init_pad
    <3>2. r.ok \in BOOLEAN /\ (r.ok => r.pad = [mode |-> "digital", locked |-> TRUE])
      BY Obeyed
    <3>3. phase = "start" /\ phase' = "run" /\ UNCHANGED activity_depth
      BY <2>1 DEF init_pad
    <3>4. open = <<>> BY <3>3 DEF SInv, Lamp
    <3>5. Lamp'
      BY <1>1, <3>1, <3>2, <3>3, <3>4
          DEF Lamp, PadModeRight, LampTracksActivity, InitialModeRestored
    <3>6. Counted' /\ activity_depth' \in Nat
      BY <1>1, <3>3 DEF SInv, TypeOK, Counted, status
    <3> QED BY <3>1, <3>2, <3>3, <3>5, <3>6
  <2>2. CASE pad_activity_restore
    <3>1. /\ phase = "run" /\ phase' = "leave" /\ activity_depth' = 0
          /\ UNCHANGED activity_supported
      BY <2>2 DEF pad_activity_restore
    <3>2. /\ mode_control_engaged' \in BOOLEAN /\ refused' \in BOOLEAN
          /\ ~refused' => pad' = [mode |-> initial_mode, locked |-> FALSE]
      <4>1. CASE mode_control_engaged
        <5>1. PICK r \in set_pad_main_mode(initial_mode, FALSE) :
                 pad' = r.pad /\ refused' = ~r.ok
          BY <2>2, <4>1 DEF pad_activity_restore
        <5>2. r.ok \in BOOLEAN /\ (r.ok => r.pad = [mode |-> initial_mode, locked |-> FALSE])
          BY Obeyed
        <5>3. mode_control_engaged' = FALSE BY <2>2, <4>1 DEF pad_activity_restore
        <5> QED BY <5>1, <5>2, <5>3
      <4>2. CASE ~mode_control_engaged
        <5>1. UNCHANGED <<pad, refused, mode_control_engaged>>
          BY <2>2, <4>2 DEF pad_activity_restore
        <5>2. refused BY <3>1, <4>2 DEF SInv, Lamp
        <5> QED BY <5>1, <5>2 DEF SInv, TypeOK
      <4> QED BY <4>1, <4>2
    <3>3. Lamp'
      BY <1>1, <3>1, <3>2 DEF Lamp, PadModeRight, LampTracksActivity, InitialModeRestored
    <3> QED BY <3>1, <3>2, <3>3 DEF SInv, TypeOK, Counted
  <2> QED BY <2>1, <2>2
<1>4. TypeOK' BY <1>1, <1>3 DEF SInv, TypeOK, status, frames
<1> QED BY <1>2, <1>3, <1>4 DEF SInv

\* Every step keeps the invariant.
LEMMA NextStatus == SInv /\ [Next]_vars => SInv'
<1> SUFFICES ASSUME SInv, [Next]_vars PROVE SInv'
  OBVIOUS
<1>1. CASE init_pad \/ pad_activity_restore BY <1>1, PadSteps
<1>2. CASE bracket_begin \/ bracket_end BY <1>2, BracketSteps
<1>3. CASE disk_status_begin_at BY <1>3, BeginStep
<1>4. CASE disk_status_end BY <1>4, EndStep
<1>5. CASE \E b \in BOOLEAN : disk_status_set_write_intent(b) BY <1>5, IntentStep
<1>6. CASE \/ disk_status_phase_at \/ disk_status_read
           \/ \E b \in BOOLEAN : disk_status_event(b)
           \/ \E b, f \in BOOLEAN : disk_status_stream(b, f)
  BY <1>6, FrameSteps
<1>7. CASE UNCHANGED vars
  <2>1. UNCHANGED <<open, status, lamp, inputs>> /\ UNCHANGED frames BY <1>7 DEF vars
  <2> QED BY <2>1, OnlyFrames DEF SInv, TypeOK, Quiet, FinalEventShown, frames
<1> QED BY <1>1, <1>2, <1>3, <1>4, <1>5, <1>6, <1>7, Zenon DEF Next

-----------------------------------------------------------------------------
(* The theorems.                                                           *)

\* The stack of scopes, its overflow and the lamp's counter agree with what callers
\* opened, whatever the nesting and the depth of the stack.
THEOREM Invariance == Spec => []SInv
BY InitStatus, NextStatus, PTL DEF Spec

\* A pad that obeys shows the lamp exactly while a scope or bracket is open, scopes
\* beyond STATUS_STACK_DEPTH included, and pad_activity_restore gives back the mode
\* init_pad found even after pad_activity_begin or _end has failed.
THEOREM PadRight == Spec => []PadModeRight
<1>1. SInv => PadModeRight BY DEF SInv, Lamp
<1> QED BY Invariance, <1>1, PTL

\* The warning of disk_status_set_write_intent is that of the innermost scope while
\* its slot is its own, coalesced runs of disk_status_io are bounded by the divisors,
\* and the end of a transfer is drawn.
THEOREM Truthful == Spec => []ScreenTruthful
<1>1. SInv => SilenceBounded
  BY StatusConstants DEF SInv, TypeOK, Quiet, SilenceBounded
<1>2. SInv => WarningMatchesScope
  <2> SUFFICES ASSUME SInv, ~clobbered, NEW i \in Innermost PROVE Top = (open[i] = "armed")
    BY DEF WarningMatchesScope
  <2>1. PICK at \in [1..Scopes -> 1..Len(open)] : Lists(at, open, Scopes) /\ Slotted(at)
    BY DEF SInv, Laid
  <2>2. /\ Scopes \in Nat /\ open \in Seq(Kinds) /\ DOMAIN open = 1..Len(open)
        /\ status_depth \in Nat /\ Scopes = status_depth
    BY StatusConstants DEF SInv, TypeOK, Overflow, Scopes
  <2>3. /\ i \in 1..Len(open) /\ open[i] # "pad"
        /\ \A j \in 1..Len(open) : open[j] # "pad" => j <= i
    BY <2>2 DEF Innermost
  <2>4. Scopes > 0 /\ at[Scopes] = i BY <2>1, <2>2, <2>3, LastScope
  <2>5. status_depth \in 1..status_depth BY <2>2, <2>4
  <2>6. write_intent[status_depth] = (open[at[status_depth]] = "armed")
    BY <2>1, <2>5, Zenon DEF Slotted
  <2>7. status_depth # 0 BY <2>2, <2>4
  <2>8. Top = write_intent[status_depth] BY <2>7, Zenon DEF Top
  <2>9. open[at[status_depth]] = open[i] BY <2>2, <2>4
  <2> QED BY <2>6, <2>8, <2>9, Zenon
<1>3. SInv => ScreenTruthful BY <1>1, <1>2 DEF SInv, ScreenTruthful
<1> QED BY Invariance, <1>3, PTL
=============================================================================
