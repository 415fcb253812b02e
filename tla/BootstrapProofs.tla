--------------------------- MODULE BootstrapProofs ---------------------------
(***************************************************************************)
(* The bootstrap workflows, for any programs, any reserved area and any    *)
(* behaviour of the backup storage.                                        *)
(***************************************************************************)
EXTENDS Bootstrap, TLAPS

Saving     == {"acquire", "rescue_slot", "rescue_write"}
HeaderSave == {"header_slot", "header_write"}
Setting    == {"set", "set_flush", "check"}
Writing    == {"write", "flush", "verify"}

(* The steps each operation takes, and what it is going to activate. *)
AtStep ==
  /\ op = "none" => pc = "menu"
  /\ op = "backup" => pc \in HeaderSave \cup Saving
  /\ op = "disable" => pc \in HeaderSave \cup Saving \cup {"confirm", "fatal"} \cup Setting
  /\ op = "legacy" => pc \in HeaderSave \cup {"confirm", "fatal"} \cup Setting
  /\ op = "restore" => pc \in HeaderSave \cup {"confirm", "fatal"} \cup Setting \cup Writing
  /\ op = "install" => pc \in HeaderSave \cup {"confirm", "fatal"} \cup Setting \cup Writing \cup Saving
  /\ pc \in {"header_write", "rescue_write"} => slot \in 1..2
  /\ image.ptr \in 0..Area
  /\ op = "disable" /\ pc \notin Saving => image.ptr = 0

(* How the RAM header, the disk and what a power loss leaves of it differ. *)
Synced ==
  /\ pc \notin {"write", "flush", "set_flush", "fatal"} => disk = platter
  /\ IF pc \in {"set_flush", "check", "fatal"}
     THEN platter.ptr \in {header, disk.ptr}
     ELSE header = disk.ptr /\ disk.ptr = platter.ptr
  /\ pc = "set_flush" => header = platter.ptr
  /\ disk.data = platter.data \/ (disk.ptr = 0 /\ platter.ptr = 0)
  /\ disk.ptr # platter.ptr => disk.ptr \in 0..Area /\ (disk.ptr = 0 \/ platter.ptr = 0)

(* What holds when an operation reaches the pointer. *)
Prepared ==
  /\ op \in {"restore", "legacy", "install"} /\ pc \notin Saving => header = 0
  /\ /\ op \in {"restore", "install"}
     /\ pc \in Setting \/ (pc = "fatal" /\ stage \in {"POINTER_SET", "POINTER_VERIFY"})
     => disk.data = platter.data /\ Cut(image.ptr, disk.data) = image.data
  /\ pc = "fatal" /\ stage \in {"PAYLOAD", "NONE"} => disk.ptr = 0 /\ platter.ptr = 0

(* The header an operation is about to replace is in a file. *)
BackedUp ==
  /\ op \in {"disable", "restore", "legacy", "install"} /\ pc \notin HeaderSave
  /\ op = "install" => pc \notin Saving
  => \E s \in HeaderSlots : hb[s] = header

IInv == TypeOK /\ AtStep /\ Synced /\ Prepared /\ BackedUp

-----------------------------------------------------------------------------
(* Operators *)

(* What is read of the program area has the shape of an image's data. *)
LEMMA CutType ==
  ASSUME NEW n \in Pointers, NEW d \in Contents
  PROVE  Cut(n, d) \in Contents
BY DEF Cut, Contents

(* A program to be installed is an image that fits the reserved area. *)
LEMMA ProgramType ==
  ASSUME NEW p \in Payloads
  PROVE  /\ Program(p) \in Image
         /\ Program(p).ptr \in 1..Area
<1>1. Sectors[p] \in 1..Area BY BootstrapAssumption
<1>2. [i \in Units |-> IF i <= Sectors[p] THEN p ELSE Junk] \in Contents BY DEF Contents
<1>3. Sectors[p] \in Pointers
  BY <1>1, BootstrapAssumption DEF Pointers, OutOfBounds
<1> QED BY <1>1, <1>2, <1>3 DEF Program, Image

(* The empty image *)
LEMMA NoImageType == NoImage \in Image /\ NoImage.ptr = 0 /\ Blank \in Contents
<1>1. Blank \in Contents BY DEF Blank, Contents
<1>2. 0 \in Pointers BY BootstrapAssumption DEF Pointers, OutOfBounds
<1> QED BY <1>1, <1>2 DEF NoImage, Image

(* Pointers inside the reserved area, and the one outside it *)
LEMMA PointerRange == 0..Area \subseteq Pointers /\ 0 \in 0..Area
  /\ \A n \in Pointers : n # OutOfBounds => n \in 0..Area
BY BootstrapAssumption DEF Pointers, OutOfBounds

-----------------------------------------------------------------------------
(* The initial states satisfy the invariant: nothing is pending, and the    *)
(* RAM header, the disk and the platter agree.                              *)
LEMMA InitInvariant == Init => IInv
<1> SUFFICES ASSUME Init PROVE IInv OBVIOUS
<1> USE NoImageType, PointerRange
<1>1. TypeOK
  <2>1. disk \in Image /\ platter \in Image /\ header \in Pointers BY DEF Init, Image
  <2>2. hb \in [BackupFiles -> Pointers \cup {None, Torn, Foreign}]
    BY BootstrapAssumption DEF Init, Pointers, OutOfBounds
  <2>3. rescue \in [RescueSlots -> Image \cup {None, Torn, Garbled, Foreign}]
    BY BootstrapAssumption DEF Init
  <2> QED BY <2>1, <2>2, <2>3, BootstrapAssumption DEF Init, TypeOK, Ops, Steps
<1>2. AtStep BY BootstrapAssumption DEF Init, AtStep, HeaderSave, Saving, Setting, Writing
<1>3. Synced BY DEF Init, Synced
<1>4. Prepared BY DEF Init, Prepared, Setting
<1>5. BackedUp BY DEF Init, BackedUp
<1> QED BY <1>1, <1>2, <1>3, <1>4, <1>5 DEF IInv

(* Every step preserves it. *)
LEMMA NextInvariant == IInv /\ [Next]_vars => IInv'
<1> SUFFICES ASSUME IInv, [Next]_vars PROVE IInv' OBVIOUS
<1> USE NoImageType, PointerRange, BootstrapAssumption DEF IInv, store, files, run
<1>1. CASE BackupCurrent
  <2>1. TypeOK' BY <1>1 DEF BackupCurrent, Begin, TypeOK, Ops, Steps
  <2>2. AtStep'
    BY <1>1 DEF BackupCurrent, Begin, AtStep, HeaderSave, Saving, Setting, Writing
  <2>3. Synced' BY <1>1 DEF BackupCurrent, Begin, Synced
  <2>4. Prepared' BY <1>1 DEF BackupCurrent, Begin, Prepared, Saving, Setting
  <2>5. BackedUp' BY <1>1 DEF BackupCurrent, Begin, BackedUp, HeaderSave, Saving
  <2> QED BY <2>1, <2>2, <2>3, <2>4, <2>5
<1>2. CASE Disable
  <2>1. TypeOK' BY <1>2 DEF Disable, Begin, TypeOK, Ops, Steps
  <2>2. AtStep' BY <1>2 DEF Disable, Begin, AtStep, HeaderSave, Saving, Setting, Writing
  <2>3. Synced' BY <1>2 DEF Disable, Begin, Synced
  <2>4. Prepared' BY <1>2 DEF Disable, Begin, Prepared, Saving, Setting
  <2>5. BackedUp' BY <1>2 DEF Disable, Begin, BackedUp, HeaderSave, Saving
  <2> QED BY <2>1, <2>2, <2>3, <2>4, <2>5
<1>3. CASE Restore
  <2>a. image' \in Image /\ image'.ptr \in 0..Area
    <3>1. PICK s \in restorable : /\ hdd_validate_payload_bounds(rescue[s].ptr)
                                 /\ image' = rescue[s]
      BY <1>3 DEF Restore, Begin
    <3>2. s \in RescueSlots /\ rescue[s] \notin {None, Torn, Garbled, Foreign}
      BY DEF restorable, of_this_disk
    <3>3. rescue[s] \in Image BY <3>2 DEF TypeOK
    <3> QED BY <3>1, <3>3 DEF hdd_validate_payload_bounds
  <2>1. TypeOK' BY <1>3, <2>a DEF Restore, Begin, TypeOK, Ops, Steps
  <2>2. AtStep'
    BY <1>3, <2>a DEF Restore, Begin, AtStep, HeaderSave, Saving, Setting, Writing
  <2>3. Synced' BY <1>3 DEF Restore, Begin, Synced
  <2>4. Prepared' BY <1>3 DEF Restore, Begin, Prepared, Saving, Setting
  <2>5. BackedUp' BY <1>3 DEF Restore, Begin, BackedUp, HeaderSave, Saving
  <2> QED BY <2>1, <2>2, <2>3, <2>4, <2>5
<1>4. CASE RestoreLegacy
  <2>a. image' \in Image /\ image'.ptr \in 0..Area
    <3>1. PICK n \in 1..Area : image' = [ptr |-> n, data |-> Blank]
      BY <1>4 DEF RestoreLegacy, Begin, hdd_validate_payload_bounds
    <3>2. n \in 0..Area BY <3>1
    <3> QED BY <3>1, <3>2 DEF Image
  <2>1. TypeOK' BY <1>4, <2>a DEF RestoreLegacy, Begin, TypeOK, Ops, Steps
  <2>2. AtStep'
    BY <1>4, <2>a DEF RestoreLegacy, Begin, AtStep, HeaderSave, Saving, Setting, Writing
  <2>3. Synced' BY <1>4 DEF RestoreLegacy, Begin, Synced
  <2>4. Prepared' BY <1>4 DEF RestoreLegacy, Begin, Prepared, Saving, Setting
  <2>5. BackedUp' BY <1>4 DEF RestoreLegacy, Begin, BackedUp, HeaderSave, Saving
  <2> QED BY <2>1, <2>2, <2>3, <2>4, <2>5
<1>5. CASE Install
  <2>1. TypeOK' BY <1>5, ProgramType DEF Install, Begin, TypeOK, Ops, Steps
  <2>2. AtStep'
    BY <1>5, ProgramType DEF Install, Begin, AtStep, HeaderSave, Saving, Setting,
         Writing
  <2>3. Synced' BY <1>5 DEF Install, Begin, Synced
  <2>4. Prepared' BY <1>5 DEF Install, Begin, Prepared, Saving, Setting
  <2>5. BackedUp' BY <1>5 DEF Install, Begin, BackedUp, HeaderSave, Saving
  <2> QED BY <2>1, <2>2, <2>3, <2>4, <2>5
<1>6. CASE HeaderSlot
  <2>1. TypeOK'
    BY <1>6 DEF HeaderSlot, HeaderDone, AfterHeader, NextSlot, Goto, TypeOK, AtStep,
         Ops, Steps, HeaderSlots, RescueSlots, BackupFiles
  <2>2. AtStep'
    BY <1>6 DEF HeaderSlot, HeaderDone, AfterHeader, NextSlot, Goto, TypeOK, Ops,
         AtStep, HeaderSlots, RescueSlots, HeaderSave, Saving, Setting, Writing
  <2>3. Synced' BY <1>6 DEF HeaderSlot, HeaderDone, AfterHeader, NextSlot, Goto, Synced
  <2>4. Prepared'
    BY <1>6 DEF HeaderSlot, HeaderDone, AfterHeader, NextSlot, Goto, Prepared, Saving,
         Setting
  <2>5. BackedUp'
    BY <1>6 DEF HeaderSlot, HeaderDone, AfterHeader, NextSlot, Goto, BackedUp,
         HeaderSave, Saving
  <2> QED BY <2>1, <2>2, <2>3, <2>4, <2>5
<1>7. CASE HeaderWrite
  <2>1. TypeOK'
    BY <1>7 DEF HeaderWrite, HeaderDone, AfterHeader, NextSlot, TypeOK, AtStep, Ops,
         Steps, HeaderSlots, RescueSlots, BackupFiles
  <2>2. AtStep'
    BY <1>7 DEF HeaderWrite, HeaderDone, AfterHeader, NextSlot, AtStep, HeaderSave,
         Saving, Setting, Writing
  <2>3. Synced' BY <1>7 DEF HeaderWrite, HeaderDone, AfterHeader, NextSlot, Synced
  <2>4. Prepared'
    BY <1>7 DEF HeaderWrite, HeaderDone, AfterHeader, NextSlot, Prepared, Saving,
         Setting
  <2>5. BackedUp'
    BY <1>7 DEF HeaderWrite, HeaderDone, AfterHeader, NextSlot, TypeOK, Ops, AtStep,
         BackedUp, HeaderSlots, BackupFiles, HeaderSave, Saving, Setting, Writing
  <2> QED BY <2>1, <2>2, <2>3, <2>4, <2>5
<1>8. CASE HeaderFailed
  <2>1. TypeOK'
    BY <1>8 DEF HeaderFailed, HeaderDone, AfterHeader, ToMenu, TypeOK, Ops, Steps
  <2>2. AtStep'
    BY <1>8 DEF HeaderFailed, HeaderDone, AfterHeader, ToMenu, AtStep, HeaderSave,
         Saving, Setting, Writing
  <2>3. Synced' BY <1>8 DEF HeaderFailed, HeaderDone, AfterHeader, ToMenu, Synced
  <2>4. Prepared'
    BY <1>8 DEF HeaderFailed, HeaderDone, AfterHeader, ToMenu, Prepared, Saving, Setting
  <2>5. BackedUp'
    BY <1>8 DEF HeaderFailed, HeaderDone, AfterHeader, ToMenu, BackedUp, HeaderSave,
         Saving
  <2> QED BY <2>1, <2>2, <2>3, <2>4, <2>5
<1>9. CASE Acquire
  <2>1. TypeOK'
    BY <1>9, CutType DEF Acquire, AfterRescue, ToMenu, TypeOK, AtStep, Image, Ops,
         Steps, HeaderSlots, RescueSlots, BackupFiles
  <2>2. AtStep'
    BY <1>9 DEF Acquire, AfterRescue, ToMenu, TypeOK, Ops, AtStep, HeaderSlots,
         RescueSlots, HeaderSave, Saving, Setting, Writing
  <2>3. Synced' BY <1>9 DEF Acquire, AfterRescue, ToMenu, Synced
  <2>4. Prepared' BY <1>9 DEF Acquire, AfterRescue, ToMenu, Prepared, Saving, Setting
  <2>5. BackedUp' BY <1>9 DEF Acquire, AfterRescue, ToMenu, BackedUp, HeaderSave, Saving
  <2> QED BY <2>1, <2>2, <2>3, <2>4, <2>5
<1>10. CASE RescueSlot
  <2>1. TypeOK'
    BY <1>10 DEF RescueSlot, AfterRescue, ToMenu, NextSlot, Goto, TypeOK, AtStep, Ops,
         Steps, HeaderSlots, RescueSlots, BackupFiles
  <2>2. AtStep'
    BY <1>10 DEF RescueSlot, AfterRescue, ToMenu, NextSlot, Goto, TypeOK, Ops, AtStep,
         HeaderSlots, RescueSlots, HeaderSave, Saving, Setting, Writing
  <2>3. Synced' BY <1>10 DEF RescueSlot, AfterRescue, ToMenu, NextSlot, Goto, Synced
  <2>4. Prepared'
    BY <1>10 DEF RescueSlot, AfterRescue, ToMenu, NextSlot, Goto, Prepared, Saving,
         Setting
  <2>5. BackedUp'
    BY <1>10 DEF RescueSlot, AfterRescue, ToMenu, NextSlot, Goto, BackedUp, HeaderSave,
         Saving
  <2> QED BY <2>1, <2>2, <2>3, <2>4, <2>5
<1>11. CASE RescueWrite
  <2>1. TypeOK'
    BY <1>11 DEF RescueWrite, AfterRescue, ToMenu, NextSlot, TypeOK, AtStep, Ops, Steps,
         HeaderSlots, RescueSlots, BackupFiles
  <2>2. AtStep'
    BY <1>11 DEF RescueWrite, AfterRescue, ToMenu, NextSlot, AtStep, HeaderSave, Saving,
         Setting, Writing
  <2>3. Synced' BY <1>11 DEF RescueWrite, AfterRescue, ToMenu, NextSlot, Synced
  <2>4. Prepared'
    BY <1>11 DEF RescueWrite, AfterRescue, ToMenu, NextSlot, Prepared, Saving, Setting
  <2>5. BackedUp'
    BY <1>11 DEF RescueWrite, AfterRescue, ToMenu, NextSlot, BackedUp, HeaderSave,
         Saving
  <2> QED BY <2>1, <2>2, <2>3, <2>4, <2>5
<1>12. CASE RescueFailed
  <2>1. TypeOK' BY <1>12 DEF RescueFailed, AfterRescue, ToMenu, TypeOK, Ops, Steps
  <2>2. AtStep' BY <1>12 DEF RescueFailed, AfterRescue, ToMenu, AtStep
  <2>3. Synced' BY <1>12 DEF RescueFailed, AfterRescue, ToMenu, Synced
  <2>4. Prepared' BY <1>12 DEF RescueFailed, AfterRescue, ToMenu, Prepared, Saving, Setting
  <2>5. BackedUp'
    BY <1>12 DEF RescueFailed, AfterRescue, ToMenu, BackedUp, HeaderSave, Saving
  <2> QED BY <2>1, <2>2, <2>3, <2>4, <2>5
<1>13. CASE Confirm
  <2>1. TypeOK' BY <1>13 DEF Confirm, Goto, ToMenu, Fatal, TypeOK, Ops, Steps
  <2>2. AtStep'
    BY <1>13 DEF Confirm, Goto, ToMenu, Fatal, AtStep, HeaderSave, Saving, Setting,
         Writing
  <2>3. Synced' BY <1>13 DEF Confirm, Goto, ToMenu, Fatal, Synced
  <2>4. Prepared'
    BY <1>13 DEF Confirm, Goto, ToMenu, Fatal, AtStep, Synced, Prepared, HeaderSave,
         Saving, Setting, Writing
  <2>5. BackedUp' BY <1>13 DEF Confirm, Goto, ToMenu, Fatal, BackedUp, HeaderSave, Saving
  <2> QED BY <2>1, <2>2, <2>3, <2>4, <2>5
<1>14. CASE WriteUnit
  <2>a. disk' \in Image
    <3>1. PICK c \in {image.data[done + 1], disk.data[done + 1], Junk} :
            disk' = [disk EXCEPT !.data[done + 1] = c]
      BY <1>14 DEF WriteUnit
    <3>2. done + 1 \in Units BY <1>14 DEF WriteUnit, TypeOK, AtStep, Units
    <3>3. c \in Payloads \cup {Junk} BY <3>1, <3>2 DEF TypeOK, Image, Contents
    <3>4. [disk.data EXCEPT ![done + 1] = c] \in Contents
      BY <3>2, <3>3 DEF TypeOK, Image, Contents
    <3> QED BY <3>1, <3>4 DEF TypeOK, Image
  <2>b. done' \in 0..Area BY <1>14 DEF WriteUnit, Fatal, TypeOK, AtStep
  <2>1. TypeOK' BY <1>14, <2>a, <2>b DEF WriteUnit, Fatal, TypeOK, Ops, Steps
  <2>2. AtStep'
    BY <1>14, <2>a, <2>b DEF WriteUnit, Fatal, AtStep, HeaderSave, Saving, Setting,
         Writing
  <2>3. Synced'
    BY <1>14 DEF WriteUnit, Fatal, TypeOK, Ops, AtStep, Synced, Prepared, Image,
         HeaderSave, Saving, Setting, Writing
  <2>4. Prepared'
    BY <1>14 DEF WriteUnit, Fatal, TypeOK, Ops, AtStep, Synced, Prepared, Image,
         HeaderSave, Saving, Setting, Writing
  <2>5. BackedUp' BY <1>14 DEF WriteUnit, Fatal, BackedUp, HeaderSave, Saving
  <2> QED BY <2>1, <2>2, <2>3, <2>4, <2>5
<1>15. CASE WriteDone
  <2>1. TypeOK' BY <1>15 DEF WriteDone, Goto, TypeOK, Ops, Steps
  <2>2. AtStep' BY <1>15 DEF WriteDone, Goto, AtStep, HeaderSave, Saving, Setting, Writing
  <2>3. Synced' BY <1>15 DEF WriteDone, Goto, Synced
  <2>4. Prepared' BY <1>15 DEF WriteDone, Goto, Prepared, Saving, Setting
  <2>5. BackedUp' BY <1>15 DEF WriteDone, Goto, BackedUp, HeaderSave, Saving
  <2> QED BY <2>1, <2>2, <2>3, <2>4, <2>5
<1>16. CASE FlushPayload
  <2>1. TypeOK' BY <1>16 DEF FlushPayload, Goto, Fatal, TypeOK, Ops, Steps
  <2>2. AtStep'
    BY <1>16 DEF FlushPayload, Goto, Fatal, AtStep, HeaderSave, Saving, Setting, Writing
  <2>3. Synced' BY <1>16 DEF FlushPayload, Goto, Fatal, Synced
  <2>4. Prepared'
    BY <1>16 DEF FlushPayload, Goto, Fatal, TypeOK, Ops, AtStep, Synced, Prepared,
         Image, HeaderSave, Saving, Setting, Writing
  <2>5. BackedUp' BY <1>16 DEF FlushPayload, Goto, Fatal, BackedUp, HeaderSave, Saving
  <2> QED BY <2>1, <2>2, <2>3, <2>4, <2>5
<1>17. CASE VerifyPayload
  <2>1. TypeOK' BY <1>17 DEF VerifyPayload, Goto, Fatal, TypeOK, Ops, Steps
  <2>2. AtStep'
    BY <1>17 DEF VerifyPayload, Goto, Fatal, AtStep, HeaderSave, Saving, Setting,
         Writing
  <2>3. Synced' BY <1>17 DEF VerifyPayload, Goto, Fatal, Synced
  <2>4. Prepared'
    BY <1>17 DEF VerifyPayload, Goto, Fatal, TypeOK, Ops, AtStep, Synced, Prepared,
         Image, HeaderSave, Saving, Setting, Writing
  <2>5. BackedUp' BY <1>17 DEF VerifyPayload, Goto, Fatal, BackedUp, HeaderSave, Saving
  <2> QED BY <2>1, <2>2, <2>3, <2>4, <2>5
<1>18. CASE SetPointer
  <2>1. TypeOK'
    BY <1>18 DEF SetPointer, Goto, Fatal, TypeOK, AtStep, Image, Ops, Steps,
         HeaderSlots, RescueSlots, BackupFiles
  <2>2. AtStep'
    BY <1>18 DEF SetPointer, Goto, Fatal, AtStep, HeaderSave, Saving, Setting, Writing
  <2>3. Synced'
    BY <1>18 DEF SetPointer, Goto, Fatal, TypeOK, Ops, AtStep, Synced, Prepared, Image,
         HeaderSave, Saving, Setting, Writing
  <2>4. Prepared'
    BY <1>18 DEF SetPointer, Goto, Fatal, TypeOK, Ops, AtStep, Synced, Prepared, Image,
         HeaderSave, Saving, Setting, Writing
  <2>5. BackedUp' BY <1>18 DEF SetPointer, Goto, Fatal, BackedUp, HeaderSave, Saving
  <2> QED BY <2>1, <2>2, <2>3, <2>4, <2>5
<1>19. CASE SetFlush
  <2>1. TypeOK' BY <1>19 DEF SetFlush, Goto, Fatal, TypeOK, Ops, Steps
  <2>2. AtStep'
    BY <1>19 DEF SetFlush, Goto, Fatal, AtStep, HeaderSave, Saving, Setting, Writing
  <2>3. Synced' BY <1>19 DEF SetFlush, Goto, Fatal, Synced
  <2>4. Prepared' BY <1>19 DEF SetFlush, Goto, Fatal, Prepared, Saving, Setting
  <2>5. BackedUp' BY <1>19 DEF SetFlush, Goto, Fatal, BackedUp, HeaderSave, Saving
  <2> QED BY <2>1, <2>2, <2>3, <2>4, <2>5
<1>20. CASE VerifyPointer
  <2>1. TypeOK'
    BY <1>20 DEF VerifyPointer, Goto, ToMenu, Fatal, TypeOK, AtStep, Ops, Steps,
         HeaderSlots, RescueSlots, BackupFiles
  <2>2. AtStep'
    BY <1>20 DEF VerifyPointer, Goto, ToMenu, Fatal, AtStep, HeaderSave, Saving,
         Setting, Writing
  <2>3. Synced' BY <1>20 DEF VerifyPointer, Goto, ToMenu, Fatal, Synced
  <2>4. Prepared' BY <1>20 DEF VerifyPointer, Goto, ToMenu, Fatal, Prepared, Saving, Setting
  <2>5. BackedUp'
    BY <1>20 DEF VerifyPointer, Goto, ToMenu, Fatal, BackedUp, HeaderSave, Saving
  <2> QED BY <2>1, <2>2, <2>3, <2>4, <2>5
<1>21. CASE PowerOff
  <2>a. disk' \in Image
    <3>1. PICK n \in {disk.ptr, platter.ptr}, kept \in SUBSET Units :
            disk' = [ptr |-> n, data |-> [i \in Units |-> IF i \in kept THEN disk.data[i]
                                                          ELSE platter.data[i]]]
      BY <1>21 DEF PowerOff
    <3>2. [i \in Units |-> IF i \in kept THEN disk.data[i] ELSE platter.data[i]] \in Contents
      BY DEF TypeOK, Image, Contents
    <3> QED BY <3>1, <3>2 DEF TypeOK, Image
  <2>1. TypeOK'
    BY <1>21, <2>a DEF PowerOff, ToMenu, TypeOK, AtStep, Image, Ops, Steps, HeaderSlots,
         RescueSlots, BackupFiles
  <2>2. AtStep' BY <1>21, <2>a DEF PowerOff, ToMenu, AtStep
  <2>3. Synced' BY <1>21 DEF PowerOff, ToMenu, Synced
  <2>4. Prepared' BY <1>21 DEF PowerOff, ToMenu, Prepared, Saving, Setting
  <2>5. BackedUp' BY <1>21 DEF PowerOff, ToMenu, BackedUp, HeaderSave, Saving
  <2> QED BY <2>1, <2>2, <2>3, <2>4, <2>5
<1>22. CASE UNCHANGED vars
  BY <1>22 DEF vars, TypeOK, AtStep, Synced, Prepared, BackedUp
<1> QED BY <1>1, <1>2, <1>3, <1>4, <1>5, <1>6, <1>7, <1>8, <1>9, <1>10, <1>11, <1>12,
           <1>13, <1>14, <1>15, <1>16, <1>17, <1>18, <1>19, <1>20, <1>21, <1>22 DEF Next

(* IInv is an invariant of every behaviour of the bootstrap workflows. *)
THEOREM Invariance == Spec => []IInv
BY InitInvariant, NextInvariant, PTL DEF Spec

-----------------------------------------------------------------------------
(* Every variable keeps its type: no loop over the backup files leaves its  *)
(* slots, and no write leaves the reserved area.                            *)
THEOREM TypeCorrect == Spec => []TypeOK
<1>1. IInv => TypeOK BY DEF IInv
<1> QED BY <1>1, Invariance, PTL

(* The header the menu decides by is the durable one. *)
THEOREM MenuSeesDisk == Spec => []HeaderCurrent
<1>1. IInv => HeaderCurrent BY DEF IInv, HeaderCurrent, Synced
<1> QED BY <1>1, Invariance, PTL

(* Payload first, pointer last: for any program and any power loss, a       *)
(* pointer that an install or restore made visible names what was written.  *)
THEOREM PayloadFirst == Spec => []PayloadBeforePointer
<1>1. IInv => PayloadBeforePointer
  BY DEF IInv, PayloadBeforePointer, TypeOK, AtStep, Synced, Prepared, HeaderSave, Saving,
         Setting, Writing
<1> QED BY <1>1, Invariance, PTL

(* "Payload write/read-back failed; pointer remains disabled" is true when  *)
(* bootstrap_controller_ps2.c shows it, and after the power-off it asks for. *)
THEOREM FailedPayloadIsDisabled == Spec => []PayloadFailureLeavesDisabled
<1>1. IInv => PayloadFailureLeavesDisabled
  BY DEF IInv, PayloadFailureLeavesDisabled, Prepared
<1> QED BY <1>1, Invariance, PTL

-----------------------------------------------------------------------------
(* The steps that change what a power loss leaves: a flush, and the power   *)
(* loss itself.                                                             *)
LEMMA PlatterSteps ==
  ASSUME IInv, [Next]_vars, platter' # platter
  PROVE  \/ FlushPayload /\ platter' = disk /\ platter.ptr = 0 /\ disk.ptr = 0
         \/ SetFlush /\ platter' = disk
         \/ PowerOff
<1>1. Next BY DEF vars, store
<1>2. FlushPayload \/ SetFlush \/ PowerOff
  BY <1>1 DEF Next, BackupCurrent, Disable, Restore, RestoreLegacy, Install, Begin, HeaderSlot,
     HeaderWrite, HeaderFailed, Acquire, RescueSlot, RescueWrite, RescueFailed, Confirm,
     WriteUnit, WriteDone, VerifyPayload, SetPointer, VerifyPointer, store
<1>3. CASE FlushPayload
  <2>1. op \in {"restore", "install"} /\ pc = "flush"
    BY <1>3 DEF FlushPayload, IInv, TypeOK, Ops, AtStep, HeaderSave, Saving, Setting
  <2>2. platter.ptr = 0 /\ disk.ptr = 0 BY <2>1 DEF IInv, Synced, Prepared, Saving
  <2> QED BY <1>3, <2>2 DEF FlushPayload
<1> QED BY <1>2, <1>3 DEF SetFlush

(* No operation changes the durable pointer unless the header it replaces   *)
(* is in a backup file.                                                     *)
THEOREM BackupPrecedesChange == Spec => ReplacedIsBackedUp
<1>1. IInv /\ [Next]_vars
      => (platter.ptr' # platter.ptr => \E s \in HeaderSlots : hb[s] = platter.ptr)
  <2> SUFFICES ASSUME IInv, [Next]_vars, platter.ptr' # platter.ptr
               PROVE  \E s \in HeaderSlots : hb[s] = platter.ptr
    OBVIOUS
  <2>1. disk.ptr # platter.ptr /\ (pc = "set_flush" \/ PowerOff)
    BY PlatterSteps DEF SetFlush, PowerOff
  <2>2. pc \in {"set_flush", "check", "fatal"} /\ header = platter.ptr
    BY <2>1 DEF IInv, Synced
  <2>3. op \in {"disable", "restore", "legacy", "install"}
    BY <2>2 DEF IInv, TypeOK, Ops, AtStep, HeaderSave, Saving
  <2> QED BY <2>2, <2>3 DEF IInv, BackedUp, HeaderSave, Saving
<1> QED BY <1>1, Invariance, PTL DEF Spec, ReplacedIsBackedUp

(* A pointer outside the reserved area is never put back. *)
THEOREM PointerStaysInside == Spec => NeverOutOfBounds
<1>1. IInv /\ [Next]_vars => (platter.ptr' # platter.ptr => platter.ptr' \in 0..Area)
  <2> SUFFICES ASSUME IInv, [Next]_vars, platter.ptr' # platter.ptr
               PROVE  platter.ptr' \in 0..Area
    OBVIOUS
  <2>1. platter.ptr' = disk.ptr /\ disk.ptr # platter.ptr
    BY PlatterSteps DEF PowerOff
  <2> QED BY <2>1 DEF IInv, Synced
<1> QED BY <1>1, Invariance, PTL DEF Spec, NeverOutOfBounds

(* The console goes from one boot program to another only through           *)
(* "disabled", whatever is interrupted.                                     *)
THEOREM ThroughOff == Spec => SwitchedThroughOff
<1>1. IInv /\ [Next]_vars
      => (Bootable' # Bootable => Bootable = NoImage \/ Bootable' = NoImage)
  <2> SUFFICES ASSUME IInv, [Next]_vars, Bootable' # Bootable
               PROVE  platter.ptr = 0 \/ platter.ptr' = 0
    BY DEF Bootable
  <2>1. platter' # platter BY DEF Bootable
  <2>2. SUFFICES ASSUME disk.data = platter.data PROVE platter.ptr = 0 \/ platter.ptr' = 0
    BY DEF IInv, Synced
  <2>3. platter'.ptr \in {disk.ptr, platter.ptr} /\ platter'.data = platter.data
    <3>1. CASE PowerOff
      BY <3>1, <2>2 DEF PowerOff, IInv, TypeOK, Image, Contents
    <3> QED BY <2>1, <2>2, <3>1, PlatterSteps
  <2>4. platter.ptr' # platter.ptr BY <2>3 DEF Bootable
  <2> QED BY <2>3, <2>4 DEF IInv, Synced
<1> QED BY <1>1, Invariance, PTL DEF Spec, SwitchedThroughOff

-----------------------------------------------------------------------------
(* The backup files, when fileXioGetStat finds every file that is there.    *)

(* A file being written was claimed while it did not exist. *)
Claimed ==
  /\ pc = "header_write" => hb[slot] = Torn
  /\ pc = "rescue_write" => rescue[slot] = Torn

(* It is written before anything else happens to it. *)
LEMMA ClaimedInvariant == Spec => []Claimed
<1>1. Init => Claimed BY DEF Init, Claimed
<1>2. IInv /\ Claimed /\ [Next]_vars => Claimed'
  <2> SUFFICES ASSUME IInv, Claimed, [Next]_vars PROVE Claimed' OBVIOUS
  <2> USE DEF store, files, run
  <2>1. CASE HeaderSlot
    BY <2>1 DEF HeaderSlot, HeaderDone, AfterHeader, NextSlot, Goto, IInv, TypeOK, HeaderSlots,
           BackupFiles, Claimed
  <2>2. CASE RescueSlot
    BY <2>2 DEF RescueSlot, AfterRescue, ToMenu, NextSlot, Goto, IInv, TypeOK, Claimed
  <2>3. CASE ~(HeaderSlot \/ RescueSlot) /\ Next
    BY <2>3 DEF Next, BackupCurrent, Disable, Restore, RestoreLegacy, Install, Begin, HeaderWrite,
       HeaderFailed, HeaderDone, AfterHeader, NextSlot, Acquire, RescueWrite, RescueFailed,
       AfterRescue, Confirm, WriteUnit, WriteDone, FlushPayload, VerifyPayload, SetPointer,
       SetFlush, VerifyPointer, PowerOff, ToMenu, Goto, Fatal, Claimed
  <2>4. CASE UNCHANGED vars BY <2>4 DEF vars, Claimed
  <2> QED BY <2>1, <2>2, <2>3, <2>4
<1> QED BY <1>1, <1>2, Invariance, PTL DEF Spec

(* A backup that validates is never changed, by any sequence of operations, *)
(* failing writes and power losses.                                         *)
THEOREM BackupsNeverOverwritten ==
  ASSUME StatMayFail = FALSE
  PROVE  Spec => BackupsKept
<1>1. IInv /\ Claimed /\ [Next]_vars
      => /\ \A s \in BackupFiles : hb[s] \notin {None, Torn} => hb'[s] = hb[s]
         /\ \A s \in RescueSlots : rescue[s] \notin {None, Torn, Garbled} => rescue'[s] = rescue[s]
  <2> SUFFICES ASSUME IInv, Claimed, [Next]_vars
               PROVE  /\ \A s \in BackupFiles : hb[s] \notin {None, Torn} => hb'[s] = hb[s]
                      /\ \A s \in RescueSlots :
                           rescue[s] \notin {None, Torn, Garbled} => rescue'[s] = rescue[s]
    OBVIOUS
  <2>1. CASE HeaderSlot \/ HeaderWrite
    BY <2>1 DEF HeaderSlot, HeaderWrite, IInv, TypeOK, Claimed
  <2>2. CASE RescueSlot \/ RescueWrite
    BY <2>2 DEF RescueSlot, RescueWrite, IInv, TypeOK, Claimed
  <2>3. CASE ~(HeaderSlot \/ HeaderWrite \/ RescueSlot \/ RescueWrite)
    <3>1. UNCHANGED files
      BY <2>3 DEF Next, vars, files, BackupCurrent, Disable, Restore, RestoreLegacy, Install, Begin,
         HeaderFailed, Acquire, RescueFailed, Confirm, WriteUnit, WriteDone, FlushPayload,
         VerifyPayload, SetPointer, SetFlush, VerifyPointer, PowerOff
    <3> QED BY <3>1 DEF files
  <2> QED BY <2>1, <2>2, <2>3
<1> QED BY <1>1, Invariance, ClaimedInvariant, PTL DEF Spec, BackupsKept
=============================================================================
