----------------------------- MODULE HdlCatalog -----------------------------
(***************************************************************************)
(* What the HDL installer promises to a loader such as OPL that looks at   *)
(* the disk after any power loss: under a partition name there is either   *)
(* no game or one complete image; a game appears whole in one step, its    *)
(* content never changes in place, and it leaves whole.                    *)
(***************************************************************************)
CONSTANTS Images, Targets, TargetOf, None

VARIABLE visible   \* the image a loader finds under each name

TypeOK == visible \in [Targets -> Images \cup {None}]

Init == visible = [t \in Targets |-> None]

Publish(t, v) ==
  /\ visible[t] = None
  /\ v \in Images /\ TargetOf[v] = t
  /\ visible' = [visible EXCEPT ![t] = v]

Withdraw(t) ==
  /\ visible[t] # None
  /\ visible' = [visible EXCEPT ![t] = None]

Next == \E t \in Targets : Withdraw(t) \/ \E v \in Images : Publish(t, v)

Spec == Init /\ [][Next]_visible
=============================================================================
