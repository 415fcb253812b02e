-------------------------- MODULE MCForensicRepair --------------------------
(* The layouts and the damage of MCApaForensic under the full repair session. *)
EXTENDS ForensicRepair, MCApaForensic
=============================================================================
