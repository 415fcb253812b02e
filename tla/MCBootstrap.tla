---------------------------- MODULE MCBootstrap ----------------------------
(* Two boot programs, one shorter than the other, in an area of two units. *)
EXTENDS Bootstrap

CONSTANTS p1, p2

MCPayloads == {p1, p2}
MCSectors == [p \in MCPayloads |-> IF p = p1 THEN 1 ELSE 2]
=============================================================================
