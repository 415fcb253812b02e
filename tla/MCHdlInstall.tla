---------------------------- MODULE MCHdlInstall ----------------------------
(* Small instances of HdlInstall for TLC. *)
EXTENDS HdlInstall

CONSTANTS iso1,   \* an image
          iso2,   \* the same disc, changed only in the middle: same fingerprint
          iso3    \* another disc

MCImages == {iso1, iso2, iso3}
MCTargets == {"game_a", "game_b"}
MCTargetOf == [v \in MCImages |-> IF v = iso3 THEN "game_b" ELSE "game_a"]
MCFingerprint == [v \in MCImages |-> IF v = iso3 THEN 2 ELSE 1]
MCStartup == MCFingerprint
MCIdentity == MCFingerprint
MCStaleMeta == {iso1, iso3}
=============================================================================
