------------------------------ MODULE MC_Aether ------------------------------
(* Model-checking instance of Aether.  Two worlds.  World 0 has the tile  *)
(* "gate" holding aethers 1 and 2 (so one tile entry unlocks only one of  *)
(* them), the tile "mill" of aether 3 and the plain spot "road"; world 1  *)
(* has the tile "port" of aether 4 and the plain spot "camp".  A teleport *)
(* costs 1 gold within world 0 and 2 to world 1, against 3 gold.         *)
EXTENDS Aether

MC_AetherWorld(a) == IF a = 4 THEN 1 ELSE 0
MC_AetherSpot(a) == CASE a = 3 -> "mill" [] a = 4 -> "port" [] OTHER -> "gate"
MC_Spots == {"gate", "mill", "road", "port", "camp"}
MC_SpotWorld(s) == IF s \in {"port", "camp"} THEN 1 ELSE 0
MC_Near(s) == CASE s = "gate" -> {1, 2}
                [] s = "mill" -> {3}
                [] s = "port" -> {4}
                [] OTHER      -> {}

=============================================================================
