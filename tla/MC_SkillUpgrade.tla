--------------------------- MODULE MC_SkillUpgrade ---------------------------
(* Model-checking instance of SkillUpgrade: a skill of four levels at one  *)
(* point each, and a player holding points for six purchases.  Two      *)
(* emoticons (so the choice wraps to none), the column defaulting to     *)
(* none, and at most three writes waiting.  The skill is the heart       *)
(* turret, and up to three turrets are in the world's list.             *)
EXTENDS SkillUpgrade

MC_MaxLevel == 4
MC_PriceSP  == 1
MC_StartSP  == 6
MC_NumEmoticons == 2
MC_DefaultEmote == -1
MC_MaxQueued == 3
MC_SkillID == "SkillHeartTurret"
MC_MaxEntities == 3

=============================================================================
