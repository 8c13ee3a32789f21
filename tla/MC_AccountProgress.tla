------------------------- MODULE MC_AccountProgress -------------------------
(* Model-checking instance of AccountProgress.  Levels need 2, 4, 6, ...  *)
(* experience; a reward of 5 after one of 1 crosses two levels in one     *)
(* call.  The chair limit's base is scaled from 300 down to 2 gold so     *)
(* that the limit is reached within a few chair payouts; the item that    *)
(* raises it is worth 0 or 2 against a config cap of 1.                    *)
EXTENDS AccountProgress

MC_computeExperience(l) == 2 * l
MC_BaseDailyChairGolds == 2
MC_MaxIncreasedChairGolds == 1
MC_ExpValues == {1, 5}
MC_RelationValues == {60}
MC_PrisonTimes == {30}
MC_PermissionValues == {0, 2}
MC_MaxEarned == 8
MC_MaxGold == 6

=============================================================================
