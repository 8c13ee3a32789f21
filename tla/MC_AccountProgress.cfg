CONSTANTS
    computeExperience <- MC_computeExperience
    BaseDailyChairGolds <- MC_BaseDailyChairGolds
    MaxIncreasedChairGolds <- MC_MaxIncreasedChairGolds
    ExpValues <- MC_ExpValues
    RelationValues <- MC_RelationValues
    PrisonTimes <- MC_PrisonTimes
    PermissionValues <- MC_PermissionValues
    MaxEarned <- MC_MaxEarned
    MaxGold <- MC_MaxGold

SPECIFICATION Spec

INVARIANT LevelUpConsistent
INVARIANT ChairGoldWithinLimit
INVARIANT PrisonSurvivesRelog
INVARIANT TypeOK
