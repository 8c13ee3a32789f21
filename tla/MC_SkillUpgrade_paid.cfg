CONSTANTS
    MaxLevel <- MC_MaxLevel
    PriceSP <- MC_PriceSP
    StartSP <- MC_StartSP
    NumEmoticons <- MC_NumEmoticons
    DefaultEmote <- MC_DefaultEmote
    MaxQueued <- MC_MaxQueued
    SkillID <- MC_SkillID
    MaxEntities <- MC_MaxEntities

SPECIFICATION Spec

INVARIANT EveryPaidUpgradeCounts

\* The player runs out of skill points or reaches the cap, and the
\* gateway drains: the model of one skill really stops there.
CHECK_DEADLOCK FALSE
