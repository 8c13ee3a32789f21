CONSTANTS
    NumAethers = 4
    AetherWorld <- MC_AetherWorld
    AetherSpot <- MC_AetherSpot
    Spots <- MC_Spots
    SpotWorld <- MC_SpotWorld
    Near <- MC_Near
    PriceTeleport = 1
    StartGold = 3
    MaxSessions = 2
    Pool = FALSE
    DeadVotes = TRUE

SPECIFICATION Spec

INVARIANT NoCrashOnTeleport
