CONSTANTS
    Accounts <- MC_Accounts
    Houses <- MC_Houses
    Groups <- MC_Groups
    Guilds <- MC_Guilds
    MutatorsReinitialize = TRUE

SPECIFICATION Spec

INVARIANT RelationsFresh
