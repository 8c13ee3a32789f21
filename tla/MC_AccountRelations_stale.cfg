CONSTANTS
    Accounts <- MC_Accounts
    Houses <- MC_Houses
    Groups <- MC_Groups
    Guilds <- MC_Guilds
    MutatorsReinitialize = FALSE

SPECIFICATION Spec

INVARIANT CommandsOnOwnRelations
