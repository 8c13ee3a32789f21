CONSTANTS
    c1 = c1
    c2 = c2
    Clients <- MC_Clients
    TickSpeed <- MC_TickSpeed
    Durations <- MC_Durations
    MaxStarts <- MC_MaxStarts

SPECIFICATION Spec

INVARIANT CallbackExactlyOnTime
INVARIANT TypeOK

PROPERTY TimedActionSpec
