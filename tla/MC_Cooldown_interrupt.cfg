CONSTANTS
    c1 = c1
    c2 = c2
    Clients <- MC_Clients
    TickSpeed <- MC_TickSpeed
    Durations <- MC_LongDurations
    MaxStarts <- MC_MaxStarts

SPECIFICATION Spec

INVARIANT MovementInterruptsAction
