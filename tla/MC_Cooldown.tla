---------------------------- MODULE MC_Cooldown ----------------------------
(* Model-checking instance of Cooldown: two clients, the server's tick    *)
(* speed, actions of 0, 1 and 2 ticks, three Start calls.                 *)
EXTENDS Cooldown

CONSTANTS c1, c2

MC_Clients   == {c1, c2}
MC_TickSpeed == 50
MC_Durations == {0, 1, 2}
MC_MaxStarts == 2

\* Only actions long enough to be checked for movement at least once.
MC_LongDurations == {2}

\* The timed-action contract of spec.md 4.3, as a property of this model.
TimedActionSpec == TA!Spec

=============================================================================
