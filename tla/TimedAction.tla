---------------------------- MODULE TimedAction ----------------------------
(***************************************************************************)
(* Abstract specification of the per-client timed action ("cooldown") the *)
(* core promises its callers (spec.md section 4.3): a client holds at most *)
(* one live completion callback; a live callback is either run once, or   *)
(* discarded without running, and one of the two eventually happens.      *)
(* Cooldown.tla implements it (see MC_Cooldown.tla).                       *)
(***************************************************************************)
EXTENDS Naturals

CONSTANTS
    Clients,      \* client slots
    Callbacks,    \* identities of completion callbacks
    NoCallback    \* the empty slot

ASSUME NoCallback \notin Callbacks

VARIABLES
    slot,   \* slot[c]: the callback of c's live timed action, or NoCallback
    done    \* callbacks that have run

vars == <<slot, done>>

Init ==
    /\ slot = [c \in Clients |-> NoCallback]
    /\ done = {}

\* A new action replaces whatever the slot held (starting over an active
\* action is a caller error the core does not prevent).
Begin(c, g) ==
    /\ g \in Callbacks \ done
    /\ slot' = [slot EXCEPT ![c] = g]
    /\ UNCHANGED done

\* In one step, the live callbacks of the clients in Run run (once each) and
\* those of the clients in Drop are discarded without running; every other
\* slot is left alone.  (One server tick settles several clients at once.)
Settle(Run, Drop) ==
    /\ Run \cap Drop = {}
    /\ Run \cup Drop # {}
    /\ \A c \in Run : slot[c] \in Callbacks \ done
    /\ \A c \in Drop : slot[c] # NoCallback
    /\ done' = done \cup {slot[c] : c \in Run}
    /\ slot' = [c \in Clients |-> IF c \in Run \cup Drop THEN NoCallback ELSE slot[c]]

Next ==
    \/ \E c \in Clients, g \in Callbacks : Begin(c, g)
    \/ \E Run, Drop \in SUBSET Clients : Settle(Run, Drop)

\* Every callback that becomes live eventually stops being live.
EveryActionEnds ==
    \A c \in Clients, g \in Callbacks : (slot[c] = g) ~> (slot[c] # g)

Spec == Init /\ [][Next]_vars /\ EveryActionEnds

=============================================================================
