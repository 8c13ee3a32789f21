------------------------------ MODULE Cooldown ------------------------------
(***************************************************************************)
(* The per-client timed-action machine CCooldown                          *)
(* (src/src/game/server/mmocore/Cooldown.cpp), driven by the server tick. *)
(*                                                                         *)
(* Each client's CPlayer owns one CCooldown.  Feature code calls Start and *)
(* Reset between ticks; every tick the player's Handler runs once.  The    *)
(* player is abstracted to what the handler reads: whether                 *)
(* GetPlayer(ClientID, true, true) finds it (authed, with a character) and *)
(* whether its view position is more than 48 units from m_StartPos.       *)
(* Callbacks are identified by the order in which Start created them;     *)
(* callback 0 stands for an empty m_Callback (calling it throws).         *)
(***************************************************************************)
EXTENDS Naturals

CONSTANTS
    Clients,      \* client slots with a player
    TickSpeed,    \* IServer::TickSpeed(), 50 on the server
    Durations,    \* Time arguments feature code passes to Start (ticks)
    MaxStarts     \* bound: number of Start calls in a behaviour

ASSUME TickSpeed \in Nat /\ TickSpeed >= 25
ASSUME Durations \subseteq Nat /\ MaxStarts \in Nat \ {0}

\* Handler re-checks the distance every Period ticks: Tick() % (TickSpeed / 25).
Period == TickSpeed \div 25

NoCallback == 0
Callbacks == 1..MaxStarts

VARIABLES
    tick,     \* Server()->Tick() % Period
    cd,       \* cd[c]: the fields of client c's CCooldown
    player,   \* player[c].present: GetPlayer(c, true, true) # nullptr;
              \* player[c].far: distance(m_StartPos, m_ViewPos) > 48
    issued,   \* callbacks created so far
    hist      \* hist[g]: history of callback g (observer only)

vars == <<tick, cd, player, issued, hist>>

\* The state CCooldown::Reset leaves, which is also a new player's cooldown.
IdleCooldown ==
    [active |-> FALSE, timer |-> 0, startTimer |-> 0,
     interrupted |-> FALSE, callback |-> NoCallback]

NoHistory ==
    [client |-> NoCallback, dur |-> 0, steps |-> 0, fired |-> 0,
     cancelled |-> FALSE, movedAway |-> FALSE]

TypeOK ==
    /\ tick \in 0..(Period - 1)
    /\ cd \in [Clients -> [active : BOOLEAN, timer : Nat, startTimer : Nat,
                           interrupted : BOOLEAN,
                           callback : {NoCallback} \cup Callbacks]]
    /\ player \in [Clients -> [present : BOOLEAN, far : BOOLEAN]]
    /\ issued \in 0..MaxStarts
    /\ hist \in [{NoCallback} \cup Callbacks ->
                   [client : {NoCallback} \cup Clients, dur : Nat, steps : Nat,
                    fired : Nat, cancelled : BOOLEAN, movedAway : BOOLEAN]]

Init ==
    /\ tick = 0
    /\ cd = [c \in Clients |-> IdleCooldown]
    /\ player = [c \in Clients |-> [present |-> TRUE, far |-> FALSE]]
    /\ issued = 0
    /\ hist = [g \in {NoCallback} \cup Callbacks |-> NoHistory]

(***************************************************************************)
(* Observer: the callback held by an active cooldown that is discarded     *)
(* (reset, replaced, interrupted or orphaned) is marked cancelled.         *)
(***************************************************************************)
Retire(c) ==
    IF cd[c].active
    THEN [hist EXCEPT ![cd[c].callback].cancelled = TRUE]
    ELSE hist

(***************************************************************************)
(* CCooldown::Start.  Without an authed player with a character it does    *)
(* nothing; otherwise it overwrites every field, including an active       *)
(* action's callback, and records the current view position as start.      *)
(***************************************************************************)
Start(c, t) ==
    /\ player[c].present
    /\ issued < MaxStarts
    /\ LET g == issued + 1 IN
       /\ cd' = [cd EXCEPT ![c] = [active |-> TRUE, timer |-> t, startTimer |-> t,
                                   interrupted |-> FALSE, callback |-> g]]
       /\ issued' = g
       /\ hist' = [Retire(c) EXCEPT ![g] = [NoHistory EXCEPT !.client = c, !.dur = t]]
    /\ player' = [player EXCEPT ![c].far = FALSE]
    /\ UNCHANGED tick

\* CCooldown::Reset, called by feature code.
Reset(c) ==
    /\ cd' = [cd EXCEPT ![c] = IdleCooldown]
    /\ hist' = Retire(c)
    /\ UNCHANGED <<tick, player, issued>>

(***************************************************************************)
(* CCooldown::Handler for one client, as the sequence of early returns of  *)
(* the code.  Completes: m_Timer is 0, the callback runs.                  *)
(***************************************************************************)
Orphaned(c)    == cd[c].active /\ ~player[c].present
Completes(c)   == cd[c].active /\ player[c].present /\ cd[c].timer = 0
EndsInterrupted(c) ==
    cd[c].active /\ player[c].present /\ cd[c].timer # 0 /\ cd[c].interrupted
ChecksDistance(c) ==
    cd[c].active /\ player[c].present /\ cd[c].timer # 0 /\ ~cd[c].interrupted
    /\ tick = 0

\* Mutation: the completion branch forgets m_IsCooldownActive = false.
HandlerKeepsActiveOnCompletion(c) ==
    CASE ~cd[c].active                         -> cd[c]
      [] Orphaned(c)                           -> IdleCooldown
      [] Completes(c)                          -> cd[c]
      [] EndsInterrupted(c)                    -> [cd[c] EXCEPT !.active = FALSE]
      [] ChecksDistance(c) /\ player[c].far    -> [cd[c] EXCEPT !.interrupted = TRUE]
      [] OTHER                                 -> [cd[c] EXCEPT !.timer = @ - 1]

\* Mutation: the interrupted branch only broadcasts and stays active.
HandlerStaysInterrupted(c) ==
    CASE ~cd[c].active                         -> cd[c]
      [] Orphaned(c)                           -> IdleCooldown
      [] Completes(c)                          -> [cd[c] EXCEPT !.active = FALSE]
      [] EndsInterrupted(c)                    -> cd[c]
      [] ChecksDistance(c) /\ player[c].far    -> [cd[c] EXCEPT !.interrupted = TRUE]
      [] OTHER                                 -> [cd[c] EXCEPT !.timer = @ - 1]

\* Mutation: the completion branch lacks its return and falls through to
\* m_Timer--.
HandlerMissingReturn(c) ==
    CASE ~cd[c].active                         -> cd[c]
      [] Orphaned(c)                           -> IdleCooldown
      [] Completes(c)                          -> [cd[c] EXCEPT !.active = FALSE, !.timer = @ - 1]
      [] EndsInterrupted(c)                    -> [cd[c] EXCEPT !.active = FALSE]
      [] ChecksDistance(c) /\ player[c].far    -> [cd[c] EXCEPT !.interrupted = TRUE]
      [] OTHER                                 -> [cd[c] EXCEPT !.timer = @ - 1]

Handler(c) ==
    CASE ~cd[c].active                         -> cd[c]
      [] Orphaned(c)                           -> IdleCooldown
      [] Completes(c) \/ EndsInterrupted(c)    -> [cd[c] EXCEPT !.active = FALSE]
      [] ChecksDistance(c) /\ player[c].far    -> [cd[c] EXCEPT !.interrupted = TRUE]
      [] OTHER                                 -> [cd[c] EXCEPT !.timer = @ - 1]

\* Handler runs counted per callback saturate here (enough to tell an
\* on-time call from an early or a late one).
StepCap == 3 + CHOOSE d \in Durations : \A e \in Durations : d >= e

\* What one handler run does to the history of the callback it holds.
HandlerHistory(c, h) ==
    [h EXCEPT !.steps     = IF @ < StepCap THEN @ + 1 ELSE @,
              !.fired     = IF Completes(c) THEN @ + 1 ELSE @,
              !.cancelled = @ \/ Orphaned(c) \/ EndsInterrupted(c)]

(***************************************************************************)
(* One server tick: every player's handler runs, then the tick advances.   *)
(* Handlers of different clients touch disjoint state.                     *)
(***************************************************************************)
Tick ==
    /\ cd' = [c \in Clients |-> Handler(c)]
    /\ hist' = [g \in DOMAIN hist |->
                  IF \E c \in Clients : cd[c].active /\ cd[c].callback = g
                  THEN HandlerHistory(CHOOSE c \in Clients :
                                         cd[c].active /\ cd[c].callback = g,
                                      hist[g])
                  ELSE hist[g]]
    /\ tick' = (tick + 1) % Period
    /\ UNCHANGED <<player, issued>>

(***************************************************************************)
(* The environment: the player moves, its character dies or respawns, the  *)
(* client disconnects (CPlayer and its CCooldown are destroyed; a new      *)
(* player in the slot starts with a fresh cooldown).                       *)
(***************************************************************************)
Move(c) ==
    /\ player[c].present
    /\ player' = [player EXCEPT ![c].far = ~@]
    /\ hist' = IF cd[c].active /\ ~player[c].far
               THEN [hist EXCEPT ![cd[c].callback].movedAway = TRUE]
               ELSE hist
    /\ UNCHANGED <<tick, cd, issued>>

Vanish(c) ==
    /\ player[c].present
    /\ player' = [player EXCEPT ![c].present = FALSE]
    /\ UNCHANGED <<tick, cd, issued, hist>>

Appear(c) ==
    /\ ~player[c].present
    /\ \E far \in BOOLEAN : player' = [player EXCEPT ![c] = [present |-> TRUE, far |-> far]]
    /\ UNCHANGED <<tick, cd, issued, hist>>

Disconnect(c) ==
    /\ cd' = [cd EXCEPT ![c] = IdleCooldown]
    /\ hist' = Retire(c)
    /\ player' = [player EXCEPT ![c].present = FALSE]
    /\ UNCHANGED <<tick, issued>>

Next ==
    \/ Tick
    \/ \E c \in Clients :
          \/ \E t \in Durations : Start(c, t)
          \/ Reset(c)
          \/ Move(c)
          \/ Vanish(c)
          \/ Appear(c)
          \/ Disconnect(c)

\* The server loop runs the tick forever; feature code and players need not act.
Spec == Init /\ [][Next]_vars /\ WF_vars(Tick)

(***************************************************************************)
(* Properties                                                              *)
(***************************************************************************)

\* A callback runs at most once, never after its action was reset, replaced,
\* interrupted or orphaned, and only on the handler run after the countdown
\* of its full duration (Start's Time); the empty callback never runs.
CallbackExactlyOnTime ==
    /\ hist[NoCallback].fired = 0
    /\ \A g \in Callbacks :
          hist[g].fired > 0 =>
             /\ hist[g].fired = 1
             /\ ~hist[g].cancelled
             /\ hist[g].steps = hist[g].dur + 1

\* spec.md 8: moving beyond 48 units while the action is active always
\* interrupts it before its callback could run.
MovementInterruptsAction ==
    \A g \in Callbacks : hist[g].fired > 0 => ~hist[g].movedAway

\* The abstract timed action: a client's live callback is the one of its
\* active cooldown; callbacks that ran are the ones the handler called.
TA == INSTANCE TimedAction WITH
        slot <- [c \in Clients |-> IF cd[c].active THEN cd[c].callback ELSE NoCallback],
        done <- {g \in Callbacks : hist[g].fired > 0}

=============================================================================
