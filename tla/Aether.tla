------------------------------- MODULE Aether -------------------------------
(***************************************************************************)
(* Aether teleports, CAetherManager                                       *)
(* (src/src/game/server/mmocore/Components/Aethers/AetherManager.cpp),    *)
(* for one account across logins, against the persistence gateway.        *)
(*                                                                         *)
(* Entering an aether tile unlocks the nearest locked aether in memory and *)
(* queues its INSERT; a login reads the unlocked aethers back with a       *)
(* synchronous SELECT (OnInitAccount); the aether menu (ShowList) offers  *)
(* TELEPORT votes to unlocked aethers.  The map is abstracted to spots:    *)
(* Near(s) is the set of aethers within reach of spot s (an aether tile).  *)
(* The login request and the queued writes share the gateway's FIFO queue, *)
(* and a login result is applied on the tick thread only if the session it *)
(* was issued for is still current (spec.md 4.2, 5).                      *)
(***************************************************************************)
EXTENDS Naturals, Sequences, FiniteSets

CONSTANTS
    NumAethers,       \* aethers loaded by OnInit, IDs 1..NumAethers
    AetherWorld(_),   \* Aether.GetWorldID()
    AetherSpot(_),    \* the spot of the aether's teleport position
    Spots,            \* places a character can stand
    SpotWorld(_),     \* world of a spot
    Near(_),          \* aethers whose tile is at a spot
    PriceTeleport,    \* g_Config.m_SvPriceTeleport
    StartGold,        \* gold of the account
    MaxSessions,      \* bound: logins of the account
    DeadVotes,        \* whether a vote can arrive while the player has no character
    Pool              \* the gateway runs requests on a pool of workers (spec.md
                      \* 5), which may finish them in any order; FALSE: one
                      \* worker, in submission order

Aethers == 1..NumAethers

VARIABLES
    session,   \* number of the current login session (the slot's generation)
    online,    \* the account is logged in on the slot
    hasChar,   \* pPlayer->GetCharacter() # nullptr
    spot,      \* where the character is (or will spawn)
    onTile,    \* the tile helper's state for TILE_AETHER_TELEPORT
    unlocked,  \* m_aAetherLocation of the account in memory
    menu,      \* TELEPORT options of the vote list the client holds
    gold,      \* value of itGold
    queue,     \* gateway: submitted requests, oldest first
    done,      \* gateway: login results waiting for the tick thread
    rows,      \* AetherIDs in tw_accounts_aethers for the account
    inserts,   \* observer: INSERTs submitted per aether
    told,      \* observer: aethers announced "You now have Aethernet access"
    crashed    \* observer: a null character was dereferenced

vars == <<session, online, hasChar, spot, onTile, unlocked, menu, gold, queue,
          done, rows, inserts, told, crashed>>

Requests == [kind : {"INSERT"}, aether : Aethers] \cup [kind : {"LOGIN"}, session : Nat]
Options  == [aether : Aethers, price : Nat]

TypeOK ==
    /\ session \in 0..MaxSessions /\ online \in BOOLEAN /\ hasChar \in BOOLEAN
    /\ spot \in Spots /\ onTile \in BOOLEAN
    /\ unlocked \subseteq Aethers /\ menu \subseteq Options
    /\ gold \in 0..StartGold
    /\ queue \in Seq(Requests) /\ done \in Seq(Nat)
    /\ rows \subseteq Aethers
    /\ inserts \in [Aethers -> Nat] /\ told \subseteq Aethers /\ crashed \in BOOLEAN

Init ==
    /\ session = 0 /\ online = FALSE /\ hasChar = FALSE
    /\ spot \in Spots /\ onTile = FALSE
    /\ unlocked = {} /\ menu = {} /\ gold = StartGold
    /\ queue = <<>> /\ done = <<>> /\ rows = {}
    /\ inserts = [a \in Aethers |-> 0] /\ told = {} /\ crashed = FALSE

\* Smallest element of a non-empty set of IDs (std::map iterates by key).
MinID(S) == CHOOSE a \in S : \A b \in S : a <= b

\* The price ShowList puts on a teleport: m_SvPriceTeleport * (WorldID + 1).
Price(a) == PriceTeleport * (AetherWorld(a) + 1)

\* ShowList: a TELEPORT item for every unlocked aether, except those of the
\* player's world within reach of where it stands.
ShowList(s, u) ==
    {[aether |-> a, price |-> Price(a)] :
        a \in {b \in u : ~(AetherWorld(b) = SpotWorld(s) /\ b \in Near(s))}}

\* Mutation: the unlocked check is dropped; an aether already unlocked is
\* unlocked (and inserted) again.
UnlockLocationUnchecked(s) ==
    IF Near(s) = {} THEN UNCHANGED <<unlocked, queue, inserts, told>>
    ELSE LET a == MinID(Near(s)) IN
         /\ unlocked' = unlocked \cup {a}
         /\ queue' = Append(queue, [kind |-> "INSERT", aether |-> a])
         /\ inserts' = [inserts EXCEPT ![a] = @ + 1]
         /\ told' = told \cup {a}

\* Mutation: the aether is unlocked in memory but its INSERT is not queued.
UnlockLocationNoInsert(s) ==
    IF Near(s) \ unlocked = {} THEN UNCHANGED <<unlocked, queue, inserts, told>>
    ELSE LET a == MinID(Near(s) \ unlocked) IN
         /\ unlocked' = unlocked \cup {a}
         /\ told' = told \cup {a}
         /\ UNCHANGED <<queue, inserts>>

\* UnlockLocation: the first aether in reach that is not yet unlocked is
\* unlocked in memory and its INSERT queued; then it returns.
UnlockLocation(s) ==
    IF Near(s) \ unlocked = {} THEN UNCHANGED <<unlocked, queue, inserts, told>>
    ELSE LET a == MinID(Near(s) \ unlocked) IN
         /\ unlocked' = unlocked \cup {a}
         /\ queue' = Append(queue, [kind |-> "INSERT", aether |-> a])
         /\ inserts' = [inserts EXCEPT ![a] = @ + 1]
         /\ told' = told \cup {a}

(***************************************************************************)
(* OnHandleTile, run by the character's tick: on entering an aether tile   *)
(* UnlockLocation, then StrongUpdateVotes rebuilds the aether menu          *)
(* (OnHandleMenulist shows ShowList while the character stands on the      *)
(* tile); on leaving it the menu is rebuilt without the list.             *)
(***************************************************************************)
TileEnter ==
    /\ online /\ hasChar /\ ~onTile /\ Near(spot) # {}
    /\ onTile' = TRUE
    /\ UnlockLocation(spot)
    /\ menu' = ShowList(spot, unlocked')
    /\ UNCHANGED <<session, online, hasChar, spot, gold, done, rows, crashed>>

TileExit ==
    /\ online /\ hasChar /\ onTile /\ Near(spot) = {}
    /\ onTile' = FALSE
    /\ menu' = {}
    /\ UNCHANGED <<session, online, hasChar, spot, unlocked, gold, queue, done,
                   rows, inserts, told, crashed>>

\* Mutation: the balance is not checked.
CanSpendUnchecked(price) == TRUE

\* CAccountData::SpendCurrency in gold.
CanSpend(price) == price <= 0 \/ gold >= price

(***************************************************************************)
(* OnHandleVoteCommands, "TELEPORT": pay, then either change world (the    *)
(* character spawns at the aether later) or move the character there and  *)
(* rebuild the votes.  GetCharacter() is not checked for null.             *)
(***************************************************************************)
Teleport(o) ==
    /\ online /\ o \in menu
    /\ hasChar \/ DeadVotes
    /\ IF o.price > 0 /\ ~CanSpend(o.price)
       THEN UNCHANGED <<gold, hasChar, spot, onTile, menu, crashed>>
       ELSE /\ gold' = IF o.price > 0 THEN gold - o.price ELSE gold
            /\ IF AetherWorld(o.aether) # SpotWorld(spot)
               THEN /\ hasChar' = FALSE
                    /\ spot' = AetherSpot(o.aether)
                    /\ onTile' = FALSE
                    /\ menu' = {}
                    /\ UNCHANGED crashed
               ELSE IF ~hasChar
               THEN /\ crashed' = TRUE
                    /\ UNCHANGED <<hasChar, spot, onTile, menu>>
               ELSE /\ spot' = AetherSpot(o.aether)
                    /\ menu' = ShowList(AetherSpot(o.aether), unlocked)
                    /\ UNCHANGED <<hasChar, onTile, crashed>>
    /\ UNCHANGED <<session, online, unlocked, queue, done, rows, inserts, told>>

(***************************************************************************)
(* The player: walks within its world, dies, respawns; the vote list the   *)
(* client holds is not rebuilt by death.                                   *)
(***************************************************************************)
Walk(s) ==
    /\ online /\ hasChar /\ SpotWorld(s) = SpotWorld(spot) /\ s # spot
    /\ spot' = s
    /\ UNCHANGED <<session, online, hasChar, onTile, unlocked, menu, gold, queue,
                   done, rows, inserts, told, crashed>>

Die ==
    /\ online /\ hasChar
    /\ hasChar' = FALSE /\ onTile' = FALSE
    /\ UNCHANGED <<session, online, spot, unlocked, menu, gold, queue, done, rows,
                   inserts, told, crashed>>

Respawn(s) ==
    /\ online /\ ~hasChar /\ SpotWorld(s) = SpotWorld(spot)
    /\ hasChar' = TRUE /\ spot' = s
    /\ UNCHANGED <<session, online, onTile, unlocked, menu, gold, queue, done,
                   rows, inserts, told, crashed>>

(***************************************************************************)
(* Sessions.  /login submits the account query, one at a time;           *)
(* disconnecting ends the session and drops the account's in-memory data. *)
(***************************************************************************)
RequestLogin ==
    /\ ~online
    /\ \A i \in DOMAIN queue : queue[i] # [kind |-> "LOGIN", session |-> session]
    /\ \A i \in DOMAIN done : done[i] # session
    /\ queue' = Append(queue, [kind |-> "LOGIN", session |-> session])
    /\ UNCHANGED <<session, online, hasChar, spot, onTile, unlocked, menu, gold,
                   done, rows, inserts, told, crashed>>

Disconnect ==
    /\ session < MaxSessions
    /\ session' = session + 1
    /\ online' = FALSE /\ hasChar' = FALSE /\ onTile' = FALSE
    /\ unlocked' = {} /\ menu' = {}
    /\ UNCHANGED <<spot, gold, queue, done, rows, inserts, told, crashed>>

\* A gateway worker finishes a request: the oldest one, or with a pool any
\* one.  An INSERT adds the row (or fails on a duplicate, leaving the row);
\* a login query's result goes to the completion queue.
Worker ==
    /\ \E i \in DOMAIN queue :
       /\ Pool \/ i = 1
       /\ LET r == queue[i] IN
          IF r.kind = "INSERT"
          THEN /\ rows' = rows \cup {r.aether} /\ UNCHANGED done
          ELSE /\ done' = Append(done, r.session) /\ UNCHANGED rows
       /\ queue' = SubSeq(queue, 1, i - 1) \o SubSeq(queue, i + 1, Len(queue))
    /\ UNCHANGED <<session, online, hasChar, spot, onTile, unlocked, menu, gold,
                   inserts, told, crashed>>

\* OnInitAccount: the synchronous SELECT of the account's aether rows.
OnInitAccount == rows

\* The tick thread applies a login result: a result of an older session is
\* dropped; otherwise the account is loaded, OnInitAccount fills the
\* unlocked aethers, and the character spawns.
CompleteLogin ==
    /\ done # <<>>
    /\ done' = Tail(done)
    /\ IF Head(done) = session /\ ~online
       THEN /\ online' = TRUE
            /\ unlocked' = OnInitAccount
            /\ \E s \in Spots : spot' = s /\ hasChar' = TRUE
       ELSE UNCHANGED <<online, unlocked, spot, hasChar>>
    /\ UNCHANGED <<session, onTile, menu, gold, queue, rows, inserts, told, crashed>>

Next ==
    \/ TileEnter \/ TileExit
    \/ \E o \in menu : Teleport(o)
    \/ \E s \in Spots : Walk(s) \/ Respawn(s)
    \/ Die
    \/ RequestLogin \/ Disconnect
    \/ Worker \/ CompleteLogin

Spec == Init /\ [][Next]_vars /\ WF_vars(Worker) /\ WF_vars(CompleteLogin)

(***************************************************************************)
(* Properties                                                              *)
(***************************************************************************)

\* An unlocked aether stays unlocked across logins: whenever the account is
\* logged in, every aether it was ever told it unlocked is in its memory,
\* although the INSERT may still have been queued when it logged out.
UnlockSurvivesRelog ==
    online => told \subseteq unlocked

\* Each aether is inserted for the account at most once (no duplicate rows
\* in tw_accounts_aethers, no repeated "You now have Aethernet access").
InsertedOnce ==
    \A a \in Aethers : inserts[a] <= 1

\* spec.md 7: no error is fatal to the process; a TELEPORT vote never
\* dereferences a missing character.
NoCrashOnTeleport ==
    ~crashed

=============================================================================
