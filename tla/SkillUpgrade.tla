---------------------------- MODULE SkillUpgrade ----------------------------
(***************************************************************************)
(* CSkillData::Upgrade and SelectNextControlEmote (src/src/game/server/  *)
(* mmocore/Components/Skills/SkillData.cpp) against the persistence       *)
(* gateway of spec.md 4.2.                                                 *)
(*                                                                         *)
(* Upgrade runs on the tick thread: it spends skill points, reads the      *)
(* skill's row with a SELECT whose result it uses at once, and then        *)
(* submits an INSERT or an UPDATE that a worker applies later.  Writes are *)
(* applied in submission order (spec.md 5).  Whether the table has a      *)
(* unique key on (SkillID, UserID) is not in the source: an INSERT of a   *)
(* row that exists either adds a duplicate row or fails, and a failed     *)
(* write is dropped (spec.md 7).  SelectNextControlEmote cycles the      *)
(* emoticon bound to the skill and submits an UPDATE of UsedByEmoticon;   *)
(* the INSERT leaves that column to its default.                          *)
(*                                                                         *)
(* Use of a turret skill (SkillHeartTurret, SkillSleepyGravity) works on   *)
(* the world's list of entities of the skill's type.  It resets the first  *)
(* entity of the list owned by the player and creates a new one.  Reset    *)
(* only marks an entity for destruction; the world removes marked entities *)
(* at the end of its tick, and new entities go to the front of their type  *)
(* list (CGameWorld::DestroyEntity, RemoveEntities and InsertEntity, outside *)
(* src/).  Several Uses can come between two ticks.                        *)
(***************************************************************************)
EXTENDS Integers, SequencesExt

CONSTANTS
    MaxLevel,     \* Info()->GetMaxLevel()
    PriceSP,      \* Info()->GetPriceSP()
    StartSP,      \* skill points (itSkillPoint) the player holds initially
    NumEmoticons, \* NUM_EMOTICONS
    DefaultEmote, \* default of the UsedByEmoticon column
    MaxQueued,    \* bound: writes waiting in the gateway
    SkillID,      \* m_SkillID of the skill
    MaxEntities   \* bound: entities in the world's list of the skill's type

\* The skill IDs Use has a branch for (enum Skill).
TurretSkills == {"SkillHeartTurret", "SkillSleepyGravity"}

\* Players whose entities share the list: the skill's owner, and one other.
Owners == {"self", "other"}

ASSUME MaxLevel \in Nat \ {0} /\ PriceSP \in Nat \ {0} /\ StartSP \in Nat

VARIABLES
    level,    \* m_Level, the in-memory skill level
    sp,       \* value of the player's itSkillPoint item
    pending,  \* writes submitted to the gateway, oldest first
    rows,     \* Level column of the skill's rows in tw_accounts_skills
    bought,   \* upgrades paid for and reported to the player (observer)
    emote,    \* m_SelectedEmoticion, -1 for none
    ents      \* the world's list of entities of the skill's type, first
              \* first: the owner's client and whether marked for destroy

vars == <<level, sp, pending, rows, bought, emote, ents>>

Emotes == -1..NumEmoticons - 1

Writes == [op : {"INSERT", "UPDATE"}, level : 1..MaxLevel] \cup
          [op : {"UPDATE_EMOTE"}, emote : Emotes]

TypeOK ==
    /\ level \in 0..MaxLevel
    /\ sp \in 0..StartSP
    /\ pending \in Seq(Writes)
    /\ rows \in Seq([level : 1..MaxLevel, emote : Emotes])
    /\ bought \in Nat
    /\ emote \in Emotes
    /\ ents \in Seq([owner : Owners, marked : BOOLEAN])

Init ==
    /\ level = 0
    /\ sp = StartSP
    /\ pending = <<>>
    /\ rows = <<>>
    /\ bought = 0
    /\ emote = -1
    /\ ents = <<>>

\* Mutation: the balance is not compared with the price.
CanSpendUnchecked(price) == TRUE

\* CAccountData::SpendCurrency for a positive price the player can pay.
CanSpend(price) == price <= 0 \/ sp >= price
SpendCurrency(price) == IF price <= 0 THEN sp ELSE sp - price

\* Mutation: the UPDATE is formatted from the level before the increment.
UpgradeExistingStale ==
    /\ level' = level + 1
    /\ pending' = Append(pending, [op |-> "UPDATE", level |-> level])

\* The skill's row exists: m_Level++ and UPDATE Level = m_Level.
UpgradeExisting ==
    /\ level' = level + 1
    /\ pending' = Append(pending, [op |-> "UPDATE", level |-> level + 1])

\* No row: m_Level = 1, m_SelectedEmoticion = -1 and INSERT the row with
\* Level 1.
LearnNew ==
    /\ level' = 1
    /\ emote' = -1
    /\ pending' = Append(pending, [op |-> "INSERT", level |-> 1])

(***************************************************************************)
(* CSkillData::Upgrade, whole: guard on the level cap, SpendCurrency, the *)
(* synchronous SELECT (it sees only the rows writes have produced so far), *)
(* then one of the two branches.                                          *)
(***************************************************************************)
Upgrade ==
    /\ level < MaxLevel
    /\ CanSpend(PriceSP)
    /\ sp' = SpendCurrency(PriceSP)
    /\ IF rows # <<>> THEN UpgradeExisting /\ UNCHANGED emote ELSE LearnNew
    /\ bought' = bought + 1
    /\ UNCHANGED <<rows, ents>>

(***************************************************************************)
(* A worker applies the oldest submitted write.  An UPDATE changes its    *)
(* column in every row of the skill; an INSERT has the default emoticon.  *)
(***************************************************************************)
ApplyWrite ==
    /\ pending # <<>>
    /\ LET w == Head(pending) IN
       \/ /\ w.op = "UPDATE"
          /\ rows' = [i \in DOMAIN rows |-> [rows[i] EXCEPT !.level = w.level]]
       \/ /\ w.op = "UPDATE_EMOTE"
          /\ rows' = [i \in DOMAIN rows |-> [rows[i] EXCEPT !.emote = w.emote]]
       \/ /\ w.op = "INSERT"
          /\ rows = <<>>
          /\ rows' = <<[level |-> w.level, emote |-> DefaultEmote]>>
       \/ /\ w.op = "INSERT"
          /\ rows # <<>>
          /\ \/ rows' = Append(rows, [level |-> w.level, emote |-> DefaultEmote])
                \* no unique key: duplicate row
             \/ rows' = rows                    \* unique key: the write fails
    /\ pending' = Tail(pending)
    /\ UNCHANGED <<level, sp, bought, emote, ents>>

(***************************************************************************)
(* CSkillData::SelectNextControlEmote: the next emoticon, wrapping to -1   *)
(* (none) after the last one, and an UPDATE of UsedByEmoticon.  It checks  *)
(* only that the player is logged in, not that the skill is learned.       *)
(***************************************************************************)
NextEmote(e) == IF e + 1 >= NumEmoticons THEN -1 ELSE e + 1

SelectNextControlEmote ==
    /\ Len(pending) < MaxQueued
    /\ emote' = NextEmote(emote)
    /\ pending' = Append(pending, [op |-> "UPDATE_EMOTE", emote |-> NextEmote(emote)])
    /\ UNCHANGED <<level, sp, rows, bought, ents>>

(***************************************************************************)
(* CSkillData::Use by the player c.  The early returns (no player, not     *)
(* authed, no character, m_Level <= 0, CheckFailMana) return false and     *)
(* change nothing; the other player's skill is learned.  For a turret      *)
(* skill the loop walks the list from its first entity, skips the entities *)
(* of other clients, Resets the first of c's and breaks; then the new      *)
(* entity is inserted.  SkillAttackTeleport and SkillBlessingGodWar create *)
(* other entity types or restore ammo: nothing this model tracks.          *)
(***************************************************************************)
NewEntity(c) == [owner |-> c, marked |-> FALSE]

\* The list after the loop's Reset of the first entity of c.
ResetFirst(c) ==
    LET i == SelectInSeq(ents, LAMBDA e : e.owner = c)
    IN IF i = 0 THEN ents ELSE [ents EXCEPT ![i].marked = TRUE]

\* Mutation: the new entity goes to the end of the list.
UseAppendsNew(c) ==
    /\ c = "self" => level > 0
    /\ SkillID \in TurretSkills
    /\ Len(ents) < MaxEntities
    /\ ents' = Append(ResetFirst(c), NewEntity(c))
    /\ UNCHANGED <<level, sp, pending, rows, bought, emote>>

Use(c) ==
    /\ c = "self" => level > 0
    /\ SkillID \in TurretSkills
    /\ Len(ents) < MaxEntities
    /\ ents' = Cons(NewEntity(c), ResetFirst(c))
    /\ UNCHANGED <<level, sp, pending, rows, bought, emote>>

\* An entity's lifespan ends and it marks itself (its Tick, outside src/).
Expire ==
    /\ \E i \in DOMAIN ents :
          /\ ~ents[i].marked
          /\ ents' = [ents EXCEPT ![i].marked = TRUE]
    /\ UNCHANGED <<level, sp, pending, rows, bought, emote>>

\* The end of the world's tick: the marked entities are removed.
RemoveEntities ==
    /\ \E i \in DOMAIN ents : ents[i].marked
    /\ ents' = SelectSeq(ents, LAMBDA e : ~e.marked)
    /\ UNCHANGED <<level, sp, pending, rows, bought, emote>>

Next ==
    \/ Upgrade \/ SelectNextControlEmote \/ ApplyWrite
    \/ \E c \in Owners : Use(c)
    \/ Expire \/ RemoveEntities

\* Workers keep draining the gateway.
Spec == Init /\ [][Next]_vars /\ WF_vars(ApplyWrite)

(***************************************************************************)
(* Properties                                                              *)
(***************************************************************************)

\* Once every submitted write has been applied, every row of the skill
\* stores the level the server holds in memory (a later load of the
\* account reads back what the player had).
RowsMatchMemory ==
    pending = <<>> => \A i \in DOMAIN rows : rows[i].level = level

\* Use keeps one turret per player: between any two ticks, however many
\* Uses of the two players come in, each player has at most one entity of
\* the skill's type that is not marked for destruction, although the loop
\* of Use may find a marked one first.
OneLiveEntityPerPlayer ==
    \A c \in Owners :
       Cardinality({i \in DOMAIN ents : ents[i].owner = c /\ ~ents[i].marked}) <= 1

\* Every Upgrade that takes the player's skill points and reports success
\* raises the skill by exactly one level.
EveryPaidUpgradeCounts ==
    level = bought

=============================================================================
