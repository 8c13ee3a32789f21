--------------------------- MODULE AccountProgress ---------------------------
(***************************************************************************)
(* The progression operations of CAccountData                             *)
(* (src/src/game/server/mmocore/Components/Accounts/AccountData.cpp):     *)
(* experience and level-ups, chair income under the daily gold limit,     *)
(* currency, relations and prison.  One account, bound to a player slot;  *)
(* it may be without a live player (every operation then returns at once  *)
(* on a null m_pPlayer, or is not called).                                *)
(*                                                                         *)
(* The account's row in tw_accounts is state too.  Init loads Level, Exp, *)
(* Upgrade, PrisonSeconds and DailyChairGolds from it when the account    *)
(* logs in (Load), and the methods persist their changes with SaveAccount: *)
(* SAVE_STATS writes level and experience (rowStats), SAVE_UPGRADES the    *)
(* upgrade points (rowUpgrade), SAVE_SOCIAL_STATUS the prison sentence and *)
(* today's chair gold (rowSocial).  SaveAccount is not under src/; its     *)
(* writes go through the gateway's FIFO queue ahead of the SELECT of a     *)
(* later login, so a save is durable for the next Load.                    *)
(* The chair limit's base of 300 gold is the constant BaseDailyChairGolds. *)
(***************************************************************************)
EXTENDS Integers

CONSTANTS
    computeExperience(_),    \* experience needed to leave a level
    BaseDailyChairGolds,     \* the 300 of GetLimitDailyChairGolds
    MaxIncreasedChairGolds,  \* g_Config.m_SvMaxIncreasedChairGolds
    ExpValues,               \* Value arguments of AddExperience
    RelationValues,          \* Relevation arguments of IncreaseRelations
    PrisonTimes,             \* Seconds arguments of Imprison
    PermissionValues,        \* values the itPermissionExceedLimits item takes
    MaxEarned,               \* bound: experience earned in a behaviour
    MaxGold                  \* bound: gold held

VARIABLES
    present,      \* the account has a live player (m_pPlayer set and current)
    hasChar,      \* m_pPlayer->GetCharacter() # nullptr
    level,        \* m_Level
    exp,          \* m_Exp
    upgrade,      \* m_Upgrade
    gold,         \* value of the itGold item (saved by the item code)
    permission,   \* value of the itPermissionExceedLimits item
    chairGolds,   \* m_DailyChairGolds
    relations,    \* m_Relations
    prison,       \* m_PrisonSeconds
    rowStats,     \* Level and Exp of the account's row
    rowUpgrade,   \* Upgrade of the row
    rowSocial,    \* DailyChairGolds and PrisonSeconds of the row
    earned,       \* experience credited to the account (observer)
    savedEarned,  \* earned when Level and Exp were last saved (observer)
    paidLimit,    \* daily limit in force at the last chair payment (observer)
    paidToday,    \* chair gold paid since the daily reset, across logins (observer)
    sentence      \* PrisonSeconds set by the last Imprison or Unprison (observer)

vars == <<present, hasChar, level, exp, upgrade, gold, permission, chairGolds,
          relations, prison, rowStats, rowUpgrade, rowSocial, earned, savedEarned,
          paidLimit, paidToday, sentence>>

TypeOK ==
    /\ present \in BOOLEAN /\ hasChar \in BOOLEAN
    /\ level \in Nat \ {0} /\ exp \in Nat /\ upgrade \in Nat
    /\ gold \in 0..MaxGold /\ permission \in PermissionValues
    /\ chairGolds \in Nat /\ relations \in Int /\ prison \in Int
    /\ rowStats \in [level : Nat \ {0}, exp : Nat] /\ rowUpgrade \in Nat
    /\ rowSocial \in [chairGolds : Nat, prison : Int]
    /\ earned \in 0..MaxEarned /\ savedEarned \in 0..MaxEarned
    /\ paidLimit \in Nat /\ paidToday \in Nat /\ sentence \in Int

\* A new account, logged in: its row and its memory hold level 1, nothing
\* earned, no prison sentence.
Init ==
    /\ present = TRUE /\ hasChar = TRUE
    /\ level = 1 /\ exp = 0 /\ upgrade = 0
    /\ gold = 0 /\ permission \in PermissionValues
    /\ chairGolds = 0 /\ relations = 0 /\ prison = -1
    /\ rowStats = [level |-> 1, exp |-> 0] /\ rowUpgrade = 0
    /\ rowSocial = [chairGolds |-> 0, prison |-> -1]
    /\ earned = 0 /\ savedEarned = 0
    /\ paidLimit = 0 /\ paidToday = 0 /\ sentence = -1

Minimum(a, b) == IF a < b THEN a ELSE b

\* base/math.h clamp(val, lo, hi): lo if val < lo, else hi if val > hi.
Clamp(val, lo, hi) == IF val < lo THEN lo ELSE IF val > hi THEN hi ELSE val

\* SaveAccount(SAVE_SOCIAL_STATUS): the row takes today's chair gold and the
\* prison sentence the account holds after the step.
SaveSocialStatus ==
    rowSocial' = [chairGolds |-> chairGolds', prison |-> prison']

(***************************************************************************)
(* The level-up loop of AddExperience: while m_Exp >= computeExperience(   *)
(* m_Level), subtract the requirement, then raise the level.  Returns the *)
(* final level and experience and the number of levels gained.            *)
(***************************************************************************)
RECURSIVE LevelUpSwapped(_, _)
\* Mutation: the level is raised before its requirement is subtracted.
LevelUpSwapped(l, e) ==
    IF e >= computeExperience(l)
    THEN LET r == LevelUpSwapped(l + 1, e - computeExperience(l + 1))
         IN [r EXCEPT !.gained = @ + 1]
    ELSE [level |-> l, exp |-> e, gained |-> 0]

RECURSIVE LevelUp(_, _)
LevelUp(l, e) ==
    IF e >= computeExperience(l)
    THEN LET r == LevelUp(l + 1, e - computeExperience(l))
         IN [r EXCEPT !.gained = @ + 1]
    ELSE [level |-> l, exp |-> e, gained |-> 0]

\* The whole of AddExperience(Value) on a present player: the loop; on the
\* last level-up SaveAccount(SAVE_STATS) and SaveAccount(SAVE_UPGRADES);
\* then SAVE_STATS again when rand() % 5 == 0 (lucky).  The guild's share
\* goes to CGuildData, outside src/ (see README).  Used inside actions.
AddExperienceEffect(v) ==
    LET r == LevelUp(level, exp + v) IN
    \E lucky \in BOOLEAN :
       LET saveStats == r.gained > 0 \/ lucky IN
       /\ level' = r.level
       /\ exp' = r.exp
       /\ upgrade' = upgrade + r.gained
       /\ earned' = earned + v
       /\ rowStats' = IF saveStats THEN [level |-> r.level, exp |-> r.exp] ELSE rowStats
       /\ savedEarned' = IF saveStats THEN earned + v ELSE savedEarned
       /\ rowUpgrade' = IF r.gained > 0 THEN upgrade + r.gained ELSE rowUpgrade

AddExperience(v) ==
    /\ present
    /\ earned + v <= MaxEarned
    /\ AddExperienceEffect(v)
    /\ UNCHANGED <<present, hasChar, gold, permission, chairGolds, relations,
                   prison, rowSocial, paidLimit, paidToday, sentence>>

\* GetLimitDailyChairGolds.
GetLimitDailyChairGolds ==
    IF present
    THEN BaseDailyChairGolds + Minimum(permission, MaxIncreasedChairGolds)
    ELSE 0

\* Mutation: the room left under the limit is computed one too high.
GoldValueOffByOne(limit, golds) == Clamp(1, 0, limit - golds + 1)

\* Gold a chair pays: clamp(1, 0, limit - today's chair gold).
GoldValue(limit, golds) == Clamp(1, 0, limit - golds)

\* HandleChair on a tick where Tick() % (TickSpeed * 5) = 0: one experience
\* through AddExperience, then one gold while today's chair gold is below
\* the limit, saved with SaveAccount(SAVE_SOCIAL_STATUS).
HandleChair ==
    /\ present
    /\ earned + 1 <= MaxEarned
    /\ AddExperienceEffect(1)
    /\ UNCHANGED <<present, hasChar, permission, relations, prison, sentence>>
    /\ LET goldValue == GoldValue(GetLimitDailyChairGolds, chairGolds) IN
       IF goldValue > 0
       THEN /\ gold + goldValue <= MaxGold
            /\ gold' = gold + goldValue
            /\ chairGolds' = chairGolds + goldValue
            /\ SaveSocialStatus
            /\ paidLimit' = GetLimitDailyChairGolds
            /\ paidToday' = paidToday + goldValue
       ELSE UNCHANGED <<gold, chairGolds, rowSocial, paidLimit, paidToday>>

\* AddGold(Value) from any income.
AddGold(v) ==
    /\ present
    /\ gold + v <= MaxGold
    /\ gold' = gold + v
    /\ UNCHANGED <<present, hasChar, level, exp, upgrade, permission, chairGolds,
                   relations, prison, rowStats, rowUpgrade, rowSocial, earned,
                   savedEarned, paidLimit, paidToday, sentence>>

\* Mutation: the item's value is not compared with the price.
SpendCurrencyUnchecked(price) ==
    /\ present
    /\ price > 0
    /\ gold' = gold - price
    /\ UNCHANGED <<present, hasChar, level, exp, upgrade, permission, chairGolds,
                   relations, prison, rowStats, rowUpgrade, rowSocial, earned,
                   savedEarned, paidLimit, paidToday, sentence>>

\* SpendCurrency(Price) in gold: free for Price <= 0, refused when short.
SpendCurrency(price) ==
    /\ present
    /\ price > 0
    /\ gold >= price
    /\ gold' = gold - price
    /\ UNCHANGED <<present, hasChar, level, exp, upgrade, permission, chairGolds,
                   relations, prison, rowStats, rowUpgrade, rowSocial, earned,
                   savedEarned, paidLimit, paidToday, sentence>>

\* The daily reset: today's chair gold back to 0, saved.
ResetDailyChairGolds ==
    /\ present
    /\ chairGolds' = 0
    /\ paidToday' = 0
    /\ UNCHANGED <<present, hasChar, level, exp, upgrade, gold, permission,
                   relations, prison, rowStats, rowUpgrade, earned, savedEarned,
                   paidLimit, sentence>>
    /\ SaveSocialStatus

\* IsRelationshipsDeterioratedToMax (not under src/): relations at 100.
IncreaseRelations(r) ==
    /\ present
    /\ relations < 100
    /\ relations' = Minimum(relations + r, 100)
    /\ UNCHANGED <<present, hasChar, level, exp, upgrade, gold, permission,
                   chairGolds, prison, rowStats, rowUpgrade, rowSocial, earned,
                   savedEarned, paidLimit, paidToday, sentence>>

ResetRelations ==
    /\ present
    /\ relations' = 0
    /\ UNCHANGED <<present, hasChar, level, exp, upgrade, gold, permission,
                   chairGolds, prison, rowStats, rowUpgrade, rowSocial, earned,
                   savedEarned, paidLimit, paidToday, sentence>>

\* Mutation: the sentence is set in memory but SaveAccount is not called.
ImprisonNoSave(s) ==
    /\ present
    /\ hasChar' = FALSE
    /\ \E canSpawn \in BOOLEAN :
          /\ prison' = IF canSpawn THEN s ELSE prison
          /\ sentence' = IF canSpawn THEN s ELSE sentence
    /\ UNCHANGED <<present, level, exp, upgrade, gold, permission, chairGolds,
                   relations, rowStats, rowUpgrade, rowSocial, earned, savedEarned,
                   paidLimit, paidToday>>

\* Imprison kills the character first; the sentence is set and saved only
\* when the world has a prison spawn point (CanSpawn(SPAWN_HUMAN_PRISON)).
Imprison(s) ==
    /\ present
    /\ hasChar' = FALSE
    /\ UNCHANGED <<present, level, exp, upgrade, gold, permission, chairGolds,
                   relations, rowStats, rowUpgrade, earned, savedEarned,
                   paidLimit, paidToday>>
    /\ \E canSpawn \in BOOLEAN :
          IF canSpawn
          THEN /\ prison' = s /\ sentence' = s /\ SaveSocialStatus
          ELSE UNCHANGED <<prison, rowSocial, sentence>>

Unprison ==
    /\ present
    /\ hasChar' = FALSE
    /\ prison' = -1
    /\ sentence' = -1
    /\ UNCHANGED <<present, level, exp, upgrade, gold, permission, chairGolds,
                   relations, rowStats, rowUpgrade, earned, savedEarned,
                   paidLimit, paidToday>>
    /\ SaveSocialStatus

(***************************************************************************)
(* Logins.  The player leaves the account's slot (Detach); it comes back   *)
(* either to the account still in memory (UpdatePointer re-homes it) or   *)
(* through a new login, where CAccountData::Init loads the row (Load).     *)
(* Init does not read m_Relations, which keeps the value of a newly        *)
(* constructed account, 0.  The character spawns later (Respawn).          *)
(***************************************************************************)
Detach ==
    /\ present
    /\ present' = FALSE /\ hasChar' = FALSE
    /\ UNCHANGED <<level, exp, upgrade, gold, permission, chairGolds, relations,
                   prison, rowStats, rowUpgrade, rowSocial, earned, savedEarned,
                   paidLimit, paidToday, sentence>>

UpdatePointer ==
    /\ ~present
    /\ present' = TRUE
    /\ UNCHANGED <<hasChar, level, exp, upgrade, gold, permission, chairGolds,
                   relations, prison, rowStats, rowUpgrade, rowSocial, earned,
                   savedEarned, paidLimit, paidToday, sentence>>

Load ==
    /\ ~present
    /\ present' = TRUE
    /\ level' = rowStats.level /\ exp' = rowStats.exp /\ upgrade' = rowUpgrade
    /\ chairGolds' = rowSocial.chairGolds /\ prison' = rowSocial.prison
    /\ relations' = 0
    /\ earned' = savedEarned
    /\ UNCHANGED <<hasChar, gold, permission, rowStats, rowUpgrade, rowSocial,
                   savedEarned, paidLimit, paidToday, sentence>>

\* The environment: the permission item changes, the character respawns.
ChangePermission ==
    /\ \E p \in PermissionValues \ {permission} : permission' = p
    /\ UNCHANGED <<present, hasChar, level, exp, upgrade, gold, chairGolds,
                   relations, prison, rowStats, rowUpgrade, rowSocial, earned,
                   savedEarned, paidLimit, paidToday, sentence>>

Respawn ==
    /\ present /\ ~hasChar
    /\ hasChar' = TRUE
    /\ UNCHANGED <<present, level, exp, upgrade, gold, permission, chairGolds,
                   relations, prison, rowStats, rowUpgrade, rowSocial, earned,
                   savedEarned, paidLimit, paidToday, sentence>>

Next ==
    \/ \E v \in ExpValues : AddExperience(v)
    \/ HandleChair
    \/ \E v \in ExpValues : AddGold(v)
    \/ \E v \in ExpValues : SpendCurrency(v)
    \/ ResetDailyChairGolds
    \/ \E r \in RelationValues : IncreaseRelations(r)
    \/ ResetRelations
    \/ \E s \in PrisonTimes : Imprison(s)
    \/ Unprison
    \/ Detach \/ UpdatePointer \/ Load
    \/ ChangePermission
    \/ Respawn

Spec == Init /\ [][Next]_vars

(***************************************************************************)
(* Properties                                                              *)
(***************************************************************************)

RECURSIVE ExpBelow(_)
\* Experience needed to reach level l from level 1.
ExpBelow(l) == IF l <= 1 THEN 0 ELSE ExpBelow(l - 1) + computeExperience(l - 1)

\* Level-ups neither create nor lose experience, in memory and in the row
\* a later login reads: the levels gained and the experience left account
\* for all experience credited, the leftover is below the next requirement,
\* each level gave one upgrade point, and the row holds the level in memory
\* with experience and upgrade points saved together with it.
LevelUpConsistent ==
    /\ ExpBelow(level) + exp = earned
    /\ exp < computeExperience(level)
    /\ upgrade = level - 1
    /\ ExpBelow(rowStats.level) + rowStats.exp = savedEarned
    /\ rowStats.level = level /\ rowUpgrade = level - 1

\* Chair income stops at the daily limit, across logins: the chair gold
\* paid since the daily reset, before and after any relog, never exceeds
\* the limit that was in force at the last payment.
ChairGoldWithinLimit ==
    paidToday <= paidLimit

\* A relog does not shorten or lift a prison sentence: whenever the account
\* is in a slot, m_PrisonSeconds is the sentence the last Imprison or
\* Unprison set, whether the account was re-homed or loaded from its row.
PrisonSurvivesRelog ==
    present => prison = sentence

\* The comment on GetLimitDailyChairGolds: the limit is 300 plus 50 times
\* the item's value or the config value, whichever is higher.
ChairLimitAsCommented ==
    present =>
       LET a == 50 * permission
           b == MaxIncreasedChairGolds
       IN GetLimitDailyChairGolds = BaseDailyChairGolds + (IF a > b THEN a ELSE b)

=============================================================================
